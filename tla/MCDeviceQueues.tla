--------------------------- MODULE MCDeviceQueues ---------------------------
(***************************************************************************)
(* The queues of the two backends that manage command buffers themselves.  *)
(* They have no state in common: a behaviour is one of one backend.        *)
(***************************************************************************)
EXTENDS VulkanQueue, Metal4Queue

CONSTANT Parts

VARIABLE part

vars == <<part, vulkanVars, metalVars>>

Init == part \in Parts /\ VulkanInit /\ MetalInit

Next ==
  \/ part = "vulkan" /\ VulkanNext /\ UNCHANGED <<part, metalVars>>
  \/ part = "metal" /\ MetalNext /\ UNCHANGED <<part, vulkanVars>>

Spec == Init /\ [][Next]_vars /\ VulkanFairness /\ MetalFairness

-----------------------------------------------------------------------------
\* Nobody waits for ever: a Vulkan command buffer the device accepted comes back, and
\* finish() of a Metal 4 queue returns (with the exceptions named there).
QueuesDrain == AcceptedIsFreed /\ MetalFinishReturns
=============================================================================
