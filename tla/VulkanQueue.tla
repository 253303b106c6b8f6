----------------------------- MODULE VulkanQueue -----------------------------
(***************************************************************************)
(* Command buffer life cycle of the Vulkan backend                         *)
(* (src/device/vulkan/vulkan_queue.cpp): per-thread command pools with a   *)
(* fixed number of command buffers, one timeline semaphore per pool,       *)
(* submission to a device queue, and completion either in the submitting   *)
(* thread or in a completion thread.                                       *)
(*                                                                         *)
(* The slot containers act as the abstract pool of module SlotPool, which  *)
(* module ResourceSlots implements: acquire and release are one step.  The *)
(* completion handler is the queue and the workers of CompletionHandler:   *)
(* commands are picked up in order, each by one worker, and destroying it  *)
(* waits for the workers but leaves queued commands behind.  A command     *)
(* buffer is named by its owning thread and its slot.                      *)
(***************************************************************************)
EXTENDS Naturals, Sequences, FiniteSets, FiniteSetsExt

CONSTANTS
  Threads,      \* application threads
  Queues,       \* vulkan_queue objects
  Workers,      \* completion threads
  Slots,        \* command buffers of a primary pool
  SecSlots,     \* command buffers of a secondary pool
  None,         \* no slot, no queue, no task
  NoBlocking,   \* context flag VULKAN_NO_BLOCKING
  MaxSubmits,   \* bound: submissions of all threads together
  MaxErrors     \* bound: failing Vulkan calls

ASSUME VulkanAssumption ==
  /\ None \notin Queues \cup Slots \cup SecSlots
  /\ None \notin [thread : Threads, slot : Slots, value : Nat]
  /\ Threads \cap Workers = {}

VARIABLES
  ctx,         \* "up", "handler_gone" (completion handler destroyed), "shutdown"
  pool,        \* per thread: no pool yet, live, or destroyed
  pool_queue,  \* the queue a pool was created for (vulkan_command_pool_t::queue)
  free,        \* unused primary command buffers
  sec_free,    \* unused secondary command buffers
  handlers,    \* completion_handlers: the secondary slots they release
  tpc,         \* what the thread is doing with its command buffer
  buf,         \* the primary command buffer the thread holds
  sec_buf,     \* the secondary command buffer the thread holds
  counter,     \* work_sema_signal_counter
  sema,        \* value of the timeline semaphore work_sema
  gpu,         \* batches submitted to each device queue, in order
  tasks,       \* work_queue of the completion handler
  task,        \* the batch a thread is completing (vulkan_complete_cmd_buffer)
  called,      \* those that have called its completion handlers
  lost,        \* command buffers an error path never released (history)
  sec_lost,    \* secondary command buffers an error path never released (history)
  unwaited,    \* batches completed although the wait for them failed (history)
  vk_undefined, \* undefined behaviour was met: nothing is said of what follows
  errors       \* failed Vulkan calls so far

poolVars == <<pool, pool_queue, free, sec_free, handlers>>
threadVars == <<tpc, buf, sec_buf>>
gpuVars == <<counter, sema, gpu>>
workVars == <<tasks, task, called>>
vulkanVars == <<ctx, poolVars, threadVars, gpuVars, workVars, lost, sec_lost, unwaited, vk_undefined,
                errors>>

(* A command buffer can be completed by its submitter or a completion thread. *)
Completers == Threads \cup Workers
Batch == [thread : Threads, slot : Slots, value : 1 .. MaxSubmits]

TypeOK ==
  /\ ctx \in {"up", "handler_gone", "shutdown"}
  /\ pool \in [Threads -> {"none", "live", "destroyed"}]
  /\ pool_queue \in [Threads -> Queues \cup {None}]
  /\ free \in [Threads -> SUBSET Slots]
  /\ sec_free \in [Threads -> SUBSET SecSlots]
  /\ handlers \in [Threads \X Slots -> SUBSET SecSlots]
  /\ tpc \in [Threads -> {"idle", "record", "block", "exited"}]
  /\ buf \in [Threads -> Slots \cup {None}]
  /\ sec_buf \in [Threads -> SecSlots \cup {None}]
  /\ counter \in [Threads -> 0 .. MaxSubmits]
  /\ sema \in [Threads -> 0 .. MaxSubmits]
  /\ gpu \in [Queues -> Seq(Batch)]
  /\ tasks \in Seq(Batch)
  /\ task \in [Completers -> Batch \cup {None}]
  /\ called \subseteq Completers
  /\ lost \subseteq Threads \X Slots
  /\ sec_lost \subseteq Threads \X SecSlots
  /\ unwaited \subseteq Batch
  /\ vk_undefined \in BOOLEAN
  /\ errors \in 0 .. MaxErrors

VulkanInit ==
  /\ ctx = "up"
  /\ pool = [t \in Threads |-> "none"]
  /\ pool_queue = [t \in Threads |-> None]
  /\ free = [t \in Threads |-> Slots]
  /\ sec_free = [t \in Threads |-> SecSlots]
  /\ handlers = [b \in Threads \X Slots |-> {}]
  /\ tpc = [t \in Threads |-> "idle"]
  /\ buf = [t \in Threads |-> None]
  /\ sec_buf = [t \in Threads |-> None]
  /\ counter = [t \in Threads |-> 0]
  /\ sema = [t \in Threads |-> 0]
  /\ gpu = [q \in Queues |-> <<>>]
  /\ tasks = <<>>
  /\ task = [a \in Completers |-> None]
  /\ called = {}
  /\ lost = {}
  /\ sec_lost = {}
  /\ unwaited = {}
  /\ vk_undefined = FALSE
  /\ errors = 0

ThreadGoto(t, label) == tpc' = [tpc EXCEPT ![t] = label]

SubmitsLeft ==
  MapThenSumSet(LAMBDA t : counter[t], Threads) < MaxSubmits

OnGpu == UNION {{gpu[q][i] : i \in 1 .. Len(gpu[q])} : q \in Queues}
Queued == {tasks[i] : i \in 1 .. Len(tasks)}
-----------------------------------------------------------------------------
(* Making, recording and freeing command buffers. *)

(* The first use in a thread creates its pool, for the queue it is called  *)
(* on; a pool that exists is used whatever the queue.                      *)
UsePool(t, q) ==
  /\ pool[t] # "destroyed"
  /\ pool' = [pool EXCEPT ![t] = "live"]
  /\ pool_queue' = [pool_queue EXCEPT ![t] = IF @ = None THEN q ELSE @]

(* make_command_buffer: loops until a command buffer is free or the        *)
(* context is shut down (then the thread goes on without one).             *)
MakeBuffer(t, q) ==
  /\ tpc[t] = "idle" /\ ctx # "shutdown"
  /\ SubmitsLeft
  /\ UsePool(t, q)
  /\ \E s \in free[t] :
       /\ free' = [free EXCEPT ![t] = @ \ {s}]
       /\ handlers' = [handlers EXCEPT ![<<t, s>>] = {}]
       /\ buf' = [buf EXCEPT ![t] = s]
  /\ ThreadGoto(t, "record")
  /\ UNCHANGED <<ctx, sec_free, sec_buf, gpuVars, workVars, lost, errors,
                 unwaited, sec_lost, vk_undefined>>

(* Variant: the failed buffer is put back and reported as lost, too. *)
MakeBufferFails_twice(t, q) ==
  /\ tpc[t] = "idle" /\ ctx # "shutdown"
  /\ SubmitsLeft
  /\ errors < MaxErrors /\ errors' = errors + 1
  /\ UsePool(t, q)
  /\ \E s \in free[t] : lost' = lost \cup {<<t, s>>}
  /\ UNCHANGED <<ctx, free, sec_free, handlers, threadVars, gpuVars, workVars, unwaited, sec_lost, vk_undefined>>

(* vkResetCommandBuffer (or, for a command block, vkBeginCommandBuffer)    *)
(* fails: the slot that was acquired is never released.                    *)
MakeBufferFails(t, q) ==
  /\ tpc[t] = "idle" /\ ctx # "shutdown"
  /\ SubmitsLeft
  /\ errors < MaxErrors /\ errors' = errors + 1
  /\ UsePool(t, q)
  /\ \E s \in free[t] :
       /\ free' = [free EXCEPT ![t] = @ \ {s}]
       /\ lost' = lost \cup {<<t, s>>}
  /\ UNCHANGED <<ctx, sec_free, handlers, threadVars, gpuVars, workVars, unwaited, sec_lost, vk_undefined>>

MakeSecondary(t) ==
  /\ tpc[t] = "record" /\ sec_buf[t] = None /\ ctx # "shutdown"
  /\ \E s \in sec_free[t] :
       /\ sec_free' = [sec_free EXCEPT ![t] = @ \ {s}]
       /\ sec_buf' = [sec_buf EXCEPT ![t] = s]
  /\ UNCHANGED <<ctx, pool, pool_queue, free, handlers, tpc, buf, gpuVars, workVars, lost, errors,
                 unwaited, sec_lost, vk_undefined>>

(* vkResetCommandBuffer fails for a secondary command buffer, too: its     *)
(* slot is never released, the thread goes on without one.                 *)
MakeSecondaryFails(t) ==
  /\ tpc[t] = "record" /\ sec_buf[t] = None /\ ctx # "shutdown"
  /\ errors < MaxErrors /\ errors' = errors + 1
  /\ \E s \in sec_free[t] :
       /\ sec_free' = [sec_free EXCEPT ![t] = @ \ {s}]
       /\ sec_lost' = sec_lost \cup {<<t, s>>}
  /\ UNCHANGED <<ctx, pool, pool_queue, free, handlers, threadVars, gpuVars, workVars, lost, unwaited,
                 vk_undefined>>

(* execute_secondary_command_buffer: the primary's completion handlers now *)
(* include one that releases the secondary.                                *)
ExecuteSecondary(t) ==
  /\ tpc[t] = "record" /\ sec_buf[t] # None
  /\ handlers' = [handlers EXCEPT ![<<t, buf[t]>>] = @ \cup {sec_buf[t]}]
  /\ sec_buf' = [sec_buf EXCEPT ![t] = None]
  /\ UNCHANGED <<ctx, pool, pool_queue, free, sec_free, tpc, buf, gpuVars, workVars, lost, errors,
                 unwaited, sec_lost, vk_undefined>>

(* Variant: an empty command buffer is released like any other. *)
FreeSecondary_empty(t) ==
  /\ tpc[t] = "record"
  /\ sec_free' = [sec_free EXCEPT ![t] = @ \cup {sec_buf[t]}]
  /\ sec_buf' = [sec_buf EXCEPT ![t] = None]
  /\ UNCHANGED <<ctx, pool, pool_queue, free, handlers, tpc, buf, gpuVars, workVars, lost, errors,
                 unwaited, sec_lost, vk_undefined>>

FreeSecondary(t) ==
  /\ tpc[t] = "record" /\ sec_buf[t] # None
  /\ sec_free' = [sec_free EXCEPT ![t] = @ \cup {sec_buf[t]}]
  /\ sec_buf' = [sec_buf EXCEPT ![t] = None]
  /\ UNCHANGED <<ctx, pool, pool_queue, free, handlers, tpc, buf, gpuVars, workVars, lost, errors,
                 unwaited, sec_lost, vk_undefined>>

(* Variant: the handlers are called in place and stay registered. *)
CallHandlers_keep(t, s) ==
  /\ sec_free' = [sec_free EXCEPT ![t] = @ \cup handlers[<<t, s>>]]
  /\ UNCHANGED handlers

(* Swap out the registered handlers of a command buffer and call them. *)
CallHandlers(t, s) ==
  /\ sec_free' = [sec_free EXCEPT ![t] = @ \cup handlers[<<t, s>>]]
  /\ handlers' = [handlers EXCEPT ![<<t, s>>] = {}]

(* release_unsubmitted_command_buffer *)
FreeUnsubmitted(t) ==
  /\ tpc[t] = "record" /\ sec_buf[t] = None
  /\ CallHandlers(t, buf[t])
  /\ free' = [free EXCEPT ![t] = @ \cup {buf[t]}]
  /\ buf' = [buf EXCEPT ![t] = None]
  /\ ThreadGoto(t, "idle")
  /\ UNCHANGED <<ctx, pool, pool_queue, sec_buf, gpuVars, workVars, lost, errors,
                 unwaited, sec_lost, vk_undefined>>
-----------------------------------------------------------------------------
(* Submission. *)

(* vkQueueSubmit2 on the queue of the pool; on failure nothing is executed *)
(* and the semaphore value is never signalled, "still continue".           *)
QueueSubmit(b) ==
  \/ /\ gpu' = [gpu EXCEPT ![pool_queue[b.thread]] = Append(@, b)]
     /\ UNCHANGED errors
  \/ /\ errors < MaxErrors
     /\ errors' = errors + 1
     /\ UNCHANGED gpu

(* submit_command_buffer takes the next semaphore value, submits, and      *)
(* completes the buffer in this thread or offloads it.                     *)
Submit(t, blocking) ==
  LET b == [thread |-> t, slot |-> buf[t], value |-> counter[t] + 1]
  IN  /\ tpc[t] = "record" /\ sec_buf[t] = None
      /\ SubmitsLeft
      /\ counter' = [counter EXCEPT ![t] = @ + 1]
      /\ QueueSubmit(b)
      /\ buf' = [buf EXCEPT ![t] = None]
      /\ IF blocking \/ ~NoBlocking
         THEN /\ task' = [task EXCEPT ![t] = b]
              /\ ThreadGoto(t, "block")
              /\ UNCHANGED tasks
         ELSE /\ ctx = "up"     \* the completion handler exists
              /\ tasks' = Append(tasks, b)
              /\ ThreadGoto(t, "idle")
              /\ UNCHANGED task
      /\ UNCHANGED <<ctx, poolVars, sec_buf, sema, called, lost, unwaited, sec_lost, vk_undefined>>

(* After vulkan_queue::destroy() a submission that does not block calls    *)
(* add_cmd_completion() of a completion handler that is gone.              *)
SubmitToDestroyed(t) ==
  /\ tpc[t] = "record" /\ sec_buf[t] = None
  /\ NoBlocking /\ ctx # "up"
  /\ vk_undefined' = TRUE
  /\ UNCHANGED <<ctx, poolVars, threadVars, gpuVars, workVars, lost, sec_lost, unwaited, errors>>

(* The device executes a queue's batches in order and signals their value. *)
GpuSignal(q) ==
  /\ gpu[q] # <<>>
  /\ sema' = [sema EXCEPT ![Head(gpu[q]).thread] = Head(gpu[q]).value]
  /\ gpu' = [gpu EXCEPT ![q] = Tail(@)]
  /\ UNCHANGED <<ctx, poolVars, threadVars, counter, workVars, lost, errors,
                 unwaited, sec_lost, vk_undefined>>
-----------------------------------------------------------------------------
(* Completion: vulkan_complete_cmd_buffer. *)

PickUp(w) ==
  /\ ctx = "up" /\ task[w] = None /\ tasks # <<>>
  /\ task' = [task EXCEPT ![w] = Head(tasks)]
  /\ tasks' = Tail(tasks)
  /\ UNCHANGED <<ctx, poolVars, threadVars, gpuVars, called, lost, errors, unwaited, sec_lost, vk_undefined>>

(* Variant: one value short / one value late. *)
Signalled_early(b) == sema[b.thread] + 1 >= b.value
Signalled_late(b) == sema[b.thread] > b.value

(* The wait is for at least the value of the submission. *)
Signalled(b) == sema[b.thread] >= b.value

(* The pool of the batch under completion exists. *)
HasPool(a) == pool[task[a].thread] # "destroyed"

(* Wait for the semaphore, then call the completion handlers. *)
Complete(a) ==
  /\ task[a] # None /\ a \notin called /\ HasPool(a)
  /\ Signalled(task[a])
  /\ CallHandlers(task[a].thread, task[a].slot)
  /\ called' = called \cup {a}
  /\ UNCHANGED <<ctx, pool, pool_queue, free, threadVars, gpuVars, tasks, task,
                 lost, errors, unwaited, sec_lost, vk_undefined>>

(* The wait fails for another reason than a lost device: this is logged,   *)
(* and the command buffer is completed all the same.                       *)
WaitFails(a) ==
  /\ task[a] # None /\ a \notin called /\ HasPool(a)
  /\ errors < MaxErrors /\ errors' = errors + 1
  /\ unwaited' = unwaited \cup {task[a]}
  /\ CallHandlers(task[a].thread, task[a].slot)
  /\ called' = called \cup {a}
  /\ UNCHANGED <<ctx, pool, pool_queue, free, threadVars, gpuVars, tasks, task,
                 lost, sec_lost, vk_undefined>>

Finished(a) ==
  /\ task' = [task EXCEPT ![a] = None]
  /\ called' = called \ {a}
  /\ tpc' = [t \in Threads |-> IF t = a THEN "idle" ELSE tpc[t]]
  /\ UNCHANGED <<buf, sec_buf>>

(* Mark the command buffer as unused again. *)
ReleaseBuffer(a) ==
  /\ a \in called /\ HasPool(a)
  /\ free' = [free EXCEPT ![task[a].thread] = @ \cup {task[a].slot}]
  /\ Finished(a)
  /\ UNCHANGED <<ctx, pool, pool_queue, sec_free, handlers, gpuVars, tasks, lost,
                 errors, unwaited, sec_lost, vk_undefined>>

(* The device is lost: the wait throws, nothing is released. *)
DeviceLost(a) ==
  /\ task[a] # None /\ a \notin called /\ HasPool(a)
  /\ errors < MaxErrors /\ errors' = errors + 1
  /\ lost' = lost \cup {<<task[a].thread, task[a].slot>>}
  /\ Finished(a)
  /\ UNCHANGED <<ctx, poolVars, gpuVars, tasks, unwaited, sec_lost, vk_undefined>>

(* A completion thread holds a plain pointer to the pool of its batch and  *)
(* does not notice that the pool was destroyed when its thread exited.     *)
UseDestroyedPool(a) ==
  /\ task[a] # None /\ ~HasPool(a)
  /\ vk_undefined' = TRUE
  /\ UNCHANGED <<ctx, poolVars, threadVars, gpuVars, workVars, lost, sec_lost, unwaited, errors>>
-----------------------------------------------------------------------------
(* Thread exit and context shutdown. *)

(* vulkan_command_pool_destructor_t destroys the pools.  Unless the        *)
(* context is shut down, the semaphore and the command buffers go, too; it *)
(* is waited for the semaphore at most 5s (after which batches may still   *)
(* be on the device), and never for a completion thread or a queued        *)
(* completion that uses the pool.                                          *)
ThreadExit(t) ==
  /\ tpc[t] = "idle"
  /\ pool' = [pool EXCEPT ![t] = IF @ = "live" THEN "destroyed" ELSE @]
  /\ vk_undefined' = (ctx # "shutdown" /\ \E b \in OnGpu : b.thread = t)
  /\ ThreadGoto(t, "exited")
  /\ UNCHANGED <<ctx, pool_queue, free, sec_free, handlers, buf, sec_buf, gpuVars, workVars, lost, errors,
                 unwaited, sec_lost>>

(* vulkan_queue::destroy: the completion handler goes first; its threads   *)
(* are joined, commands nobody picked up are dropped with the queue.       *)
DestroyHandler ==
  /\ ctx = "up"
  /\ \A w \in Workers : task[w] = None
  /\ ctx' = "handler_gone"
  /\ lost' = lost \cup {<<b.thread, b.slot>> : b \in Queued}
  /\ tasks' = <<>>
  /\ UNCHANGED <<poolVars, threadVars, gpuVars, task, called, errors, unwaited, sec_lost, vk_undefined>>

(* is_ctx_shutdown = true *)
Shutdown ==
  /\ ctx = "handler_gone"
  /\ ctx' = "shutdown"
  /\ UNCHANGED <<poolVars, threadVars, gpuVars, workVars, lost, errors,
                 unwaited, sec_lost, vk_undefined>>
-----------------------------------------------------------------------------
CompletionStep(a) == Complete(a) \/ ReleaseBuffer(a) \/ UseDestroyedPool(a)

VulkanNext ==
  /\ ~vk_undefined
  /\ \/ \E t \in Threads :
          \/ \E q \in Queues : MakeBuffer(t, q) \/ MakeBufferFails(t, q)
          \/ MakeSecondary(t) \/ MakeSecondaryFails(t) \/ ExecuteSecondary(t) \/ FreeSecondary(t)
          \/ FreeUnsubmitted(t)
          \/ (\E blocking \in BOOLEAN : Submit(t, blocking)) \/ SubmitToDestroyed(t)
          \/ ThreadExit(t)
     \/ \E q \in Queues : GpuSignal(q)
     \/ \E w \in Workers : PickUp(w)
     \/ \E a \in Completers : CompletionStep(a) \/ WaitFails(a) \/ DeviceLost(a)
     \/ DestroyHandler \/ Shutdown

VulkanSpec == VulkanInit /\ [][VulkanNext]_vulkanVars

(* The device makes progress, completion threads and blocked submitters    *)
(* are scheduled.                                                          *)
VulkanFairness ==
  /\ \A q \in Queues : WF_vulkanVars(~vk_undefined /\ GpuSignal(q))
  /\ \A w \in Workers : WF_vulkanVars(~vk_undefined /\ PickUp(w))
  /\ \A a \in Completers : WF_vulkanVars(~vk_undefined /\ CompletionStep(a))

-----------------------------------------------------------------------------
(* A command buffer that the device may still execute is not handed out    *)
(* again and not reset, and neither is a secondary command buffer that a   *)
(* primary on the device executes (vulkan_queue.hpp: "will automatically   *)
(* hold onto the secondary command buffer until the primary has completed  *)
(* execution").  The exception is a batch the wait for which failed.       *)
NotReusedOnGpu ==
  \A b \in OnGpu \ unwaited :
    /\ b.slot \notin free[b.thread]
    /\ buf[b.thread] # b.slot
    /\ handlers[<<b.thread, b.slot>>] \cap sec_free[b.thread] = {}

(* The parties that will release command buffer s of thread t: the         *)
(* recording thread, the completion queue, a completing thread; or it was  *)
(* lost on an error path or by shutting down.                              *)
Releasers(t, s) ==
  {x \in {"record"} : buf[t] = s}
  \cup {i \in 1 .. Len(tasks) : tasks[i].thread = t /\ tasks[i].slot = s}
  \cup {a \in Completers : task[a] # None /\ task[a].thread = t /\ task[a].slot = s}
  \cup {x \in {"lost"} : <<t, s>> \in lost}

(* Every used command buffer has exactly one releaser; a secondary one is  *)
(* free, held by its thread, lost on an error path, or will be released by *)
(* exactly one primary.                                                    *)
OneReleaser ==
  \A t \in Threads :
    /\ \A s \in Slots : Cardinality(Releasers(t, s)) = IF s \in free[t] THEN 0 ELSE 1
    /\ \A s \in SecSlots :
         Cardinality({p \in Slots : s \in handlers[<<t, p>>]}) =
           IF s \in sec_free[t] \/ sec_buf[t] = s \/ <<t, s>> \in sec_lost THEN 0 ELSE 1

(* Command buffers that are handed out are free to use, and each of them   *)
(* that is in use will be free again through one party (vulkan_queue.cpp:  *)
(* make_command_buffer against vulkan_complete_cmd_buffer and thread exit).*)
(* Nothing is said of what follows undefined behaviour.                    *)
CommandBuffersAreSafe == NotReusedOnGpu /\ OneReleaser

(* A batch the device accepted is completed and its command buffer freed,  *)
(* unless the device or the completion handler is lost, or undefined       *)
(* behaviour is met: its thread exits first and takes the pool along, or   *)
(* another one submits after destroy().  (A batch the wait for which       *)
(* failed has been completed too early.)                                   *)
AcceptedIsFreed ==
  \A t \in Threads, s \in Slots :
    (\E b \in OnGpu \ unwaited : b.thread = t /\ b.slot = s)
      ~> (s \in free[t] \/ <<t, s>> \in lost \/ vk_undefined)
=============================================================================
