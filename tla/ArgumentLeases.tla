--------------------------- MODULE ArgumentLeases ---------------------------
(***************************************************************************)
(* Descriptor buffers and constant buffers of Vulkan functions             *)
(* (vulkan_descriptor_set.hpp/.cpp, vulkan_function.cpp, vulkan_shader.cpp,*)
(* vulkan_renderer.cpp, vulkan_queue.cpp). Each function has a few of      *)
(* both; a call leases one of each per stage, writes its arguments there,  *)
(* and a completion handler of the command buffer gives them back. A       *)
(* descriptor buffer is also given back when the object that holds it is   *)
(* destroyed, a constant buffer is not.                                    *)
(*                                                                         *)
(* The containers act as in SlotPool and hand out the first free instance. *)
(* Submissions and waits succeed here; failing ones are in VulkanQueue.    *)
(***************************************************************************)
EXTENDS Naturals, FiniteSets, Sequences, FiniteSetsExt

CONSTANTS
  Recorders,      \* threads, each with its command pools
  Primaries,      \* command buffers of a primary pool
  Secondaries,    \* command buffers of a secondary pool
  FunctionEntries,
  WithConstants,  \* those with has_constant_buffers()
  Instances,      \* instance_count, of descriptor and of constant buffers
  Kernels, Draws, \* calls: sequences of functions, one per stage that has descriptors
  NoCmdBuffer,      \* no command buffer
  MaxLeaseCalls   \* bound

ASSUME LeaseAssumption ==
  /\ Primaries \cap Secondaries = {} /\ NoCmdBuffer \notin Recorders \X (Primaries \cup Secondaries)
  /\ WithConstants \subseteq FunctionEntries
  /\ Instances \subseteq Nat /\ MaxLeaseCalls \in Nat
  /\ \A c \in Kernels \cup Draws : c \in Seq(FunctionEntries) /\ c # <<>>

DescriptorsOf(e) == <<e, "descriptors">>
ConstantsOf(e) == <<e, "constants">>
Pools == {DescriptorsOf(e) : e \in FunctionEntries} \cup {ConstantsOf(e) : e \in WithConstants}
Leases == [pool : Pools, index : Instances]
IsConstants(l) == l.pool[2] = "constants"
CmdBuffers == Recorders \X (Primaries \cup Secondaries)

VARIABLES
  available,           \* pool -> instances that nobody leases
  written,             \* lease -> the call whose arguments it holds
  unused,              \* command buffers a thread can make
  completion_handlers, \* of a command buffer: the leases they give back
  secondaries,         \* of a primary: those its handlers give back
  reads,               \* of a command buffer: [lease, call], what its commands will read
  recorder,            \* what a thread does, see Idle
  submitted, executed, \* primaries the device has, or has executed
  dropped,             \* leases nobody will give back (history)
  lease_calls

bufferState == <<unused, completion_handlers, secondaries, reads>>
deviceSide == <<submitted, executed>>
leaseVars ==
  <<available, written, bufferState, recorder, deviceSide, dropped, lease_calls>>

\* A thread executes a "kernel", or has a "direct" or "indirect" renderer, with a
\* primary command buffer. It records a call to its target, leases for one stage after
\* the other, and holds what it has acquired.
BetweenCalls(label, what, b) ==
  [step |-> label, purpose |-> what, cmd_buffer |-> b, target |-> NoCmdBuffer,
   call |-> 0, stages |-> <<>>, acquired |-> {}]
Idle == BetweenCalls("idle", "none", NoCmdBuffer)

LeasesInit ==
  /\ available = [p \in Pools |-> Instances]
  /\ written = [l \in Leases |-> 0]
  /\ unused = CmdBuffers
  /\ completion_handlers = [b \in CmdBuffers |-> {}]
  /\ secondaries = [b \in CmdBuffers |-> {}]
  /\ reads = [b \in CmdBuffers |-> {}]
  /\ recorder = [t \in Recorders |-> Idle]
  /\ submitted = {} /\ executed = {} /\ dropped = {} /\ lease_calls = 0

WithReturned(leases) ==
  [p \in Pools |-> available[p] \cup {l.index : l \in {m \in leases : m.pool = p}}]

-----------------------------------------------------------------------------
\* Command buffers

\* The handlers of the last use are cleared, not called. Destroying one that still
\* holds leases gives back its descriptor buffers only.
MakeCommandBuffer(b) ==
  /\ b \in unused
  /\ unused' = unused \ {b}
  /\ available' = WithReturned({l \in completion_handlers[b] : ~IsConstants(l)})
  /\ dropped' = dropped \cup {l \in completion_handlers[b] : IsConstants(l)}
  /\ completion_handlers' = [completion_handlers EXCEPT ![b] = {}]
  /\ UNCHANGED <<secondaries, reads>>

\* execute(), and create_cmd_buffer of a renderer
BeginCommandBuffer(t, what) ==
  /\ recorder[t].step = "idle" /\ lease_calls < MaxLeaseCalls
  /\ \E p \in Primaries :
       /\ MakeCommandBuffer(<<t, p>>)
       /\ recorder' = [recorder EXCEPT ![t] = BetweenCalls("recording", what, <<t, p>>)]
  /\ UNCHANGED <<written, deviceSide, lease_calls>>

CallsOf(what) == IF what = "kernel" THEN Kernels ELSE Draws
StartCall(t, b, stages) ==
  /\ lease_calls' = lease_calls + 1
  /\ recorder' = [recorder EXCEPT ![t] =
       [@ EXCEPT !.step = "descriptors", !.target = b, !.call = lease_calls + 1, !.stages = stages]]

\* The call of a kernel, and vulkan_draw_internal: a direct draw in an indirect
\* renderer is recorded to a secondary command buffer.
BeginCall(t) ==
  /\ recorder[t].step = "recording" /\ lease_calls < MaxLeaseCalls
  /\ \E stages \in CallsOf(recorder[t].purpose) :
       IF recorder[t].purpose = "indirect"
       THEN \E s \in Secondaries : MakeCommandBuffer(<<t, s>>) /\ StartCall(t, <<t, s>>, stages)
       ELSE /\ StartCall(t, recorder[t].cmd_buffer, stages)
            /\ UNCHANGED <<bufferState, available, dropped>>
  /\ UNCHANGED <<written, deviceSide>>

-----------------------------------------------------------------------------
\* Leasing and writing

\* Waits until an instance is free.
LeaseInstance(t, pool, next) ==
  /\ available[pool] # {}
  /\ LET i == Min(available[pool])
     IN /\ available' = [available EXCEPT ![pool] = @ \ {i}]
        /\ recorder' = [recorder EXCEPT ![t] =
             [next EXCEPT !.acquired = @ \cup {[pool |-> pool, index |-> i]}]]
  /\ UNCHANGED <<written, bufferState, deviceSide, dropped, lease_calls>>
NextStage(r) ==
  [r EXCEPT !.stages = Tail(@), !.step = IF Len(r.stages) = 1 THEN "encode" ELSE "descriptors"]

AcquireDescriptors(t) ==
  LET r == recorder[t] IN
  /\ r.step = "descriptors"
  /\ LeaseInstance(t, DescriptorsOf(Head(r.stages)),
       IF Head(r.stages) \in WithConstants THEN [r EXCEPT !.step = "constants"] ELSE NextStage(r))

AcquireConstants(t) ==
  LET r == recorder[t] IN
  /\ r.step = "constants"
  /\ LeaseInstance(t, ConstantsOf(Head(r.stages)), NextStage(r))

\* A handler of the command buffer the call is recorded to gives back its leases. A
\* secondary one is executed by the primary, one of whose handlers gives it back.
CallRecorded(t, leases) ==
  LET r == recorder[t] IN
  /\ completion_handlers' = [completion_handlers EXCEPT ![r.target] = @ \cup leases]
  /\ secondaries' = [secondaries EXCEPT ![r.cmd_buffer] = @ \cup ({r.target} \ {r.cmd_buffer})]
  /\ UNCHANGED unused
CallEnds(t, label) ==
  recorder' = [recorder EXCEPT ![t] = BetweenCalls(label, @.purpose, @.cmd_buffer)]

\* set_and_handle_arguments stores the arguments in the memory that was leased. (The
\* handler for a kernel is an argument of submit_command_buffer and called first.)
EncodeArguments(t) ==
  LET r == recorder[t] IN
  /\ r.step = "encode"
  /\ written' = [l \in Leases |-> IF l \in r.acquired THEN r.call ELSE written[l]]
  /\ reads' = [reads EXCEPT ![r.target] = @ \cup {[lease |-> l, call |-> r.call] : l \in r.acquired}]
  /\ CallRecorded(t, r.acquired)
  /\ CallEnds(t, IF r.purpose = "kernel" THEN "ready" ELSE "recording")
  /\ UNCHANGED <<available, deviceSide, dropped, lease_calls>>

\* It refuses the arguments. The encoder gives back its descriptor buffers. A kernel
\* returns and forgets its command buffer; a renderer continues.
RefuseArguments(t) ==
  LET r == recorder[t] IN
  /\ r.step = "encode"
  /\ available' = WithReturned({l \in r.acquired : ~IsConstants(l)})
  /\ dropped' = dropped \cup {l \in r.acquired : IsConstants(l)}
  /\ CallRecorded(t, {})
  /\ IF r.purpose = "kernel" THEN recorder' = [recorder EXCEPT ![t] = Idle]
     ELSE CallEnds(t, "recording")
  /\ UNCHANGED <<written, reads, deviceSide, lease_calls>>

SubmitCommandBuffer(t) ==
  /\ recorder[t].step = IF recorder[t].purpose = "kernel" THEN "ready" ELSE "recording"
  /\ submitted' = submitted \cup {recorder[t].cmd_buffer}
  /\ recorder' = [recorder EXCEPT ![t] = Idle]
  /\ UNCHANGED <<available, written, bufferState, executed, dropped, lease_calls>>

\* A renderer is destroyed without a commit: nobody frees its command buffer.
AbandonRenderer(t) ==
  /\ recorder[t].step = "recording" /\ recorder[t].purpose # "kernel"
  /\ recorder' = [recorder EXCEPT ![t] = Idle]
  /\ UNCHANGED <<available, written, bufferState, deviceSide, dropped, lease_calls>>

-----------------------------------------------------------------------------
\* The device, and vulkan_complete_cmd_buffer in whatever thread

\* All command buffers are recorded for one submission.
ExecuteCommandBuffer(b) ==
  /\ b \in submitted
  /\ submitted' = submitted \ {b} /\ executed' = executed \cup {b}
  /\ reads' = [c \in CmdBuffers |-> IF c \in {b} \cup secondaries[b] THEN {} ELSE reads[c]]
  /\ UNCHANGED <<available, written, unused, completion_handlers, secondaries, recorder, dropped,
                 lease_calls>>

\* Mutation: only what the objects of the handler release when they are destroyed.
GivenBack_destroyed(b) == {l \in completion_handlers[b] : ~IsConstants(l)}
GivenBack(b) == completion_handlers[b]

\* release_secondary_command_buffer for each secondary: its handlers stay.
CallCompletionHandlers(b) ==
  /\ b \in executed /\ completion_handlers[b] \cup secondaries[b] # {}
  /\ available' = WithReturned(GivenBack(b))
  /\ unused' = unused \cup secondaries[b]
  /\ completion_handlers' = [completion_handlers EXCEPT ![b] = {}]
  /\ secondaries' = [secondaries EXCEPT ![b] = {}]
  /\ UNCHANGED <<written, reads, recorder, deviceSide, dropped, lease_calls>>

ReleaseCommandBuffer(b) ==
  /\ b \in executed /\ completion_handlers[b] \cup secondaries[b] = {}
  /\ executed' = executed \ {b}
  /\ unused' = unused \cup {b}
  /\ UNCHANGED <<available, written, completion_handlers, secondaries, reads, recorder, submitted,
                 dropped, lease_calls>>

LeasesNext ==
  \/ \E t \in Recorders :
       \/ \E what \in {"kernel", "direct", "indirect"} : BeginCommandBuffer(t, what)
       \/ BeginCall(t) \/ AcquireDescriptors(t) \/ AcquireConstants(t)
       \/ EncodeArguments(t) \/ RefuseArguments(t)
       \/ SubmitCommandBuffer(t) \/ AbandonRenderer(t)
  \/ \E b \in CmdBuffers :
       ExecuteCommandBuffer(b) \/ CallCompletionHandlers(b) \/ ReleaseCommandBuffer(b)

LeasesSpec == LeasesInit /\ [][LeasesNext]_leaseVars

-----------------------------------------------------------------------------
(* What command buffer b reads when the device executes it. *)
ReadBy(b) == UNION {reads[c] : c \in {b} \cup secondaries[b]}

(* Who has leased an instance, or will give it back. *)
HoldersOf(l) ==
  {t \in Recorders : l \in recorder[t].acquired} \cup {b \in CmdBuffers : l \in completion_handlers[b]}

(* A command buffer the device has yet to execute finds in the descriptor  *)
(* and constant buffers what its calls stored there, however soon others   *)
(* lease and write them; and an instance that is not free is given back    *)
(* once: by a call, the handlers of one command buffer, or never, which    *)
(* happens to constant buffers only.                                       *)
LeasesAreSafe ==
  /\ \A b \in submitted : \A r \in ReadBy(b) : written[r.lease] = r.call
  /\ \A l \in Leases :
       Cardinality(HoldersOf(l)) = IF l.index \in available[l.pool] \/ l \in dropped THEN 0 ELSE 1
  /\ \A l \in dropped : IsConstants(l) /\ l.index \notin available[l.pool]

(* vulkan_queue.cpp:307, add_completion_handler: "called once the command  *)
(* buffer has completed execution, successfully or not": a command buffer  *)
(* that is free again has no handlers that were not called.                *)
HandlersAreCalled == \A b \in unused : completion_handlers[b] = {}
=============================================================================
