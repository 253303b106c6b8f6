-------------------------- MODULE IndirectCommands --------------------------
(***************************************************************************)
(* Generic indirect compute commands (src/device/                          *)
(* generic_indirect_command.cpp, device_queue::execute_indirect): commands *)
(* are recorded per device, and executed in a loop that goes by the number *)
(* of encoders, which are those of all devices. The queue may run what was *)
(* launched in order (CUDA, OpenCL: "stream"), at once ("host"), or with   *)
(* an overlap, after the fences it waits for ("vulkan").                   *)
(***************************************************************************)
EXTENDS Naturals, Sequences, FiniteSetsExt

CONSTANTS
  Devices,
  Backends,      \* among "stream", "host", "vulkan"
  MaxCommands,   \* max_command_count
  MaxRecorded    \* bound: commands of all devices

ASSUME IndirectAssumption ==
  /\ Backends \subseteq {"stream", "host", "vulkan"}
  /\ MaxCommands \in Nat /\ MaxRecorded \in Nat

VARIABLES
  backend,
  encoders,   \* commands of indirect_command_pipeline: the device of each
  pipelines,  \* the commands of each generic_indirect_pipeline_entry
  params,     \* of the execution: device, wait_fences and wait_until_completion, and
              \* stage: "none", "loop", "returned", or "astray" (past the end of commands)
  launched,   \* what the loop has launched
  begun, done,\* of those, what the device has begun and completed
  signaled,   \* the wait fences are signaled
  emitted     \* completion handler and signal fences of the execution

indirectVars == <<backend, encoders, pipelines, params, launched, begun, done, signaled, emitted>>
recorded == <<encoders, pipelines>>

NoParams == [device |-> CHOOSE d \in Devices : TRUE, stage |-> "none", fences |-> FALSE, wait |-> FALSE]
IndirectInit ==
  /\ backend \in Backends
  /\ encoders = <<>> /\ pipelines = [d \in Devices |-> <<>>]
  /\ params = NoParams
  /\ launched = <<>> /\ begun = {} /\ done = {} /\ signaled = FALSE /\ emitted = FALSE

-----------------------------------------------------------------------------
\* Recording. Bound: until the first execution, and again from a reset on.

Recording == params.stage = "none" /\ UNCHANGED <<backend, params, launched, begun, done, signaled, emitted>>

add_compute_command(d) ==
  /\ Recording /\ Len(encoders) < MaxCommands
  /\ encoders' = Append(encoders, d)
  /\ UNCHANGED pipelines

Full == MapThenSumSet(LAMBDA d : Len(pipelines[d]), Devices) >= MaxRecorded
\* execute of an encoder
encode(e) ==
  LET d == encoders[e] IN
  /\ Recording /\ ~Full
  /\ pipelines' = [pipelines EXCEPT ![d] = Append(@, [encoder |-> e, wait |-> FALSE])]
  /\ UNCHANGED encoders

barrier(d) ==
  /\ Recording /\ pipelines[d] # <<>>
  /\ pipelines' = [pipelines EXCEPT ![d][Len(pipelines[d])].wait = TRUE]
  /\ UNCHANGED encoders

reset ==
  /\ params.stage = "returned" /\ done = 1..Len(launched) /\ emitted
  /\ pipelines' = [d \in Devices |-> <<>>] /\ encoders' = <<>>
  /\ params' = NoParams
  /\ launched' = <<>> /\ begun' = {} /\ done' = {} /\ signaled' = FALSE /\ emitted' = FALSE
  /\ UNCHANGED backend

-----------------------------------------------------------------------------
\* Execution

get_command_count == Len(encoders)
Commands == pipelines[params.device]
AllDone == done = 1..Len(launched)

execute_indirect(d, fences, wait) ==
  /\ params.stage = "none" \/ (params.stage = "returned" /\ AllDone /\ emitted)
  /\ get_command_count > 0
  /\ params' = [device |-> d, stage |-> "loop", fences |-> fences, wait |-> wait]
  /\ launched' = <<>> /\ begun' = {} /\ done' = {} /\ signaled' = FALSE /\ emitted' = FALSE
  /\ UNCHANGED <<backend, recorded>>

\* The call of the last command has not returned
Blocked ==
  /\ launched # <<>> /\ (launched[Len(launched)].wait \/ backend = "host")
  /\ ~AllDone
has_encountered_barrier == \E k \in 1..Len(launched) : launched[k].wait
\* Mutation: an off-by-one, the command before the last one.
is_last_but_one(n) == n + 1 = get_command_count
is_last_cmd(n) == n = get_command_count
launch ==
  LET n == Len(launched) + 1 IN
  /\ params.stage = "loop" /\ ~Blocked /\ n <= get_command_count
  /\ IF n <= Len(Commands)
     THEN /\ launched' = Append(launched, [encoder |-> Commands[n].encoder, wait |-> Commands[n].wait,
                                           fences |-> params.fences /\ ~has_encountered_barrier, last |-> is_last_cmd(n)])
          /\ UNCHANGED params
     ELSE params' = [params EXCEPT !.stage = "astray"] /\ UNCHANGED launched
  /\ UNCHANGED <<backend, recorded, begun, done, signaled, emitted>>

\* After the last command, and finish() if wait_until_completion
return ==
  /\ params.stage = "loop" /\ ~Blocked /\ Len(launched) = get_command_count
  /\ params.wait => AllDone
  /\ params' = [params EXCEPT !.stage = "returned"]
  /\ UNCHANGED <<backend, recorded, launched, begun, done, signaled, emitted>>

-----------------------------------------------------------------------------
\* The device. A semaphore a submission waits for also holds back what is submitted
\* after it; one it signals also waits for what was submitted before.

BeginRecorded(k) ==
  /\ k \notin begun
  /\ IF backend = "vulkan" THEN \A j \in 1..k : launched[j].fences => signaled
     ELSE 1..(k - 1) \subseteq done
  /\ begun' = begun \cup {k}
  /\ UNCHANGED <<backend, recorded, params, launched, done, signaled, emitted>>
Complete(k) ==
  /\ k \in begun \ done
  /\ done' = done \cup {k}
  /\ UNCHANGED <<backend, recorded, params, launched, begun, signaled, emitted>>
Emit(k) ==
  /\ launched[k].last /\ 1..k \subseteq done /\ ~emitted
  /\ emitted' = TRUE
  /\ UNCHANGED <<backend, recorded, params, launched, begun, done, signaled>>
Signal ==
  /\ params.fences /\ ~signaled
  /\ signaled' = TRUE
  /\ UNCHANGED <<backend, recorded, params, launched, begun, done, emitted>>

IndirectNext ==
  \/ \E d \in Devices :
       \/ add_compute_command(d) \/ barrier(d)
       \/ \E fences, wait \in BOOLEAN : execute_indirect(d, fences, wait)
  \/ \E e \in 1..Len(encoders) : encode(e)
  \/ reset \/ launch \/ return
  \/ \E k \in 1..Len(launched) : BeginRecorded(k) \/ Complete(k) \/ Emit(k)
  \/ Signal

IndirectSpec == IndirectInit /\ [][IndirectNext]_indirectVars

-----------------------------------------------------------------------------
\* Properties

\* Each encoder executed once, and all are of one device
OnePerEncoder(d) ==
  /\ Len(pipelines[d]) = Len(encoders)
  /\ \A e \in 1..Len(encoders) : \E n \in 1..Len(pipelines[d]) : pipelines[d][n].encoder = e
\* On the device, nothing begins before the fences (where the backend has them) or
\* before a barrier's predecessors are through, and the completion handler finds all of
\* it completed. The loop launches what was recorded, in order, and the handler is not
\* called before its end, if each encoder executed once and all are of one device: if
\* encoders are of several devices or did not execute, the loop leaves the device's
\* commands, and if one executed twice, some are left out.
IndirectRunsInOrder ==
  /\ \A k \in begun :
       /\ backend = "vulkan" /\ params.fences => signaled
       /\ \A b \in 1..(k - 1) : launched[b].wait => 1..b \subseteq done
  /\ emitted => AllDone
  /\ params.stage \in {"loop", "astray"} /\ OnePerEncoder(params.device) =>
       /\ params.stage = "loop"
       /\ \A k \in 1..Len(launched) : launched[k].encoder = Commands[k].encoder
       /\ emitted => Len(launched) = Len(Commands)
=============================================================================
