------------------------------ MODULE HostExec ------------------------------
(***************************************************************************)
(* Execution of a function on the CPU (src/device/host/host_function.cpp): *)
(* one OS thread per logical CPU takes work-groups off a shared ticket     *)
(* counter; inside a thread every work-item of the group is a fiber, and a *)
(* barrier is a switch to the next fiber.  SIMD functions exchange values  *)
(* through simd_storage and synchronise by switching within a sub-group.   *)
(*                                                                         *)
(* All work-items execute the same program, a sequence of barriers and     *)
(* SIMD functions ("the same barrier _must_ be encountered at the same     *)
(* point for all work-items").  A value in simd_storage is the number of   *)
(* the operation it was stored for and what it is: an item's contribution  *)
(* or the ballot mask.  Local memory allocation is left out.               *)
(***************************************************************************)
EXTENDS Naturals, Sequences, FiniteSets

CONSTANTS
  Cpus,             \* the worker threads of one launch
  GroupCount,       \* number of work-groups
  LocalSize,        \* work-items per group
  SimdWidth,        \* host_limits::simd_width
  MaxOps,           \* bound: length of the program
  Main,             \* the context of the OS thread itself (main_ctx)
  DeviceExecution   \* execute_device (TRUE) or execute_host (FALSE)

ASSUME LaunchAssumption ==
  /\ Cpus # {} /\ GroupCount \in Nat \ {0} /\ LocalSize \in Nat \ {0}
  /\ SimdWidth \in Nat \ {0}
  /\ LocalSize % SimdWidth = 0   \* sub-groups are full
  /\ MaxOps \in Nat /\ DeviceExecution \in BOOLEAN

Groups == 0 .. GroupCount - 1
Items == 0 .. LocalSize - 1
ASSUME MainAssumption == Main \notin Items

SimdOps == {"ballot", "shuffle"}
Ops == SimdOps \cup {"barrier", "simd_barrier"}
NoGroup == GroupCount
Empty == <<0, "none">>

VARIABLES
  program,    \* what the function does
  group_idx,  \* the ticket counter
  success,    \* no worker failed to set up its instance
  thread,     \* per CPU: starting, working or done
  group,      \* the group the CPU is working on
  ctx,        \* the running fiber, or Main
  at,         \* per fiber: the operation it is at and how far it is in it
  ids,        \* the ids of the execution context, as the function sees them
  saved,      \* per fiber: the ids kept in floor_fiber_context
  storage,    \* simd_storage
  result,     \* per fiber: last result of a SIMD function, <<operation, value>>
  runs        \* how often each work-item of each group ran to its end (history)

fiberVars == <<at, ids, saved, storage, result>>
launchVars == <<program, group_idx, success, thread, group, ctx, fiberVars, runs>>

Fresh == <<0, "fresh">>
Zero == [global |-> <<0, 0>>, linear |-> 0, sub |-> 0, lane |-> 0]
Lane(i) == i % SimdWidth
IdsOf(g, i) ==
  [global |-> <<g, i>>, linear |-> i, sub |-> i \div SimdWidth, lane |-> Lane(i)]
SubGroup(i) == {j \in Items : j \div SimdWidth = i \div SimdWidth}
Ids == [global : Groups \X Items, linear : Items,
        sub : Items, lane : 0 .. SimdWidth - 1]
Value == (0 .. MaxOps) \X {"none", "value", "mask", "garbage"}

LaunchTypeOK ==
  /\ program \in UNION {[1 .. n -> Ops] : n \in 0 .. MaxOps}
  /\ group_idx \in 0 .. GroupCount + Cardinality(Cpus)
  /\ success \in BOOLEAN
  /\ thread \in [Cpus -> {"start", "work", "done"}]
  /\ group \in [Cpus -> Groups \cup {NoGroup}]
  /\ ctx \in [Cpus -> {Main} \cup Items]
  /\ at \in [Cpus -> [Items -> (0 .. MaxOps + 1)
                               \X {"fresh", "begin", "swapped", "read", "done"}]]
  /\ ids \in [Cpus -> Ids]
  /\ saved \in [Cpus -> [Items -> Ids]]
  /\ storage \in [Cpus -> [Items -> Value]]
  /\ result \in [Cpus -> [Items -> (0 .. MaxOps) \X Value]]
  /\ runs \in [Groups \X Items -> 0 .. 2]

LaunchInit ==
  /\ program \in UNION {[1 .. n -> Ops] : n \in 0 .. MaxOps}
  /\ group_idx = 0
  /\ success = TRUE
  /\ thread = [c \in Cpus |-> "start"]
  /\ group = [c \in Cpus |-> NoGroup]
  /\ ctx = [c \in Cpus |-> Main]
  /\ at = [c \in Cpus |-> [i \in Items |-> Fresh]]
  /\ ids = [c \in Cpus |-> Zero]
  /\ saved = [c \in Cpus |-> [i \in Items |-> [Zero EXCEPT !.linear = i]]]
  /\ storage = [c \in Cpus |-> [i \in Items |-> Empty]]
  /\ result = [c \in Cpus |-> [i \in Items |-> <<0, Empty>>]]
  /\ runs = [x \in Groups \X Items |-> 0]
-----------------------------------------------------------------------------
(* Fiber contexts: where a fiber switches to. *)

\* Variant: no wrap around at the end of the group.
NextLinear_unbounded(i) == i + 1

\* Variant: a barrier only switches within the sub-group.
NextLinear_simd(i) == (i \div SimdWidth) * SimdWidth + ((Lane(i) + 1) % SimdWidth)

(* next_linear_ctx_idx and next_simd_ctx_idx *)
NextLinear(i) == (i + 1) % LocalSize
NextSimd(i) == (i \div SimdWidth) * SimdWidth + ((Lane(i) + 1) % SimdWidth)

\* Variant: every item returns to the main context.
ExitCtx_main(i) == Main

\* Variant: the last item continues with the first one.
ExitCtx_wrap(i) == (i + 1) % LocalSize

(* exit_ctx: the next item, after the last one the main context. *)
ExitCtx(i) == IF i + 1 < LocalSize THEN i + 1 ELSE Main

Running(c) == ctx[c] # Main
Here(c) == at[c][ctx[c]]
Op(c) == program[Here(c)[1]]
InProgram(c) == Here(c)[1] \in 1 .. Len(program)
SwitchTo(c, x) == ctx' = [ctx EXCEPT ![c] = x]
MoveTo(c, n, phase) == at' = [at EXCEPT ![c][ctx[c]] = <<n, phase>>]
-----------------------------------------------------------------------------
(* Worker threads. *)

(* The instance, the function and the callable are set up, or one of them  *)
(* is missing (execute_device only): then no thread takes a further group. *)
StartWorker(c) ==
  /\ thread[c] = "start"
  /\ thread' = [thread EXCEPT ![c] = "work"]
  /\ UNCHANGED <<program, group_idx, success, group, ctx, fiberVars, runs>>

StartFails(c) ==
  /\ DeviceExecution
  /\ thread[c] = "start"
  /\ thread' = [thread EXCEPT ![c] = "done"]
  /\ success' = FALSE
  /\ UNCHANGED <<program, group_idx, group, ctx, fiberVars, runs>>

\* Variant: the counter is incremented before it is read.
Ticket_preincrement == group_idx + 1

(* group_idx++ returns the old value. *)
Ticket == group_idx

(* Take the next group, reset the fibers and switch to the first one. *)
TakeGroup(c) ==
  /\ thread[c] = "work" /\ ~Running(c) /\ success
  /\ Ticket < GroupCount
  /\ group_idx' = group_idx + 1
  /\ group' = [group EXCEPT ![c] = Ticket]
  /\ at' = [at EXCEPT ![c] = [i \in Items |-> Fresh]]
  /\ SwitchTo(c, 0)
  /\ UNCHANGED <<program, success, thread, ids, saved, storage, result, runs>>

(* No more groups, or another thread failed. *)
WorkerDone(c) ==
  /\ thread[c] = "work" /\ ~Running(c)
  /\ \/ success /\ Ticket >= GroupCount /\ group_idx' = group_idx + 1
     \/ ~success /\ UNCHANGED group_idx
  /\ thread' = [thread EXCEPT ![c] = "done"]
  /\ UNCHANGED <<program, success, group, ctx, fiberVars, runs>>
-----------------------------------------------------------------------------
(* Work-items. *)

(* run_host_device_group_item / run_host_group_item: set the ids of the    *)
(* item; only the former keeps them in the fiber context as well.          *)
EnterItem(c) ==
  /\ Running(c) /\ Here(c) = Fresh
  /\ ids' = [ids EXCEPT ![c] = IdsOf(group[c], ctx[c])]
  /\ saved' = [saved EXCEPT ![c][ctx[c]] = IF DeviceExecution THEN ids'[c] ELSE @]
  /\ MoveTo(c, 1, "begin")
  /\ UNCHANGED <<program, group_idx, success, thread, group, ctx, storage,
                 result, runs>>

(* Barriers and SIMD functions: the latter store the item's value first;   *)
(* then the fiber switches.                                                *)
SwitchAway(c) ==
  /\ Running(c) /\ Here(c)[2] = "begin" /\ InProgram(c)
  /\ storage' = [storage EXCEPT ![c][ctx[c]] =
                   IF Op(c) \in SimdOps THEN <<Here(c)[1], "value">> ELSE @]
  /\ MoveTo(c, Here(c)[1], "swapped")
  /\ SwitchTo(c, IF Op(c) = "barrier" THEN NextLinear(ctx[c]) ELSE NextSimd(ctx[c]))
  /\ UNCHANGED <<program, group_idx, success, thread, group, ids, saved, result,
                 runs>>

\* Variant: the ids are left as the previous fiber has set them.
RestoreIds_missing(c) == UNCHANGED ids

(* The fiber is switched to again: ids.restore() from the fiber context. *)
RestoreIds(c) == ids' = [ids EXCEPT ![c] = saved[c][ctx[c]]]

ResumeBarrier(c) ==
  /\ Running(c) /\ Here(c)[2] = "swapped" /\ Op(c) \notin SimdOps
  /\ RestoreIds(c)
  /\ MoveTo(c, Here(c)[1] + 1, "begin")
  /\ UNCHANGED <<program, group_idx, success, thread, group, ctx, saved, storage,
                 result, runs>>

Lanes(c) == {j \in Items : j \div SimdWidth = saved[c][ctx[c]].sub}

BallotMask(c) ==
  IF \A j \in Lanes(c) : storage[c][j] = <<Here(c)[1], "value">>
  THEN <<Here(c)[1], "mask">> ELSE <<Here(c)[1], "garbage">>

\* Variant: every lane computes the mask for itself when it resumes.
BallotStore_each(c) == [storage[c] EXCEPT ![ctx[c]] = BallotMask(c)]

(* The first lane computes the mask and hands it to all lanes. *)
BallotStore(c) ==
  IF saved[c][ctx[c]].lane = 0
  THEN [j \in Items |-> IF j \in Lanes(c) THEN BallotMask(c) ELSE storage[c][j]]
  ELSE storage[c]

ResumeBallot(c) ==
  /\ Running(c) /\ Here(c)[2] = "swapped" /\ Op(c) = "ballot"
  /\ RestoreIds(c)
  /\ storage' = [storage EXCEPT ![c] = BallotStore(c)]
  /\ result' = [result EXCEPT ![c][ctx[c]] = <<Here(c)[1], storage'[c][ctx[c]]>>]
  /\ MoveTo(c, Here(c)[1] + 1, "begin")
  /\ UNCHANGED <<program, group_idx, success, thread, group, ctx, saved, runs>>

(* Shuffles read the value of any lane, then switch a second time. *)
ResumeShuffle(c) ==
  /\ Running(c) /\ Here(c)[2] = "swapped" /\ Op(c) = "shuffle"
  /\ RestoreIds(c)
  /\ \E j \in Lanes(c) :
       result' = [result EXCEPT ![c][ctx[c]] = <<Here(c)[1], storage[c][j]>>]
  /\ MoveTo(c, Here(c)[1], "read")
  /\ SwitchTo(c, NextSimd(ctx[c]))
  /\ UNCHANGED <<program, group_idx, success, thread, group, saved, storage, runs>>

FinishShuffle(c) ==
  /\ Running(c) /\ Here(c)[2] = "read"
  /\ RestoreIds(c)
  /\ MoveTo(c, Here(c)[1] + 1, "begin")
  /\ UNCHANGED <<program, group_idx, success, thread, group, ctx, saved, storage,
                 result, runs>>

(* The function returns; floor_enter_context continues with exit_ctx. *)
ExitItem(c) ==
  /\ Running(c) /\ Here(c)[2] = "begin" /\ ~InProgram(c)
  /\ runs' = [runs EXCEPT ![<<group[c], ctx[c]>>] = IF @ < 2 THEN @ + 1 ELSE @]
  /\ MoveTo(c, 0, "done")
  /\ SwitchTo(c, ExitCtx(ctx[c]))
  /\ UNCHANGED <<program, group_idx, success, thread, group, ids, saved, storage,
                 result>>
-----------------------------------------------------------------------------
CpuStep(c) ==
  \/ StartWorker(c) \/ StartFails(c) \/ TakeGroup(c) \/ WorkerDone(c)
  \/ EnterItem(c) \/ SwitchAway(c) \/ ResumeBarrier(c) \/ ResumeBallot(c)
  \/ ResumeShuffle(c) \/ FinishShuffle(c) \/ ExitItem(c)

LaunchNext == \E c \in Cpus : CpuStep(c)

LaunchSpec == LaunchInit /\ [][LaunchNext]_launchVars
-----------------------------------------------------------------------------
(* A work-item passes an operation only when all items of the group (SIMD  *)
(* operations: of the sub-group) have arrived at it.                       *)
BarrierHolds ==
  \A c \in Cpus, i, j \in Items :
    \A k \in 1 .. Len(program) :
      /\ at[c][i][1] > k
      /\ program[k] = "barrier" \/ j \in SubGroup(i)
      => \/ at[c][j][1] > k \/ at[c][j][2] = "done"
         \/ at[c][j][1] = k /\ at[c][j][2] \in {"swapped", "read"}

(* Whenever the function's own code runs it sees the ids of its work-item, *)
(* also after a barrier: "restore IDs for fiber context".                  *)
IdsMatchItem ==
  \A c \in Cpus :
    Running(c) /\ Here(c)[2] = "begin" => ids[c] = IdsOf(group[c], ctx[c])

(* A SIMD function returns what the items of the sub-group contributed to  *)
(* this call of it, although items that resume first may already be in the *)
(* next call and reuse the storage.                                        *)
SimdResultsCorrect ==
  \A c \in Cpus, i \in Items :
    LET k == result[c][i][1]
    IN  k > 0 => result[c][i][2] =
                   <<k, IF program[k] = "ballot" THEN "mask" ELSE "value">>

(* Every work-item of every group is executed once, however the threads    *)
(* compete for groups, unless a thread could not be set up; and when the   *)
(* main context of a thread resumes, no item of its group is unfinished    *)
(* (the check of unfinished_items never fires for a uniform program).      *)
EveryItemOnce ==
  /\ \A c \in Cpus : thread[c] = "work" /\ ~Running(c) /\ group[c] # NoGroup =>
       \A i \in Items : at[c][i][2] = "done"
  /\ \A x \in Groups \X Items : runs[x] <= 1
  /\ success /\ (\A c \in Cpus : thread[c] = "done") =>
       \A x \in Groups \X Items : runs[x] = 1

(* All worker threads of a launch that has begun end: execute() returns.   *)
LaunchReturns ==
  (\E c \in Cpus : thread[c] = "work") ~> (\A c \in Cpus : thread[c] = "done")
=============================================================================
