-------------------------- MODULE CompletionHandler --------------------------
(***************************************************************************)
(* generic_cmd_completion_handler and its generic_cmd_completion_threads   *)
(* (include/floor/device/utility.hpp): submitting threads add commands to  *)
(* a queue under work_cv_lock and notify work_cv; worker threads, which    *)
(* are thread_base objects (module ThreadBase) without a delay, take them  *)
(* off and complete them outside the lock.  What completing a command      *)
(* means is left open: it ends normally or with an exception.              *)
(***************************************************************************)
EXTENDS ThreadBase, Sequences, FiniteSets

CONSTANTS
  Cmds,    \* the commands that are added, each by a thread of its own
  NoCmd    \* what a worker without a command holds

ASSUME CompletionAssumption == Delayed = {} /\ NoCmd \notin Cmds

VARIABLES
  handler,     \* life of the handler: "live", then where its destructor is
  adding,      \* where add_cmd_completion stands for each command
  work_queue,  \* the queued commands
  rpc,         \* where each worker stands inside run()
  cv_woken,    \* work_cv: the waiting worker has been notified
  cmd,         \* the command a worker is completing
  outcome,     \* how a command ended
  picked       \* the commands taken off the queue (history)

queueVars == <<work_queue, picked, cmd>>
completionVars == <<handler, adding, work_queue, rpc, cv_woken, cmd, outcome, picked>>
vars == <<threadVars, completionVars>>

TypeOK ==
  /\ ThreadTypeOK
  /\ handler \in {"live", "flag", "finish", "gone"}
  /\ adding \in [Cmds -> {"new", "emplaced", "added"}]
  /\ work_queue \in Seq(Cmds)
  /\ rpc \in [Workers -> {"none", "cv", "complete", "again"}]
  /\ cv_woken \in [Workers -> BOOLEAN]
  /\ cmd \in [Workers -> Cmds \cup {NoCmd}]
  /\ outcome \in [Cmds -> {"none", "completed", "failed"}]
  /\ picked \in Seq(Cmds)

Init ==
  /\ ThreadInit
  /\ handler = "live"
  /\ adding = [c \in Cmds |-> "new"]
  /\ work_queue = <<>>
  /\ rpc = [w \in Workers |-> "none"]
  /\ cv_woken = [w \in Workers |-> FALSE]
  /\ cmd = [w \in Workers |-> NoCmd]
  /\ outcome = [c \in Cmds |-> "none"]
  /\ picked = <<>>

Constructed == \A w \in Workers : call[w] \notin {"new", "start"}
Waiting == {w \in Workers : rpc[w] = "cv" /\ ~cv_woken[w]}
InRun(w, label) == tpc[w] = "run" /\ rpc[w] = label
RunGoto(w, label) == rpc' = [rpc EXCEPT ![w] = label]
-----------------------------------------------------------------------------
(* add_cmd_completion: emplace under the lock, then notify one waiter. *)
AddEmplace(c) ==
  /\ handler = "live" /\ Constructed
  /\ adding[c] = "new"
  /\ adding' = [adding EXCEPT ![c] = "emplaced"]
  /\ work_queue' = Append(work_queue, c)
  /\ UNCHANGED <<threadVars, handler, rpc, cv_woken, cmd, outcome, picked>>

AddNotify(c) ==
  /\ adding[c] = "emplaced"
  /\ adding' = [adding EXCEPT ![c] = "added"]
  /\ IF Waiting = {}
     THEN UNCHANGED cv_woken
     ELSE \E w \in Waiting : cv_woken' = [cv_woken EXCEPT ![w] = TRUE]
  /\ UNCHANGED <<threadVars, handler, work_queue, rpc, cmd, outcome, picked>>
-----------------------------------------------------------------------------
(* The worker: run() of generic_cmd_completion_thread. *)

(* First iteration: wait on work_cv.  Notifications sent earlier are lost. *)
EnterRun(w) ==
  /\ RunBegin(w)
  /\ RunGoto(w, "cv")
  /\ cv_woken' = [cv_woken EXCEPT ![w] = FALSE]
  /\ UNCHANGED <<handler, adding, work_queue, cmd, outcome, picked>>

\* Mutation: the front of the queue is read but not popped.
TakeWork_front(w) ==
  /\ work_queue # <<>>
  /\ cmd' = [cmd EXCEPT ![w] = Head(work_queue)]
  /\ picked' = Append(picked, Head(work_queue))
  /\ RunGoto(w, "complete")
  /\ UNCHANGED <<threadVars, work_queue>>

(* get_work, with the lock held. *)
TakeWork(w) ==
  /\ work_queue # <<>>
  /\ cmd' = [cmd EXCEPT ![w] = Head(work_queue)]
  /\ picked' = Append(picked, Head(work_queue))
  /\ work_queue' = Tail(work_queue)
  /\ RunGoto(w, "complete")
  /\ UNCHANGED threadVars

(* No work: back to _thread_run. *)
NoWork(w) ==
  /\ work_queue = <<>>
  /\ RunReturn(w) /\ RunGoto(w, "none")
  /\ UNCHANGED queueVars

(* The wait is over, the lock is held again. *)
WaitNotified(w) ==
  /\ InRun(w, "cv") /\ cv_woken[w]
  /\ TakeWork(w) \/ NoWork(w)
  /\ UNCHANGED <<handler, adding, cv_woken, outcome>>

\* Mutation: wait() instead of wait_for().
WaitTimedOut_never(w) ==
  /\ InRun(w, "cv") /\ ~cv_woken[w]
  /\ UNCHANGED vars

WaitTimedOut(w) ==
  /\ InRun(w, "cv") /\ ~cv_woken[w]
  /\ TakeWork(w) \/ NoWork(w)
  /\ UNCHANGED <<handler, adding, cv_woken, outcome>>

CompleteOk(w) ==
  /\ InRun(w, "complete")
  /\ outcome' = [outcome EXCEPT ![cmd[w]] = "completed"]
  /\ cmd' = [cmd EXCEPT ![w] = NoCmd]
  /\ RunGoto(w, "again")
  /\ UNCHANGED <<threadVars, handler, adding, work_queue, cv_woken, picked>>

(* complete() throws: logged, run() returns, the command is dropped. *)
CompleteThrows(w) ==
  /\ InRun(w, "complete")
  /\ outcome' = [outcome EXCEPT ![cmd[w]] = "failed"]
  /\ cmd' = [cmd EXCEPT ![w] = NoCmd]
  /\ RunReturn(w) /\ RunGoto(w, "none")
  /\ UNCHANGED <<handler, adding, work_queue, cv_woken, picked>>

(* Later iterations take the next command without waiting. *)
TryAgain(w) ==
  /\ InRun(w, "again")
  /\ TakeWork(w) \/ NoWork(w)
  /\ UNCHANGED <<handler, adding, cv_woken, outcome>>

(* _thread_run around run(). *)
Outside(w) ==
  /\ \/ LeaveInit(w) \/ LoopCheck(w) \/ PauseCheck(w) \/ AfterRun(w) \/ Leave(w)
  /\ UNCHANGED completionVars
-----------------------------------------------------------------------------
(* Constructor and destructor of the handler. *)

StartThread(w) == (Start(w) \/ StartRunning(w)) /\ UNCHANGED completionVars

(* Nobody adds commands to a handler that is being destroyed. *)
DtorBegin ==
  /\ handler = "live" /\ Constructed
  /\ \A c \in Cmds : adding[c] # "emplaced"
  /\ handler' = "flag"
  /\ UNCHANGED <<threadVars, adding, work_queue, rpc, cv_woken, cmd, outcome, picked>>

(* set_thread_should_finish for every thread, one after the other. *)
DtorFlag(w) ==
  /\ handler = "flag"
  /\ \/ ~should_finish[w] /\ (\A v \in Workers : call[v] # "notify")
        /\ SetShouldFinish(w)
     \/ SetShouldFinishNotify(w)
  /\ UNCHANGED completionVars

(* work_cv.notify_all() *)
DtorNotifyAll ==
  /\ handler = "flag"
  /\ \A w \in Workers : should_finish[w] /\ call[w] = "idle"
  /\ handler' = "finish"
  /\ cv_woken' = [w \in Workers |-> cv_woken[w] \/ w \in Waiting]
  /\ UNCHANGED <<threadVars, adding, work_queue, rpc, cmd, outcome, picked>>

(* finish() for every thread, one after the other. *)
DtorFinish(w) ==
  /\ handler = "finish"
  /\ \/ (\A v \in Workers : call[v] \in {"idle", "gone"}) /\ FinishEnter(w)
     \/ FinishFlag(w) \/ FinishNotify(w) \/ FinishUnpause(w) \/ FinishJoin(w)
  /\ UNCHANGED completionVars

DtorEnd ==
  /\ handler = "finish"
  /\ \A w \in Workers : call[w] = "gone"
  /\ handler' = "gone"
  /\ UNCHANGED <<threadVars, adding, work_queue, rpc, cv_woken, cmd, outcome, picked>>
-----------------------------------------------------------------------------
(* The steps of a worker; the wait is listed apart for its two outcomes. *)
WorkerStep(w) ==
  \/ Outside(w) \/ EnterRun(w)
  \/ WaitNotified(w) \/ WaitTimedOut(w)
  \/ CompleteOk(w) \/ CompleteThrows(w) \/ TryAgain(w)

DtorStep ==
  \/ DtorNotifyAll \/ DtorEnd
  \/ \E w \in Workers : DtorFlag(w) \/ DtorFinish(w)

Next ==
  \/ \E c \in Cmds : AddEmplace(c) \/ AddNotify(c)
  \/ \E w \in Workers : StartThread(w) \/ WorkerStep(w)
  \/ DtorBegin \/ DtorStep

(* Threads are scheduled, timed waits end, completing a command ends; an   *)
(* add or a destructor that has begun goes on.                             *)
Fairness ==
  /\ \A w \in Workers : WF_vars(WorkerStep(w)) /\ WF_vars(StartThread(w))
  /\ \A c \in Cmds : WF_vars(AddNotify(c))
  /\ WF_vars(DtorStep)

Spec == Init /\ [][Next]_vars /\ Fairness
-----------------------------------------------------------------------------
(* No added command is skipped or picked up twice, whichever workers wake  *)
(* up at the same time, and each picked command is with exactly one worker *)
(* or has ended.                                                           *)
EachPickedOnce ==
  LET seen == picked \o work_queue
  IN  /\ \A i, j \in 1 .. Len(seen) : seen[i] = seen[j] => i = j
      /\ {seen[i] : i \in 1 .. Len(seen)} = {c \in Cmds : adding[c] # "new"}
      /\ \A i \in 1 .. Len(picked) :
           Cardinality({w \in Workers : cmd[w] = picked[i]}) =
             IF outcome[picked[i]] = "none" THEN 1 ELSE 0

(* Once the destructor has returned no worker is left inside run(): nothing *)
(* touches the destroyed queue, lock or condition variable.                 *)
DestroyedIsQuiet ==
  handler = "gone" => \A w \in Workers : tpc[w] = "exited" /\ cmd[w] = NoCmd

(* Every added command is eventually picked up and ends, although a        *)
(* notification is lost when no worker waits at that moment: the wait      *)
(* times out.  Only the destruction of the handler leaves commands behind. *)
AddedIsCompleted ==
  \A c \in Cmds :
    (adding[c] # "new") ~> (outcome[c] # "none" \/ handler # "live")

(* The destructor returns whatever the workers are doing. *)
DtorReturns == (handler = "flag") ~> (handler = "gone")
=============================================================================
