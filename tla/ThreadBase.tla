----------------------------- MODULE ThreadBase -----------------------------
(***************************************************************************)
(* thread_base (src/threading/thread_base.cpp): a set of thread objects,   *)
(* each with its OS thread executing _thread_run, an owner that calls      *)
(* start() and finish(), and other threads that may pause and unpause it   *)
(* at any time.  All flags are atomics, so each access is a step of its    *)
(* own.  What run() does is left to the modules that extend this one:      *)
(* here a call to run() begins with RunBegin and returns with RunReturn.   *)
(***************************************************************************)
EXTENDS Naturals

CONSTANTS
  Workers,   \* the thread_base objects
  Delayed    \* those whose thread_delay is not 0

ASSUME DelayedAssumption == Delayed \subseteq Workers

VARIABLES
  thread_status,  \* INIT, RUNNING, PAUSED or FINISHED
  should_finish,  \* thread_should_finish_flag
  thread_pause,   \* the pause flag
  tpc,            \* where the OS thread stands in _thread_run
  call,           \* where the owner stands in start() / finish()
  delay_woken,    \* delay_cv: the sleeping thread has been notified
  terminated,     \* std::terminate: a joinable std::thread was destroyed
  early,          \* the finish flag was set before start() (history)
  flag_runs,      \* run() calls begun since the finish flag was set (history)
  pause_runs      \* run() calls begun since pause() (history)

threadVars == <<thread_status, should_finish, thread_pause, tpc, call,
                delay_woken, terminated, early, flag_runs, pause_runs>>

Status == {"INIT", "RUNNING", "PAUSED", "FINISHED"}
ThreadPoints == {"init", "check", "pause", "paused", "ready", "run", "after",
                 "doze", "delay", "leaving", "exited"}
CallPoints == {"new", "new_notify", "start", "idle", "notify", "flag",
               "flag_notify", "unpause", "join", "drop", "gone"}
MaxRuns == 2   \* the histories count no further

ThreadTypeOK ==
  /\ thread_status \in [Workers -> Status]
  /\ should_finish \in [Workers -> BOOLEAN]
  /\ thread_pause \in [Workers -> BOOLEAN]
  /\ tpc \in [Workers -> ThreadPoints]
  /\ call \in [Workers -> CallPoints]
  /\ delay_woken \in [Workers -> BOOLEAN]
  /\ terminated \in BOOLEAN
  /\ early \in [Workers -> BOOLEAN]
  /\ flag_runs \in [Workers -> 0 .. MaxRuns]
  /\ pause_runs \in [Workers -> 0 .. MaxRuns]

ThreadInit ==
  /\ thread_status = [w \in Workers |-> "INIT"]
  /\ should_finish = [w \in Workers |-> FALSE]
  /\ thread_pause = [w \in Workers |-> FALSE]
  /\ tpc = [w \in Workers |-> "init"]
  /\ call = [w \in Workers |-> "new"]
  /\ delay_woken = [w \in Workers |-> FALSE]
  /\ terminated = FALSE
  /\ early = [w \in Workers |-> FALSE]
  /\ flag_runs = [w \in Workers |-> 0]
  /\ pause_runs = [w \in Workers |-> 0]

Capped(n) == IF n < MaxRuns THEN n + 1 ELSE n
-----------------------------------------------------------------------------
(* The OS thread: _thread_run. *)

ThreadGoto(w, label) == tpc' = [tpc EXCEPT ![w] = label]
SetStatus(w, status) == thread_status' = [thread_status EXCEPT ![w] = status]
ThreadAt(w, label) == ~terminated /\ tpc[w] = label

(* Poll until start() was called or the thread shall finish. *)
LeaveInit(w) ==
  /\ ThreadAt(w, "init")
  /\ thread_status[w] = "RUNNING" \/ should_finish[w]
  /\ ThreadGoto(w, "check")
  /\ UNCHANGED <<thread_status, should_finish, thread_pause, call, delay_woken,
                 terminated, flag_runs, pause_runs, early>>

\* Mutation: the finish flag is only noticed after a run in which it was set.
LoopCheck_late(w) ==
  /\ ThreadAt(w, "check")
  /\ ThreadGoto(w, IF should_finish[w] /\ flag_runs[w] > 1 THEN "leaving" ELSE "pause")
  /\ UNCHANGED <<thread_status, should_finish, thread_pause, call, delay_woken,
                 terminated, flag_runs, pause_runs, early>>

(* The loop condition. *)
LoopCheck(w) ==
  /\ ThreadAt(w, "check")
  /\ ThreadGoto(w, IF should_finish[w] THEN "leaving" ELSE "pause")
  /\ UNCHANGED <<thread_status, should_finish, thread_pause, call, delay_woken,
                 terminated, flag_runs, pause_runs, early>>

PauseCheck(w) ==
  /\ ThreadAt(w, "pause")
  /\ \/ /\ thread_pause[w]
        /\ SetStatus(w, "PAUSED")
        /\ ThreadGoto(w, "paused")
     \/ /\ ~thread_pause[w]
        /\ ThreadGoto(w, "ready")
        /\ UNCHANGED thread_status
  /\ UNCHANGED <<should_finish, thread_pause, call, delay_woken, terminated,
                 flag_runs, pause_runs, early>>

(* The pause loop only looks at thread_pause; pause_cv is waited on with a *)
(* timeout of 5s, so it notices a cleared flag without the notification.   *)
PauseLeave(w) ==
  /\ ThreadAt(w, "paused")
  /\ ~thread_pause[w]
  /\ SetStatus(w, "RUNNING")
  /\ ThreadGoto(w, "ready")
  /\ UNCHANGED <<should_finish, thread_pause, call, delay_woken, terminated,
                 flag_runs, pause_runs, early>>

RunBegin(w) ==
  /\ ThreadAt(w, "ready")
  /\ ThreadGoto(w, "run")
  /\ flag_runs' = [flag_runs EXCEPT
                     ![w] = IF should_finish[w] THEN Capped(@) ELSE @]
  /\ pause_runs' = [pause_runs EXCEPT
                      ![w] = IF thread_pause[w] THEN Capped(@) ELSE @]
  /\ UNCHANGED <<thread_status, should_finish, thread_pause, call, delay_woken,
                 terminated, early>>

(* run() returns or throws; both are caught. *)
RunReturn(w) ==
  /\ ThreadAt(w, "run")
  /\ ThreadGoto(w, "after")
  /\ UNCHANGED <<thread_status, should_finish, thread_pause, call, delay_woken,
                 terminated, flag_runs, pause_runs, early>>

(* "if the finish flag has been set, don't wait, but continue immediately" *)
AfterRun(w) ==
  /\ ThreadAt(w, "after")
  /\ ThreadGoto(w, IF ~should_finish[w] /\ w \in Delayed THEN "doze" ELSE "check")
  /\ UNCHANGED <<thread_status, should_finish, thread_pause, call, delay_woken,
                 terminated, flag_runs, pause_runs, early>>

(* delay_cv.wait_for: the flag is not read again before the thread sleeps. *)
FallAsleep(w) ==
  /\ ThreadAt(w, "doze")
  /\ ThreadGoto(w, "delay")
  /\ delay_woken' = [delay_woken EXCEPT ![w] = FALSE]
  /\ UNCHANGED <<thread_status, should_finish, thread_pause, call, terminated,
                 flag_runs, pause_runs, early>>

(* The sleep ends with a notification or when the delay has passed. *)
DelayOver(w) ==
  /\ ThreadAt(w, "delay")
  /\ ThreadGoto(w, "check")
  /\ UNCHANGED <<thread_status, should_finish, thread_pause, call, delay_woken,
                 terminated, flag_runs, pause_runs, early>>

Leave(w) ==
  /\ ThreadAt(w, "leaving")
  /\ SetStatus(w, "FINISHED")
  /\ ThreadGoto(w, "exited")
  /\ UNCHANGED <<should_finish, thread_pause, call, delay_woken, terminated,
                 flag_runs, pause_runs, early>>
-----------------------------------------------------------------------------
(* The owner and the other threads. *)

CallGoto(w, label) == call' = [call EXCEPT ![w] = label]
CallAt(w, label) == ~terminated /\ call[w] = label

(* start() refuses unless the status is INIT, and stores RUNNING in a step *)
(* of its own: a thread that was told to finish may end in between.        *)
Start(w) ==
  /\ CallAt(w, "new")
  /\ CallGoto(w, IF thread_status[w] = "INIT" THEN "start" ELSE "idle")
  /\ UNCHANGED <<thread_status, should_finish, thread_pause, tpc, delay_woken,
                 terminated, flag_runs, pause_runs, early>>

StartRunning(w) ==
  /\ CallAt(w, "start")
  /\ SetStatus(w, "RUNNING") /\ CallGoto(w, "idle")
  /\ UNCHANGED <<should_finish, thread_pause, tpc, delay_woken, terminated,
                 flag_runs, pause_runs, early>>

Pause(w) ==
  /\ ~terminated /\ call[w] # "gone"
  /\ thread_pause' = [thread_pause EXCEPT ![w] = TRUE]
  /\ UNCHANGED <<thread_status, should_finish, tpc, call, delay_woken,
                 terminated, flag_runs, pause_runs, early>>

ClearPause(w) ==
  /\ thread_pause' = [thread_pause EXCEPT ![w] = FALSE]
  /\ pause_runs' = [pause_runs EXCEPT ![w] = 0]

Unpause(w) ==
  /\ ~terminated /\ call[w] # "gone"
  /\ ClearPause(w)
  /\ UNCHANGED <<thread_status, should_finish, tpc, call, delay_woken,
                 terminated, flag_runs, early>>

(* set_thread_should_finish: set the flag, then notify delay_cv.  The CV's *)
(* mutex is not taken: a notification reaches a thread already asleep only. *)
RaiseFlag(w) == should_finish' = [should_finish EXCEPT ![w] = TRUE]
NotifyDelay(w) ==
  delay_woken' = [delay_woken EXCEPT ![w] = @ \/ tpc[w] = "delay"]

(* Also possible before start(): the thread then leaves its first wait.    *)
SetShouldFinish(w) ==
  /\ \/ CallAt(w, "idle") /\ CallGoto(w, "notify") /\ UNCHANGED early
     \/ CallAt(w, "new") /\ CallGoto(w, "new_notify") /\ early' = [early EXCEPT ![w] = TRUE]
  /\ RaiseFlag(w)
  /\ UNCHANGED <<thread_status, thread_pause, tpc, delay_woken, terminated,
                 flag_runs, pause_runs>>

SetShouldFinishNotify(w) ==
  /\ \/ CallAt(w, "notify") /\ CallGoto(w, "idle")
     \/ CallAt(w, "new_notify") /\ CallGoto(w, "new")
  /\ NotifyDelay(w)
  /\ UNCHANGED <<thread_status, should_finish, thread_pause, tpc, terminated,
                 flag_runs, pause_runs, early>>

(* finish(), also called by the destructor: in INIT it skips the join.  A  *)
(* std::thread stays joinable until it is joined, so a FINISHED thread is  *)
(* joined as well.                                                         *)
FinishEnter(w) ==
  /\ CallAt(w, "new") \/ CallAt(w, "idle")
  /\ CallGoto(w, IF thread_status[w] = "INIT" THEN "drop" ELSE "flag")
  /\ UNCHANGED <<thread_status, should_finish, thread_pause, tpc, delay_woken,
                 terminated, flag_runs, pause_runs, early>>

FinishFlag(w) ==
  /\ CallAt(w, "flag")
  /\ RaiseFlag(w) /\ CallGoto(w, "flag_notify")
  /\ UNCHANGED <<thread_status, thread_pause, tpc, delay_woken, terminated,
                 flag_runs, pause_runs, early>>

FinishNotify(w) ==
  /\ CallAt(w, "flag_notify")
  /\ NotifyDelay(w) /\ CallGoto(w, "unpause")
  /\ UNCHANGED <<thread_status, should_finish, thread_pause, tpc, terminated,
                 flag_runs, pause_runs, early>>

\* Mutation: finish() does not unpause the thread.
FinishUnpause_missing(w) ==
  /\ CallAt(w, "unpause")
  /\ CallGoto(w, "join")
  /\ UNCHANGED <<thread_status, should_finish, thread_pause, tpc, delay_woken,
                 terminated, flag_runs, pause_runs, early>>

FinishUnpause(w) ==
  /\ CallAt(w, "unpause")
  /\ ClearPause(w) /\ CallGoto(w, "join")
  /\ UNCHANGED <<thread_status, should_finish, tpc, delay_woken, terminated,
                 flag_runs, early>>

\* Mutation: the thread is detached instead of joined.
FinishJoin_detach(w) ==
  /\ CallAt(w, "join")
  /\ SetStatus(w, "FINISHED") /\ CallGoto(w, "gone")
  /\ UNCHANGED <<should_finish, thread_pause, tpc, delay_woken, terminated,
                 flag_runs, pause_runs, early>>

FinishJoin(w) ==
  /\ CallAt(w, "join")
  /\ tpc[w] = "exited"
  /\ SetStatus(w, "FINISHED") /\ CallGoto(w, "gone")
  /\ UNCHANGED <<should_finish, thread_pause, tpc, delay_woken, terminated,
                 flag_runs, pause_runs, early>>

(* thread_obj = nullptr without a join: the std::thread is still joinable, *)
(* its destructor calls std::terminate.                                    *)
FinishUnstarted(w) ==
  /\ CallAt(w, "drop")
  /\ terminated' = TRUE
  /\ UNCHANGED <<thread_status, should_finish, thread_pause, tpc, call,
                 delay_woken, flag_runs, pause_runs, early>>
-----------------------------------------------------------------------------
(* The steps of _thread_run outside run(). *)
ThreadStep(w) ==
  \/ LeaveInit(w) \/ LoopCheck(w) \/ PauseCheck(w) \/ PauseLeave(w)
  \/ RunBegin(w) \/ AfterRun(w) \/ FallAsleep(w) \/ DelayOver(w) \/ Leave(w)

(* The steps of a finish() that has been entered. *)
FinishStep(w) ==
  \/ FinishFlag(w) \/ FinishNotify(w) \/ FinishUnpause(w)
  \/ FinishJoin(w) \/ FinishUnstarted(w)

ThreadNext ==
  \E w \in Workers :
    \/ ThreadStep(w) \/ RunReturn(w)
    \/ Start(w) \/ StartRunning(w) \/ Pause(w) \/ Unpause(w)
    \/ SetShouldFinish(w) \/ SetShouldFinishNotify(w)
    \/ FinishEnter(w) \/ FinishStep(w)

(* The OS schedules every thread, waits time out, and run() returns. *)
ThreadFairness ==
  \A w \in Workers :
    /\ WF_threadVars(ThreadStep(w)) /\ WF_threadVars(RunReturn(w))
    /\ WF_threadVars(FinishStep(w))

ThreadSpec == ThreadInit /\ [][ThreadNext]_threadVars /\ ThreadFairness
-----------------------------------------------------------------------------
(* get_thread_status() tells where the thread is: PAUSED exactly while it  *)
(* is halted, FINISHED only once it has left run() for the last time, INIT *)
(* while it waits for start().  A thread that was told to finish before    *)
(* start() leaves that wait, and a start() that comes too late says        *)
(* RUNNING of a thread that has ended.                                     *)
StatusIsTruthful ==
  \A w \in Workers :
    /\ thread_status[w] = "PAUSED" <=> tpc[w] = "paused"
    /\ thread_status[w] = "FINISHED" => tpc[w] = "exited"
    /\ tpc[w] = "exited" =>
         thread_status[w] = "FINISHED" \/ (early[w] /\ thread_status[w] = "RUNNING")
    /\ thread_status[w] = "INIT" =>
         tpc[w] = "init" \/ (early[w] /\ tpc[w] \in {"check", "leaving"})

(* thread_base.hpp: the thread finishes "after the current or next run()   *)
(* call has returned": no second run() begins once the flag is set, even   *)
(* when the thread is paused or asleep at that moment.                     *)
AtMostOneMoreRun == \A w \in Workers : flag_runs[w] <= 1

(* pause() takes effect before the second next run() call, however it      *)
(* falls between the steps of the loop.                                    *)
PauseHaltsRuns == \A w \in Workers : pause_runs[w] <= 1

(* Both flags are obeyed within one run().                                 *)
FlagsTakeEffect == AtMostOneMoreRun /\ PauseHaltsRuns

(* finish() takes back a pause that was made before it, and returns unless *)
(* some thread pauses the thread again after that, or the process is       *)
(* terminated; a lost notification does not stop it.                       *)
FinishReturns ==
  \A w \in Workers :
    /\ (call[w] = "flag") ~> (~thread_pause[w] \/ terminated)
    /\ <>[](~thread_pause[w]) =>
         (call[w] \in {"flag", "join"} ~> call[w] = "gone" \/ terminated)
=============================================================================
