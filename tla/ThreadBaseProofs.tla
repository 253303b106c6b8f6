-------------------------- MODULE ThreadBaseProofs --------------------------
(***************************************************************************)
(* Proofs about ThreadBase: for every set of thread objects, with and      *)
(* without a delay, the status is truthful, and the finish and pause flags *)
(* take effect within one run().                                           *)
(***************************************************************************)
EXTENDS ThreadBase, TLAPS

(* The owner has not called start(): it is the only case of status INIT,   *)
(* unless the thread was told to finish before and has ended.              *)
UnstartedInv(w) ==
  /\ thread_status[w] = "INIT" => call[w] \in {"new", "new_notify", "start", "drop"}
  /\ call[w] \in {"new", "new_notify", "start", "drop"} =>
       thread_status[w] = "INIT" \/ (early[w] /\ thread_status[w] = "FINISHED")
  /\ early[w] => should_finish[w]
  /\ should_finish[w] => early[w] \/ thread_status[w] # "INIT"

(* What the status says about the place of the OS thread. *)
StatusInv(w) ==
  /\ thread_status[w] = "PAUSED" <=> tpc[w] = "paused"
  /\ thread_status[w] = "FINISHED" => tpc[w] = "exited"
  /\ tpc[w] = "exited" =>
       thread_status[w] = "FINISHED" \/ (early[w] /\ thread_status[w] = "RUNNING")
  /\ thread_status[w] = "INIT" =>
       tpc[w] = "init" \/ (early[w] /\ tpc[w] \in {"check", "leaving"})

(* The join is what makes a returned finish() final. *)
JoinedInv(w) == call[w] = "gone" => tpc[w] = "exited"

(* A run counted since the flag was set has the loop condition, not the    *)
(* next run, ahead of it.                                                  *)
FlagRunsInv(w) ==
  \/ flag_runs[w] = 0
  \/ /\ flag_runs[w] = 1 /\ should_finish[w]
     /\ tpc[w] \in {"run", "after", "check", "leaving", "exited"}

(* A run counted since pause() has the check of thread_pause ahead of it.  *)
PauseRunsInv(w) ==
  \/ pause_runs[w] = 0
  \/ pause_runs[w] = 1 /\ thread_pause[w] /\ tpc[w] # "ready"

ObjectInv(w) ==
  /\ UnstartedInv(w) /\ StatusInv(w) /\ JoinedInv(w)
  /\ FlagRunsInv(w) /\ PauseRunsInv(w)

IInv == ThreadTypeOK /\ \A w \in Workers : ObjectInv(w)

-----------------------------------------------------------------------------
LEMMA InitIInv == ThreadInit => IInv
<1> SUFFICES ASSUME ThreadInit PROVE IInv
  OBVIOUS
<1>1. ThreadTypeOK
  <2>1. terminated \in BOOLEAN
    BY Zenon DEF ThreadInit
  <2> QED
    BY <2>1 DEF ThreadInit, ThreadTypeOK, Status, ThreadPoints, CallPoints, MaxRuns
<1>2. ASSUME NEW w \in Workers PROVE ObjectInv(w)
  BY DEF ThreadInit, ObjectInv, UnstartedInv, StatusInv, JoinedInv, FlagRunsInv,
         PauseRunsInv
<1> QED
  BY <1>1, <1>2 DEF IInv

(* Every action of a thread object, its owner or a third thread keeps the  *)
(* invariant of that object and does not touch the others.                 *)
LEMMA ActionIInv ==
  ASSUME IInv, NEW w \in Workers
  PROVE  /\ ThreadStep(w) => IInv'
         /\ RunReturn(w) => IInv'
         /\ Start(w) \/ StartRunning(w) \/ Pause(w) \/ Unpause(w) => IInv'
         /\ SetShouldFinish(w) \/ SetShouldFinishNotify(w) => IInv'
         /\ FinishEnter(w) \/ FinishStep(w) => IInv'
<1> USE DEF IInv, ThreadTypeOK, Status, ThreadPoints, CallPoints, MaxRuns,
         ObjectInv, UnstartedInv, StatusInv, JoinedInv, FlagRunsInv, PauseRunsInv
<1>1. ASSUME LeaveInit(w) PROVE IInv'
  BY <1>1 DEF LeaveInit, ThreadAt, ThreadGoto
<1>2. ASSUME LoopCheck(w) PROVE IInv'
  BY <1>2 DEF LoopCheck, ThreadAt, ThreadGoto
<1>3. ASSUME PauseCheck(w) PROVE IInv'
  BY <1>3 DEF PauseCheck, ThreadAt, ThreadGoto, SetStatus
<1>4. ASSUME PauseLeave(w) PROVE IInv'
  BY <1>4 DEF PauseLeave, ThreadAt, ThreadGoto, SetStatus
<1>5. ASSUME RunBegin(w) PROVE IInv'
  BY <1>5 DEF RunBegin, ThreadAt, ThreadGoto, Capped
<1>6. ASSUME AfterRun(w) PROVE IInv'
  BY <1>6 DEF AfterRun, ThreadAt, ThreadGoto
<1>7. ASSUME FallAsleep(w) PROVE IInv'
  BY <1>7 DEF FallAsleep, ThreadAt, ThreadGoto
<1>8. ASSUME DelayOver(w) PROVE IInv'
  BY <1>8 DEF DelayOver, ThreadAt, ThreadGoto
<1>9. ASSUME Leave(w) PROVE IInv'
  BY <1>9 DEF Leave, ThreadAt, ThreadGoto, SetStatus
<1>10. ASSUME RunReturn(w) PROVE IInv'
  BY <1>10 DEF RunReturn, ThreadAt, ThreadGoto
<1>11. ASSUME Start(w) PROVE IInv'
  BY <1>11 DEF Start, CallAt, CallGoto
<1>12. ASSUME Pause(w) PROVE IInv'
  BY <1>12 DEF Pause
<1>13. ASSUME Unpause(w) PROVE IInv'
  BY <1>13 DEF Unpause, ClearPause
<1>14. ASSUME SetShouldFinish(w) PROVE IInv'
  <2>1. /\ should_finish' = [should_finish EXCEPT ![w] = TRUE]
        /\ thread_status' = thread_status /\ thread_pause' = thread_pause /\ tpc' = tpc
        /\ delay_woken' = delay_woken /\ terminated' = terminated
        /\ flag_runs' = flag_runs /\ pause_runs' = pause_runs
    BY <1>14 DEF SetShouldFinish, RaiseFlag
  <2>2. CASE call[w] = "idle" /\ call' = [call EXCEPT ![w] = "notify"] /\ early' = early
    BY <2>1, <2>2
  <2>3. CASE call[w] = "new" /\ call' = [call EXCEPT ![w] = "new_notify"]
               /\ early' = [early EXCEPT ![w] = TRUE]
    <3>1. /\ early' \in [Workers -> BOOLEAN] /\ call' \in [Workers -> CallPoints]
          /\ should_finish' \in [Workers -> BOOLEAN]
      BY <2>1, <2>3
    <3>2. ThreadTypeOK'
      BY <2>1, <3>1
    <3>3. ASSUME NEW v \in Workers PROVE ObjectInv(v)'
      <4>1. ObjectInv(v)
        OBVIOUS
      <4>2. CASE v = w
        BY <2>1, <2>3, <4>1, <4>2
      <4>3. CASE v # w
        BY <2>1, <2>3, <4>1, <4>3
      <4> QED
        BY <4>2, <4>3
    <3> QED
      BY <3>2, <3>3
  <2> QED
    BY <1>14, <2>2, <2>3 DEF SetShouldFinish, CallAt, CallGoto
<1>15. ASSUME SetShouldFinishNotify(w) PROVE IInv'
  BY <1>15 DEF SetShouldFinishNotify, CallAt, CallGoto, NotifyDelay
<1>16. ASSUME FinishEnter(w) PROVE IInv'
  BY <1>16 DEF FinishEnter, CallAt, CallGoto
<1>17. ASSUME FinishFlag(w) PROVE IInv'
  BY <1>17 DEF FinishFlag, CallAt, CallGoto, RaiseFlag
<1>18. ASSUME FinishNotify(w) PROVE IInv'
  BY <1>18 DEF FinishNotify, CallAt, CallGoto, NotifyDelay
<1>19. ASSUME FinishUnpause(w) PROVE IInv'
  BY <1>19 DEF FinishUnpause, CallAt, CallGoto, ClearPause
<1>20. ASSUME FinishJoin(w) PROVE IInv'
  BY <1>20 DEF FinishJoin, SetStatus, CallAt, CallGoto
<1>21. ASSUME StartRunning(w) PROVE IInv'
  BY <1>21 DEF StartRunning, SetStatus, CallAt, CallGoto
<1>22. ASSUME FinishUnstarted(w) PROVE IInv'
  BY <1>22 DEF FinishUnstarted, CallAt
<1> QED
  BY <1>1, <1>2, <1>3, <1>4, <1>5, <1>6, <1>7, <1>8, <1>9, <1>10, <1>11, <1>12, <1>13, <1>14, <1>15, <1>16, <1>17, <1>18, <1>19, <1>20, <1>21, <1>22
     DEF ThreadStep, FinishStep

LEMMA NextIInv == IInv /\ [ThreadNext]_threadVars => IInv'
<1> SUFFICES ASSUME IInv, [ThreadNext]_threadVars PROVE IInv'
  OBVIOUS
<1>1. CASE ThreadNext
  BY <1>1, ActionIInv DEF ThreadNext
<1>2. CASE UNCHANGED threadVars
  BY <1>2 DEF threadVars, IInv, ThreadTypeOK, Status, ThreadPoints, CallPoints, MaxRuns,
         ObjectInv, UnstartedInv, StatusInv, JoinedInv, FlagRunsInv, PauseRunsInv
<1> QED
  BY <1>1, <1>2

THEOREM InvariantHolds == ThreadSpec => []IInv
<1> QED BY InitIInv, NextIInv, PTL DEF ThreadSpec

(* Every variable keeps its type: no action leaves the counted bounds. *)
THEOREM TypesAreKept == ThreadSpec => []ThreadTypeOK
<1>1. IInv => ThreadTypeOK
  BY DEF IInv
<1> QED BY <1>1, InvariantHolds, PTL

(* get_thread_status() reports PAUSED, FINISHED and INIT truthfully, at    *)
(* every step of every thread, however set_thread_should_finish() falls    *)
(* before, into or after start().                                          *)
THEOREM StatusIsTrue == ThreadSpec => []StatusIsTruthful
<1>1. IInv => StatusIsTruthful
  BY DEF IInv, StatusIsTruthful, ObjectInv, StatusInv
<1> QED BY <1>1, InvariantHolds, PTL

(* Once the finish flag is set, run() is called at most once more.         *)
THEOREM OneMoreRun == ThreadSpec => []AtMostOneMoreRun
<1>1. IInv => AtMostOneMoreRun
  <2> SUFFICES ASSUME IInv, NEW w \in Workers PROVE flag_runs[w] <= 1
    BY DEF AtMostOneMoreRun
  <2>1. flag_runs[w] = 0 \/ flag_runs[w] = 1
    BY DEF IInv, ObjectInv, FlagRunsInv
  <2> QED
    BY <2>1
<1> QED BY <1>1, InvariantHolds, PTL

(* While thread_pause stays set, run() is called at most once more.        *)
THEOREM PauseTakesEffect == ThreadSpec => []PauseHaltsRuns
<1>1. IInv => PauseHaltsRuns
  <2> SUFFICES ASSUME IInv, NEW w \in Workers PROVE pause_runs[w] <= 1
    BY DEF PauseHaltsRuns
  <2>1. pause_runs[w] = 0 \/ pause_runs[w] = 1
    BY DEF IInv, ObjectInv, PauseRunsInv
  <2> QED
    BY <2>1
<1> QED BY <1>1, InvariantHolds, PTL

(* The finish and the pause flag are obeyed within one run().              *)
THEOREM FlagsAreObeyed == ThreadSpec => []FlagsTakeEffect
<1>1. AtMostOneMoreRun /\ PauseHaltsRuns => FlagsTakeEffect
  BY DEF FlagsTakeEffect
<1> QED BY <1>1, OneMoreRun, PauseTakesEffect, PTL
=============================================================================
