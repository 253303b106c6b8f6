----------------------- MODULE CompletionHandlerProofs -----------------------
(***************************************************************************)
(* Proofs about CompletionHandler: for every number of workers and         *)
(* commands, each added command is picked up by exactly one worker, and    *)
(* nothing is left inside run() when the handler has been destroyed.       *)
(***************************************************************************)
EXTENDS CompletionHandler, ThreadBaseProofs, SequenceTheorems, FiniteSetTheorems

HandlerTypes ==
  /\ handler \in {"live", "flag", "finish", "gone"}
  /\ adding \in [Cmds -> {"new", "emplaced", "added"}]
  /\ work_queue \in Seq(Cmds)
  /\ rpc \in [Workers -> {"none", "cv", "complete", "again"}]
  /\ cv_woken \in [Workers -> BOOLEAN]
  /\ cmd \in [Workers -> Cmds \cup {NoCmd}]
  /\ outcome \in [Cmds -> {"none", "completed", "failed"}]
  /\ picked \in Seq(Cmds)

(* The position inside run() agrees with the thread's position, and a      *)
(* worker holds a command exactly while it completes it.                   *)
WorkerInv(w) ==
  /\ rpc[w] # "none" <=> tpc[w] = "run"
  /\ rpc[w] = "complete" <=> cmd[w] # NoCmd

(* The destructor ends after the last finish(). *)
GoneInv == handler = "gone" => \A w \in Workers : call[w] = "gone"

(* Commands in the order of add_cmd_completion, and those picked up. *)
Seen == picked \o work_queue
Taken == {picked[i] : i \in 1 .. Len(picked)}

SeenInv ==
  /\ \A i, j \in 1 .. Len(Seen) : Seen[i] = Seen[j] => i = j
  /\ {Seen[i] : i \in 1 .. Len(Seen)} = {c \in Cmds : adding[c] # "new"}

(* A taken command is with one worker until it has an outcome. *)
HeldInv ==
  /\ \A w \in Workers :
       cmd[w] # NoCmd => cmd[w] \in Taken /\ outcome[cmd[w]] = "none"
  /\ \A v, w \in Workers : cmd[v] # NoCmd /\ cmd[v] = cmd[w] => v = w
  /\ \A c \in Taken : outcome[c] = "none" => \E w \in Workers : cmd[w] = c
  /\ \A c \in Cmds : outcome[c] # "none" => c \in Taken

HInv ==
  /\ HandlerTypes
  /\ \A w \in Workers : WorkerInv(w)
  /\ GoneInv /\ SeenInv /\ HeldInv

CInv == IInv /\ HInv
-----------------------------------------------------------------------------
(* Sequences: picking up a command moves the border between the picked and *)
(* the queued commands; adding one extends the whole.                      *)
LEMMA MoveBorder ==
  ASSUME NEW S, NEW p \in Seq(S), NEW q \in Seq(S), q # <<>>
  PROVE  Append(p, Head(q)) \o Tail(q) = p \o q
<1>1. Head(q) \in S /\ Tail(q) \in Seq(S)
  BY HeadTailProperties
<1>2. <<Head(q)>> \in Seq(S) /\ q = <<Head(q)>> \o Tail(q)
  BY <1>1
<1>3. Append(p, Head(q)) = p \o <<Head(q)>>
  BY <1>1, AppendIsConcat
<1>4. (p \o <<Head(q)>>) \o Tail(q) = p \o (<<Head(q)>> \o Tail(q))
  BY <1>1, <1>2, ConcatAssociative
<1> QED
  BY <1>2, <1>3, <1>4

LEMMA AddAtEnd ==
  ASSUME NEW S, NEW p \in Seq(S), NEW q \in Seq(S), NEW c \in S
  PROVE  p \o Append(q, c) = Append(p \o q, c)
<1>1. <<c>> \in Seq(S) /\ p \o q \in Seq(S)
  BY ConcatProperties
<1>2. Append(q, c) = q \o <<c>> /\ Append(p \o q, c) = (p \o q) \o <<c>>
  BY <1>1, AppendIsConcat
<1> QED
  BY <1>1, <1>2, ConcatAssociative

LEMMA RangeOfAppend ==
  ASSUME NEW S, NEW s \in Seq(S), NEW c \in S
  PROVE  {Append(s, c)[i] : i \in 1 .. Len(Append(s, c))}
           = {s[i] : i \in 1 .. Len(s)} \cup {c}
<1> DEFINE a == Append(s, c)
<1>1. /\ Len(s) \in Nat /\ Len(a) = Len(s) + 1
      /\ \A i \in 1 .. Len(s) : a[i] = s[i]
      /\ a[Len(s) + 1] = c
  BY AppendProperties, LenProperties
<1> HIDE DEF a
<1>2. 1 .. Len(a) = 1 .. Len(s) \cup {Len(s) + 1}
  BY <1>1
<1>3. {a[i] : i \in 1 .. Len(a)} = {s[i] : i \in 1 .. Len(s)} \cup {c}
  BY <1>1, <1>2
<1> QED
  BY <1>3 DEF a
-----------------------------------------------------------------------------
LEMMA InitCInv == Init => CInv
<1> SUFFICES ASSUME Init PROVE CInv
  OBVIOUS
<1>1. IInv
  BY InitIInv DEF Init
<1>2. HandlerTypes
  BY DEF Init, HandlerTypes
<1>3. \A w \in Workers : WorkerInv(w)
  BY DEF Init, ThreadInit, WorkerInv
<1>4. GoneInv
  BY DEF Init, GoneInv
<1>5. Seen = <<>> /\ Taken = {}
  BY DEF Init, Seen, Taken
<1>6. SeenInv
  BY <1>5 DEF Init, SeenInv
<1>7. HeldInv
  BY <1>5 DEF Init, HeldInv
<1> QED
  BY <1>1, <1>2, <1>3, <1>4, <1>6, <1>7 DEF CInv, HInv

(* What a step does to the thread objects is a step of ThreadBase. *)
LEMMA ThreadPart == [Next]_vars => [ThreadNext]_threadVars
<1> SUFFICES ASSUME [Next]_vars PROVE [ThreadNext]_threadVars
  OBVIOUS
<1>1. ASSUME NEW c \in Cmds, AddEmplace(c) \/ AddNotify(c)
      PROVE  UNCHANGED threadVars
  BY <1>1 DEF AddEmplace, AddNotify
<1>2. ASSUME NEW w \in Workers, StartThread(w) \/ Outside(w) \/ EnterRun(w)
      PROVE  ThreadNext
  BY <1>2 DEF StartThread, Outside, EnterRun, ThreadNext, ThreadStep
<1>3. ASSUME NEW w \in Workers, WaitNotified(w) \/ WaitTimedOut(w) \/ TryAgain(w)
      PROVE  [ThreadNext]_threadVars
  BY <1>3 DEF WaitNotified, WaitTimedOut, TryAgain, TakeWork, NoWork, ThreadNext
<1>4. ASSUME NEW w \in Workers, CompleteOk(w) \/ CompleteThrows(w)
      PROVE  [ThreadNext]_threadVars
  BY <1>4 DEF CompleteOk, CompleteThrows, ThreadNext
<1>5. ASSUME DtorBegin \/ DtorNotifyAll \/ DtorEnd
      PROVE  UNCHANGED threadVars
  BY <1>5 DEF DtorBegin, DtorNotifyAll, DtorEnd
<1>6. ASSUME NEW w \in Workers, DtorFlag(w) \/ DtorFinish(w)
      PROVE  ThreadNext
  BY <1>6 DEF DtorFlag, DtorFinish, ThreadNext, FinishStep
<1>7. CASE UNCHANGED vars
  BY <1>7 DEF vars
<1> QED
  BY <1>1, <1>2, <1>3, <1>4, <1>5, <1>6, <1>7 DEF Next, WorkerStep, DtorStep
-----------------------------------------------------------------------------
(* A step of the thread objects outside run() keeps the handler's part. *)
LEMMA OutsideHInv ==
  ASSUME HInv, UNCHANGED completionVars,
         \A w \in Workers : tpc'[w] = "run" <=> tpc[w] = "run",
         \A w \in Workers : call[w] = "gone" => call'[w] = "gone"
  PROVE  HInv'
<1>1. HandlerTypes'
  BY DEF HInv, HandlerTypes, completionVars
<1>2. \A w \in Workers : WorkerInv(w)'
  BY DEF HInv, WorkerInv, completionVars
<1>3. GoneInv'
  BY DEF HInv, GoneInv, completionVars
<1>4. Seen' = Seen /\ Taken' = Taken
  BY DEF Seen, Taken, completionVars
<1>5. SeenInv' /\ HeldInv'
  BY <1>4 DEF HInv, SeenInv, HeldInv, completionVars
<1> QED
  BY <1>1, <1>2, <1>3, <1>5 DEF HInv

LEMMA AddEmplaceHInv ==
  ASSUME CInv, NEW c \in Cmds, AddEmplace(c)
  PROVE  HInv'
<1> USE DEF AddEmplace, CInv, HInv
<1>1. HandlerTypes'
  BY AppendProperties DEF HandlerTypes
<1>2. (\A w \in Workers : WorkerInv(w)') /\ GoneInv'
  BY DEF WorkerInv, GoneInv, threadVars
<1>3. Taken' = Taken /\ Seen \in Seq(Cmds) /\ Seen' = Append(Seen, c)
  BY AddAtEnd, ConcatProperties DEF Taken, Seen, HandlerTypes
<1>4. HeldInv'
  BY <1>3 DEF HeldInv
<1>5. SeenInv'
  <2>1. c \notin {Seen[i] : i \in 1 .. Len(Seen)}
    BY DEF SeenInv
  <2>2. {Seen'[i] : i \in 1 .. Len(Seen')} = {Seen[i] : i \in 1 .. Len(Seen)} \cup {c}
    BY <1>3, RangeOfAppend
  <2>3. {Seen[i] : i \in 1 .. Len(Seen)} \cup {c} = {d \in Cmds : adding'[d] # "new"}
    BY DEF SeenInv, HandlerTypes
  <2>4. /\ Len(Seen) \in Nat /\ Len(Seen') = Len(Seen) + 1
        /\ \A i \in 1 .. Len(Seen) : Seen'[i] = Seen[i]
        /\ Seen'[Len(Seen) + 1] = c
    BY <1>3, AppendProperties, LenProperties
  <2>5. \A i, j \in 1 .. Len(Seen') : Seen'[i] = Seen'[j] => i = j
    BY <2>1, <2>4 DEF SeenInv
  <2> QED
    BY <2>2, <2>3, <2>5 DEF SeenInv
<1> QED
  BY <1>1, <1>2, <1>4, <1>5

(* get_work: the command at the head of the queue is with no other worker. *)
LEMMA TakeWorkHInv ==
  ASSUME CInv, NEW w \in Workers, TakeWork(w), rpc[w] \in {"cv", "again"},
         UNCHANGED <<handler, adding, cv_woken, outcome>>
  PROVE  HInv'
<1> DEFINE c == Head(work_queue)
<1> USE DEF CInv, HInv
<1>0. c \in Cmds /\ Tail(work_queue) \in Seq(Cmds)
  BY HeadTailProperties DEF TakeWork, HandlerTypes
<1>1. HandlerTypes'
  BY <1>0, AppendProperties DEF TakeWork, RunGoto, HandlerTypes
<1>2. \A v \in Workers : WorkerInv(v)'
  BY <1>0, CompletionAssumption
     DEF TakeWork, RunGoto, WorkerInv, HandlerTypes, threadVars
<1>3. GoneInv'
  BY DEF TakeWork, GoneInv, threadVars
<1>4. Seen' = Seen
  BY MoveBorder DEF Seen, TakeWork, HandlerTypes
<1>5. SeenInv'
  BY <1>4 DEF SeenInv
<1>6. Taken' = Taken \cup {c}
  <2>1. picked' = Append(picked, c) /\ picked \in Seq(Cmds)
    BY DEF TakeWork, HandlerTypes
  <2> HIDE DEF c
  <2> QED
    BY <1>0, <2>1, RangeOfAppend DEF Taken
<1>7. c \notin Taken
  <2>1. /\ Len(picked) \in Nat /\ Len(work_queue) \in Nat \ {0}
        /\ Len(Seen) = Len(picked) + Len(work_queue)
        /\ \A i \in 1 .. Len(picked) : Seen[i] = picked[i]
        /\ Seen[Len(picked) + 1] = work_queue[1]
    BY ConcatProperties, LenProperties, EmptySeq DEF Seen, TakeWork, HandlerTypes
  <2>2. c = work_queue[1]
    BY DEF HandlerTypes
  <2> HIDE DEF c
  <2>3. SUFFICES ASSUME NEW i \in 1 .. Len(picked), picked[i] = c PROVE FALSE
    BY DEF Taken
  <2>4. Seen[i] = Seen[Len(picked) + 1] /\ i # Len(picked) + 1
    BY <2>1, <2>2, <2>3
  <2> QED
    BY <2>1, <2>4 DEF SeenInv
<1>8. cmd[w] = NoCmd /\ cmd' = [cmd EXCEPT ![w] = c] /\ outcome' = outcome
  BY DEF TakeWork, WorkerInv
<1>9. HeldInv'
  <2> HIDE DEF c
  <2>1. outcome[c] = "none"
    BY <1>0, <1>7 DEF HeldInv
  <2>2. \A v \in Workers : cmd'[v] # NoCmd => cmd'[v] \in Taken' /\ outcome'[cmd'[v]] = "none"
    BY <2>1, <1>6, <1>8 DEF HeldInv, HandlerTypes
  <2>3. \A u, v \in Workers : cmd'[v] # NoCmd /\ cmd'[v] = cmd'[u] => v = u
    BY <1>7, <1>8 DEF HeldInv, HandlerTypes
  <2>4. \A d \in Taken' : outcome'[d] = "none" => \E v \in Workers : cmd'[v] = d
    <3> SUFFICES ASSUME NEW d \in Taken', outcome'[d] = "none"
                 PROVE  \E v \in Workers : cmd'[v] = d
      OBVIOUS
    <3>1. CASE d = c
      BY <3>1, <1>8 DEF HandlerTypes
    <3>2. CASE d \in Taken /\ d # c
      <4>1. PICK v \in Workers : cmd[v] = d
        BY <3>2, <1>8 DEF HeldInv
      <4>2. v # w
        BY <4>1, <3>2, <1>8, CompletionAssumption DEF Taken, HandlerTypes
      <4> QED
        BY <4>1, <4>2, <1>8 DEF HandlerTypes
    <3> QED
      BY <3>1, <3>2, <1>6
  <2>5. \A d \in Cmds : outcome'[d] # "none" => d \in Taken'
    BY <1>6, <1>8 DEF HeldInv
  <2> QED
    BY <2>2, <2>3, <2>4, <2>5 DEF HeldInv
<1> QED
  BY <1>1, <1>2, <1>3, <1>5, <1>9

LEMMA NoWorkHInv ==
  ASSUME CInv, NEW w \in Workers, NoWork(w), rpc[w] \in {"cv", "again"},
         UNCHANGED <<handler, adding, cv_woken, outcome>>
  PROVE  HInv'
<1> USE DEF CInv, HInv, NoWork, RunReturn, ThreadAt, ThreadGoto, RunGoto, queueVars
<1>1. HandlerTypes'
  BY DEF HandlerTypes
<1>2. \A v \in Workers : WorkerInv(v)'
  BY DEF WorkerInv, HandlerTypes, IInv, ThreadTypeOK
<1>3. GoneInv'
  BY DEF GoneInv
<1>4. Seen' = Seen /\ Taken' = Taken
  BY DEF Seen, Taken
<1>5. SeenInv' /\ HeldInv'
  BY <1>4 DEF SeenInv, HeldInv
<1> QED
  BY <1>1, <1>2, <1>3, <1>5

(* A command ends, with or without an exception: its worker drops it. *)
LEMMA CompleteHInv ==
  ASSUME CInv, NEW w \in Workers, CompleteOk(w) \/ CompleteThrows(w)
  PROVE  HInv'
<1> USE DEF CInv, HInv
<1>0. PICK result \in {"completed", "failed"} :
        /\ outcome' = [outcome EXCEPT ![cmd[w]] = result]
        /\ cmd' = [cmd EXCEPT ![w] = NoCmd]
        /\ UNCHANGED <<handler, adding, work_queue, cv_woken, picked>>
  BY DEF CompleteOk, CompleteThrows
<1>1. HandlerTypes'
  BY <1>0 DEF HandlerTypes, CompleteOk, CompleteThrows, RunGoto
<1>2. \A v \in Workers : WorkerInv(v)'
  BY <1>0 DEF WorkerInv, HandlerTypes, CompleteOk, CompleteThrows, RunGoto, InRun,
              RunReturn, ThreadGoto, threadVars, IInv, ThreadTypeOK
<1>3. GoneInv'
  BY <1>0 DEF GoneInv, CompleteOk, CompleteThrows, RunReturn, threadVars
<1>4. Seen' = Seen /\ Taken' = Taken
  BY <1>0 DEF Seen, Taken
<1>5. SeenInv'
  BY <1>0, <1>4 DEF SeenInv
<1>6. cmd[w] # NoCmd /\ cmd[w] \in Taken
  BY DEF WorkerInv, CompleteOk, CompleteThrows, InRun, HeldInv
<1>7. HeldInv'
  BY <1>0, <1>4, <1>6 DEF HeldInv, HandlerTypes
<1> QED
  BY <1>1, <1>2, <1>3, <1>5, <1>7

(* The handler's own steps leave workers, queue and commands alone. *)
LEMMA ControlHInv ==
  ASSUME CInv, UNCHANGED <<threadVars, work_queue, rpc, cmd, outcome, picked>>,
         handler' \in {"live", "flag", "finish", "gone"},
         handler' = "gone" => \A w \in Workers : call[w] = "gone",
         adding' \in [Cmds -> {"new", "emplaced", "added"}],
         \A c \in Cmds : adding'[c] = "new" <=> adding[c] = "new",
         cv_woken' \in [Workers -> BOOLEAN]
  PROVE  HInv'
<1> USE DEF CInv, HInv
<1>1. HandlerTypes'
  BY DEF HandlerTypes
<1>2. (\A w \in Workers : WorkerInv(w)') /\ GoneInv'
  BY DEF WorkerInv, GoneInv, threadVars
<1>3. Seen' = Seen /\ Taken' = Taken
  BY DEF Seen, Taken
<1>4. SeenInv' /\ HeldInv'
  BY <1>3 DEF SeenInv, HeldInv
<1> QED
  BY <1>1, <1>2, <1>4

LEMMA NextHInv == CInv /\ [Next]_vars => HInv'
<1> SUFFICES ASSUME CInv, [Next]_vars PROVE HInv'
  OBVIOUS
<1>1. ASSUME NEW c \in Cmds, AddNotify(c) PROVE HInv'
  <2>1. cv_woken' \in [Workers -> BOOLEAN]
    BY <1>1 DEF AddNotify, Waiting, CInv, HInv, HandlerTypes
  <2> QED
    BY <1>1, <2>1, ControlHInv
       DEF AddNotify, CInv, HInv, HandlerTypes, GoneInv, threadVars
<1>2. ASSUME NEW w \in Workers, EnterRun(w) PROVE HInv'
  <2> USE <1>2 DEF CInv, HInv, EnterRun, RunBegin, ThreadAt, ThreadGoto, RunGoto
  <2>1. HandlerTypes'
    BY DEF HandlerTypes
  <2>2. \A v \in Workers : WorkerInv(v)'
    BY DEF WorkerInv, HandlerTypes, IInv, ThreadTypeOK
  <2>3. GoneInv' /\ Seen' = Seen /\ Taken' = Taken
    BY DEF GoneInv, Seen, Taken
  <2>4. SeenInv' /\ HeldInv'
    BY <2>3 DEF SeenInv, HeldInv
  <2> QED
    BY <2>1, <2>2, <2>3, <2>4
<1>3. ASSUME NEW w \in Workers, WaitNotified(w) \/ WaitTimedOut(w) \/ TryAgain(w)
      PROVE  HInv'
  BY <1>3, TakeWorkHInv, NoWorkHInv DEF WaitNotified, WaitTimedOut, TryAgain, InRun
<1>4. ASSUME NEW w \in Workers, Outside(w) \/ StartThread(w) PROVE HInv'
  <2>1. UNCHANGED completionVars
    BY <1>4 DEF Outside, StartThread
  <2>2. \A v \in Workers : tpc'[v] = "run" <=> tpc[v] = "run"
    BY <1>4 DEF Outside, StartThread, LeaveInit, LoopCheck, PauseCheck, AfterRun,
                Leave, Start, StartRunning, ThreadAt, ThreadGoto, CInv, IInv, ThreadTypeOK
  <2>3. \A v \in Workers : call[v] = "gone" => call'[v] = "gone"
    BY <1>4 DEF Outside, StartThread, LeaveInit, LoopCheck, PauseCheck, AfterRun,
                Leave, Start, StartRunning, CallAt, CallGoto, CInv, IInv, ThreadTypeOK
  <2> QED
    BY <2>1, <2>2, <2>3, OutsideHInv DEF CInv
<1>5. ASSUME NEW w \in Workers, DtorFlag(w) \/ DtorFinish(w) PROVE HInv'
  <2>1. UNCHANGED completionVars /\ tpc' = tpc
    BY <1>5 DEF DtorFlag, DtorFinish, SetShouldFinish, SetShouldFinishNotify,
                FinishEnter, FinishFlag, FinishNotify, FinishUnpause, FinishJoin
  <2>2. \A v \in Workers : call[v] = "gone" => call'[v] = "gone"
    BY <1>5 DEF DtorFlag, DtorFinish, SetShouldFinish, SetShouldFinishNotify,
                FinishEnter, FinishFlag, FinishNotify, FinishUnpause, FinishJoin,
                CallAt, CallGoto, CInv, IInv, ThreadTypeOK
  <2> QED
    BY <2>1, <2>2, OutsideHInv DEF CInv
<1>6. CASE DtorBegin
  BY <1>6, ControlHInv DEF DtorBegin, CInv, HInv, HandlerTypes
<1>7. CASE DtorNotifyAll
  <2>1. cv_woken' \in [Workers -> BOOLEAN]
    <3>1. cv_woken' = [w \in Workers |-> cv_woken[w] \/ w \in Waiting]
      BY <1>7 DEF DtorNotifyAll
    <3> QED
      BY <3>1, Zenon
  <2> QED
    BY <1>7, <2>1, ControlHInv DEF DtorNotifyAll, CInv, HInv, HandlerTypes
<1>8. CASE DtorEnd
  BY <1>8, ControlHInv DEF DtorEnd, CInv, HInv, HandlerTypes
<1>9. CASE UNCHANGED vars
  <2>1. UNCHANGED completionVars /\ tpc' = tpc /\ call' = call
    BY <1>9 DEF vars, threadVars
  <2> QED
    BY <2>1, OutsideHInv DEF CInv
<1> QED
  BY <1>1, <1>2, <1>3, <1>4, <1>5, <1>6, <1>7, <1>8, <1>9, AddEmplaceHInv, CompleteHInv
     DEF Next, WorkerStep, DtorStep

LEMMA NextCInv == CInv /\ [Next]_vars => CInv'
BY ThreadPart, NextIInv, NextHInv DEF CInv

THEOREM HandlerInvariantHolds == Spec => []CInv
<1> QED BY InitCInv, NextCInv, PTL DEF Spec

(* Every variable of the handler and of its threads keeps its type. *)
THEOREM HandlerTypesAreKept == Spec => []TypeOK
<1>1. CInv => TypeOK
  BY DEF CInv, IInv, HInv, HandlerTypes, TypeOK
<1> QED BY <1>1, HandlerInvariantHolds, PTL

(* When the destructor has returned no worker is inside run() or holds a   *)
(* command, for every number of workers: nothing uses the freed queue.     *)
THEOREM DestructionIsQuiet == Spec => []DestroyedIsQuiet
<1>1. CInv => DestroyedIsQuiet
  <2> SUFFICES ASSUME CInv, handler = "gone", NEW w \in Workers
               PROVE  tpc[w] = "exited" /\ cmd[w] = NoCmd
    BY DEF DestroyedIsQuiet
  <2>1. tpc[w] = "exited"
    BY DEF CInv, IInv, ObjectInv, JoinedInv, HInv, GoneInv
  <2>2. cmd[w] = NoCmd
    BY <2>1 DEF CInv, HInv, WorkerInv
  <2> QED
    BY <2>1, <2>2
<1> QED BY <1>1, HandlerInvariantHolds, PTL

(* Every added command is queued or picked up once, and a picked command   *)
(* is with exactly one worker until it has ended.                          *)
LEMMA PickedOnceOfInvariant == CInv => EachPickedOnce
<1> SUFFICES ASSUME CInv PROVE EachPickedOnce
  OBVIOUS
<1>1. ASSUME NEW i \in 1 .. Len(picked)
      PROVE  Cardinality({w \in Workers : cmd[w] = picked[i]}) =
               IF outcome[picked[i]] = "none" THEN 1 ELSE 0
  <2> DEFINE Holders == {w \in Workers : cmd[w] = picked[i]}
  <2>1. picked[i] \in Taken /\ picked[i] \in Cmds /\ picked[i] # NoCmd
    BY ElementOfSeq, CompletionAssumption DEF Taken, CInv, HInv, HandlerTypes
  <2>2. CASE outcome[picked[i]] = "none"
    <3>1. PICK w \in Workers : cmd[w] = picked[i]
      BY <2>1, <2>2 DEF CInv, HInv, HeldInv
    <3>2. Holders = {w}
      BY <3>1, <2>1 DEF CInv, HInv, HeldInv
    <3> QED
      BY <2>2, <3>2, FS_Singleton
  <2>3. CASE outcome[picked[i]] # "none"
    <3>1. Holders = {}
      BY <2>1, <2>3 DEF CInv, HInv, HeldInv
    <3> QED
      BY <2>3, <3>1, FS_EmptySet
  <2> QED
    BY <2>2, <2>3
<1> QED
  BY <1>1 DEF EachPickedOnce, CInv, HInv, SeenInv, Seen

THEOREM CommandsArePickedOnce == Spec => []EachPickedOnce
BY PickedOnceOfInvariant, HandlerInvariantHolds, PTL
=============================================================================
