--------------------------- MODULE CommandProofs ---------------------------
(***************************************************************************)
(* Proofs about the memory leased for the arguments of Vulkan functions,   *)
(* for every set of threads, command buffers, functions and instances;     *)
(* about indirect commands, for every number of devices and commands; and  *)
(* about the local memory of the group algorithms and the results they     *)
(* return, for every size of the group, width of a sub-group and set of    *)
(* supported features.                                                     *)
(***************************************************************************)
EXTENDS GroupAlgorithms, ArgumentLeases, IndirectCommands, FiniteSetTheorems, SequenceTheorems,
        WellFoundedInduction, TLAPS

-----------------------------------------------------------------------------
(* ArgumentLeases                                                          *)

RecorderSteps == {"idle", "recording", "descriptors", "constants", "encode", "ready"}
Purposes == {"none", "kernel", "direct", "indirect"}
RecorderStates ==
  [step : RecorderSteps, purpose : Purposes, cmd_buffer : CmdBuffers \cup {NoCmdBuffer},
   target : CmdBuffers \cup {NoCmdBuffer}, call : Nat, stages : Seq(FunctionEntries),
   acquired : SUBSET Leases]

LeasesTypeOK ==
  /\ available \in [Pools -> SUBSET Instances]
  /\ written \in [Leases -> Nat]
  /\ unused \in SUBSET CmdBuffers
  /\ completion_handlers \in [CmdBuffers -> SUBSET Leases]
  /\ secondaries \in [CmdBuffers -> SUBSET CmdBuffers]
  /\ reads \in [CmdBuffers -> SUBSET [lease : Leases, call : Nat]]
  /\ recorder \in [Recorders -> RecorderStates]
  /\ submitted \in SUBSET CmdBuffers /\ executed \in SUBSET CmdBuffers
  /\ dropped \in SUBSET Leases
  /\ lease_calls \in Nat

PrimaryBuffers == Recorders \X Primaries
SecondaryBuffers == Recorders \X Secondaries

(* A thread between the begin of a call and its end                        *)
InCall(t) == recorder[t].step \in {"descriptors", "constants", "encode"}

(* What a thread does fits the step it is at: it records to a command      *)
(* buffer of its own which neither a pool nor the device has.              *)
RecorderInv(t) ==
  LET r == recorder[t] IN
  /\ r.step # "idle" =>
       /\ r.cmd_buffer \in PrimaryBuffers /\ r.cmd_buffer[1] = t
       /\ r.cmd_buffer \notin unused \cup submitted \cup executed
  /\ InCall(t) =>
       IF r.purpose = "indirect"
       THEN /\ r.target \in SecondaryBuffers /\ r.target[1] = t /\ r.target \notin unused
            /\ \A b \in CmdBuffers : r.target \notin secondaries[b]
       ELSE r.target = r.cmd_buffer
  /\ r.step \in {"descriptors", "constants"} => r.stages # <<>>
  /\ r.step = "constants" => Head(r.stages) \in WithConstants
  /\ ~InCall(t) => r.acquired = {}

(* A command buffer is unused, being recorded, with the device, or lost; a *)
(* secondary one belongs to one primary.                                   *)
BuffersInv ==
  /\ submitted \in SUBSET PrimaryBuffers /\ executed \in SUBSET PrimaryBuffers
  /\ submitted \cap executed = {} /\ unused \cap (submitted \cup executed) = {}
  /\ \A b \in CmdBuffers :
       secondaries[b] \in SUBSET SecondaryBuffers /\ secondaries[b] \cap unused = {}
  /\ \A b, c \in CmdBuffers : secondaries[b] \cap secondaries[c] # {} => b = c

(* A lease is free, dropped, acquired by one thread, or left to the        *)
(* handlers of one command buffer.                                         *)
IsFree(l) == l.index \in available[l.pool]
HeldOnce(l) ==
  /\ IsFree(l) => l \notin dropped
  /\ IsFree(l) \/ l \in dropped =>
       /\ \A t \in Recorders : l \notin recorder[t].acquired
       /\ \A b \in CmdBuffers : l \notin completion_handlers[b]
  /\ \A t, u \in Recorders : l \in recorder[t].acquired /\ l \in recorder[u].acquired => t = u
  /\ \A b, c \in CmdBuffers : l \in completion_handlers[b] /\ l \in completion_handlers[c] => b = c
  /\ \A t \in Recorders, b \in CmdBuffers :
       ~(l \in recorder[t].acquired /\ l \in completion_handlers[b])
  /\ \/ IsFree(l) \/ l \in dropped
     \/ \E t \in Recorders : l \in recorder[t].acquired
     \/ \E b \in CmdBuffers : l \in completion_handlers[b]
  /\ l \in dropped => IsConstants(l)
HoldersInv == \A l \in Leases : HeldOnce(l)

(* What a command buffer will read is where its call stored it, and its    *)
(* handlers hold that memory. Unused and executed ones read nothing more.  *)
ReadsInv ==
  /\ \A b \in CmdBuffers : \A r \in reads[b] :
       r.lease \in completion_handlers[b] /\ written[r.lease] = r.call
  /\ \A b \in unused : reads[b] = {}
  /\ \A b \in executed : \A c \in {b} \cup secondaries[b] : reads[c] = {}

LeasesInv ==
  /\ LeasesTypeOK /\ (\A t \in Recorders : RecorderInv(t))
  /\ BuffersInv /\ HoldersInv /\ ReadsInv

-----------------------------------------------------------------------------
(* Operators                                                               *)

(* FiniteSetsExt: Min is a member                                          *)
LEMMA MinIsMember ==
  ASSUME NEW S \in SUBSET Nat, S # {}
  PROVE  Min(S) \in S
<1> DEFINE R == OpToRel(<, Nat)
<1>1. \E x \in S : \A y \in S : ~(<<y, x>> \in R)
  <2>1. IsWellFoundedOn(R, Nat)
    BY NatLessThanWellFounded
  <2> HIDE DEF R
  <2> QED
    BY <2>1, WFMin
<1>2. \A x, y \in Nat : x < y => <<x, y>> \in R
  BY Zenon DEF OpToRel
<1>3. PICK x \in S : \A y \in S : ~(<<y, x>> \in R)
  BY <1>1
<1>4. \A y \in S : ~(y < x)
  <2> HIDE DEF R
  <2> QED
    BY <1>2, <1>3, Zenon
<1>5. \A y \in S : x <= y
  BY <1>4, SMT
<1> QED
  BY <1>5 DEF Min

LEMMA LeaseFields ==
  /\ \A l \in Leases : l.pool \in Pools /\ l.index \in Instances
  /\ \A p \in Pools, i \in Instances :
       LET l == [pool |-> p, index |-> i] IN l \in Leases /\ l.pool = p /\ l.index = i
  /\ \A l, m \in Leases : l.pool = m.pool /\ l.index = m.index => l = m
BY DEF Leases

(* Exactly the leases that are returned become free.                       *)
LEMMA ReturnedAreFree ==
  ASSUME LeasesTypeOK, NEW returned \in SUBSET Leases
  PROVE  /\ WithReturned(returned) \in [Pools -> SUBSET Instances]
         /\ \A l \in Leases :
              l.index \in WithReturned(returned)[l.pool] <=> IsFree(l) \/ l \in returned
<1>1. WithReturned(returned) \in [Pools -> SUBSET Instances]
  BY LeaseFields DEF LeasesTypeOK, WithReturned
<1>2. ASSUME NEW l \in Leases
      PROVE  l.index \in WithReturned(returned)[l.pool] <=> IsFree(l) \/ l \in returned
  <2>1. l.pool \in Pools
    BY LeaseFields
  <2>2. WithReturned(returned)[l.pool] =
          available[l.pool] \cup {m.index : m \in {n \in returned : n.pool = l.pool}}
    BY <2>1 DEF WithReturned
  <2>3. l.index \in {m.index : m \in {n \in returned : n.pool = l.pool}} <=> l \in returned
    BY LeaseFields
  <2> QED
    BY <2>2, <2>3 DEF IsFree
<1> QED
  BY <1>1, <1>2

LEMMA BuffersAreOfOneKind == PrimaryBuffers \cap SecondaryBuffers = {}
BY LeaseAssumption DEF PrimaryBuffers, SecondaryBuffers

LEMMA BufferKinds ==
  /\ PrimaryBuffers \subseteq CmdBuffers /\ SecondaryBuffers \subseteq CmdBuffers
  /\ NoCmdBuffer \notin PrimaryBuffers \cup SecondaryBuffers
BY LeaseAssumption DEF PrimaryBuffers, SecondaryBuffers, CmdBuffers

-----------------------------------------------------------------------------
(* The invariant is inductive                                              *)

LEMMA LeasesInitially ==
  ASSUME LeasesInit
  PROVE  LeasesInv
<1>1. LeasesTypeOK
  BY LeaseFields DEF LeasesInit, LeasesTypeOK, Idle, BetweenCalls, RecorderStates, RecorderSteps, Purposes
<1>2. ASSUME NEW t \in Recorders PROVE RecorderInv(t)
  BY DEF LeasesInit, RecorderInv, InCall, Idle, BetweenCalls
<1>3. BuffersInv
  BY DEF LeasesInit, BuffersInv
<1>4. HoldersInv
  BY LeaseFields DEF LeasesInit, HoldersInv, HeldOnce, IsFree, Idle, BetweenCalls
<1>5. ReadsInv
  BY DEF LeasesInit, ReadsInv
<1> QED
  BY <1>1, <1>2, <1>3, <1>4, <1>5 DEF LeasesInv

(* Making a command buffer gives back or drops what its handlers held.     *)
LEMMA MakingABuffer ==
  ASSUME LeasesInv, NEW b \in CmdBuffers, MakeCommandBuffer(b),
         \A t \in Recorders : recorder'[t].acquired = recorder[t].acquired,
         UNCHANGED <<written, deviceSide>>
  PROVE  /\ available' \in [Pools -> SUBSET Instances] /\ dropped' \in SUBSET Leases
         /\ completion_handlers' \in [CmdBuffers -> SUBSET Leases]
         /\ unused' = unused \ {b} /\ unused' \in SUBSET CmdBuffers
         /\ BuffersInv' /\ HoldersInv' /\ ReadsInv'
<1> USE DEF LeasesInv
<1> DEFINE back == {l \in completion_handlers[b] : ~IsConstants(l)}
           lost == {l \in completion_handlers[b] : IsConstants(l)}
<1>1. /\ b \in unused /\ unused' = unused \ {b}
      /\ available' = WithReturned(back) /\ dropped' = dropped \cup lost
      /\ completion_handlers' = [completion_handlers EXCEPT ![b] = {}]
      /\ secondaries' = secondaries /\ reads' = reads /\ written' = written
      /\ submitted' = submitted /\ executed' = executed
  BY DEF MakeCommandBuffer, deviceSide
<1>2. back \in SUBSET Leases /\ lost \in SUBSET Leases
  BY DEF LeasesTypeOK
<1>3. /\ available' \in [Pools -> SUBSET Instances] /\ dropped' \in SUBSET Leases
      /\ completion_handlers' \in [CmdBuffers -> SUBSET Leases]
      /\ unused' \in SUBSET CmdBuffers
  BY <1>1, <1>2, ReturnedAreFree DEF LeasesTypeOK
<1>4. BuffersInv'
  BY <1>1 DEF BuffersInv
<1>5. ASSUME NEW l \in Leases PROVE HeldOnce(l)'
  <2>1. IsFree(l)' <=> IsFree(l) \/ l \in back
    BY <1>1, <1>2, ReturnedAreFree DEF IsFree
  <2>2. l \in dropped' <=> l \in dropped \/ l \in lost
    BY <1>1
  <2>3. \A c \in CmdBuffers : l \in completion_handlers'[c] <=> c # b /\ l \in completion_handlers[c]
    BY <1>1 DEF LeasesTypeOK
  <2>4. \A t \in Recorders : l \in recorder'[t].acquired <=> l \in recorder[t].acquired
    OBVIOUS
  <2>5. /\ l \in back <=> l \in completion_handlers[b] /\ ~IsConstants(l)
        /\ l \in lost <=> l \in completion_handlers[b] /\ IsConstants(l)
    OBVIOUS
  <2>6. HeldOnce(l)
    BY DEF HoldersInv
  <2> HIDE DEF back, lost
  <2> QED
    BY <2>1, <2>2, <2>3, <2>4, <2>5, <2>6 DEF HeldOnce
<1>6. ReadsInv'
  BY <1>1 DEF ReadsInv, LeasesTypeOK
<1> QED
  BY <1>1, <1>3, <1>4, <1>5, <1>6 DEF HoldersInv

(* The other threads stay as they are.                                     *)
LEMMA RecorderChanges ==
  ASSUME LeasesTypeOK, NEW t \in Recorders, NEW r \in RecorderStates,
         recorder' = [recorder EXCEPT ![t] = r]
  PROVE  /\ recorder' \in [Recorders -> RecorderStates] /\ recorder'[t] = r
         /\ \A u \in Recorders \ {t} : recorder'[u] = recorder[u]
BY DEF LeasesTypeOK

LEMMA BetweenCallsFields ==
  ASSUME NEW label \in RecorderSteps, NEW what \in Purposes, NEW b \in CmdBuffers \cup {NoCmdBuffer}
  PROVE  LET r == BetweenCalls(label, what, b) IN
         /\ r \in RecorderStates /\ r.step = label /\ r.purpose = what /\ r.cmd_buffer = b
         /\ r.acquired = {}
BY DEF BetweenCalls, RecorderStates

LEMMA IdleFields == Idle \in RecorderStates /\ Idle.step = "idle" /\ Idle.acquired = {}
BY BetweenCallsFields DEF RecorderSteps, Purposes, Idle

LEMMA BeginCommandBufferPreserves ==
  ASSUME LeasesInv, NEW t \in Recorders, NEW what \in {"kernel", "direct", "indirect"},
         BeginCommandBuffer(t, what)
  PROVE  LeasesInv'
<1> USE DEF LeasesInv
<1>1. PICK p \in Primaries :
        /\ MakeCommandBuffer(<<t, p>>)
        /\ recorder' = [recorder EXCEPT ![t] = BetweenCalls("recording", what, <<t, p>>)]
  BY Zenon DEF BeginCommandBuffer
<1> DEFINE b == <<t, p>>
           r == BetweenCalls("recording", what, b)
<1>2. b \in PrimaryBuffers /\ b \in CmdBuffers /\ b[1] = t
  BY DEF PrimaryBuffers, CmdBuffers
<1>3. /\ recorder[t].step = "idle" /\ secondaries' = secondaries /\ reads' = reads
      /\ written' = written /\ submitted' = submitted /\ executed' = executed
      /\ lease_calls' = lease_calls /\ b \in unused
  BY <1>1 DEF BeginCommandBuffer, MakeCommandBuffer, deviceSide
<1>4. r \in RecorderStates /\ r.step = "recording" /\ r.cmd_buffer = b /\ r.acquired = {}
  BY <1>2, BetweenCallsFields DEF RecorderSteps, Purposes
<1> HIDE DEF r
<1>5. /\ recorder' \in [Recorders -> RecorderStates] /\ recorder'[t] = r
      /\ \A u \in Recorders \ {t} : recorder'[u] = recorder[u]
  BY <1>1, <1>4, RecorderChanges DEF r
<1>6. \A u \in Recorders : recorder'[u].acquired = recorder[u].acquired
  BY <1>3, <1>4, <1>5 DEF RecorderInv, InCall
<1>7. /\ available' \in [Pools -> SUBSET Instances] /\ dropped' \in SUBSET Leases
      /\ completion_handlers' \in [CmdBuffers -> SUBSET Leases]
      /\ unused' = unused \ {b} /\ unused' \in SUBSET CmdBuffers
      /\ BuffersInv' /\ HoldersInv' /\ ReadsInv'
  BY <1>1, <1>2, <1>6, MakingABuffer DEF BeginCommandBuffer
<1>8. LeasesTypeOK'
  BY <1>3, <1>5, <1>7 DEF LeasesTypeOK
<1>9. ASSUME NEW u \in Recorders PROVE RecorderInv(u)'
  <2>1. CASE u = t
    BY <2>1, <1>2, <1>3, <1>4, <1>5, <1>7 DEF RecorderInv, InCall, BuffersInv
  <2>2. CASE u # t
    BY <2>2, <1>3, <1>5, <1>7 DEF RecorderInv, InCall
  <2> QED
    BY <2>1, <2>2
<1> QED
  BY <1>7, <1>8, <1>9

LEMMA CallsAreSequences ==
  ASSUME NEW what, NEW stages \in CallsOf(what)
  PROVE  stages \in Seq(FunctionEntries) /\ stages # <<>>
BY LeaseAssumption DEF CallsOf

(* A call starts at its first stage and has no leases yet.                 *)
LEMMA StartCallFields ==
  ASSUME LeasesTypeOK, NEW t \in Recorders, NEW b \in CmdBuffers, NEW stages \in Seq(FunctionEntries),
         StartCall(t, b, stages)
  PROVE  /\ recorder' \in [Recorders -> RecorderStates] /\ lease_calls' \in Nat
         /\ \A u \in Recorders \ {t} : recorder'[u] = recorder[u]
         /\ recorder'[t].step = "descriptors" /\ recorder'[t].target = b
         /\ recorder'[t].stages = stages /\ recorder'[t].purpose = recorder[t].purpose
         /\ recorder'[t].cmd_buffer = recorder[t].cmd_buffer
         /\ recorder'[t].acquired = recorder[t].acquired
<1> DEFINE n == [recorder[t] EXCEPT !.step = "descriptors", !.target = b, !.call = lease_calls + 1,
                                    !.stages = stages]
<1>1. recorder[t] \in RecorderStates /\ lease_calls + 1 \in Nat
  BY DEF LeasesTypeOK
<1>2. /\ n \in RecorderStates /\ n.step = "descriptors" /\ n.target = b /\ n.stages = stages
      /\ n.purpose = recorder[t].purpose /\ n.cmd_buffer = recorder[t].cmd_buffer
      /\ n.acquired = recorder[t].acquired
  BY <1>1 DEF RecorderStates, RecorderSteps
<1>3. recorder' = [recorder EXCEPT ![t] = n] /\ lease_calls' = lease_calls + 1
  BY DEF StartCall
<1> HIDE DEF n
<1> QED
  BY <1>1, <1>2, <1>3, RecorderChanges

LEMMA BeginCallPreserves ==
  ASSUME LeasesInv, NEW t \in Recorders, BeginCall(t)
  PROVE  LeasesInv'
<1> USE DEF LeasesInv
<1>1. PICK stages \in CallsOf(recorder[t].purpose) :
        IF recorder[t].purpose = "indirect"
        THEN \E s \in Secondaries : MakeCommandBuffer(<<t, s>>) /\ StartCall(t, <<t, s>>, stages)
        ELSE /\ StartCall(t, recorder[t].cmd_buffer, stages)
             /\ UNCHANGED <<bufferState, available, dropped>>
  BY Zenon DEF BeginCall
<1>2. recorder[t].step = "recording" /\ UNCHANGED <<written, deviceSide>>
  BY DEF BeginCall
<1>3. /\ recorder[t].cmd_buffer \in PrimaryBuffers /\ recorder[t].cmd_buffer[1] = t
      /\ recorder[t].cmd_buffer \notin unused \cup submitted \cup executed
      /\ recorder[t].acquired = {} /\ recorder[t].cmd_buffer \in CmdBuffers
  BY <1>2, BufferKinds DEF RecorderInv, InCall
<1>4. stages \in Seq(FunctionEntries) /\ stages # <<>>
  BY CallsAreSequences
<1>5. CASE recorder[t].purpose = "indirect"
  <2>1. PICK s \in Secondaries : MakeCommandBuffer(<<t, s>>) /\ StartCall(t, <<t, s>>, stages)
    BY <1>1, <1>5, Zenon
  <2> DEFINE b == <<t, s>>
  <2>2. b \in SecondaryBuffers /\ b \in CmdBuffers /\ b[1] = t
    BY DEF SecondaryBuffers, CmdBuffers
  <2>3. /\ b \in unused /\ secondaries' = secondaries /\ reads' = reads
        /\ written' = written /\ submitted' = submitted /\ executed' = executed
    BY <2>1, <1>2 DEF MakeCommandBuffer, deviceSide
  <2>4. /\ recorder' \in [Recorders -> RecorderStates] /\ lease_calls' \in Nat
        /\ \A u \in Recorders \ {t} : recorder'[u] = recorder[u]
        /\ recorder'[t].step = "descriptors" /\ recorder'[t].target = b
        /\ recorder'[t].stages = stages /\ recorder'[t].purpose = "indirect"
        /\ recorder'[t].cmd_buffer = recorder[t].cmd_buffer
        /\ recorder'[t].acquired = {}
    BY <1>3, <1>4, <1>5, <2>1, <2>2, StartCallFields
  <2>5. \A u \in Recorders : recorder'[u].acquired = recorder[u].acquired
    BY <1>3, <2>4
  <2>6. /\ available' \in [Pools -> SUBSET Instances] /\ dropped' \in SUBSET Leases
        /\ completion_handlers' \in [CmdBuffers -> SUBSET Leases]
        /\ unused' = unused \ {b} /\ unused' \in SUBSET CmdBuffers
        /\ BuffersInv' /\ HoldersInv' /\ ReadsInv'
    BY <1>2, <2>1, <2>2, <2>5, MakingABuffer
  <2> HIDE DEF b
  <2>7. LeasesTypeOK'
    BY <2>3, <2>4, <2>6 DEF LeasesTypeOK
  <2>8. ASSUME NEW u \in Recorders PROVE RecorderInv(u)'
    <3>1. CASE u = t
      <4>1. \A c \in CmdBuffers : b \notin secondaries'[c]
        BY <2>3 DEF BuffersInv
      <4> QED
        BY <3>1, <1>3, <1>4, <2>2, <2>3, <2>4, <2>6, <4>1 DEF RecorderInv, InCall
    <3>2. CASE u # t
      BY <3>2, <2>3, <2>4, <2>6 DEF RecorderInv, InCall
    <3> QED
      BY <3>1, <3>2
  <2> QED
    BY <2>6, <2>7, <2>8
<1>6. CASE recorder[t].purpose # "indirect"
  <2>1. /\ StartCall(t, recorder[t].cmd_buffer, stages)
        /\ UNCHANGED <<bufferState, available, dropped>>
    BY <1>1, <1>6, Zenon
  <2>2. /\ unused' = unused /\ completion_handlers' = completion_handlers
        /\ secondaries' = secondaries /\ reads' = reads /\ available' = available
        /\ dropped' = dropped /\ written' = written /\ submitted' = submitted /\ executed' = executed
    BY <1>2, <2>1 DEF bufferState, deviceSide
  <2>3. /\ recorder' \in [Recorders -> RecorderStates] /\ lease_calls' \in Nat
        /\ \A u \in Recorders \ {t} : recorder'[u] = recorder[u]
        /\ recorder'[t].step = "descriptors" /\ recorder'[t].target = recorder[t].cmd_buffer
        /\ recorder'[t].stages = stages /\ recorder'[t].purpose # "indirect"
        /\ recorder'[t].cmd_buffer = recorder[t].cmd_buffer
        /\ recorder'[t].acquired = {}
    BY <1>3, <1>4, <1>6, <2>1, StartCallFields
  <2>4. LeasesTypeOK'
    BY <2>2, <2>3 DEF LeasesTypeOK
  <2>5. ASSUME NEW u \in Recorders PROVE RecorderInv(u)'
    <3>1. CASE u = t
      BY <3>1, <1>3, <1>4, <2>2, <2>3 DEF RecorderInv, InCall
    <3>2. CASE u # t
      BY <3>2, <2>2, <2>3 DEF RecorderInv, InCall
    <3> QED
      BY <3>1, <3>2
  <2>6. BuffersInv' /\ ReadsInv'
    BY <2>2 DEF BuffersInv, ReadsInv
  <2>7. HoldersInv'
    <3>1. \A u \in Recorders : recorder'[u].acquired = recorder[u].acquired
      BY <1>3, <2>3
    <3> QED
      BY <2>2, <3>1 DEF HoldersInv, HeldOnce, IsFree
  <2> QED
    BY <2>4, <2>5, <2>6, <2>7
<1> QED
  BY <1>5, <1>6

(* Leasing takes one free instance of a pool for the thread.               *)
LEMMA LeasingTakesOne ==
  ASSUME LeasesInv, NEW t \in Recorders, NEW pool \in Pools, NEW next \in RecorderStates,
         LeaseInstance(t, pool, next)
  PROVE  \E l \in Leases :
           /\ IsFree(l) /\ available' \in [Pools -> SUBSET Instances]
           /\ \A m \in Leases : m.index \in available'[m.pool] <=> IsFree(m) /\ m # l
           /\ recorder' \in [Recorders -> RecorderStates]
           /\ \A u \in Recorders \ {t} : recorder'[u] = recorder[u]
           /\ recorder'[t].acquired = next.acquired \cup {l}
           /\ recorder'[t].step = next.step /\ recorder'[t].purpose = next.purpose
           /\ recorder'[t].cmd_buffer = next.cmd_buffer /\ recorder'[t].target = next.target
           /\ recorder'[t].stages = next.stages /\ recorder'[t].call = next.call
<1> USE DEF LeasesInv
<1> DEFINE i == Min(available[pool])
           l == [pool |-> pool, index |-> i]
           n == [next EXCEPT !.acquired = @ \cup {l}]
<1>1. available[pool] # {} /\ available[pool] \in SUBSET Instances /\ available[pool] \in SUBSET Nat
  BY LeaseAssumption DEF LeasesTypeOK, LeaseInstance
<1>2. i \in available[pool] /\ i \in Instances
  BY <1>1, MinIsMember
<1>3. available' = [available EXCEPT ![pool] = @ \ {i}] /\ recorder' = [recorder EXCEPT ![t] = n]
  BY Zenon DEF LeaseInstance
<1> HIDE DEF i
<1>4. l \in Leases /\ l.pool = pool /\ l.index = i
  BY <1>2, LeaseFields
<1> HIDE DEF l
<1>5. /\ n \in RecorderStates /\ n.acquired = next.acquired \cup {l}
      /\ n.step = next.step /\ n.purpose = next.purpose
      /\ n.cmd_buffer = next.cmd_buffer /\ n.target = next.target
      /\ n.stages = next.stages /\ n.call = next.call
  BY <1>4 DEF RecorderStates
<1> HIDE DEF n
<1>6. /\ recorder' \in [Recorders -> RecorderStates] /\ recorder'[t] = n
      /\ \A u \in Recorders \ {t} : recorder'[u] = recorder[u]
  BY <1>3, <1>5, RecorderChanges
<1>7. IsFree(l) /\ available' \in [Pools -> SUBSET Instances]
  BY <1>2, <1>3, <1>4 DEF IsFree, LeasesTypeOK
<1>8. ASSUME NEW m \in Leases
      PROVE  m.index \in available'[m.pool] <=> IsFree(m) /\ m # l
  <2>1. m.pool \in Pools /\ (m = l <=> m.pool = pool /\ m.index = i)
    BY <1>4, LeaseFields
  <2>2. available'[m.pool] = IF m.pool = pool THEN available[m.pool] \ {i} ELSE available[m.pool]
    BY <1>3, <2>1 DEF LeasesTypeOK
  <2> QED
    BY <2>1, <2>2 DEF IsFree
<1> QED
  BY <1>4, <1>5, <1>6, <1>7, <1>8

(* A stage that has its leases: the next one follows, or the encoding.     *)
LEMMA NextStageFields ==
  ASSUME NEW r \in RecorderStates, r.stages # <<>>
  PROVE  LET n == NextStage(r) IN
         /\ n \in RecorderStates /\ n.step \in {"encode", "descriptors"}
         /\ n.step = "descriptors" => n.stages # <<>>
         /\ n.purpose = r.purpose /\ n.cmd_buffer = r.cmd_buffer /\ n.target = r.target
         /\ n.acquired = r.acquired
<1> DEFINE s == IF Len(r.stages) = 1 THEN "encode" ELSE "descriptors"
           q == Tail(r.stages)
           n == [r EXCEPT !.stages = q, !.step = s]
<1>1. /\ r.stages \in Seq(FunctionEntries) /\ q \in Seq(FunctionEntries)
      /\ s = "descriptors" => q # <<>>
      /\ s \in {"encode", "descriptors"}
  <2>1. r.stages \in Seq(FunctionEntries)
    BY DEF RecorderStates
  <2>2. q \in Seq(FunctionEntries) /\ Len(q) = Len(r.stages) - 1 /\ Len(r.stages) \in Nat
    BY <2>1, HeadTailProperties
  <2>3. q = <<>> => Len(r.stages) = 1
    <3> HIDE DEF q
    <3> QED
      BY <2>2
  <2>4. s \in {"encode", "descriptors"} /\ (s = "descriptors" => Len(r.stages) # 1)
    OBVIOUS
  <2> QED
    BY <2>1, <2>2, <2>3, <2>4
<1> HIDE DEF q, s
<1>2. /\ n \in RecorderStates /\ n.step = s /\ n.stages = q
      /\ n.purpose = r.purpose /\ n.cmd_buffer = r.cmd_buffer /\ n.target = r.target
      /\ n.acquired = r.acquired
  BY <1>1 DEF RecorderStates, RecorderSteps
<1>3. NextStage(r) = n
  BY Zenon DEF NextStage, q, s
<1> QED
  BY <1>1, <1>2, <1>3

(* What both ways to lease have in common.                                 *)
LEMMA LeasingPreserves ==
  ASSUME LeasesInv, NEW t \in Recorders, NEW pool \in Pools, NEW next \in RecorderStates,
         LeaseInstance(t, pool, next), InCall(t),
         next.step \in {"descriptors", "constants", "encode"},
         next.step \in {"descriptors", "constants"} => next.stages # <<>>,
         next.step = "constants" => Head(next.stages) \in WithConstants,
         next.purpose = recorder[t].purpose, next.cmd_buffer = recorder[t].cmd_buffer,
         next.target = recorder[t].target, next.acquired = recorder[t].acquired
  PROVE  LeasesInv'
<1> USE DEF LeasesInv
<1>1. PICK l \in Leases :
        /\ IsFree(l) /\ available' \in [Pools -> SUBSET Instances]
        /\ \A m \in Leases : m.index \in available'[m.pool] <=> IsFree(m) /\ m # l
        /\ recorder' \in [Recorders -> RecorderStates]
        /\ \A u \in Recorders \ {t} : recorder'[u] = recorder[u]
        /\ recorder'[t].acquired = next.acquired \cup {l}
        /\ recorder'[t].step = next.step /\ recorder'[t].purpose = next.purpose
        /\ recorder'[t].cmd_buffer = next.cmd_buffer /\ recorder'[t].target = next.target
        /\ recorder'[t].stages = next.stages /\ recorder'[t].call = next.call
  BY LeasingTakesOne
<1>2. /\ unused' = unused /\ completion_handlers' = completion_handlers
      /\ secondaries' = secondaries /\ reads' = reads /\ written' = written /\ dropped' = dropped
      /\ submitted' = submitted /\ executed' = executed /\ lease_calls' = lease_calls
  BY DEF LeaseInstance, bufferState, deviceSide
<1>3. LeasesTypeOK'
  BY <1>1, <1>2 DEF LeasesTypeOK
<1>4. ASSUME NEW u \in Recorders PROVE RecorderInv(u)'
  <2>1. CASE u = t
    <3>1. RecorderInv(t)
      OBVIOUS
    <3> QED
      BY <2>1, <3>1, <1>1, <1>2 DEF RecorderInv, InCall
  <2>2. CASE u # t
    BY <2>2, <1>1, <1>2 DEF RecorderInv, InCall
  <2> QED
    BY <2>1, <2>2
<1>5. BuffersInv' /\ ReadsInv'
  BY <1>2 DEF BuffersInv, ReadsInv
<1>6. ASSUME NEW m \in Leases PROVE HeldOnce(m)'
  <2>1. IsFree(m)' <=> IsFree(m) /\ m # l
    BY <1>1 DEF IsFree
  <2>2. \A u \in Recorders :
          m \in recorder'[u].acquired <=> m \in recorder[u].acquired \/ (u = t /\ m = l)
    BY <1>1
  <2>3. HeldOnce(m) /\ HeldOnce(l)
    BY DEF HoldersInv
  <2>4. CASE m = l
    BY <1>1, <1>2, <2>1, <2>2, <2>3, <2>4 DEF HeldOnce
  <2>5. CASE m # l
    BY <1>2, <2>1, <2>2, <2>3, <2>5 DEF HeldOnce
  <2> QED
    BY <2>4, <2>5
<1> QED
  BY <1>3, <1>4, <1>5, <1>6 DEF HoldersInv

LEMMA AcquireDescriptorsPreserves ==
  ASSUME LeasesInv, NEW t \in Recorders, AcquireDescriptors(t)
  PROVE  LeasesInv'
<1> USE DEF LeasesInv
<1> DEFINE r == recorder[t]
           e == Head(r.stages)
<1>1. r.step = "descriptors" /\ r \in RecorderStates /\ InCall(t)
  BY DEF AcquireDescriptors, InCall, LeasesTypeOK
<1>2. r.stages # <<>>
  BY <1>1 DEF RecorderInv
<1>3. e \in FunctionEntries /\ DescriptorsOf(e) \in Pools
  BY <1>1, <1>2 DEF RecorderStates, Pools
<1>4. CASE e \in WithConstants
  <2> DEFINE n == [r EXCEPT !.step = "constants"]
  <2>1. LeaseInstance(t, DescriptorsOf(e), n)
    BY <1>4, Zenon DEF AcquireDescriptors
  <2>2. /\ n \in RecorderStates /\ n.step = "constants" /\ n.stages = r.stages
        /\ n.purpose = r.purpose /\ n.cmd_buffer = r.cmd_buffer /\ n.target = r.target
        /\ n.acquired = r.acquired
    BY <1>1 DEF RecorderStates, RecorderSteps
  <2> HIDE DEF n
  <2> QED
    BY <1>1, <1>2, <1>3, <1>4, <2>1, <2>2, LeasingPreserves
<1>5. CASE e \notin WithConstants
  <2>1. LeaseInstance(t, DescriptorsOf(e), NextStage(r))
    BY <1>5, Zenon DEF AcquireDescriptors
  <2> QED
    BY <1>1, <1>2, <1>3, <2>1, NextStageFields, LeasingPreserves
<1> QED
  BY <1>4, <1>5

LEMMA AcquireConstantsPreserves ==
  ASSUME LeasesInv, NEW t \in Recorders, AcquireConstants(t)
  PROVE  LeasesInv'
<1> USE DEF LeasesInv
<1> DEFINE r == recorder[t]
           e == Head(r.stages)
<1>1. r.step = "constants" /\ r \in RecorderStates /\ InCall(t)
  BY DEF AcquireConstants, InCall, LeasesTypeOK
<1>2. r.stages # <<>> /\ e \in WithConstants
  BY <1>1 DEF RecorderInv
<1>3. ConstantsOf(e) \in Pools
  BY <1>2 DEF Pools
<1>4. LeaseInstance(t, ConstantsOf(e), NextStage(r))
  BY Zenon DEF AcquireConstants
<1> QED
  BY <1>1, <1>2, <1>3, <1>4, NextStageFields, LeasingPreserves

(* A call that was begun is recorded to a command buffer of its thread,    *)
(* that neither a pool nor the device has and no primary executes.         *)
LEMMA CallBuffers ==
  ASSUME LeasesInv, NEW t \in Recorders, InCall(t)
  PROVE  LET r == recorder[t] IN
         /\ r \in RecorderStates /\ r.cmd_buffer \in PrimaryBuffers /\ r.cmd_buffer[1] = t
         /\ r.cmd_buffer \notin unused \cup submitted \cup executed
         /\ r.target \in CmdBuffers /\ r.target \notin unused \cup submitted \cup executed
         /\ \A b \in CmdBuffers : r.target \notin secondaries[b]
         /\ r.target # r.cmd_buffer => r.target \in SecondaryBuffers /\ r.target[1] = t
<1> USE DEF LeasesInv
<1> DEFINE r == recorder[t]
<1>1. r \in RecorderStates /\ r.step # "idle"
  BY DEF LeasesTypeOK, InCall
<1>2. /\ r.cmd_buffer \in PrimaryBuffers /\ r.cmd_buffer[1] = t /\ r.cmd_buffer \in CmdBuffers
      /\ r.cmd_buffer \notin unused \cup submitted \cup executed
  BY <1>1, BufferKinds DEF RecorderInv
<1>3. CASE r.purpose = "indirect"
  <2>1. /\ r.target \in SecondaryBuffers /\ r.target[1] = t /\ r.target \notin unused
        /\ \A b \in CmdBuffers : r.target \notin secondaries[b]
    BY <1>3 DEF RecorderInv
  <2> QED
    BY <1>1, <1>2, <2>1, BufferKinds, BuffersAreOfOneKind DEF BuffersInv
<1>4. CASE r.purpose # "indirect"
  <2>1. r.target = r.cmd_buffer
    BY <1>4 DEF RecorderInv
  <2> QED
    BY <1>1, <1>2, <2>1, BufferKinds, BuffersAreOfOneKind DEF BuffersInv
<1> QED
  BY <1>3, <1>4

(* The primary of the call becomes the one that executes its target.       *)
LEMMA RecordingACall ==
  ASSUME LeasesInv, NEW t \in Recorders, InCall(t), NEW leases, CallRecorded(t, leases),
         UNCHANGED deviceSide
  PROVE  /\ \A b \in CmdBuffers : \A x \in secondaries'[b] :
              x \in secondaries[b]
                \/ (x = recorder[t].target /\ b = recorder[t].cmd_buffer /\ x # b)
         /\ secondaries' \in [CmdBuffers -> SUBSET CmdBuffers]
         /\ \A u \in Recorders \ {t}, b \in CmdBuffers :
              InCall(u) /\ recorder[u].purpose = "indirect" => recorder[u].target \notin secondaries'[b]
         /\ BuffersInv'
<1> USE DEF LeasesInv
<1> DEFINE r == recorder[t]
<1>1. /\ r \in RecorderStates /\ r.cmd_buffer \in PrimaryBuffers
      /\ r.cmd_buffer \notin unused \cup submitted \cup executed
      /\ r.target \in CmdBuffers /\ r.target \notin unused \cup submitted \cup executed
      /\ \A b \in CmdBuffers : r.target \notin secondaries[b]
      /\ r.target # r.cmd_buffer => r.target \in SecondaryBuffers /\ r.target[1] = t
  BY CallBuffers
<1>2. /\ secondaries' = [secondaries EXCEPT ![r.cmd_buffer] = @ \cup ({r.target} \ {r.cmd_buffer})]
      /\ unused' = unused /\ submitted' = submitted /\ executed' = executed
  BY DEF CallRecorded, deviceSide
<1>3. secondaries' \in [CmdBuffers -> SUBSET CmdBuffers]
  BY <1>1, <1>2 DEF LeasesTypeOK
<1>4. \A b \in CmdBuffers : \A x \in secondaries'[b] :
        x \in secondaries[b] \/ (x = r.target /\ b = r.cmd_buffer /\ x # b)
  BY <1>2 DEF LeasesTypeOK
<1>5. \A b \in CmdBuffers : \A x \in secondaries[b] :
        x \in SecondaryBuffers /\ x \notin unused /\ x # r.target
  BY <1>1 DEF BuffersInv
<1>6. \A b \in CmdBuffers : \A x \in secondaries'[b] : x \in SecondaryBuffers /\ x \notin unused'
  BY <1>1, <1>2, <1>4, <1>5
<1>7. ASSUME NEW b \in CmdBuffers, NEW c \in CmdBuffers, NEW x \in secondaries'[b] \cap secondaries'[c]
      PROVE  b = c
  <2>1. CASE x = r.target
    BY <2>1, <1>4, <1>5, <1>7
  <2>2. CASE x # r.target
    BY <2>2, <1>4, <1>7 DEF BuffersInv
  <2> QED
    BY <2>1, <2>2
<1>8. ASSUME NEW u \in Recorders \ {t}, NEW b \in CmdBuffers, InCall(u), recorder[u].purpose = "indirect"
      PROVE  recorder[u].target \notin secondaries'[b]
  <2>1. /\ recorder[u].target \in SecondaryBuffers /\ recorder[u].target[1] = u
        /\ recorder[u].target \notin secondaries[b]
    BY <1>8 DEF RecorderInv
  <2>2. recorder[u].target # r.target \/ r.target = r.cmd_buffer
    BY <1>1, <2>1
  <2> QED
    BY <2>1, <2>2, <1>4
<1>9. BuffersInv'
  BY <1>2, <1>6, <1>7 DEF BuffersInv
<1> QED
  BY <1>3, <1>4, <1>8, <1>9

(* What a call leased passes to the handlers of its command buffer, which  *)
(* will read from there what is written now.                               *)
LEMMA EncodeArgumentsPreserves ==
  ASSUME LeasesInv, NEW t \in Recorders, EncodeArguments(t)
  PROVE  LeasesInv'
<1> USE DEF LeasesInv
<1> DEFINE r == recorder[t]
           label == IF r.purpose = "kernel" THEN "ready" ELSE "recording"
           n == BetweenCalls(label, r.purpose, r.cmd_buffer)
           new == {[lease |-> l, call |-> r.call] : l \in r.acquired}
<1>1. /\ r.step = "encode" /\ InCall(t)
      /\ available' = available /\ dropped' = dropped /\ lease_calls' = lease_calls
      /\ unused' = unused /\ submitted' = submitted /\ executed' = executed
  BY DEF EncodeArguments, CallRecorded, InCall, deviceSide
<1>2. /\ written' = [l \in Leases |-> IF l \in r.acquired THEN r.call ELSE written[l]]
      /\ reads' = [reads EXCEPT ![r.target] = @ \cup new]
      /\ completion_handlers' = [completion_handlers EXCEPT ![r.target] = @ \cup r.acquired]
      /\ recorder' = [recorder EXCEPT ![t] = n]
  BY Zenon DEF EncodeArguments, CallRecorded, CallEnds
<1>3. /\ r \in RecorderStates /\ r.cmd_buffer \in PrimaryBuffers /\ r.cmd_buffer[1] = t
      /\ r.cmd_buffer \notin unused \cup submitted \cup executed
      /\ r.target \in CmdBuffers /\ r.target \notin unused \cup submitted \cup executed
      /\ \A b \in CmdBuffers : r.target \notin secondaries[b]
  BY <1>1, CallBuffers
<1>4. /\ \A b \in CmdBuffers : \A x \in secondaries'[b] :
           x \in secondaries[b] \/ (x = r.target /\ b = r.cmd_buffer /\ x # b)
      /\ secondaries' \in [CmdBuffers -> SUBSET CmdBuffers]
      /\ \A u \in Recorders \ {t}, b \in CmdBuffers :
           InCall(u) /\ recorder[u].purpose = "indirect" => recorder[u].target \notin secondaries'[b]
      /\ BuffersInv'
  <2>1. CallRecorded(t, r.acquired) /\ UNCHANGED deviceSide
    BY Zenon DEF EncodeArguments
  <2> QED
    BY <1>1, <2>1, RecordingACall
<1>5. /\ n \in RecorderStates /\ n.step \in {"ready", "recording"}
      /\ n.cmd_buffer = r.cmd_buffer /\ n.acquired = {}
  <2>1. label \in {"ready", "recording"}
    OBVIOUS
  <2>2. r.purpose \in Purposes /\ r.cmd_buffer \in CmdBuffers \cup {NoCmdBuffer}
    BY <1>3 DEF RecorderStates
  <2> HIDE DEF label
  <2> QED
    BY <2>1, <2>2, BetweenCallsFields DEF RecorderSteps
<1> HIDE DEF n
<1>6. /\ recorder' \in [Recorders -> RecorderStates] /\ recorder'[t] = n
      /\ \A u \in Recorders \ {t} : recorder'[u] = recorder[u]
  BY <1>2, <1>5, RecorderChanges
<1>7. r.acquired \in SUBSET Leases /\ r.call \in Nat
  BY <1>3 DEF RecorderStates
<1>8. LeasesTypeOK'
  <2>1. new \in SUBSET [lease : Leases, call : Nat]
    BY <1>7
  <2> HIDE DEF new
  <2>2. reads' \in [CmdBuffers -> SUBSET [lease : Leases, call : Nat]]
    BY <1>2, <1>3, <2>1 DEF LeasesTypeOK
  <2>3. completion_handlers' \in [CmdBuffers -> SUBSET Leases] /\ written' \in [Leases -> Nat]
    BY <1>2, <1>3, <1>7 DEF LeasesTypeOK
  <2> QED
    BY <1>1, <1>4, <1>6, <2>2, <2>3 DEF LeasesTypeOK
<1>9. ASSUME NEW u \in Recorders PROVE RecorderInv(u)'
  <2>1. CASE u = t
    BY <2>1, <1>1, <1>3, <1>5, <1>6 DEF RecorderInv, InCall
  <2>2. CASE u # t
    BY <2>2, <1>1, <1>4, <1>6 DEF RecorderInv, InCall
  <2> QED
    BY <2>1, <2>2
<1>10. ASSUME NEW l \in Leases PROVE HeldOnce(l)'
  <2>1. IsFree(l)' <=> IsFree(l)
    BY <1>1 DEF IsFree
  <2>2. \A u \in Recorders : l \in recorder'[u].acquired <=> u # t /\ l \in recorder[u].acquired
    BY <1>5, <1>6
  <2>3. \A b \in CmdBuffers :
          l \in completion_handlers'[b] <=>
            l \in completion_handlers[b] \/ (b = r.target /\ l \in recorder[t].acquired)
    BY <1>2 DEF LeasesTypeOK
  <2>4. HeldOnce(l)
    BY DEF HoldersInv
  <2> QED
    BY <1>1, <1>3, <2>1, <2>2, <2>3, <2>4 DEF HeldOnce
<1>11. ReadsInv'
  <2>1. ASSUME NEW b \in CmdBuffers, NEW x \in reads'[b]
        PROVE  x.lease \in completion_handlers'[b] /\ written'[x.lease] = x.call
    <3>1. completion_handlers'[b] = IF b = r.target THEN completion_handlers[b] \cup r.acquired
                                    ELSE completion_handlers[b]
      BY <1>2 DEF LeasesTypeOK
    <3>2. reads'[b] = IF b = r.target THEN reads[b] \cup new ELSE reads[b]
      BY <1>2 DEF LeasesTypeOK
    <3>3. CASE x \in reads[b]
      <4>1. x.lease \in completion_handlers[b] /\ written[x.lease] = x.call /\ x.lease \in Leases
        BY <3>3 DEF ReadsInv, LeasesTypeOK
      <4>2. x.lease \notin r.acquired
        BY <4>1 DEF HoldersInv, HeldOnce
      <4> QED
        BY <4>1, <4>2, <3>1, <1>2
    <3>4. CASE x \in new /\ b = r.target
      <4>1. PICK l \in r.acquired : x = [lease |-> l, call |-> r.call]
        BY <3>4
      <4>2. x.lease = l /\ x.call = r.call /\ l \in Leases
        BY <4>1, <1>7
      <4> QED
        BY <4>2, <3>1, <3>4, <1>2
    <3> HIDE DEF new
    <3> QED
      BY <3>2, <3>3, <3>4, <2>1
  <2>2. ASSUME NEW b \in unused' PROVE reads'[b] = {}
    BY <1>1, <1>2, <1>3 DEF ReadsInv, LeasesTypeOK
  <2>3. ASSUME NEW b \in executed', NEW c \in {b} \cup secondaries'[b] PROVE reads'[c] = {}
    <3>1. b \in executed /\ b \in CmdBuffers /\ b # r.cmd_buffer /\ b # r.target
      BY <1>1, <1>3 DEF LeasesTypeOK
    <3>2. c \in {b} \cup secondaries[b] /\ c # r.target /\ c \in CmdBuffers
      BY <3>1, <1>3, <1>4 DEF LeasesTypeOK
    <3>3. reads'[c] = reads[c]
      BY <3>2, <1>2 DEF LeasesTypeOK
    <3> QED
      BY <3>1, <3>2, <3>3 DEF ReadsInv
  <2> QED
    BY <2>1, <2>2, <2>3 DEF ReadsInv
<1> QED
  BY <1>4, <1>8, <1>9, <1>10, <1>11 DEF HoldersInv

(* Refused arguments: the call gives back its leases or drops them.        *)
LEMMA RefuseArgumentsPreserves ==
  ASSUME LeasesInv, NEW t \in Recorders, RefuseArguments(t)
  PROVE  LeasesInv'
<1> USE DEF LeasesInv
<1> DEFINE r == recorder[t]
           back == {l \in r.acquired : ~IsConstants(l)}
           lost == {l \in r.acquired : IsConstants(l)}
<1>1. /\ r.step = "encode" /\ InCall(t) /\ CallRecorded(t, {}) /\ UNCHANGED deviceSide
      /\ available' = WithReturned(back) /\ dropped' = dropped \cup lost
  BY Zenon DEF RefuseArguments, InCall
<1>2. /\ written' = written /\ reads' = reads /\ lease_calls' = lease_calls
      /\ unused' = unused /\ submitted' = submitted /\ executed' = executed
  BY DEF RefuseArguments, CallRecorded, deviceSide
<1>3. /\ r \in RecorderStates /\ r.cmd_buffer \in PrimaryBuffers /\ r.cmd_buffer[1] = t
      /\ r.cmd_buffer \notin unused \cup submitted \cup executed
      /\ r.target \in CmdBuffers /\ r.target \notin unused \cup submitted \cup executed
      /\ \A b \in CmdBuffers : r.target \notin secondaries[b]
  BY <1>1, CallBuffers
<1>4. /\ \A b \in CmdBuffers : \A x \in secondaries'[b] :
           x \in secondaries[b] \/ (x = r.target /\ b = r.cmd_buffer /\ x # b)
      /\ secondaries' \in [CmdBuffers -> SUBSET CmdBuffers]
      /\ \A u \in Recorders \ {t}, b \in CmdBuffers :
           InCall(u) /\ recorder[u].purpose = "indirect" => recorder[u].target \notin secondaries'[b]
      /\ BuffersInv'
  BY <1>1, RecordingACall
<1>5. completion_handlers' = completion_handlers
  <2>1. completion_handlers' = [completion_handlers EXCEPT ![r.target] = @ \cup {}]
    BY <1>1, Zenon DEF CallRecorded
  <2> QED
    BY <2>1 DEF LeasesTypeOK
<1>6. \E n \in RecorderStates :
        /\ recorder' = [recorder EXCEPT ![t] = n] /\ n.acquired = {} /\ n.step \in {"idle", "recording"}
        /\ n.step # "idle" => n.cmd_buffer = r.cmd_buffer
  <2>1. r.purpose \in Purposes /\ r.cmd_buffer \in CmdBuffers \cup {NoCmdBuffer}
    BY <1>3 DEF RecorderStates
  <2>2. CASE r.purpose = "kernel"
    <3>1. recorder' = [recorder EXCEPT ![t] = Idle]
      BY <2>2, Zenon DEF RefuseArguments
    <3> QED
      BY <3>1, IdleFields
  <2>3. CASE r.purpose # "kernel"
    <3> DEFINE n == BetweenCalls("recording", r.purpose, r.cmd_buffer)
    <3>1. recorder' = [recorder EXCEPT ![t] = n]
      BY <2>3, Zenon DEF RefuseArguments, CallEnds
    <3>2. /\ n \in RecorderStates /\ n.step = "recording" /\ n.acquired = {}
          /\ n.cmd_buffer = r.cmd_buffer
      BY <2>1, BetweenCallsFields DEF RecorderSteps
    <3> HIDE DEF n
    <3> QED
      BY <3>1, <3>2
  <2> QED
    BY <2>2, <2>3
<1>7. PICK n \in RecorderStates :
        /\ recorder' = [recorder EXCEPT ![t] = n] /\ n.acquired = {} /\ n.step \in {"idle", "recording"}
        /\ n.step # "idle" => n.cmd_buffer = r.cmd_buffer
  BY <1>6
<1>8. /\ recorder' \in [Recorders -> RecorderStates] /\ recorder'[t] = n
      /\ \A u \in Recorders \ {t} : recorder'[u] = recorder[u]
  BY <1>7, RecorderChanges
<1>9. back \in SUBSET Leases /\ lost \in SUBSET Leases
  BY <1>3 DEF RecorderStates
<1>10. LeasesTypeOK'
  BY <1>1, <1>2, <1>4, <1>5, <1>8, <1>9, ReturnedAreFree DEF LeasesTypeOK
<1>11. ASSUME NEW u \in Recorders PROVE RecorderInv(u)'
  <2>1. CASE u = t
    BY <2>1, <1>2, <1>3, <1>7, <1>8 DEF RecorderInv, InCall
  <2>2. CASE u # t
    BY <2>2, <1>2, <1>4, <1>8 DEF RecorderInv, InCall
  <2> QED
    BY <2>1, <2>2
<1>12. ASSUME NEW l \in Leases PROVE HeldOnce(l)'
  <2>1. IsFree(l)' <=> IsFree(l) \/ l \in back
    BY <1>1, <1>9, ReturnedAreFree DEF IsFree
  <2>2. \A u \in Recorders : l \in recorder'[u].acquired <=> u # t /\ l \in recorder[u].acquired
    BY <1>7, <1>8
  <2>3. /\ l \in back <=> l \in recorder[t].acquired /\ ~IsConstants(l)
        /\ l \in lost <=> l \in recorder[t].acquired /\ IsConstants(l)
    OBVIOUS
  <2>4. HeldOnce(l)
    BY DEF HoldersInv
  <2> HIDE DEF back, lost
  <2> QED
    BY <1>1, <1>5, <2>1, <2>2, <2>3, <2>4 DEF HeldOnce
<1>13. ReadsInv'
  <2>1. ASSUME NEW b \in executed', NEW c \in {b} \cup secondaries'[b] PROVE reads'[c] = {}
    <3>1. b \in executed /\ b \in CmdBuffers /\ b # r.cmd_buffer
      BY <1>2, <1>3 DEF LeasesTypeOK
    <3>2. c \in {b} \cup secondaries[b]
      BY <3>1, <1>4
    <3> QED
      BY <1>2, <3>1, <3>2 DEF ReadsInv
  <2> QED
    BY <1>2, <1>5, <2>1 DEF ReadsInv
<1> QED
  BY <1>4, <1>10, <1>11, <1>12, <1>13 DEF HoldersInv

(* A thread gives its command buffer to the device, or forgets it.         *)
LEMMA LeavingABuffer ==
  ASSUME LeasesInv, NEW t \in Recorders, ~InCall(t), recorder[t].step # "idle",
         recorder' = [recorder EXCEPT ![t] = Idle],
         submitted' \in {submitted, submitted \cup {recorder[t].cmd_buffer}},
         UNCHANGED <<available, written, bufferState, executed, dropped, lease_calls>>
  PROVE  LeasesInv'
<1> USE DEF LeasesInv
<1>1. /\ recorder[t].cmd_buffer \in PrimaryBuffers /\ recorder[t].cmd_buffer[1] = t
      /\ recorder[t].cmd_buffer \notin unused \cup submitted \cup executed
      /\ recorder[t].acquired = {} /\ recorder[t].cmd_buffer \in CmdBuffers
  BY BufferKinds DEF RecorderInv
<1>2. /\ unused' = unused /\ completion_handlers' = completion_handlers
      /\ secondaries' = secondaries /\ reads' = reads /\ written' = written /\ dropped' = dropped
      /\ available' = available /\ executed' = executed /\ lease_calls' = lease_calls
  BY DEF bufferState
<1>3. /\ recorder' \in [Recorders -> RecorderStates] /\ recorder'[t] = Idle
      /\ \A u \in Recorders \ {t} : recorder'[u] = recorder[u]
  BY IdleFields, RecorderChanges
<1>4. LeasesTypeOK'
  BY <1>1, <1>2, <1>3 DEF LeasesTypeOK
<1>5. ASSUME NEW u \in Recorders PROVE RecorderInv(u)'
  <2>1. CASE u = t
    BY <2>1, <1>3, IdleFields DEF RecorderInv, InCall
  <2>2. CASE u # t
    BY <2>2, <1>1, <1>2, <1>3 DEF RecorderInv, InCall
  <2> QED
    BY <2>1, <2>2
<1>6. BuffersInv' /\ ReadsInv'
  BY <1>1, <1>2 DEF BuffersInv, ReadsInv
<1>7. HoldersInv'
  <2>1. \A u \in Recorders : recorder'[u].acquired = recorder[u].acquired
    BY <1>1, <1>3, IdleFields
  <2> QED
    BY <1>2, <2>1 DEF HoldersInv, HeldOnce, IsFree
<1> QED
  BY <1>4, <1>5, <1>6, <1>7

LEMMA SubmitPreserves ==
  ASSUME LeasesInv, NEW t \in Recorders, SubmitCommandBuffer(t) \/ AbandonRenderer(t)
  PROVE  LeasesInv'
<1>1. CASE SubmitCommandBuffer(t)
  <2>1. recorder[t].step = "ready" \/ recorder[t].step = "recording"
    BY <1>1, Zenon DEF SubmitCommandBuffer
  <2>2. ~InCall(t) /\ recorder[t].step # "idle"
    BY <2>1 DEF InCall
  <2>3. /\ recorder' = [recorder EXCEPT ![t] = Idle]
        /\ submitted' = submitted \cup {recorder[t].cmd_buffer}
        /\ UNCHANGED <<available, written, bufferState, executed, dropped, lease_calls>>
    BY <1>1, Zenon DEF SubmitCommandBuffer
  <2> QED
    BY <2>2, <2>3, LeavingABuffer
<1>2. CASE AbandonRenderer(t)
  <2>1. ~InCall(t) /\ recorder[t].step # "idle" /\ recorder' = [recorder EXCEPT ![t] = Idle]
    BY <1>2 DEF InCall, AbandonRenderer
  <2>2. submitted' = submitted
        /\ UNCHANGED <<available, written, bufferState, executed, dropped, lease_calls>>
    BY <1>2 DEF AbandonRenderer, deviceSide
  <2> QED
    BY <2>1, <2>2, LeavingABuffer
<1> QED
  BY <1>1, <1>2

LEMMA ExecutePreserves ==
  ASSUME LeasesInv, NEW b \in CmdBuffers, ExecuteCommandBuffer(b)
  PROVE  LeasesInv'
<1> USE DEF LeasesInv
<1>1. /\ b \in submitted /\ submitted' = submitted \ {b} /\ executed' = executed \cup {b}
      /\ reads' = [c \in CmdBuffers |-> IF c \in {b} \cup secondaries[b] THEN {} ELSE reads[c]]
      /\ unused' = unused /\ completion_handlers' = completion_handlers
      /\ secondaries' = secondaries /\ written' = written /\ dropped' = dropped
      /\ available' = available /\ recorder' = recorder /\ lease_calls' = lease_calls
  BY DEF ExecuteCommandBuffer
<1>2. LeasesTypeOK'
  BY <1>1 DEF LeasesTypeOK
<1>3. \A u \in Recorders : RecorderInv(u)'
  BY <1>1 DEF RecorderInv, InCall
<1>4. BuffersInv' /\ HoldersInv'
  BY <1>1 DEF BuffersInv, HoldersInv, HeldOnce, IsFree
<1>5. ReadsInv'
  <2>1. \A c \in CmdBuffers : reads'[c] \in SUBSET reads[c]
    BY <1>1
  <2>2. ASSUME NEW c \in executed', NEW d \in {c} \cup secondaries'[c] PROVE reads'[d] = {}
    <3>1. c \in CmdBuffers /\ d \in CmdBuffers
      BY <1>1, <2>2 DEF LeasesTypeOK
    <3>2. c \in executed => reads[d] = {}
      BY <1>1 DEF ReadsInv
    <3> QED
      BY <1>1, <3>1, <3>2
  <2> QED
    BY <1>1, <2>1, <2>2 DEF ReadsInv, LeasesTypeOK
<1> QED
  BY <1>2, <1>3, <1>4, <1>5

(* The handlers of an executed command buffer give back its leases and its *)
(* secondary command buffers.                                              *)
LEMMA CallHandlersPreserves ==
  ASSUME LeasesInv, NEW b \in CmdBuffers, CallCompletionHandlers(b)
  PROVE  LeasesInv'
<1> USE DEF LeasesInv
<1>1. /\ b \in executed
      /\ available' = WithReturned(completion_handlers[b])
      /\ unused' = unused \cup secondaries[b]
      /\ completion_handlers' = [completion_handlers EXCEPT ![b] = {}]
      /\ secondaries' = [secondaries EXCEPT ![b] = {}]
      /\ written' = written /\ reads' = reads /\ recorder' = recorder /\ dropped' = dropped
      /\ submitted' = submitted /\ executed' = executed /\ lease_calls' = lease_calls
  BY DEF CallCompletionHandlers, GivenBack, deviceSide
<1>2. completion_handlers[b] \in SUBSET Leases
  BY DEF LeasesTypeOK
<1>3. LeasesTypeOK'
  BY <1>1, <1>2, ReturnedAreFree DEF LeasesTypeOK
<1>4. ASSUME NEW u \in Recorders PROVE RecorderInv(u)'
  <2>1. RecorderInv(u)
    OBVIOUS
  <2>2. \A x \in secondaries[b] : x \notin PrimaryBuffers
    BY BuffersAreOfOneKind DEF BuffersInv
  <2>3. \A c \in CmdBuffers : secondaries'[c] \in SUBSET secondaries[c]
    BY <1>1 DEF LeasesTypeOK
  <2> QED
    BY <1>1, <2>1, <2>2, <2>3 DEF RecorderInv, InCall
<1>5. BuffersInv'
  <2>1. \A c \in CmdBuffers : secondaries'[c] = IF c = b THEN {} ELSE secondaries[c]
    BY <1>1 DEF LeasesTypeOK
  <2>2. secondaries[b] \cap (submitted \cup executed) = {}
    BY BuffersAreOfOneKind DEF BuffersInv
  <2>3. \A c \in CmdBuffers : c # b => secondaries[c] \cap secondaries[b] = {}
    BY DEF BuffersInv
  <2>4. \A c \in CmdBuffers : secondaries'[c] \cap unused' = {}
    BY <1>1, <2>1, <2>3 DEF BuffersInv
  <2> QED
    BY <1>1, <2>1, <2>2, <2>4 DEF BuffersInv
<1>6. ASSUME NEW l \in Leases PROVE HeldOnce(l)'
  <2>1. IsFree(l)' <=> IsFree(l) \/ l \in completion_handlers[b]
    BY <1>1, <1>2, ReturnedAreFree DEF IsFree
  <2>2. \A c \in CmdBuffers : l \in completion_handlers'[c] <=> c # b /\ l \in completion_handlers[c]
    BY <1>1 DEF LeasesTypeOK
  <2>3. HeldOnce(l)
    BY DEF HoldersInv
  <2> QED
    BY <1>1, <2>1, <2>2, <2>3 DEF HeldOnce
<1>7. ReadsInv'
  <2>1. \A c \in CmdBuffers : completion_handlers'[c] = completion_handlers[c] \/ c = b
    BY <1>1 DEF LeasesTypeOK
  <2>2. reads[b] = {} /\ \A c \in secondaries[b] : reads[c] = {}
    BY <1>1 DEF ReadsInv
  <2>3. \A c \in CmdBuffers : secondaries'[c] \in SUBSET secondaries[c]
    BY <1>1 DEF LeasesTypeOK
  <2>4. ASSUME NEW c \in executed', NEW d \in {c} \cup secondaries'[c] PROVE reads'[d] = {}
    BY <1>1, <2>3 DEF ReadsInv, LeasesTypeOK
  <2> QED
    BY <1>1, <2>1, <2>2, <2>4 DEF ReadsInv
<1> QED
  BY <1>3, <1>4, <1>5, <1>6, <1>7 DEF HoldersInv

LEMMA ReleasePreserves ==
  ASSUME LeasesInv, NEW b \in CmdBuffers, ReleaseCommandBuffer(b)
  PROVE  LeasesInv'
<1> USE DEF LeasesInv
<1>1. /\ b \in executed /\ executed' = executed \ {b} /\ unused' = unused \cup {b}
      /\ completion_handlers' = completion_handlers /\ reads' = reads
      /\ secondaries' = secondaries /\ written' = written /\ dropped' = dropped
      /\ available' = available /\ recorder' = recorder /\ lease_calls' = lease_calls
      /\ submitted' = submitted
  BY DEF ReleaseCommandBuffer
<1>2. b \in PrimaryBuffers /\ b \notin SecondaryBuffers /\ b \notin submitted /\ reads[b] = {}
  BY <1>1, BuffersAreOfOneKind DEF BuffersInv, ReadsInv
<1>3. LeasesTypeOK'
  BY <1>1 DEF LeasesTypeOK
<1>4. ASSUME NEW u \in Recorders PROVE RecorderInv(u)'
  <2>1. RecorderInv(u)
    OBVIOUS
  <2> QED
    BY <1>1, <1>2, <2>1 DEF RecorderInv, InCall
<1>5. BuffersInv'
  BY <1>1, <1>2 DEF BuffersInv
<1>6. HoldersInv' /\ ReadsInv'
  BY <1>1, <1>2 DEF HoldersInv, HeldOnce, IsFree, ReadsInv
<1> QED
  BY <1>3, <1>4, <1>5, <1>6

LEMMA LeasesInductive ==
  ASSUME LeasesInv, [LeasesNext]_leaseVars
  PROVE  LeasesInv'
<1>1. CASE LeasesNext
  <2>1. ASSUME NEW t \in Recorders, NEW what \in {"kernel", "direct", "indirect"},
               BeginCommandBuffer(t, what)
        PROVE  LeasesInv'
    BY <2>1, BeginCommandBufferPreserves
  <2>2. ASSUME NEW t \in Recorders, BeginCall(t) PROVE LeasesInv'
    BY <2>2, BeginCallPreserves
  <2>3. ASSUME NEW t \in Recorders, AcquireDescriptors(t) PROVE LeasesInv'
    BY <2>3, AcquireDescriptorsPreserves
  <2>4. ASSUME NEW t \in Recorders, AcquireConstants(t) PROVE LeasesInv'
    BY <2>4, AcquireConstantsPreserves
  <2>5. ASSUME NEW t \in Recorders, EncodeArguments(t) PROVE LeasesInv'
    BY <2>5, EncodeArgumentsPreserves
  <2>6. ASSUME NEW t \in Recorders, RefuseArguments(t) PROVE LeasesInv'
    BY <2>6, RefuseArgumentsPreserves
  <2>7. ASSUME NEW t \in Recorders, SubmitCommandBuffer(t) \/ AbandonRenderer(t) PROVE LeasesInv'
    BY <2>7, SubmitPreserves
  <2>8. ASSUME NEW b \in CmdBuffers, ExecuteCommandBuffer(b) PROVE LeasesInv'
    BY <2>8, ExecutePreserves
  <2>9. ASSUME NEW b \in CmdBuffers, CallCompletionHandlers(b) PROVE LeasesInv'
    BY <2>9, CallHandlersPreserves
  <2>10. ASSUME NEW b \in CmdBuffers, ReleaseCommandBuffer(b) PROVE LeasesInv'
    BY <2>10, ReleasePreserves
  <2> QED
    BY <1>1, <2>1, <2>2, <2>3, <2>4, <2>5, <2>6, <2>7, <2>8, <2>9, <2>10, Zenon DEF LeasesNext
<1>2. CASE UNCHANGED leaseVars
  <2>1. /\ available' = available /\ written' = written /\ unused' = unused
        /\ completion_handlers' = completion_handlers /\ secondaries' = secondaries
        /\ reads' = reads /\ recorder' = recorder /\ submitted' = submitted
        /\ executed' = executed /\ dropped' = dropped /\ lease_calls' = lease_calls
    BY <1>2 DEF leaseVars, bufferState, deviceSide
  <2>2. LeasesTypeOK' /\ BuffersInv' /\ ReadsInv'
    BY <2>1 DEF LeasesInv, LeasesTypeOK, BuffersInv, ReadsInv
  <2>3. HoldersInv' /\ \A t \in Recorders : RecorderInv(t)'
    BY <2>1 DEF LeasesInv, HoldersInv, HeldOnce, IsFree, RecorderInv, InCall
  <2> QED
    BY <2>2, <2>3 DEF LeasesInv
<1> QED
  BY <1>1, <1>2

(* One holder, or none for a lease that is free or dropped.                *)
LEMMA HoldersAreCounted ==
  ASSUME LeasesInv, NEW l \in Leases
  PROVE  Cardinality(HoldersOf(l)) = IF l.index \in available[l.pool] \/ l \in dropped THEN 0 ELSE 1
<1>1. HeldOnce(l)
  BY DEF LeasesInv, HoldersInv
<1>2. CASE IsFree(l) \/ l \in dropped
  <2>1. HoldersOf(l) = {}
    BY <1>1, <1>2 DEF HeldOnce, HoldersOf
  <2> QED
    BY <1>2, <2>1, FS_EmptySet DEF IsFree
<1>3. CASE ~(IsFree(l) \/ l \in dropped)
  <2>1. \E h : HoldersOf(l) = {h}
    <3>1. CASE \E t \in Recorders : l \in recorder[t].acquired
      BY <1>1, <3>1 DEF HeldOnce, HoldersOf
    <3>2. CASE \E b \in CmdBuffers : l \in completion_handlers[b]
      BY <1>1, <3>2 DEF HeldOnce, HoldersOf
    <3> QED
      BY <1>1, <1>3, <3>1, <3>2 DEF HeldOnce
  <2>2. PICK h : HoldersOf(l) = {h}
    BY <2>1
  <2> QED
    BY <1>3, <2>2, FS_Singleton DEF IsFree
<1> QED
  BY <1>2, <1>3

(* vulkan_descriptor_set.hpp, vulkan_queue.cpp: what the device has yet to *)
(* read is where its call stored it, and every instance that was leased is *)
(* given back once, by one holder, or is a constant buffer that is lost.   *)
THEOREM LeasedArgumentsAreSafe == LeasesSpec => []LeasesAreSafe
<1>1. LeasesInit => LeasesInv
  BY LeasesInitially
<1>2. LeasesInv /\ [LeasesNext]_leaseVars => LeasesInv'
  BY LeasesInductive
<1>3. LeasesInv => LeasesAreSafe
  <2> SUFFICES ASSUME LeasesInv PROVE LeasesAreSafe
    OBVIOUS
  <2>1. ASSUME NEW b \in submitted, NEW r \in ReadBy(b) PROVE written[r.lease] = r.call
    <3>1. b \in CmdBuffers
      BY DEF LeasesInv, LeasesTypeOK
    <3>2. PICK c \in CmdBuffers : r \in reads[c]
      BY <3>1 DEF ReadBy, LeasesInv, LeasesTypeOK
    <3> QED
      BY <3>2 DEF LeasesInv, ReadsInv
  <2>2. \A l \in dropped : l \in Leases /\ IsConstants(l) /\ l.index \notin available[l.pool]
    BY DEF LeasesInv, LeasesTypeOK, HoldersInv, HeldOnce, IsFree
  <2> QED
    BY <2>1, <2>2, HoldersAreCounted DEF LeasesAreSafe
<1> QED
  BY <1>1, <1>2, <1>3, PTL DEF LeasesSpec

-----------------------------------------------------------------------------
(* IndirectCommands                                                        *)

RecordedCommands == [encoder : Nat, wait : BOOLEAN]
LaunchedCommands == [encoder : Nat, wait : BOOLEAN, fences : BOOLEAN, last : BOOLEAN]

IndirectTypeOK ==
  /\ encoders \in Seq(Devices)
  /\ pipelines \in [Devices -> Seq(RecordedCommands)]
  /\ launched \in Seq(LaunchedCommands)
  /\ begun \in SUBSET (1..Len(launched)) /\ done \in SUBSET begun
  /\ params.stage \in {"none", "loop", "returned", "astray"}
  /\ params.stage # "none" => params.device \in Devices

(* What was launched are the first commands of the device, not more than   *)
(* there are encoders; the one at that number is the last.                 *)
LaunchedInv ==
  /\ params.stage = "none" => launched = <<>> /\ ~emitted
  /\ Len(launched) <= get_command_count
  /\ \A k \in 1..Len(launched) :
       /\ k <= Len(Commands) /\ launched[k].encoder = Commands[k].encoder
       /\ launched[k].last <=> k = get_command_count
  /\ launched # <<>> => (launched[1].fences <=> params.fences)
  /\ params.stage = "astray" => Len(Commands) < get_command_count

(* Nothing is launched after a barrier whose predecessors are not through, *)
(* and the first launched command waits for the fences, the others for it. *)
DeviceInv ==
  /\ \A b \in 1..Len(launched) : b < Len(launched) /\ launched[b].wait => 1..b \subseteq done
  /\ backend = "vulkan" /\ params.fences /\ begun # {} => signaled
  /\ emitted => Len(launched) = get_command_count /\ AllDone

IndirectInv == IndirectTypeOK /\ LaunchedInv /\ DeviceInv

LEMMA IndirectInitially ==
  ASSUME IndirectInit
  PROVE  IndirectInv
<1>1. IndirectTypeOK
  BY DEF IndirectInit, IndirectTypeOK, NoParams
<1>2. LaunchedInv
  BY DEF IndirectInit, LaunchedInv, NoParams, get_command_count
<1>3. DeviceInv
  BY DEF IndirectInit, DeviceInv
<1> QED
  BY <1>1, <1>2, <1>3 DEF IndirectInv

LEMMA CommandFields ==
  ASSUME NEW c \in RecordedCommands
  PROVE  /\ c.encoder \in Nat /\ c.wait \in BOOLEAN
         /\ [c EXCEPT !.wait = TRUE] \in RecordedCommands
BY DEF RecordedCommands

(* Before the first execution there is nothing the loop has launched.      *)
LEMMA RecordingPreserves ==
  ASSUME IndirectInv, NEW d \in Devices, NEW e,
         add_compute_command(d) \/ barrier(d) \/ (e \in 1..Len(encoders) /\ encode(e))
  PROVE  IndirectInv'
<1> USE DEF IndirectInv
<1>1. /\ params.stage = "none" /\ params' = params /\ backend' = backend
      /\ launched' = launched /\ begun' = begun /\ done' = done
      /\ signaled' = signaled /\ emitted' = emitted
  <2>1. Recording
    BY Zenon DEF add_compute_command, barrier, encode
  <2> QED
    BY <2>1 DEF Recording
<1>2. launched = <<>> /\ ~emitted /\ begun = {} /\ done = {}
  BY <1>1 DEF LaunchedInv, IndirectTypeOK
<1>3. encoders' \in Seq(Devices) /\ pipelines' \in [Devices -> Seq(RecordedCommands)]
  <2>1. CASE add_compute_command(d)
    BY <2>1 DEF add_compute_command, IndirectTypeOK
  <2>2. CASE barrier(d)
    <3>1. /\ pipelines[d] # <<>> /\ encoders' = encoders
          /\ pipelines' = [pipelines EXCEPT ![d][Len(pipelines[d])].wait = TRUE]
      BY <2>2, Zenon DEF barrier
    <3> DEFINE n == Len(pipelines[d])
               s == [pipelines[d] EXCEPT ![n].wait = TRUE]
    <3>2. pipelines[d] \in Seq(RecordedCommands) /\ n \in 1..n
      BY <3>1 DEF IndirectTypeOK
    <3>3. s \in Seq(RecordedCommands)
      <4> DEFINE c == [pipelines[d][n] EXCEPT !.wait = TRUE]
      <4>1. c \in RecordedCommands
        <5>1. pipelines[d][n] \in RecordedCommands
          BY <3>2
        <5> QED
          BY <5>1, CommandFields
      <4>2. s = [pipelines[d] EXCEPT ![n] = c]
        BY <3>2
      <4> HIDE DEF c
      <4>3. [pipelines[d] EXCEPT ![n] = c] \in Seq(RecordedCommands)
        BY <3>2, <4>1
      <4> QED
        BY <4>2, <4>3
    <3>4. pipelines' = [pipelines EXCEPT ![d] = s]
      BY <3>1 DEF IndirectTypeOK
    <3> HIDE DEF s
    <3> QED
      BY <3>1, <3>3, <3>4 DEF IndirectTypeOK
  <2>3. CASE e \in 1..Len(encoders) /\ encode(e)
    <3>1. encoders[e] \in Devices /\ [encoder |-> e, wait |-> FALSE] \in RecordedCommands
      BY <2>3 DEF IndirectTypeOK, RecordedCommands
    <3> QED
      BY <2>3, <3>1 DEF encode, IndirectTypeOK
  <2> QED
    BY <2>1, <2>2, <2>3
<1>4. IndirectTypeOK'
  BY <1>1, <1>3 DEF IndirectTypeOK
<1>5. LaunchedInv' /\ DeviceInv'
  BY <1>1, <1>2, <1>3 DEF LaunchedInv, DeviceInv, get_command_count
<1> QED
  BY <1>4, <1>5

LEMMA ResetPreserves ==
  ASSUME IndirectInv, reset
  PROVE  IndirectInv'
<1>1. /\ encoders' = <<>> /\ pipelines' = [d \in Devices |-> <<>>] /\ params'.stage = "none"
      /\ launched' = <<>> /\ begun' = {} /\ done' = {} /\ ~emitted'
  BY DEF reset, NoParams
<1>2. IndirectTypeOK'
  BY <1>1 DEF IndirectTypeOK
<1>3. LaunchedInv' /\ DeviceInv'
  BY <1>1 DEF LaunchedInv, DeviceInv, get_command_count
<1> QED
  BY <1>2, <1>3 DEF IndirectInv

LEMMA ExecuteIndirectPreserves ==
  ASSUME IndirectInv, NEW d \in Devices, NEW fences, NEW wait, execute_indirect(d, fences, wait)
  PROVE  IndirectInv'
<1>1. /\ params'.stage = "loop" /\ params'.device = d /\ encoders' = encoders /\ pipelines' = pipelines
      /\ launched' = <<>> /\ begun' = {} /\ done' = {} /\ ~emitted'
  BY DEF execute_indirect, recorded
<1>2. IndirectTypeOK'
  BY <1>1 DEF IndirectTypeOK, IndirectInv
<1>3. LaunchedInv' /\ DeviceInv'
  BY <1>1 DEF LaunchedInv, DeviceInv, get_command_count, IndirectInv, IndirectTypeOK
<1> QED
  BY <1>2, <1>3 DEF IndirectInv

LEMMA LaunchedFields ==
  ASSUME NEW e \in Nat, NEW w \in BOOLEAN, NEW f \in BOOLEAN, NEW l \in BOOLEAN
  PROVE  LET c == [encoder |-> e, wait |-> w, fences |-> f, last |-> l] IN
         /\ c \in LaunchedCommands
         /\ c.encoder = e /\ c.wait = w /\ c.fences = f /\ c.last = l
BY DEF LaunchedCommands

LEMMA LaunchPreserves ==
  ASSUME IndirectInv, launch
  PROVE  IndirectInv'
<1> USE DEF IndirectInv
<1> DEFINE n == Len(launched) + 1
           c == [encoder |-> Commands[n].encoder, wait |-> Commands[n].wait,
                 fences |-> params.fences /\ ~has_encountered_barrier, last |-> is_last_cmd(n)]
<1>1. /\ params.stage = "loop" /\ ~Blocked /\ n <= get_command_count
      /\ encoders' = encoders /\ pipelines' = pipelines /\ begun' = begun /\ done' = done
      /\ (backend' = backend) /\ (signaled' <=> signaled) /\ (emitted' <=> emitted)
  BY Zenon DEF launch, recorded
<1>2. Len(launched) \in Nat /\ Len(encoders) \in Nat /\ params.device \in Devices
  BY <1>1 DEF IndirectTypeOK
<1>3. CASE n <= Len(Commands)
  <2>1. launched' = Append(launched, c) /\ params' = params
    BY <1>3, Zenon DEF launch
  <2>2. Commands \in Seq(RecordedCommands) /\ n \in 1..Len(Commands)
    BY <1>2, <1>3 DEF Commands, IndirectTypeOK
  <2>3. /\ c \in LaunchedCommands
        /\ c.encoder = Commands[n].encoder
        /\ c.last <=> n = get_command_count
        /\ c.fences <=> params.fences /\ ~has_encountered_barrier
    <3> DEFINE f == params.fences /\ ~has_encountered_barrier
               l == is_last_cmd(n)
               e == Commands[n].encoder
               w == Commands[n].wait
    <3>1. e \in Nat /\ w \in BOOLEAN
      <4>1. Commands[n] \in RecordedCommands
        BY <2>2
      <4> QED
        BY <4>1, CommandFields
    <3>2. f \in BOOLEAN /\ l \in BOOLEAN /\ (l <=> n = get_command_count)
      BY DEF is_last_cmd
    <3>3. c = [encoder |-> e, wait |-> w, fences |-> f, last |-> l]
      BY Zenon
    <3> HIDE DEF c, e, w, f, l
    <3>4. /\ c \in LaunchedCommands
          /\ c.encoder = e /\ c.fences = f /\ c.last = l
      BY <3>1, <3>2, <3>3, LaunchedFields
    <3> QED
      BY <3>2, <3>4, Zenon DEF e, f
  <2> HIDE DEF c
  <2>4. /\ launched' \in Seq(LaunchedCommands)
        /\ Len(launched') = n /\ launched'[n] = c
        /\ \A k \in 1..Len(launched) : launched'[k] = launched[k]
    BY <2>1, <2>3 DEF IndirectTypeOK
  <2>5. IndirectTypeOK'
    BY <1>1, <1>2, <2>1, <2>4 DEF IndirectTypeOK
  <2>6. Commands' = Commands /\ get_command_count' = get_command_count
    BY <1>1, <2>1 DEF Commands, get_command_count
  <2>7. LaunchedInv'
    <3>1. ASSUME NEW k \in 1..n
          PROVE  /\ k <= Len(Commands) /\ launched'[k].encoder = Commands[k].encoder
                 /\ launched'[k].last <=> k = get_command_count
      <4>1. CASE k = n
        BY <1>3, <2>3, <2>4, <4>1
      <4>2. CASE k # n
        BY <1>2, <2>4, <4>2 DEF LaunchedInv
      <4> QED
        BY <4>1, <4>2
    <3>2. launched'[1].fences <=> params.fences
      <4>1. CASE launched = <<>>
        BY <2>3, <2>4, <4>1 DEF has_encountered_barrier
      <4>2. CASE launched # <<>>
        <5>1. 1 \in 1..Len(launched)
          BY <1>2, <4>2 DEF IndirectTypeOK
        <5>2. launched'[1] = launched[1] /\ (launched[1].fences <=> params.fences)
          BY <2>4, <4>2, <5>1 DEF LaunchedInv
        <5> QED
          BY <5>2, Zenon
      <4> QED
        BY <4>1, <4>2
    <3> QED
      BY <1>1, <1>2, <2>1, <2>4, <2>6, <3>1, <3>2 DEF LaunchedInv
  <2>8. DeviceInv'
    <3>1. ASSUME NEW b \in 1..Len(launched), launched[b].wait
          PROVE  1..b \subseteq done
      <4>1. CASE b = Len(launched)
        <5>1. AllDone
          BY <1>1, <3>1, <4>1 DEF Blocked
        <5> QED
          BY <4>1, <5>1 DEF AllDone
      <4>2. CASE b # Len(launched)
        BY <1>2, <3>1, <4>2 DEF DeviceInv
      <4> QED
        BY <4>1, <4>2
    <3>2. ~emitted
      BY <1>1, <1>2 DEF DeviceInv, get_command_count
    <3> QED
      BY <1>1, <1>2, <2>1, <2>4, <3>1, <3>2 DEF DeviceInv
  <2> QED
    BY <2>5, <2>7, <2>8
<1>4. CASE ~(n <= Len(Commands))
  <2>1. launched' = launched /\ params' = [params EXCEPT !.stage = "astray"]
    BY <1>4, Zenon DEF launch
  <2>2. params'.stage = "astray" /\ params'.device = params.device /\ params'.fences = params.fences
    BY <2>1
  <2>3. (params'.fences <=> params.fences) /\ Commands' = Commands /\ get_command_count' = get_command_count
    BY <1>1, <2>2, Zenon DEF Commands, get_command_count
  <2>4. IndirectTypeOK'
    BY <1>1, <1>2, <2>1, <2>2 DEF IndirectTypeOK
  <2>5. Len(Commands) < get_command_count
    <3>1. Len(Commands) \in Nat
      BY <1>2 DEF Commands, IndirectTypeOK
    <3> QED
      BY <1>1, <1>2, <1>4, <3>1 DEF get_command_count
  <2>6. LaunchedInv'
    BY <1>1, <2>1, <2>2, <2>3, <2>5 DEF LaunchedInv
  <2>7. DeviceInv'
    BY <1>1, <2>1, <2>3 DEF DeviceInv, AllDone
  <2> QED
    BY <2>4, <2>6, <2>7
<1> QED
  BY <1>3, <1>4

LEMMA ReturnPreserves ==
  ASSUME IndirectInv, return
  PROVE  IndirectInv'
<1> USE DEF IndirectInv
<1>1. /\ params.stage = "loop" /\ params' = [params EXCEPT !.stage = "returned"]
      /\ encoders' = encoders /\ pipelines' = pipelines /\ launched' = launched
      /\ begun' = begun /\ done' = done /\ backend' = backend /\ signaled' = signaled
      /\ emitted' = emitted
  BY DEF return, recorded
<1>2. params'.stage = "returned" /\ params'.device = params.device /\ params'.fences = params.fences
  BY <1>1
<1>3. (params'.fences <=> params.fences) /\ Commands' = Commands /\ get_command_count' = get_command_count
  BY <1>1, <1>2, Zenon DEF Commands, get_command_count
<1>4. IndirectTypeOK'
  BY <1>1, <1>2 DEF IndirectTypeOK
<1>5. LaunchedInv'
  BY <1>1, <1>2, <1>3 DEF LaunchedInv
<1>6. DeviceInv'
  BY <1>1, <1>3 DEF DeviceInv, AllDone
<1> QED
  BY <1>4, <1>5, <1>6

(* What the device does leaves the loop alone.                             *)
LEMMA DevicePreserves ==
  ASSUME IndirectInv, NEW k \in 1..Len(launched), BeginRecorded(k) \/ Complete(k) \/ Emit(k) \/ Signal
  PROVE  IndirectInv'
<1> USE DEF IndirectInv
<1>1. /\ params' = params /\ encoders' = encoders /\ pipelines' = pipelines /\ launched' = launched
      /\ backend' = backend
  BY DEF BeginRecorded, Complete, Emit, Signal, recorded
<1>2. Commands' = Commands /\ get_command_count' = get_command_count
  BY <1>1 DEF Commands, get_command_count
<1>3. params.stage # "none"
  BY DEF LaunchedInv
<1>4. Len(launched) \in Nat /\ Len(encoders) \in Nat
  BY DEF IndirectTypeOK, get_command_count
<1>5. LaunchedInv'
  BY <1>1, <1>2, <1>3 DEF LaunchedInv
<1>6. CASE BeginRecorded(k)
  <2>1. begun' = begun \cup {k} /\ done' = done /\ signaled' = signaled /\ emitted' = emitted
    BY <1>6 DEF BeginRecorded
  <2>2. IndirectTypeOK'
    BY <1>1, <2>1 DEF IndirectTypeOK
  <2>3. backend = "vulkan" /\ params.fences => signaled
    <3>1. ASSUME backend = "vulkan", params.fences PROVE signaled
      <4>1. \A j \in 1..k : launched[j].fences => signaled
        BY <1>6, <3>1 DEF BeginRecorded
      <4>2. 1 \in 1..k /\ launched # <<>>
        BY <1>4
      <4>3. launched[1].fences <=> params.fences
        BY <4>2 DEF LaunchedInv
      <4> QED
        BY <3>1, <4>1, <4>2, <4>3, Zenon
    <3> QED
      BY <3>1
  <2>4. DeviceInv'
    BY <1>1, <1>2, <2>1, <2>3 DEF DeviceInv, AllDone
  <2> QED
    BY <1>5, <2>2, <2>4
<1>7. CASE Complete(k)
  <2>1. begun' = begun /\ done' = done \cup {k} /\ signaled' = signaled /\ emitted' = emitted /\ k \in begun
    BY <1>7 DEF Complete
  <2>2. IndirectTypeOK'
    BY <1>1, <2>1 DEF IndirectTypeOK
  <2>3. emitted => done' = 1..Len(launched)
    BY <2>1 DEF DeviceInv, AllDone
  <2>4. DeviceInv'
    BY <1>1, <1>2, <2>1, <2>3 DEF DeviceInv, AllDone
  <2> QED
    BY <1>5, <2>2, <2>4
<1>8. CASE Emit(k)
  <2>1. begun' = begun /\ done' = done /\ signaled' = signaled /\ launched[k].last /\ 1..k \subseteq done
    BY <1>8 DEF Emit
  <2>2. k = get_command_count /\ k = Len(launched)
    BY <1>4, <2>1 DEF LaunchedInv, get_command_count
  <2>3. done = 1..Len(launched)
    BY <2>1, <2>2 DEF IndirectTypeOK
  <2>4. IndirectTypeOK'
    BY <1>1, <2>1 DEF IndirectTypeOK
  <2>5. DeviceInv'
    BY <1>1, <1>2, <2>1, <2>2, <2>3 DEF DeviceInv, AllDone
  <2> QED
    BY <1>5, <2>4, <2>5
<1>9. CASE Signal
  <2>1. begun' = begun /\ done' = done /\ signaled' = TRUE /\ emitted' = emitted
    BY <1>9 DEF Signal
  <2>2. IndirectTypeOK'
    BY <1>1, <2>1 DEF IndirectTypeOK
  <2>3. DeviceInv'
    BY <1>1, <1>2, <2>1 DEF DeviceInv, AllDone
  <2> QED
    BY <1>5, <2>2, <2>3
<1> QED
  BY <1>6, <1>7, <1>8, <1>9

(* device_queue.cpp, execute_indirect: what runs is what was recorded, in  *)
(* order where barriers and fences ask for it, and all of it before the    *)
(* completion handler is called.                                           *)
THEOREM IndirectRunsAsRecorded == IndirectSpec => []IndirectRunsInOrder
<1>1. IndirectInit => IndirectInv
  BY IndirectInitially
<1>2. IndirectInv /\ [IndirectNext]_indirectVars => IndirectInv'
  <2> SUFFICES ASSUME IndirectInv, [IndirectNext]_indirectVars PROVE IndirectInv'
    OBVIOUS
  <2>1. ASSUME NEW d \in Devices, add_compute_command(d) \/ barrier(d) PROVE IndirectInv'
    BY <2>1, RecordingPreserves
  <2>2. ASSUME NEW d \in Devices, NEW fences, NEW wait, execute_indirect(d, fences, wait)
        PROVE  IndirectInv'
    BY <2>2, ExecuteIndirectPreserves
  <2>3. ASSUME NEW e \in 1..Len(encoders), encode(e) PROVE IndirectInv'
    <3>1. encoders[e] \in Devices
      BY DEF IndirectInv, IndirectTypeOK
    <3> QED
      BY <2>3, <3>1, RecordingPreserves
  <2>4. CASE reset \/ launch \/ return
    BY <2>4, ResetPreserves, LaunchPreserves, ReturnPreserves
  <2>5. ASSUME NEW k \in 1..Len(launched), BeginRecorded(k) \/ Complete(k) \/ Emit(k)
        PROVE  IndirectInv'
    BY <2>5, DevicePreserves
  <2>6. CASE Signal
    <3>1. CASE launched # <<>>
      <4>1. 1 \in 1..Len(launched)
        BY <3>1 DEF IndirectInv, IndirectTypeOK
      <4> QED
        BY <2>6, <4>1, DevicePreserves
    <3>2. CASE launched = <<>>
      <4>1. UNCHANGED <<backend, encoders, pipelines, params, launched, begun, done, emitted>> /\ signaled'
        BY <2>6 DEF Signal, recorded
      <4>2. IndirectTypeOK'
        BY <4>1 DEF IndirectInv, IndirectTypeOK
      <4>3. LaunchedInv'
        BY <4>1 DEF IndirectInv, LaunchedInv, Commands, get_command_count
      <4>4. DeviceInv'
        BY <4>1 DEF IndirectInv, DeviceInv, AllDone, get_command_count
      <4> QED
        BY <4>2, <4>3, <4>4 DEF IndirectInv
    <3> QED
      BY <3>1, <3>2
  <2>7. CASE UNCHANGED indirectVars
    <3>1. UNCHANGED <<backend, encoders, pipelines, params, launched, begun, done, signaled, emitted>>
      BY <2>7 DEF indirectVars
    <3>2. IndirectTypeOK'
      BY <3>1 DEF IndirectInv, IndirectTypeOK
    <3>3. LaunchedInv'
      BY <3>1 DEF IndirectInv, LaunchedInv, Commands, get_command_count
    <3>4. DeviceInv'
      BY <3>1 DEF IndirectInv, DeviceInv, AllDone, get_command_count
    <3> QED
      BY <3>2, <3>3, <3>4 DEF IndirectInv
  <2> QED
    BY <2>1, <2>2, <2>3, <2>4, <2>5, <2>6, <2>7, Zenon DEF IndirectNext
<1>3. IndirectInv => IndirectRunsInOrder
  <2> SUFFICES ASSUME IndirectInv PROVE IndirectRunsInOrder
    OBVIOUS
  <2> USE DEF IndirectInv
  <2>1. ASSUME NEW k \in begun
        PROVE  /\ backend = "vulkan" /\ params.fences => signaled
               /\ \A b \in 1..(k - 1) : launched[b].wait => 1..b \subseteq done
    <3>1. backend = "vulkan" /\ params.fences => signaled
      BY DEF DeviceInv
    <3>2. k \in 1..Len(launched) /\ Len(launched) \in Nat
      BY DEF IndirectTypeOK
    <3>3. \A b \in 1..(k - 1) : b \in 1..Len(launched) /\ b < Len(launched)
      BY <3>2
    <3> QED
      BY <3>1, <3>3 DEF DeviceInv
  <2>2. emitted => AllDone /\ Len(launched) = get_command_count
    BY DEF DeviceInv
  <2>3. ASSUME params.stage \in {"loop", "astray"}, OnePerEncoder(params.device)
        PROVE  /\ params.stage = "loop"
               /\ \A k \in 1..Len(launched) : launched[k].encoder = Commands[k].encoder
               /\ Len(Commands) = get_command_count
    <3>1. Len(Commands) = get_command_count /\ get_command_count \in Nat
      BY <2>3 DEF OnePerEncoder, Commands, get_command_count, IndirectTypeOK
    <3>2. params.stage # "astray"
      BY <3>1 DEF LaunchedInv
    <3> QED
      BY <2>3, <3>1, <3>2 DEF LaunchedInv
  <2> QED
    BY <2>1, <2>2, <2>3 DEF IndirectRunsInOrder
<1> QED
  BY <1>1, <1>2, <1>3, PTL DEF IndirectSpec

-----------------------------------------------------------------------------
(* Group algorithms: local memory                                          *)

Algorithms == {"sub_group_reduce", "host_reduce", "reduce", "scan_op", "sub_group_scan", "host_scan", "scan"}
SubGroupAlgorithms == {"sub_group_reduce", "scan_op", "sub_group_scan"}
Labels ==
  {"begin", "fold", "first_item", "step", "last", "return", "publish", "second", "offsets", "combine"}

GroupsTypeOK ==
  /\ case \in Cases
  /\ call \in [Items -> Nat] /\ pc \in [Items -> Labels] /\ waiting \subseteq Items
  /\ offset \in [Items -> Nat] /\ side_idx \in [Items -> Nat]
  /\ accesses \subseteq Items \X Nat \X BOOLEAN

(* What the items do between two barriers: the kind of step, and the       *)
(* offset and the half of the memory it has for all of them.               *)
Phases ==
  {p \in [does : {"store", "fold", "step", "last", "first_item", "publish", "second", "combine"},
          offset : Nat, side : {0, case.size}] :
     /\ p.does = "store" => Algorithm \notin SubGroupAlgorithms
     /\ p.does = "fold" => /\ Algorithm = "reduce" /\ 2 * p.offset <= case.size
                           /\ IsPowerOf2(case.size) => IsPowerOf2(p.offset)
     /\ p.does = "step" => Algorithm = "scan" /\ p.offset >= 1
     /\ p.does = "last" => Algorithm = "scan" /\ case.fn # "inclusive"
     /\ p.does = "first_item" => Algorithm \in {"host_reduce", "host_scan"}
     /\ p.does \in {"publish", "second"} => Algorithm \in SubGroupAlgorithms
     /\ p.does = "combine" => Algorithm \in {"scan_op", "sub_group_scan"} }
Phase(does, o, s) == [does |-> does, offset |-> o, side |-> s]

(* What follows the next barrier                                           *)
Following(p) ==
  CASE p.does = "store" -> IF Algorithm = "reduce" THEN Phase("fold", case.size \div 2, 0)
                           ELSE IF Algorithm # "scan" THEN Phase("first_item", 0, 0)
                           ELSE IF 1 < case.size THEN Phase("step", 1, 0)
                           ELSE IF case.fn = "inclusive" THEN Phase("store", 0, 0)
                           ELSE Phase("last", 0, 0)
    [] p.does = "fold" -> IF p.offset \div 2 > 0 THEN Phase("fold", p.offset \div 2, 0)
                          ELSE Phase("store", 0, 0)
    [] p.does = "step" -> IF 2 * p.offset < case.size THEN Phase("step", 2 * p.offset, case.size - p.side)
                          ELSE IF case.fn = "inclusive" THEN Phase("store", 0, 0)
                          ELSE Phase("last", 0, case.size - p.side)
    [] p.does \in {"last", "first_item"} -> Phase("store", 0, 0)
    [] p.does = "publish" -> Phase("second", 0, 0)
    [] p.does = "second" -> IF Algorithm = "sub_group_reduce" THEN Phase("publish", 0, 0)
                            ELSE Phase("combine", 0, 0)
    [] p.does = "combine" -> Phase("publish", 0, 0)

(* Where an item is that is in the phase and has not reached its end       *)
LabelsOf(i, p) ==
  CASE p.does = "store" ->
         {"begin"} \cup (IF Algorithm = "scan" /\ case.fn = "inclusive" THEN {"last"} ELSE {})
                   \cup (IF Algorithm = "host_scan" \/ (Algorithm = "scan" /\ case.fn # "inclusive")
                         THEN {"return"} ELSE {})
    [] p.does = "publish" -> {"begin", "publish", "return"}
    [] p.does = "second" -> IF Group(i) = 0 THEN {"second", "offsets"} ELSE {"second"}
    [] OTHER -> {p.does}
IsAt(i, label, o, s, p) ==
  /\ label \in LabelsOf(i, p)
  /\ p.does \in {"fold", "step"} => o = p.offset
  /\ p.does \in {"step", "last"} => s = p.side
IsIn(i, p) == IsAt(i, pc[i], offset[i], side_idx[i], p)

(* What item j accesses in a phase: cell n, for writing if w. In a round of*)
(* reduce that began without a barrier the accesses of rounds before count,*)
(* which are those of the first sub-group if the rounds halve evenly.      *)
MayAccess(p, j, n, w) ==
  \/ /\ p.does = "fold" /\ case.apple /\ p.offset < case.simd
     /\ n < case.size /\ (IsPowerOf2(case.size) => Group(j) = 0)
  \/ p.does = "store" /\ w /\ n = j
  \/ p.does = "fold" /\ j < p.offset /\ n = IF w THEN j ELSE j + p.offset
  \/ p.does = "step" /\ w /\ n = (case.size - p.side) + j
  \/ p.does = "step" /\ ~w /\ j >= p.offset /\ n = p.side + (j - p.offset)
  \/ p.does = "last" /\ ~w /\ j > 0 /\ n = p.side + (j - 1)
  \/ p.does = "publish" /\ w /\ Lane(j) = Publisher /\ n = Group(j)
  \/ p.does = "second" /\ Group(j) = 0 /\ Lane(j) < GroupCount /\ n = Lane(j)
  \/ p.does = "combine" /\ ~w /\ Group(j) > 0 /\ n = Group(j) - 1
Accesses(p) == {a \in Items \X Nat \X BOOLEAN : MayAccess(p, a[1], a[2], a[3])}

(* All items are in one phase, or wait for the following one.              *)
InPhase(p) ==
  /\ \A i \in waiting : IsIn(i, Following(p))
  /\ \A i \in Items \ waiting : call[i] > Calls \/ IsIn(i, p)
  /\ accesses \subseteq Accesses(p)
GroupsInv == GroupsTypeOK /\ \E p \in Phases : InPhase(p)

LEMMA CaseFields ==
  ASSUME case \in Cases
  PROVE  /\ case \in CaseType /\ case.size \in Nat \ {0} /\ case.simd \in Nat \ {0}
         /\ case.simd_min \in Nat \ {0} /\ case.simd_min <= case.simd
         /\ case.fn \in {"reduce", "inclusive", "exclusive"}
         /\ case.supported \in BOOLEAN /\ case.supported32 \in BOOLEAN
         /\ case.shuffle \in BOOLEAN /\ case.host \in BOOLEAN /\ case.apple \in BOOLEAN
         /\ case.apple => IsPowerOf2(case.simd)
         /\ case.supported \/ (case.fn # "reduce" /\ case.shuffle) =>
              case.size % case.simd = 0 /\ GroupCount <= case.simd
<1>1. /\ case \in CaseType /\ case.simd_min <= case.simd
      /\ case.supported \/ (case.fn # "reduce" /\ case.shuffle) => RegularSize(case)
      /\ case.apple => IsPowerOf2(case.simd)
  BY CasesAssumption
<1> QED
  BY <1>1 DEF CaseType, RegularSize, GroupCount

LEMMA AlgorithmIs ==
  ASSUME case \in Cases
  PROVE  /\ Algorithm \in Algorithms
         /\ Algorithm = "reduce" <=> case.fn = "reduce" /\ ~case.supported /\ ~case.host
         /\ Algorithm = "host_reduce" <=> case.fn = "reduce" /\ ~case.supported /\ case.host
         /\ Algorithm = "sub_group_reduce" <=> case.fn = "reduce" /\ case.supported
         /\ Algorithm = "scan_op" <=> case.fn # "reduce" /\ case.supported
         /\ Algorithm = "sub_group_scan" <=> case.fn # "reduce" /\ ~case.supported /\ case.shuffle
         /\ Algorithm = "scan" <=> case.fn # "reduce" /\ ~case.supported /\ ~case.shuffle /\ ~case.host
         /\ Algorithm = "host_scan" <=> case.fn # "reduce" /\ ~case.supported /\ ~case.shuffle /\ case.host
<1>1. case.supported \in BOOLEAN /\ case.shuffle \in BOOLEAN /\ case.host \in BOOLEAN
  BY CaseFields
<1>2. CASE case.fn = "reduce" /\ case.supported
  BY <1>1, <1>2 DEF Algorithm, Algorithms
<1>3. CASE case.fn = "reduce" /\ ~case.supported
  BY <1>1, <1>3 DEF Algorithm, Algorithms
<1>4. CASE case.fn # "reduce" /\ case.supported
  BY <1>1, <1>4 DEF Algorithm, Algorithms
<1>5. CASE case.fn # "reduce" /\ ~case.supported /\ case.shuffle
  BY <1>1, <1>5 DEF Algorithm, Algorithms
<1>6. CASE case.fn # "reduce" /\ ~case.supported /\ ~case.shuffle
  BY <1>1, <1>6 DEF Algorithm, Algorithms
<1> QED
  BY <1>2, <1>3, <1>4, <1>5, <1>6

LEMMA DivisionIs ==
  ASSUME NEW n \in Nat, NEW s \in Nat, s > 0
  PROVE  n \div s \in Nat /\ n % s \in Nat /\ n % s < s /\ n = s * (n \div s) + (n % s)
<1>1. n \div s \in Nat
  OBVIOUS
<1>2. n % s \in 0 .. s - 1
  OBVIOUS
<1>3. n = s * (n \div s) + (n % s)
  OBVIOUS
<1> QED
  BY <1>1, <1>2, <1>3

LEMMA ItemIs ==
  ASSUME case \in Cases, NEW i \in Items
  PROVE  /\ i \in Nat /\ i < case.size
         /\ Group(i) \in Nat /\ Lane(i) \in Nat /\ Lane(i) < case.simd
         /\ i = case.simd * Group(i) + Lane(i)
<1>1. PICK s \in Nat : s = case.simd /\ s > 0
  BY CaseFields
<1>2. i \in Nat /\ i < case.size
  BY CaseFields DEF Items
<1>3. i \div s \in Nat /\ i % s \in Nat /\ i % s < s /\ i = s * (i \div s) + (i % s)
  BY <1>1, <1>2, DivisionIs
<1> QED
  BY <1>1, <1>2, <1>3 DEF Group, Lane

LEMMA ItemsDiffer ==
  ASSUME case \in Cases, NEW i \in Items, NEW j \in Items, Group(i) = Group(j), Lane(i) = Lane(j)
  PROVE  i = j
BY ItemIs

LEMMA ProductIsMonotonic ==
  ASSUME NEW a \in Nat, NEW b \in Nat, NEW c \in Nat, a <= b
  PROVE  a * c <= b * c /\ c * a <= c * b
OBVIOUS

(* Whole sub-groups: the groups have numbers below GroupCount.             *)
LEMMA GroupsAreCounted ==
  ASSUME case \in Cases, case.size % case.simd = 0, NEW i \in Items
  PROVE  GroupCount \in Nat /\ Group(i) < GroupCount /\ case.size = case.simd * GroupCount
<1>1. PICK s \in Nat, n \in Nat : s = case.simd /\ n = case.size /\ s > 0
  BY CaseFields
<1>2. n \div s \in Nat /\ n = s * (n \div s) + (n % s)
  BY <1>1, DivisionIs
<1>3. GroupCount \in Nat /\ case.size = case.simd * GroupCount
  BY <1>1, <1>2 DEF GroupCount
<1>4. SUFFICES ASSUME Group(i) >= GroupCount PROVE FALSE
  BY <1>3, ItemIs
<1>5. case.simd * GroupCount <= case.simd * Group(i)
  BY <1>1, <1>3, <1>4, ItemIs, ProductIsMonotonic
<1> QED
  BY <1>1, <1>3, <1>5, ItemIs

(* Memory for the least width is enough for the groups of any.             *)
LEMMA LeastWidthIsEnough ==
  ASSUME case \in Cases
  PROVE  GroupCount <= case.size \div case.simd_min
<1>1. PICK s \in Nat, m \in Nat, n \in Nat :
        /\ s = case.simd /\ m = case.simd_min /\ n = case.size
        /\ s > 0 /\ m > 0 /\ m <= s
  BY CaseFields
<1>2. PICK q \in Nat : q = n \div s /\ s * q <= n
  <2>1. n \div s \in Nat /\ n % s \in Nat /\ n = s * (n \div s) + (n % s)
    BY <1>1, DivisionIs
  <2>2. PICK q \in Nat : q = n \div s
    BY <2>1
  <2> QED
    BY <2>1, <2>2
<1>3. PICK p \in Nat : p = n \div m /\ n < m * (p + 1)
  <2>1. n \div m \in Nat /\ n % m \in Nat /\ n % m < m /\ n = m * (n \div m) + (n % m)
    BY <1>1, DivisionIs
  <2>2. PICK p \in Nat : p = n \div m
    BY <2>1
  <2>3. m * (p + 1) = m * p + m
    OBVIOUS
  <2> QED
    BY <2>1, <2>2, <2>3
<1>4. SUFFICES ASSUME q > p PROVE FALSE
  BY <1>1, <1>2, <1>3 DEF GroupCount
<1>5. m * (p + 1) <= m * q
  <2>1. p + 1 \in Nat /\ p + 1 <= q
    BY <1>4
  <2> QED
    BY <1>1, <2>1, ProductIsMonotonic
<1>6. m * q <= s * q
  BY <1>1, ProductIsMonotonic
<1>7. m * (p + 1) \in Nat /\ m * q \in Nat /\ s * q \in Nat
  BY <1>1
<1> QED
  BY <1>2, <1>3, <1>5, <1>6, <1>7

-----------------------------------------------------------------------------
LEMMA QuotientIs ==
  ASSUME NEW n \in Nat, NEW d \in Nat, NEW q \in Nat, NEW r \in Nat, r < d, n = d * q + r
  PROVE  n \div d = q /\ n % d = r
<1>1. d > 0 /\ d * q \in Nat /\ n \in Nat
  OBVIOUS
<1>2. PICK p \in Nat, s \in Nat : p = n \div d /\ s = n % d /\ s < d /\ n = d * p + s
  BY <1>1, DivisionIs
<1>3. p = q
  <2>1. ASSUME NEW a \in Nat, NEW b \in Nat, a < b, NEW x \in Nat, NEW y \in Nat, x < d, y < d
        PROVE  d * a + x < d * b + y
    <3>1. d * (a + 1) <= d * b
      BY <2>1, ProductIsMonotonic
    <3>2. d * (a + 1) = d * a + d
      OBVIOUS
    <3>3. d * a \in Nat /\ d * b \in Nat
      OBVIOUS
    <3> QED
      BY <2>1, <3>1, <3>2, <3>3
  <2>2. ~(p < q)
    BY <1>2, <2>1
  <2>3. ~(q < p)
    BY <1>2, <2>1
  <2> QED
    BY <2>2, <2>3
<1>4. s = r
  BY <1>1, <1>2, <1>3
<1> QED
  BY <1>2, <1>3, <1>4

(* Induction by a smallest counterexample                                  *)
Below == {p \in Nat \X Nat : p[1] < p[2]}
LEMMA LeastNumber ==
  ASSUME NEW S \in SUBSET Nat, S # {}
  PROVE  \E n \in S : \A m \in S : n <= m
<1>1. IsWellFoundedOn(Below, Nat)
  BY NatLessThanWellFounded DEF OpToRel, Below
<1>2. PICK n \in S : \A m \in S : <<m, n>> \notin Below
  BY <1>1, WFMin
<1>3. \A m \in S : ~(m < n)
  BY <1>2 DEF Below
<1> QED
  BY <1>3

(* Powers of two                                                           *)
LEMMA HalfIsPower ==
  ASSUME NEW n \in Nat, IsPowerOf2(n)
  PROVE  IsPowerOf2(n \div 2) /\ (n >= 2 => n = 2 * (n \div 2))
<1>1. CASE n < 2
  <2>1. n \div 2 = 0
    BY <1>1
  <2> QED
    BY <1>1, <2>1 DEF IsPowerOf2
<1>2. CASE n >= 2
  <2>1. n % n = 0
    <3>1. n = n * 1 + 0 /\ 1 \in Nat /\ 0 \in Nat /\ 0 < n
      BY <1>2
    <3> QED
      BY <3>1, QuotientIs
  <2>2. n % 2 = 0
    BY <1>2, <2>1 DEF IsPowerOf2
  <2>3. PICK h \in Nat : n = 2 * h /\ n \div 2 = h
    BY <2>2
  <2>4. ASSUME NEW d \in 2..h, h % d = 0 PROVE d % 2 = 0
    <3>1. PICK q \in Nat : h = d * q
      <4>1. d \in Nat /\ d > 0
        OBVIOUS
      <4>2. PICK q \in Nat, r \in Nat : r = h % d /\ h = d * q + r
        BY <4>1, DivisionIs
      <4> QED
        BY <2>4, <4>1, <4>2
    <3>2. n = d * (2 * q) + 0 /\ 2 * q \in Nat /\ 0 < d /\ d \in Nat /\ 0 \in Nat
      BY <2>3, <3>1
    <3>3. n % d = 0
      BY <3>2, QuotientIs
    <3>4. d \in 2..n
      BY <2>3
    <3> QED
      BY <3>3, <3>4 DEF IsPowerOf2
  <2> QED
    BY <2>3, <2>4 DEF IsPowerOf2
<1> QED
  BY <1>1, <1>2

(* No power of two lies between another one and its double.                *)
LEMMA PowersAreApart ==
  ASSUME NEW m \in Nat, NEW s \in Nat, s > 0, IsPowerOf2(m), IsPowerOf2(s), m \div 2 < s
  PROVE  m <= s
<1> DEFINE Between(k, n) == n > 0 /\ IsPowerOf2(k) /\ IsPowerOf2(n) /\ k \div 2 < n /\ n < k
           bad == {n \in Nat : \E k \in Nat : Between(k, n)}
<1> SUFFICES ASSUME m > s PROVE FALSE
  OBVIOUS
<1>1. s \in bad /\ bad \subseteq Nat
  OBVIOUS
<1>2. PICK n \in bad : \A i \in bad : n <= i
  BY <1>1, LeastNumber
<1>3. PICK k \in Nat : Between(k, n)
  BY <1>2
<1>4. n \in Nat /\ n >= 2
  BY <1>2, <1>3
<1>5. PICK h \in Nat, j \in Nat : /\ n = 2 * h /\ k = 2 * j /\ j = k \div 2
                                 /\ IsPowerOf2(h) /\ IsPowerOf2(j)
  <2>1. k >= 2 /\ n \div 2 \in Nat /\ k \div 2 \in Nat
    BY <1>3, <1>4
  <2> QED
    BY <1>3, <1>4, <2>1, HalfIsPower
<1>6. h > 0 /\ h < j /\ j < 2 * h /\ h < n
  BY <1>3, <1>4, <1>5
<1>7. j \div 2 < h
  BY <1>6
<1>8. h \in bad
  BY <1>5, <1>6, <1>7
<1> QED
  BY <1>2, <1>4, <1>6, <1>8

LEMMA PhaseFields ==
  ASSUME case \in Cases, NEW p \in Phases
  PROVE  /\ p.does \in {"store", "fold", "step", "last", "first_item", "publish", "second", "combine"}
         /\ p.offset \in Nat /\ p.side \in {0, case.size} /\ p.side \in Nat
         /\ case.size \in Nat /\ case.size - p.side \in {0, case.size}
BY CaseFields DEF Phases

LEMMA PhaseIsPhase ==
  ASSUME NEW does, NEW o \in Nat, NEW s \in {0, case.size},
         does \in {"store", "fold", "step", "last", "first_item", "publish", "second", "combine"},
         does = "store" => Algorithm \notin SubGroupAlgorithms,
         does = "fold" => /\ Algorithm = "reduce" /\ 2 * o <= case.size
                          /\ IsPowerOf2(case.size) => IsPowerOf2(o),
         does = "step" => Algorithm = "scan" /\ o >= 1,
         does = "last" => Algorithm = "scan" /\ case.fn # "inclusive",
         does = "first_item" => Algorithm \in {"host_reduce", "host_scan"},
         does \in {"publish", "second"} => Algorithm \in SubGroupAlgorithms,
         does = "combine" => Algorithm \in {"scan_op", "sub_group_scan"}
  PROVE  Phase(does, o, s) \in Phases
<1>1. PICK p : p = [does |-> does, offset |-> o, side |-> s]
  OBVIOUS
<1>2. p.does = does /\ p.offset = o /\ p.side = s
  BY <1>1
<1>3. p \in [does : {"store", "fold", "step", "last", "first_item", "publish", "second", "combine"},
             offset : Nat, side : {0, case.size}]
  BY <1>1
<1> QED
  BY <1>1, <1>2, <1>3 DEF Phases, Phase

LEMMA FollowingIsPhase ==
  ASSUME case \in Cases, NEW p \in Phases
  PROVE  Following(p) \in Phases
<1>1. Algorithm \in Algorithms /\ 0 \in Nat /\ 1 \in Nat /\ case.size \in Nat
  BY AlgorithmIs, CaseFields
<1>2. case.size - p.side \in {0, case.size} /\ p.offset \in Nat /\ 0 \in {0, case.size}
  BY PhaseFields
<1>3. CASE p.does = "store"
  <2>1. Algorithm \notin SubGroupAlgorithms
    BY <1>3 DEF Phases
  <2>2. case.size \div 2 \in Nat /\ 2 * (case.size \div 2) <= case.size
    BY <1>1
  <2>3. CASE Algorithm = "reduce"
    <3>1. PICK h \in Nat : /\ h = case.size \div 2 /\ 2 * h <= case.size
                           /\ IsPowerOf2(case.size) => IsPowerOf2(h)
      BY <1>1, <2>2, HalfIsPower
    <3>2. Phase("fold", h, 0) \in Phases
      BY <1>2, <2>3, <3>1, PhaseIsPhase
    <3> QED
      BY <1>3, <2>3, <3>1, <3>2 DEF Following
  <2>4. CASE Algorithm = "scan"
    <3>1. Phase("step", 1, 0) \in Phases /\ Phase("store", 0, 0) \in Phases
      BY <1>1, <1>2, <2>1, <2>4, PhaseIsPhase
    <3>2. case.fn # "inclusive" => Phase("last", 0, 0) \in Phases
      BY <1>1, <1>2, <2>4, PhaseIsPhase
    <3> QED
      BY <1>3, <2>4, <3>1, <3>2 DEF Following
  <2>5. CASE Algorithm \notin {"reduce", "scan"}
    <3>1. Phase("first_item", 0, 0) \in Phases
      BY <1>1, <1>2, <2>1, <2>5, PhaseIsPhase DEF Algorithms, SubGroupAlgorithms
    <3> QED
      BY <1>3, <2>5, <3>1 DEF Following
  <2> QED
    BY <2>3, <2>4, <2>5
<1>4. Algorithm \notin SubGroupAlgorithms => Phase("store", 0, 0) \in Phases
  BY <1>1, <1>2, PhaseIsPhase
<1>5. CASE p.does = "fold"
  <2>1. /\ Algorithm = "reduce" /\ 2 * p.offset <= case.size
        /\ IsPowerOf2(case.size) => IsPowerOf2(p.offset)
    BY <1>5 DEF Phases
  <2>2. PICK h \in Nat : /\ h = p.offset \div 2 /\ 2 * h <= case.size
                         /\ IsPowerOf2(case.size) => IsPowerOf2(h)
    BY <1>1, <1>2, <2>1, HalfIsPower
  <2>3. Phase("fold", h, 0) \in Phases
    BY <1>2, <2>1, <2>2, PhaseIsPhase
  <2> QED
    BY <1>4, <1>5, <2>1, <2>2, <2>3 DEF Following, SubGroupAlgorithms
<1>6. CASE p.does = "step"
  <2>1. Algorithm = "scan" /\ p.offset >= 1
    BY <1>6 DEF Phases
  <2>2. PICK o \in Nat, s \in {0, case.size} : o = 2 * p.offset /\ s = case.size - p.side /\ o >= 1
    BY <1>1, <1>2, <2>1
  <2>3. Phase("step", o, s) \in Phases /\ (case.fn # "inclusive" => Phase("last", 0, s) \in Phases)
    BY <1>1, <2>1, <2>2, PhaseIsPhase
  <2> QED
    BY <1>4, <1>6, <2>1, <2>2, <2>3 DEF Following, SubGroupAlgorithms
<1>7. CASE p.does \in {"last", "first_item"}
  <2>1. Algorithm \notin SubGroupAlgorithms
    BY <1>7 DEF Phases, SubGroupAlgorithms
  <2> QED
    BY <1>4, <1>7, <2>1 DEF Following
<1>8. CASE p.does \in {"publish", "second", "combine"}
  <2>1. Algorithm \in SubGroupAlgorithms
    BY <1>8 DEF Phases, SubGroupAlgorithms
  <2>2. Phase("publish", 0, 0) \in Phases /\ Phase("second", 0, 0) \in Phases
    BY <1>1, <1>2, <2>1, PhaseIsPhase
  <2>3. Algorithm # "sub_group_reduce" => Phase("combine", 0, 0) \in Phases
    BY <1>1, <1>2, <2>1, PhaseIsPhase DEF SubGroupAlgorithms
  <2> QED
    BY <1>8, <2>2, <2>3 DEF Following
<1> QED
  BY <1>3, <1>5, <1>6, <1>7, <1>8, PhaseFields

LEMMA SameCase ==
  ASSUME case' = case
  PROVE  /\ Items' = Items /\ Phases' = Phases /\ Algorithm' = Algorithm
         /\ \A p : Accesses(p)' = Accesses(p) /\ Following(p)' = Following(p)
         /\ \A i, label, o, s, p : IsAt(i, label, o, s, p)' = IsAt(i, label, o, s, p)
<1>1. /\ Items' = Items /\ Algorithm' = Algorithm /\ GroupCount' = GroupCount /\ Publisher' = Publisher
      /\ \A i : Group(i)' = Group(i) /\ Lane(i)' = Lane(i)
  BY DEF Items, Algorithm, GroupCount, Publisher, Group, Lane
<1>3. Phases' = Phases
  BY <1>1 DEF Phases
<1>4. ASSUME NEW p PROVE Accesses(p)' = Accesses(p)
  BY <1>1 DEF Accesses, MayAccess
<1>5. ASSUME NEW p PROVE Following(p)' = Following(p)
  BY <1>1 DEF Following, Phase
<1>6. ASSUME NEW i, NEW p PROVE LabelsOf(i, p)' = LabelsOf(i, p)
  BY <1>1 DEF LabelsOf
<1>7. ASSUME NEW i, NEW label, NEW o, NEW s, NEW p
      PROVE  IsAt(i, label, o, s, p)' = IsAt(i, label, o, s, p)
  BY <1>6 DEF IsAt
<1> QED
  BY <1>1, <1>3, <1>4, <1>5, <1>7

(* Some items move on in the phase, or reach its end.                      *)
LEMMA ItemsMove ==
  ASSUME GroupsInv, NEW p \in Phases, InPhase(p), NEW S \in SUBSET Items,
         case' = case, GroupsTypeOK',
         \A j \in Items \ S : /\ pc'[j] = pc[j] /\ offset'[j] = offset[j] /\ side_idx'[j] = side_idx[j]
                              /\ call'[j] = call[j] /\ (j \in waiting' <=> j \in waiting),
         \A j \in S : \/ j \in waiting' /\ IsAt(j, pc'[j], offset'[j], side_idx'[j], Following(p))
                      \/ j \notin waiting' /\ call'[j] > Calls
                      \/ j \notin waiting' /\ IsAt(j, pc'[j], offset'[j], side_idx'[j], p),
         accesses' \subseteq accesses \cup Accesses(p)
  PROVE  GroupsTypeOK' /\ InPhase(p)'
<1>1. /\ Items' = Items /\ Phases' = Phases /\ Accesses(p)' = Accesses(p)
      /\ Following(p)' = Following(p)
      /\ \A i, label, o, s, f : IsAt(i, label, o, s, f)' = IsAt(i, label, o, s, f)
  BY SameCase
<1>2. waiting' \subseteq Items /\ waiting \subseteq Items
  BY <1>1 DEF GroupsTypeOK, GroupsInv
<1>3. ASSUME NEW i \in waiting' PROVE IsIn(i, Following(p))'
  <2>1. IsAt(i, pc'[i], offset'[i], side_idx'[i], Following(p))
    BY <1>2, <1>3 DEF InPhase, IsIn
  <2> QED
    BY <1>1, <2>1 DEF IsIn
<1>4. ASSUME NEW i \in Items \ waiting' PROVE call'[i] > Calls \/ IsIn(i, p)'
  <2>1. call'[i] > Calls \/ IsAt(i, pc'[i], offset'[i], side_idx'[i], p)
    BY <1>2, <1>4 DEF InPhase, IsIn
  <2> QED
    BY <1>1, <2>1 DEF IsIn
<1>5. accesses' \subseteq Accesses(p)'
  BY <1>1 DEF InPhase
<1> QED
  BY <1>1, <1>3, <1>4, <1>5 DEF InPhase

-----------------------------------------------------------------------------
(* One item moves on, and may wait.                                        *)
LEMMA ItemMoves ==
  ASSUME GroupsInv, NEW p \in Phases, InPhase(p), NEW i \in Items, i \notin waiting,
         UNCHANGED case, GroupsTypeOK',
         \A j \in Items \ {i} : /\ pc'[j] = pc[j] /\ offset'[j] = offset[j]
                                /\ side_idx'[j] = side_idx[j] /\ call'[j] = call[j],
         \/ /\ waiting' = waiting \cup {i}
            /\ IsAt(i, pc'[i], offset'[i], side_idx'[i], Following(p))
         \/ /\ waiting' = waiting
            /\ call'[i] > Calls \/ IsAt(i, pc'[i], offset'[i], side_idx'[i], p),
         accesses' \subseteq accesses \cup Accesses(p)
  PROVE  GroupsTypeOK' /\ InPhase(p)'
<1>1. {i} \in SUBSET Items
  OBVIOUS
<1>2. \A j \in Items \ {i} : j \in waiting' <=> j \in waiting
  OBVIOUS
<1>3. \A j \in {i} : \/ j \in waiting' /\ IsAt(j, pc'[j], offset'[j], side_idx'[j], Following(p))
                     \/ j \notin waiting' /\ call'[j] > Calls
                     \/ j \notin waiting' /\ IsAt(j, pc'[j], offset'[j], side_idx'[j], p)
  OBVIOUS
<1> QED
  BY <1>1, <1>2, <1>3, ItemsMove

LEMMA AccessIs ==
  ASSUME NEW p, NEW i \in Items, NEW n \in Nat, NEW w \in BOOLEAN, MayAccess(p, i, n, w)
  PROVE  <<i, n, w>> \in Accesses(p)
BY DEF Accesses

(* An item that may move is in the phase of the others.                    *)
LEMMA ActiveIsIn ==
  ASSUME GroupsInv, NEW p \in Phases, InPhase(p), NEW i \in Items, i \notin waiting, call[i] <= Calls
  PROVE  IsAt(i, pc[i], offset[i], side_idx[i], p)
<1>1. call[i] \in Nat /\ Calls \in Nat
  BY CasesAssumption DEF GroupsInv, GroupsTypeOK
<1> QED
  BY <1>1 DEF InPhase, IsIn

(* The labels say which phase it is.                                       *)
LEMMA LabelsAreOf ==
  ASSUME case \in Cases, NEW p \in Phases, NEW i, NEW label, NEW o, NEW s, IsAt(i, label, o, s, p)
  PROVE  /\ label = "begin" => p.does \in {"store", "publish"}
         /\ label = "begin" /\ Algorithm \notin SubGroupAlgorithms => p.does = "store"
         /\ label = "begin" /\ Algorithm \in SubGroupAlgorithms => p.does = "publish"
         /\ label \in {"fold", "first_item", "step", "publish", "second", "combine"} => p.does = label
         /\ label = "offsets" => p.does = "second" /\ Group(i) = 0
         /\ label = "last" => \/ p.does = "last" /\ case.fn # "inclusive"
                              \/ p.does = "store" /\ case.fn = "inclusive" /\ Algorithm = "scan"
         /\ label = "return" =>
              \/ p.does = "store" /\ (Algorithm = "host_scan" \/ (Algorithm = "scan" /\ case.fn # "inclusive"))
              \/ p.does = "publish" /\ Algorithm \in SubGroupAlgorithms
<1>1. label \in LabelsOf(i, p)
  BY DEF IsAt
<1>2. /\ p.does = "store" => Algorithm \notin SubGroupAlgorithms
      /\ p.does = "publish" => Algorithm \in SubGroupAlgorithms
      /\ p.does = "last" => case.fn # "inclusive"
  BY DEF Phases
<1>3. p.does \in {"store", "fold", "step", "last", "first_item", "publish", "second", "combine"}
  BY PhaseFields
<1>4. p.does = "store" => label \in {"begin", "last", "return"}
                          /\ (label = "last" => Algorithm = "scan" /\ case.fn = "inclusive")
                          /\ (label = "return" => \/ Algorithm = "host_scan"
                                                  \/ (Algorithm = "scan" /\ case.fn # "inclusive"))
  BY <1>1 DEF LabelsOf
<1>5. p.does = "publish" => label \in {"begin", "publish", "return"}
  BY <1>1 DEF LabelsOf
<1>6. p.does = "second" => label \in {"second", "offsets"} /\ (label = "offsets" => Group(i) = 0)
  BY <1>1 DEF LabelsOf
<1>7. p.does \in {"fold", "step", "last", "first_item", "combine"} => label = p.does
  BY <1>1 DEF LabelsOf
<1> QED
  BY <1>2, <1>3, <1>4, <1>5, <1>6, <1>7

(* A step of one item                                                      *)
LEMMA StepPreserves ==
  ASSUME GroupsInv, NEW p \in Phases, InPhase(p), NEW i \in Items, i \notin waiting, case' = case,
         NEW label \in Labels, NEW o \in Nat, NEW s \in Nat, NEW c \in Nat,
         pc' = [pc EXCEPT ![i] = label], call' = [call EXCEPT ![i] = c],
         offset' = [offset EXCEPT ![i] = o], side_idx' = [side_idx EXCEPT ![i] = s],
         \/ waiting' = waiting \cup {i} /\ IsAt(i, label, o, s, Following(p))
         \/ waiting' = waiting /\ (c > Calls \/ IsAt(i, label, o, s, p)),
         accesses' \subseteq accesses \cup Accesses(p)
  PROVE  GroupsTypeOK' /\ InPhase(p)'
<1>1. GroupsTypeOK
  BY DEF GroupsInv
<1>2. Items' = Items
  BY SameCase
<1>3. Accesses(p) \subseteq Items \X Nat \X BOOLEAN
  BY DEF Accesses
<1>4. /\ pc' \in [Items -> Labels] /\ call' \in [Items -> Nat]
      /\ offset' \in [Items -> Nat] /\ side_idx' \in [Items -> Nat]
      /\ pc'[i] = label /\ call'[i] = c /\ offset'[i] = o /\ side_idx'[i] = s
      /\ \A j \in Items \ {i} : /\ pc'[j] = pc[j] /\ offset'[j] = offset[j]
                                /\ side_idx'[j] = side_idx[j] /\ call'[j] = call[j]
  BY <1>1 DEF GroupsTypeOK
<1>5. accesses' \subseteq Items \X Nat \X BOOLEAN
  BY <1>1, <1>3 DEF GroupsTypeOK
<1>6. GroupsTypeOK'
  BY <1>1, <1>2, <1>4, <1>5 DEF GroupsTypeOK
<1> QED
  BY <1>4, <1>6, ItemMoves

(* What an item may do and has at the time                                 *)
LEMMA ItemFields ==
  ASSUME GroupsInv, NEW i \in Items
  PROVE  /\ case \in Cases /\ Calls \in Nat
         /\ call[i] \in Nat /\ offset[i] \in Nat /\ side_idx[i] \in Nat /\ pc[i] \in Labels
         /\ offset = [offset EXCEPT ![i] = offset[i]] /\ side_idx = [side_idx EXCEPT ![i] = side_idx[i]]
         /\ call = [call EXCEPT ![i] = call[i]]
BY CasesAssumption DEF GroupsInv, GroupsTypeOK

(* The same for a step that leaves the item's loop variables alone         *)
LEMMA StepKeepsLoop ==
  ASSUME GroupsInv, NEW p \in Phases, InPhase(p), NEW i \in Items, i \notin waiting, case' = case,
         NEW label \in Labels, NEW c \in Nat,
         pc' = [pc EXCEPT ![i] = label], call' = [call EXCEPT ![i] = c],
         offset' = offset, side_idx' = side_idx,
         \/ waiting' = waiting \cup {i} /\ IsAt(i, label, offset[i], side_idx[i], Following(p))
         \/ waiting' = waiting /\ (c > Calls \/ IsAt(i, label, offset[i], side_idx[i], p)),
         accesses' \subseteq accesses \cup Accesses(p)
  PROVE  GroupsTypeOK' /\ InPhase(p)'
<1>1. PICK o \in Nat, s \in Nat : o = offset[i] /\ s = side_idx[i]
  BY ItemFields
<1>2. offset' = [offset EXCEPT ![i] = o] /\ side_idx' = [side_idx EXCEPT ![i] = s]
  BY <1>1, ItemFields
<1> QED
  BY <1>1, <1>2, StepPreserves

LEMMA StorePreserves ==
  ASSUME GroupsInv, NEW p \in Phases, InPhase(p), NEW i \in Items, Store(i)
  PROVE  GroupsTypeOK' /\ InPhase(p)'
<1>2. case \in Cases /\ i \notin waiting /\ call[i] <= Calls /\ pc[i] = "begin" /\ case.size \in Nat
  BY ItemFields, CaseFields DEF Store, At
<1>3. Algorithm \in {"reduce", "host_reduce", "scan", "host_scan"}
  BY DEF Store
<1>4. p.does = "store"
  <2>1. IsAt(i, "begin", offset[i], side_idx[i], p)
    BY <1>2, ActiveIsIn
  <2> QED
    BY <1>2, <1>3, <2>1, LabelsAreOf DEF SubGroupAlgorithms
<1>5. PICK o \in Nat, label \in Labels, s \in Nat :
        /\ o = IF Algorithm = "reduce" THEN case.size \div 2 ELSE 1
        /\ label = CASE Algorithm = "reduce" -> "fold"
                     [] Algorithm = "scan" -> IF 1 < case.size THEN "step" ELSE "last"
                     [] OTHER -> "first_item"
        /\ s = 0
  BY <1>2 DEF Labels
<1>6. /\ offset' = [offset EXCEPT ![i] = o] /\ side_idx' = [side_idx EXCEPT ![i] = s]
      /\ pc' = [pc EXCEPT ![i] = label] /\ waiting' = waiting \cup {i}
      /\ accesses' = accesses \cup {<<i, i, TRUE>>} /\ case' = case /\ call' = call
  BY <1>5 DEF Store, BarrierThen, Access, Writes
<1>7. IsAt(i, label, o, s, Following(p))
  BY <1>4, <1>5 DEF IsAt, Following, Phase, LabelsOf
<1>8. accesses' \subseteq accesses \cup Accesses(p)
  <2>1. i \in Nat /\ TRUE \in BOOLEAN
    BY <1>2, ItemIs
  <2>2. <<i, i, TRUE>> \in Accesses(p)
    BY <1>4, <2>1 DEF Accesses, MayAccess
  <2> QED
    BY <1>6, <2>2
<1>9. call[i] \in Nat /\ call' = [call EXCEPT ![i] = call[i]]
  BY <1>6, ItemFields
<1> QED
  BY <1>2, <1>6, <1>7, <1>8, <1>9, StepPreserves

(* A call returns: the item begins the next one, waits for it, or is done. *)
LEMMA ReturnMoves ==
  ASSUME GroupsInv, NEW i \in Items, NEW v, Return(i, v)
  PROVE  /\ call' = [call EXCEPT ![i] = call[i] + 1] /\ call[i] + 1 \in Nat
         /\ pc' = [pc EXCEPT ![i] = "begin"] /\ "begin" \in Labels
         /\ \/ Algorithm \in {"reduce", "host_reduce"} /\ waiting' = waiting \cup {i}
            \/ Algorithm \in {"reduce", "host_reduce"} /\ waiting' = waiting /\ call[i] + 1 > Calls
            \/ Algorithm \notin {"reduce", "host_reduce"} /\ waiting' = waiting
<1>1. call[i] \in Nat /\ Calls \in Nat
  BY ItemFields
<1>2. /\ call' = [call EXCEPT ![i] = call[i] + 1]
      /\ pc' = [pc EXCEPT ![i] = "begin"]
      /\ IF Algorithm \in {"reduce", "host_reduce"} /\ call[i] < Calls
         THEN waiting' = waiting \cup {i} ELSE waiting' = waiting
  BY DEF Return, BarrierThen, Go
<1> QED
  BY <1>1, <1>2 DEF Labels

LEMMA FoldPreserves ==
  ASSUME GroupsInv, NEW p \in Phases, InPhase(p), NEW i \in Items, Fold(i)
  PROVE  GroupsTypeOK' /\ InPhase(p)'
<1>2. case \in Cases /\ i \notin waiting /\ call[i] <= Calls /\ pc[i] = "fold"
  BY ItemFields DEF Fold, At
<1>3. p.does = "fold" /\ offset[i] = p.offset /\ Algorithm = "reduce" /\ p.offset \in Nat
  <2>1. IsAt(i, "fold", offset[i], side_idx[i], p)
    BY <1>2, ActiveIsIn
  <2>2. p.does = "fold"
    BY <1>2, <2>1, LabelsAreOf
  <2> QED
    BY <2>1, <2>2 DEF IsAt, Phases
<1>4. PICK o \in Nat : o = p.offset \div 2
  BY <1>3
<1>5. /\ offset' = [offset EXCEPT ![i] = o] /\ side_idx' = side_idx /\ case' = case
      /\ \A a \in accesses' \ accesses : i < p.offset /\ a \in {<<i, i, TRUE>>, <<i, i + p.offset, FALSE>>}
  BY <1>3, <1>4 DEF Fold, Access, Reads, Writes
<1>6. accesses' \subseteq accesses \cup Accesses(p)
  <2>1. i < p.offset => <<i, i, TRUE>> \in Accesses(p) /\ <<i, i + p.offset, FALSE>> \in Accesses(p)
    <3>1. i \in Nat /\ i + p.offset \in Nat
      BY <1>2, <1>3, ItemIs
    <3> QED
      BY <1>3, <3>1 DEF Accesses, MayAccess
  <2> QED
    BY <1>5, <2>1
<1>7. side_idx[i] \in Nat /\ side_idx' = [side_idx EXCEPT ![i] = side_idx[i]]
  BY <1>5, ItemFields
<1>8. CASE o > 0
  <2>1. /\ pc' = [pc EXCEPT ![i] = "fold"] /\ waiting' = waiting \cup {i} /\ call' = call /\ "fold" \in Labels
    BY <1>3, <1>4, <1>8 DEF Fold, BarrierThen, Labels
  <2>2. call[i] \in Nat /\ call' = [call EXCEPT ![i] = call[i]]
    BY <2>1, ItemFields
  <2>3. IsAt(i, "fold", o, side_idx[i], Following(p))
    BY <1>3, <1>4, <1>8 DEF IsAt, Following, Phase, LabelsOf
  <2> QED
    BY <1>2, <1>5, <1>6, <1>7, <2>1, <2>2, <2>3, StepPreserves
<1>9. CASE ~(o > 0)
  <2>1. Return(i, Folded(i))
    BY <1>3, <1>4, <1>9 DEF Fold
  <2>2. IsAt(i, "begin", o, side_idx[i], Following(p))
    BY <1>3, <1>4, <1>9 DEF IsAt, Following, Phase, LabelsOf
  <2>3. /\ call' = [call EXCEPT ![i] = call[i] + 1] /\ call[i] + 1 \in Nat
        /\ pc' = [pc EXCEPT ![i] = "begin"] /\ "begin" \in Labels
        /\ \/ waiting' = waiting \cup {i}
           \/ waiting' = waiting /\ call[i] + 1 > Calls
    BY <1>3, <2>1, ReturnMoves
  <2> QED
    BY <1>2, <1>5, <1>6, <1>7, <2>2, <2>3, StepPreserves
<1> QED
  BY <1>8, <1>9

LEMMA HostReducePreserves ==
  ASSUME GroupsInv, NEW p \in Phases, InPhase(p), NEW i \in Items, HostReduce(i)
  PROVE  GroupsTypeOK' /\ InPhase(p)'
<1>2. /\ case \in Cases /\ i \notin waiting /\ call[i] <= Calls /\ pc[i] = "first_item"
      /\ Algorithm = "host_reduce"
  BY ItemFields DEF HostReduce, At
<1>3. p.does = "first_item"
  <2>1. IsAt(i, "first_item", offset[i], side_idx[i], p)
    BY <1>2, ActiveIsIn
  <2> QED
    BY <1>2, <2>1, LabelsAreOf
<1>4. /\ Return(i, lmem'[0]) /\ case' = case /\ accesses' = accesses
      /\ offset' = offset /\ side_idx' = side_idx
  BY DEF HostReduce
<1>5. /\ call' = [call EXCEPT ![i] = call[i] + 1] /\ call[i] + 1 \in Nat
      /\ pc' = [pc EXCEPT ![i] = "begin"] /\ "begin" \in Labels
      /\ \/ waiting' = waiting \cup {i}
         \/ waiting' = waiting /\ call[i] + 1 > Calls
  BY <1>2, <1>4, ReturnMoves
<1>6. IsAt(i, "begin", offset[i], side_idx[i], Following(p))
  BY <1>3 DEF IsAt, Following, Phase, LabelsOf
<1> QED
  BY <1>2, <1>4, <1>5, <1>6, StepKeepsLoop

LEMMA HostScanPreserves ==
  ASSUME GroupsInv, NEW p \in Phases, InPhase(p), NEW i \in Items, HostScan(i)
  PROVE  GroupsTypeOK' /\ InPhase(p)'
<1>2. /\ case \in Cases /\ i \notin waiting /\ call[i] <= Calls /\ pc[i] = "first_item"
      /\ Algorithm = "host_scan"
  BY ItemFields DEF HostScan, At
<1>3. p.does = "first_item"
  <2>1. IsAt(i, "first_item", offset[i], side_idx[i], p)
    BY <1>2, ActiveIsIn
  <2> QED
    BY <1>2, <2>1, LabelsAreOf
<1>4. /\ pc' = [pc EXCEPT ![i] = "return"] /\ waiting' = waiting \cup {i} /\ "return" \in Labels
      /\ case' = case /\ accesses' = accesses /\ call' = call /\ offset' = offset /\ side_idx' = side_idx
  BY DEF HostScan, BarrierThen, Labels
<1>5. IsAt(i, "return", offset[i], side_idx[i], Following(p))
  BY <1>2, <1>3 DEF IsAt, Following, Phase, LabelsOf
<1>6. call[i] \in Nat /\ call' = [call EXCEPT ![i] = call[i]]
  BY <1>4, ItemFields
<1> QED
  BY <1>2, <1>4, <1>5, <1>6, StepKeepsLoop

LEMMA ScanStepPreserves ==
  ASSUME GroupsInv, NEW p \in Phases, InPhase(p), NEW i \in Items, ScanStep(i)
  PROVE  GroupsTypeOK' /\ InPhase(p)'
<1>2. case \in Cases /\ i \notin waiting /\ call[i] <= Calls /\ pc[i] = "step" /\ i \in Nat
  BY ItemFields, ItemIs DEF ScanStep, At
<1>3. p.does = "step" /\ offset[i] = p.offset /\ side_idx[i] = p.side /\ Algorithm = "scan"
  <2>1. IsAt(i, "step", offset[i], side_idx[i], p)
    BY <1>2, ActiveIsIn
  <2>2. p.does = "step"
    BY <1>2, <2>1, LabelsAreOf
  <2> QED
    BY <2>1, <2>2 DEF IsAt, Phases
<1>4. /\ p.offset \in Nat /\ p.side \in Nat /\ case.size \in Nat /\ case.size - p.side \in Nat
  BY <1>2, PhaseFields
<1>5. PICK o \in Nat, s \in Nat, label \in Labels :
        /\ o = 2 * p.offset /\ s = case.size - p.side
        /\ label = IF 2 * p.offset < case.size THEN "step" ELSE "last"
  BY <1>4 DEF Labels
<1>6. /\ pc' = [pc EXCEPT ![i] = label] /\ waiting' = waiting \cup {i}
      /\ offset' = [offset EXCEPT ![i] = o] /\ side_idx' = [side_idx EXCEPT ![i] = s]
      /\ case' = case /\ call' = call
      /\ accesses' = accesses \cup ({<<i, s + i, TRUE>>}
                       \cup (IF i >= p.offset THEN {<<i, p.side + i - p.offset, FALSE>>} ELSE {}))
  <2>1. offset[i] \in Nat /\ offset' = [offset EXCEPT ![i] = 2 * offset[i]]
    BY ItemFields DEF ScanStep
  <2>2. /\ case' = case /\ call' = call
        /\ side_idx' = [side_idx EXCEPT ![i] = case.size - side_idx[i]]
        /\ accesses' = accesses \cup ({<<i, (case.size - side_idx[i]) + i, TRUE>>}
                       \cup (IF i >= offset[i] THEN {<<i, side_idx[i] + i - offset[i], FALSE>>} ELSE {}))
        /\ pc' = [pc EXCEPT ![i] = IF 2 * offset[i] < case.size THEN "step" ELSE "last"]
        /\ waiting' = waiting \cup {i}
    BY DEF ScanStep, BarrierThen, Access, Reads, Writes
  <2> QED
    BY <1>3, <1>5, <2>1, <2>2
<1>7. IsAt(i, label, o, s, Following(p))
  BY <1>3, <1>5 DEF IsAt, Following, Phase, LabelsOf
<1>8. accesses' \subseteq accesses \cup Accesses(p)
  <2>1. s + i \in Nat /\ <<i, s + i, TRUE>> \in Accesses(p)
    <3>1. s + i \in Nat /\ TRUE \in BOOLEAN /\ MayAccess(p, i, s + i, TRUE)
      BY <1>2, <1>3, <1>5 DEF MayAccess
    <3> QED
      BY <3>1, AccessIs
  <2>2. ASSUME i >= p.offset PROVE <<i, p.side + i - p.offset, FALSE>> \in Accesses(p)
    <3>1. p.side + i - p.offset = p.side + (i - p.offset) /\ p.side + i - p.offset \in Nat
      BY <1>2, <1>4, <2>2
    <3> QED
      BY <1>3, <2>2, <3>1 DEF Accesses, MayAccess
  <2> QED
    BY <1>6, <2>1, <2>2
<1>9. call[i] \in Nat /\ call' = [call EXCEPT ![i] = call[i]]
  BY <1>6, ItemFields
<1> QED
  BY <1>2, <1>6, <1>7, <1>8, <1>9, StepPreserves

LEMMA ScanLastPreserves ==
  ASSUME GroupsInv, NEW p \in Phases, InPhase(p), NEW i \in Items, ScanLast(i)
  PROVE  GroupsTypeOK' /\ InPhase(p)'
<1>2. case \in Cases /\ i \notin waiting /\ call[i] <= Calls /\ pc[i] = "last" /\ i \in Nat
  BY ItemFields, ItemIs DEF ScanLast, At
<1>3. IsAt(i, "last", offset[i], side_idx[i], p)
  BY <1>2, ActiveIsIn
<1>4. /\ call[i] \in Nat /\ call = [call EXCEPT ![i] = call[i]]
      /\ case' = case /\ offset' = offset /\ side_idx' = side_idx
  BY ItemFields DEF ScanLast
<1>5. CASE case.fn = "inclusive"
  <2>1. p.does = "store" /\ Algorithm = "scan"
    BY <1>2, <1>3, <1>5, LabelsAreOf
  <2>2. Return(i, value[i]) /\ accesses' = accesses
    BY <1>5 DEF ScanLast
  <2>3. /\ call' = [call EXCEPT ![i] = call[i] + 1] /\ call[i] + 1 \in Nat
        /\ pc' = [pc EXCEPT ![i] = "begin"] /\ "begin" \in Labels /\ waiting' = waiting
    BY <2>1, <2>2, ReturnMoves
  <2>4. IsAt(i, "begin", offset[i], side_idx[i], p)
    BY <2>1 DEF IsAt, LabelsOf
  <2>5. accesses' \subseteq accesses \cup Accesses(p)
    BY <2>2
  <2> QED
    BY <1>2, <1>4, <2>3, <2>4, <2>5, StepKeepsLoop
<1>6. CASE case.fn # "inclusive"
  <2>1. p.does = "last" /\ side_idx[i] = p.side /\ Algorithm = "scan"
    <3>1. p.does = "last"
      BY <1>2, <1>3, <1>6, LabelsAreOf
    <3> QED
      BY <1>3, <3>1 DEF IsAt, Phases
  <2>2. /\ pc' = [pc EXCEPT ![i] = "return"] /\ waiting' = waiting \cup {i} /\ "return" \in Labels
        /\ call' = call
        /\ accesses' = accesses \cup (IF i = 0 THEN {} ELSE {<<i, p.side + i - 1, FALSE>>})
    <3>1. pc' = [pc EXCEPT ![i] = "return"] /\ waiting' = waiting \cup {i} /\ "return" \in Labels
      BY <1>6 DEF ScanLast, BarrierThen, Labels
    <3>2. /\ call' = call
          /\ accesses' = accesses \cup (IF i = 0 THEN {} ELSE {<<i, side_idx[i] + i - 1, FALSE>>})
      BY <1>6 DEF ScanLast, Access, Reads
    <3> QED
      BY <2>1, <3>1, <3>2
  <2>3. IsAt(i, "return", offset[i], side_idx[i], Following(p))
    BY <1>6, <2>1 DEF IsAt, Following, Phase, LabelsOf
  <2>4. accesses' \subseteq accesses \cup Accesses(p)
    <3>1. ASSUME i # 0 PROVE <<i, p.side + i - 1, FALSE>> \in Accesses(p)
      <4>1. p.side \in Nat
        BY <1>2, PhaseFields
      <4>2. i > 0 /\ p.side + i - 1 = p.side + (i - 1) /\ p.side + i - 1 \in Nat
        BY <1>2, <3>1, <4>1
      <4> QED
        BY <2>1, <4>2 DEF Accesses, MayAccess
    <3> QED
      BY <2>2, <3>1
  <2> QED
    BY <1>2, <1>4, <2>2, <2>3, <2>4, StepKeepsLoop
<1> QED
  BY <1>5, <1>6

LEMMA ReturnValuePreserves ==
  ASSUME GroupsInv, NEW p \in Phases, InPhase(p), NEW i \in Items, ReturnValue(i)
  PROVE  GroupsTypeOK' /\ InPhase(p)'
<1>2. case \in Cases /\ i \notin waiting /\ call[i] <= Calls /\ pc[i] = "return"
  BY ItemFields DEF ReturnValue, At
<1>3. IsAt(i, "return", offset[i], side_idx[i], p)
  BY <1>2, ActiveIsIn
<1>4. p.does \in {"store", "publish"} /\ Algorithm \notin {"reduce", "host_reduce"}
  BY <1>2, <1>3, LabelsAreOf DEF SubGroupAlgorithms
<1>5. /\ Return(i, value[i]) /\ accesses' = accesses /\ case' = case
      /\ offset' = offset /\ side_idx' = side_idx
  BY DEF ReturnValue
<1>6. /\ call' = [call EXCEPT ![i] = call[i] + 1] /\ call[i] + 1 \in Nat
      /\ pc' = [pc EXCEPT ![i] = "begin"] /\ "begin" \in Labels /\ waiting' = waiting
  BY <1>4, <1>5, ReturnMoves
<1>7. IsAt(i, "begin", offset[i], side_idx[i], p)
  BY <1>4 DEF IsAt, LabelsOf
<1> QED
  BY <1>2, <1>5, <1>6, <1>7, StepKeepsLoop

LEMMA PublishPreserves ==
  ASSUME GroupsInv, NEW p \in Phases, InPhase(p), NEW i \in Items, Publish(i)
  PROVE  GroupsTypeOK' /\ InPhase(p)'
<1>2. case \in Cases /\ i \notin waiting /\ call[i] <= Calls /\ pc[i] = "publish"
  BY ItemFields DEF Publish, At
<1>3. p.does = "publish"
  <2>1. IsAt(i, "publish", offset[i], side_idx[i], p)
    BY <1>2, ActiveIsIn
  <2> QED
    BY <1>2, <2>1, LabelsAreOf
<1>4. /\ pc' = [pc EXCEPT ![i] = "second"] /\ waiting' = waiting \cup {i} /\ "second" \in Labels
      /\ case' = case /\ call' = call /\ offset' = offset /\ side_idx' = side_idx
      /\ accesses' \subseteq accesses \cup (IF Lane(i) = Publisher THEN {<<i, Group(i), TRUE>>} ELSE {})
  BY DEF Publish, BarrierThen, Access, Writes, Labels
<1>5. ASSUME Lane(i) = Publisher PROVE <<i, Group(i), TRUE>> \in Accesses(p)
  <2>1. Group(i) \in Nat /\ TRUE \in BOOLEAN /\ MayAccess(p, i, Group(i), TRUE)
    BY <1>2, <1>3, <1>5, ItemIs DEF MayAccess
  <2> QED
    BY <2>1, AccessIs
<1>6. accesses' \subseteq accesses \cup Accesses(p)
  BY <1>4, <1>5
<1>7. IsAt(i, "second", offset[i], side_idx[i], Following(p))
  BY <1>3 DEF IsAt, Following, Phase, LabelsOf
<1>8. call[i] \in Nat /\ call' = [call EXCEPT ![i] = call[i]]
  BY <1>4, ItemFields
<1> QED
  BY <1>2, <1>4, <1>6, <1>7, <1>8, StepKeepsLoop

(* The end of the second pass, in the first sub-group and the others       *)
LEMMA SecondEnds ==
  ASSUME GroupsInv, NEW p \in Phases, InPhase(p), NEW i \in Items, StoreOffsets(i) \/ SkipSecond(i)
  PROVE  GroupsTypeOK' /\ InPhase(p)'
<1>2. /\ case \in Cases /\ i \notin waiting /\ call[i] <= Calls /\ pc[i] \in {"offsets", "second"}
      /\ StoreOffsets(i) => pc[i] = "offsets"
  BY ItemFields DEF StoreOffsets, SkipSecond, At
<1>3. IsAt(i, pc[i], offset[i], side_idx[i], p)
  BY <1>2, ActiveIsIn
<1>4. PICK label : label = pc[i] /\ IsAt(i, label, offset[i], side_idx[i], p)
  BY <1>3
<1>5. p.does = "second" /\ (StoreOffsets(i) => Group(i) = 0)
  BY <1>2, <1>4, LabelsAreOf
<1>6. PICK next \in Labels : next = IF case.fn = "reduce" THEN "return" ELSE "combine"
  BY DEF Labels
<1>7. /\ pc' = [pc EXCEPT ![i] = next] /\ waiting' = waiting \cup {i}
      /\ case' = case /\ call' = call /\ offset' = offset /\ side_idx' = side_idx
  <2>1. CASE StoreOffsets(i)
    BY <1>6, <2>1 DEF StoreOffsets, BarrierThen
  <2>2. CASE SkipSecond(i)
    BY <1>6, <2>2 DEF SkipSecond, BarrierThen
  <2> QED
    BY <2>1, <2>2
<1>9. accesses' \subseteq accesses \cup Accesses(p)
  <2>1. CASE SkipSecond(i)
    BY <2>1 DEF SkipSecond
  <2>2. CASE StoreOffsets(i)
    <3>1. accesses' = accesses \/ (Lane(i) < GroupCount /\ accesses' = accesses \cup {<<i, Lane(i), TRUE>>})
      BY <2>2 DEF StoreOffsets, Access, Writes
    <3>2. ASSUME Lane(i) < GroupCount PROVE <<i, Lane(i), TRUE>> \in Accesses(p)
      <4>1. Lane(i) \in Nat /\ TRUE \in BOOLEAN /\ MayAccess(p, i, Lane(i), TRUE)
        BY <1>2, <1>5, <2>2, <3>2, ItemIs DEF MayAccess
      <4> QED
        BY <4>1, AccessIs
    <3> QED
      BY <3>1, <3>2
  <2> QED
    BY <2>1, <2>2
<1>10. IsAt(i, next, offset[i], side_idx[i], Following(p))
  <2>1. Algorithm \in SubGroupAlgorithms
    BY <1>5 DEF Phases
  <2>2. Algorithm = "sub_group_reduce" <=> case.fn = "reduce"
    <3>1. case.fn = "reduce" => Algorithm \in {"reduce", "host_reduce", "sub_group_reduce"}
      BY <1>2, AlgorithmIs, CaseFields
    <3>2. Algorithm = "sub_group_reduce" => case.fn = "reduce"
      BY <1>2, AlgorithmIs
    <3> QED
      BY <2>1, <3>1, <3>2 DEF SubGroupAlgorithms
  <2> QED
    BY <1>5, <1>6, <2>2 DEF IsAt, Following, Phase, LabelsOf
<1>11. call[i] \in Nat /\ call' = [call EXCEPT ![i] = call[i]]
  BY <1>7, ItemFields
<1> QED
  BY <1>2, <1>7, <1>9, <1>10, <1>11, StepKeepsLoop

-----------------------------------------------------------------------------
(* Steps of a sub-group                                                    *)

(* The lanes of a sub-group go on together.                                *)
LEMMA LanesStep ==
  ASSUME GroupsInv, NEW p \in Phases, InPhase(p), NEW g, NEW label \in Labels,
         case' = case, call' = call, offset' = offset, side_idx' = side_idx,
         pc' = [i \in Items |-> IF Group(i) = g THEN label ELSE pc[i]],
         Lanes(g) \cap waiting = {},
         \/ waiting' = waiting /\ \A i \in Lanes(g) : IsAt(i, label, offset[i], side_idx[i], p)
         \/ /\ waiting' = waiting \cup Lanes(g)
            /\ \A i \in Lanes(g) : IsAt(i, label, offset[i], side_idx[i], Following(p)),
         accesses' \subseteq accesses \cup Accesses(p)
  PROVE  GroupsTypeOK' /\ InPhase(p)'
<1>1. GroupsTypeOK
  BY DEF GroupsInv
<1>2. Items' = Items
  BY SameCase
<1>3. Accesses(p) \subseteq Items \X Nat \X BOOLEAN
  BY DEF Accesses
<1>4. Lanes(g) \in SUBSET Items /\ \A i \in Items : i \in Lanes(g) <=> Group(i) = g
  BY DEF Lanes
<1>5. /\ pc' \in [Items -> Labels] /\ waiting' \subseteq Items
      /\ accesses' \subseteq Items \X Nat \X BOOLEAN
  BY <1>1, <1>3, <1>4 DEF GroupsTypeOK
<1>6. GroupsTypeOK'
  BY <1>1, <1>2, <1>5 DEF GroupsTypeOK
<1>7. \A j \in Items \ Lanes(g) : /\ pc'[j] = pc[j] /\ offset'[j] = offset[j] /\ side_idx'[j] = side_idx[j]
                                  /\ call'[j] = call[j] /\ (j \in waiting' <=> j \in waiting)
  BY <1>4
<1>8. \A j \in Lanes(g) : \/ j \in waiting' /\ IsAt(j, pc'[j], offset'[j], side_idx'[j], Following(p))
                          \/ j \notin waiting' /\ IsAt(j, pc'[j], offset'[j], side_idx'[j], p)
  BY <1>4
<1> QED
  BY <1>4, <1>6, <1>7, <1>8, ItemsMove

LEMMA LanesAreIn ==
  ASSUME GroupsInv, NEW p \in Phases, InPhase(p), NEW g, NEW label, SubGroupAt(g, label)
  PROVE  /\ Lanes(g) \cap waiting = {}
         /\ \A i \in Lanes(g) : i \in Items /\ Group(i) = g /\ IsAt(i, label, offset[i], side_idx[i], p)
<1>1. Lanes(g) \subseteq Items /\ \A i \in Lanes(g) : Group(i) = g
  BY DEF Lanes
<1>2. \A i \in Lanes(g) : pc[i] = label /\ i \notin waiting /\ call[i] <= Calls
  BY DEF SubGroupAt
<1> QED
  BY <1>1, <1>2, ActiveIsIn

LEMMA FirstPassPreserves ==
  ASSUME GroupsInv, NEW p \in Phases, InPhase(p), NEW g, FirstPass(g)
  PROVE  GroupsTypeOK' /\ InPhase(p)'
<1>2. case \in Cases /\ SubGroupAt(g, "begin") /\ Algorithm \in SubGroupAlgorithms
  BY DEF GroupsInv, GroupsTypeOK, FirstPass, SubGroupAlgorithms
<1>3. /\ Lanes(g) \cap waiting = {}
      /\ \A i \in Lanes(g) : i \in Items /\ IsAt(i, "begin", offset[i], side_idx[i], p)
  BY <1>2, LanesAreIn
<1>4. ASSUME NEW i \in Lanes(g) PROVE IsAt(i, "publish", offset[i], side_idx[i], p)
  <2>1. p.does = "publish"
    BY <1>2, <1>3, LabelsAreOf
  <2> QED
    BY <2>1 DEF IsAt, LabelsOf
<1>5. /\ pc' = [i \in Items |-> IF Group(i) = g THEN "publish" ELSE pc[i]] /\ "publish" \in Labels
      /\ case' = case /\ call' = call /\ offset' = offset /\ side_idx' = side_idx /\ waiting' = waiting
      /\ accesses' \subseteq accesses \cup Accesses(p)
  BY DEF FirstPass, Labels
<1> QED
  BY <1>3, <1>4, <1>5, LanesStep

LEMMA SecondPassPreserves ==
  ASSUME GroupsInv, NEW p \in Phases, InPhase(p), SecondPass
  PROVE  GroupsTypeOK' /\ InPhase(p)'
<1>2. case \in Cases /\ SubGroupAt(0, "second")
  BY DEF GroupsInv, GroupsTypeOK, SecondPass
<1>3. /\ Lanes(0) \cap waiting = {}
      /\ \A i \in Lanes(0) : i \in Items /\ Group(i) = 0 /\ IsAt(i, "second", offset[i], side_idx[i], p)
  BY <1>2, LanesAreIn
<1>4. ASSUME NEW i \in Lanes(0) PROVE p.does = "second" /\ IsAt(i, "offsets", offset[i], side_idx[i], p)
  <2>1. p.does = "second"
    BY <1>2, <1>3, LabelsAreOf
  <2> QED
    BY <1>3, <2>1 DEF IsAt, LabelsOf
<1>5. /\ pc' = [i \in Items |-> IF Group(i) = 0 THEN "offsets" ELSE pc[i]] /\ "offsets" \in Labels
      /\ case' = case /\ call' = call /\ offset' = offset /\ side_idx' = side_idx /\ waiting' = waiting
      /\ accesses' = accesses \cup UNION {Reads(i, {Lane(i)} \cap 0..GroupCount - 1) : i \in Lanes(0)}
  BY DEF SecondPass, Labels, Access
<1>6. ASSUME NEW i \in Lanes(0) PROVE Reads(i, {Lane(i)} \cap 0..GroupCount - 1) \subseteq Accesses(p)
  <2>1. i \in Items /\ Lane(i) \in Nat /\ Group(i) = 0 /\ FALSE \in BOOLEAN
    BY <1>2, <1>3, ItemIs
  <2>2. ASSUME Lane(i) \in 0..GroupCount - 1 PROVE <<i, Lane(i), FALSE>> \in Accesses(p)
    <3>1. PICK n \in Nat : n = case.size
      BY <1>2, CaseFields
    <3>2. PICK s \in Nat : s = case.simd /\ s > 0
      BY <1>2, CaseFields
    <3>3. GroupCount \in Nat
      BY <3>1, <3>2, DivisionIs DEF GroupCount
    <3>4. MayAccess(p, i, Lane(i), FALSE)
      BY <1>4, <2>1, <2>2, <3>3 DEF MayAccess
    <3> QED
      BY <2>1, <3>4, AccessIs
  <2> QED
    BY <2>2 DEF Reads
<1>7. accesses' \subseteq accesses \cup Accesses(p)
  BY <1>5, <1>6
<1> QED
  BY <1>3, <1>4, <1>5, <1>7, LanesStep

LEMMA CombinePreserves ==
  ASSUME GroupsInv, NEW p \in Phases, InPhase(p), NEW g \in Nat, Combine(g)
  PROVE  GroupsTypeOK' /\ InPhase(p)'
<1>2. case \in Cases /\ SubGroupAt(g, "combine")
  BY DEF GroupsInv, GroupsTypeOK, Combine
<1>3. /\ Lanes(g) \cap waiting = {}
      /\ \A i \in Lanes(g) : i \in Items /\ Group(i) = g /\ IsAt(i, "combine", offset[i], side_idx[i], p)
  BY <1>2, LanesAreIn
<1>4. ASSUME NEW i \in Lanes(g)
      PROVE  p.does = "combine" /\ IsAt(i, "return", offset[i], side_idx[i], Following(p))
  <2>1. p.does = "combine"
    BY <1>2, <1>3, LabelsAreOf
  <2> QED
    BY <2>1 DEF IsAt, Following, Phase, LabelsOf
<1>5. /\ pc' = [i \in Items |-> IF Group(i) = g THEN "return" ELSE pc[i]] /\ "return" \in Labels
      /\ case' = case /\ call' = call /\ offset' = offset /\ side_idx' = side_idx
      /\ waiting' = waiting \cup Lanes(g)
      /\ accesses' = accesses \cup (IF g = 0 THEN {} ELSE UNION {Reads(i, {g - 1}) : i \in Lanes(g)})
  BY DEF Combine, Labels, Access
<1>6. ASSUME NEW i \in Lanes(g), g # 0 PROVE Reads(i, {g - 1}) \subseteq Accesses(p)
  <2>1. g - 1 \in Nat /\ FALSE \in BOOLEAN /\ i \in Items /\ MayAccess(p, i, g - 1, FALSE)
    BY <1>3, <1>4, <1>6 DEF MayAccess
  <2>2. <<i, g - 1, FALSE>> \in Accesses(p)
    BY <2>1, AccessIs
  <2> QED
    BY <2>2 DEF Reads
<1>7. accesses' \subseteq accesses \cup Accesses(p)
  BY <1>5, <1>6
<1> QED
  BY <1>3, <1>4, <1>5, <1>7, LanesStep

(* What was accessed before a round of reduce within a sub-group           *)
LEMMA FoldFollows ==
  ASSUME case \in Cases, NEW p \in Phases, Following(p).does = "fold", case.apple,
         Following(p).offset < case.simd,
         NEW j \in Items, NEW n \in Nat, NEW w \in BOOLEAN, MayAccess(p, j, n, w)
  PROVE  n < case.size /\ (IsPowerOf2(case.size) => Group(j) = 0)
<1>1. /\ case.size \in Nat /\ case.simd \in Nat /\ case.simd > 0 /\ IsPowerOf2(case.simd)
      /\ j \in Nat /\ j < case.size /\ p.offset \in Nat
  BY CaseFields, PhaseFields, ItemIs
<1>2. ASSUME j < case.simd PROVE Group(j) = 0
  BY <1>1, <1>2 DEF Group
<1>3. CASE p.does = "store"
  <2>1. case.size \div 2 < case.simd
    <3>1. Algorithm = "reduce"
      BY <1>3 DEF Following, Phase
    <3> QED
      BY <1>3, <3>1 DEF Following, Phase
  <2>2. n = j
    BY <1>3 DEF MayAccess
  <2>3. IsPowerOf2(case.size) => case.size <= case.simd
    BY <1>1, <2>1, PowersAreApart
  <2> QED
    BY <1>1, <1>2, <2>2, <2>3
<1>4. CASE p.does = "fold"
  <2>1. p.offset \div 2 < case.simd
    BY <1>4 DEF Following, Phase
  <2>2. 2 * p.offset <= case.size /\ (IsPowerOf2(case.size) => IsPowerOf2(p.offset))
    BY <1>4 DEF Phases
  <2>3. IsPowerOf2(case.size) => p.offset <= case.simd
    BY <1>1, <2>1, <2>2, PowersAreApart
  <2>4. CASE j < p.offset /\ n = IF w THEN j ELSE j + p.offset
    BY <1>1, <1>2, <2>2, <2>3, <2>4
  <2>5. CASE n < case.size /\ (IsPowerOf2(case.size) => Group(j) = 0)
    BY <2>5
  <2> QED
    BY <1>4, <2>4, <2>5 DEF MayAccess
<1>5. p.does \in {"store", "fold"}
  BY PhaseFields DEF Following, Phase
<1> QED
  BY <1>3, <1>4, <1>5

LEMMA BarrierPreserves ==
  ASSUME GroupsInv, NEW p \in Phases, InPhase(p), NEW f \in Phases, f = Following(p), Barrier
  PROVE  GroupsTypeOK' /\ InPhase(f)'
<1>1. GroupsTypeOK /\ case \in Cases
  BY DEF GroupsInv, GroupsTypeOK
<1>2. /\ waiting = Items /\ waiting' = {} /\ accesses' \subseteq accesses
      /\ accesses' # {} => \E i \in Items : SkipsBarrier(i)
      /\ case' = case /\ call' = call /\ pc' = pc /\ offset' = offset /\ side_idx' = side_idx
  BY DEF Barrier
<1>3. /\ Items' = Items /\ \A i, label, o, s : IsAt(i, label, o, s, f)' = IsAt(i, label, o, s, f)
      /\ Accesses(f)' = Accesses(f)
  BY <1>2, SameCase
<1>4. ASSUME NEW i \in Items PROVE IsIn(i, f)'
  <2>1. IsAt(i, pc[i], offset[i], side_idx[i], f)
    BY <1>2 DEF InPhase, IsIn
  <2> QED
    BY <1>2, <1>3, <2>1 DEF IsIn
<1>5. ASSUME NEW i \in Items, SkipsBarrier(i) PROVE accesses \subseteq Accesses(f)
  <2>1. IsAt(i, "fold", offset[i], side_idx[i], f) /\ case.apple /\ offset[i] < case.simd
    BY <1>2, <1>5 DEF InPhase, IsIn, SkipsBarrier
  <2>2. f.does = "fold" /\ f.offset < case.simd
    <3>1. f.does = "fold"
      BY <1>1, <2>1, LabelsAreOf
    <3> QED
      BY <2>1, <3>1 DEF IsAt
  <2>3. ASSUME NEW a \in accesses PROVE a \in Accesses(f)
    <3>1. a \in Items \X Nat \X BOOLEAN /\ MayAccess(p, a[1], a[2], a[3])
      BY <2>3 DEF InPhase, Accesses
    <3>2. a[2] < case.size /\ (IsPowerOf2(case.size) => Group(a[1]) = 0)
      BY <1>1, <2>1, <2>2, <3>1, FoldFollows
    <3> QED
      BY <2>1, <2>2, <3>1, <3>2 DEF Accesses, MayAccess
  <2> QED
    BY <2>3
<1>6. accesses' \subseteq Accesses(f)
  BY <1>2, <1>5
<1>7. InPhase(f)'
  BY <1>2, <1>3, <1>4, <1>6 DEF InPhase
<1>8. GroupsTypeOK'
  BY <1>1, <1>2, <1>3 DEF GroupsTypeOK
<1> QED
  BY <1>7, <1>8

LEMMA GroupsInitially == GroupsInit => GroupsInv
<1> SUFFICES ASSUME GroupsInit PROVE GroupsInv
  OBVIOUS
<1>1. /\ case \in Cases /\ waiting = {} /\ accesses = {} /\ pc = [i \in Items |-> "begin"]
      /\ call = [i \in Items |-> 1] /\ offset = [i \in Items |-> 0] /\ side_idx = [i \in Items |-> 0]
  BY DEF GroupsInit
<1>2. GroupsTypeOK
  BY <1>1 DEF GroupsTypeOK, Labels
<1>3. PICK p : p = IF Algorithm \in SubGroupAlgorithms THEN Phase("publish", 0, 0) ELSE Phase("store", 0, 0)
  OBVIOUS
<1>4. p \in Phases
  <2>1. 0 \in Nat /\ 0 \in {0, case.size}
    OBVIOUS
  <2>2. CASE Algorithm \in SubGroupAlgorithms
    <3>1. Phase("publish", 0, 0) \in Phases
      BY <2>1, <2>2, PhaseIsPhase
    <3> QED
      BY <1>3, <2>2, <3>1
  <2>3. CASE Algorithm \notin SubGroupAlgorithms
    <3>1. Phase("store", 0, 0) \in Phases
      BY <2>1, <2>3, PhaseIsPhase
    <3> QED
      BY <1>3, <2>3, <3>1
  <2> QED
    BY <2>2, <2>3
<1>5. p.does \in {"store", "publish"}
  BY <1>3 DEF Phase
<1>6. \A i \in Items : IsIn(i, p)
  BY <1>1, <1>5 DEF IsIn, IsAt, LabelsOf
<1>7. InPhase(p)
  BY <1>1, <1>6 DEF InPhase
<1> QED
  BY <1>2, <1>4, <1>7 DEF GroupsInv

(* All steps but a barrier leave the items in their phase.                 *)
LEMMA StepStaysInPhase ==
  ASSUME GroupsInv, NEW p \in Phases, InPhase(p), [GroupsNext]_groupVars, ~Barrier
  PROVE  GroupsTypeOK' /\ InPhase(p)'
<1>1. CASE UNCHANGED groupVars
  <2>1. /\ case' = case /\ call' = call /\ pc' = pc /\ waiting' = waiting /\ offset' = offset
        /\ side_idx' = side_idx /\ accesses' = accesses
    BY <1>1 DEF groupVars
  <2>2. GroupsTypeOK /\ Items' = Items
    BY <2>1, SameCase DEF GroupsInv
  <2>3. GroupsTypeOK'
    BY <2>1, <2>2 DEF GroupsTypeOK
  <2>4. {} \in SUBSET Items /\ accesses' \subseteq accesses \cup Accesses(p)
    BY <2>1
  <2> QED
    BY <2>1, <2>3, <2>4, ItemsMove
<1>2. ASSUME NEW i \in Items, ItemStep(i) PROVE GroupsTypeOK' /\ InPhase(p)'
  BY <1>2, StorePreserves, FoldPreserves, HostReducePreserves, HostScanPreserves, ScanStepPreserves,
     ScanLastPreserves, ReturnValuePreserves, PublishPreserves, SecondEnds DEF ItemStep
<1>3. ASSUME NEW g \in 0..GroupCount - 1, FirstPass(g) \/ Combine(g) PROVE GroupsTypeOK' /\ InPhase(p)'
  <2>1. g \in Nat
    <3>1. PICK n \in Nat, s \in Nat : n = case.size /\ s = case.simd /\ s > 0
      BY CaseFields DEF GroupsInv, GroupsTypeOK
    <3>2. GroupCount \in Nat
      BY <3>1, DivisionIs DEF GroupCount
    <3> QED
      BY <3>2
  <2> QED
    BY <1>3, <2>1, FirstPassPreserves, CombinePreserves
<1>4. CASE SecondPass
  BY <1>4, SecondPassPreserves
<1> QED
  BY <1>1, <1>2, <1>3, <1>4 DEF GroupsNext, Finished

LEMMA GroupsStepPreserves == GroupsInv /\ [GroupsNext]_groupVars => GroupsInv'
<1> SUFFICES ASSUME GroupsInv, [GroupsNext]_groupVars PROVE GroupsInv'
  OBVIOUS
<1>1. PICK p \in Phases : InPhase(p)
  BY DEF GroupsInv
<1>2. case' = case
  BY DEF GroupsNext, groupVars, Barrier, Finished, ItemStep, Store, Fold, HostReduce, HostScan, ScanStep,
     ScanLast, ReturnValue, Publish, StoreOffsets, SkipSecond, FirstPass, SecondPass, Combine
<1>3. Phases' = Phases
  BY <1>2, SameCase
<1>4. CASE Barrier
  <2>1. PICK f \in Phases : f = Following(p)
    BY <1>1, FollowingIsPhase DEF GroupsInv, GroupsTypeOK
  <2>2. GroupsTypeOK' /\ InPhase(f)'
    BY <1>1, <1>4, <2>1, BarrierPreserves
  <2> QED
    BY <1>3, <2>1, <2>2 DEF GroupsInv
<1>5. CASE ~Barrier
  <2>1. GroupsTypeOK' /\ InPhase(p)'
    BY <1>1, <1>5, StepStaysInPhase
  <2> QED
    BY <1>1, <1>3, <2>1 DEF GroupsInv
<1> QED
  BY <1>4, <1>5

-----------------------------------------------------------------------------
(* Two items access a cell only to read it.                                *)
LEMMA NoRaceInPhase ==
  ASSUME case \in Cases, NEW p \in Phases, NEW i \in Items, NEW j \in Items, i # j,
         NEW n \in Nat, NEW v \in BOOLEAN, NEW w \in BOOLEAN,
         MayAccess(p, i, n, v), MayAccess(p, j, n, w), ~AppleMissesBarrier, ~InLockStep(i, j)
  PROVE  ~v /\ ~w
<1>1. /\ i \in Nat /\ i < case.size /\ Group(i) \in Nat /\ Lane(i) \in Nat
      /\ j \in Nat /\ j < case.size /\ Group(j) \in Nat /\ Lane(j) \in Nat
  BY ItemIs
<1>2. ~(Group(i) = Group(j) /\ Lane(i) = Lane(j))
  BY ItemsDiffer
<1>3. p.offset \in Nat /\ p.side \in {0, case.size} /\ case.size \in Nat
  BY PhaseFields
<1>4. CASE p.does = "store"
  BY <1>4 DEF MayAccess
<1>5. CASE p.does = "fold"
  <2>1. Algorithm = "reduce"
    BY <1>5 DEF Phases
  <2>2. CASE case.apple /\ p.offset < case.simd
    <3>1. IsPowerOf2(case.size)
      BY <2>1, <2>2 DEF AppleMissesBarrier, HalvesEvenly
    <3>2. ASSUME NEW k \in {i, j}, k < p.offset PROVE Group(k) = 0
      <4>1. k < case.simd /\ case.simd \in Nat /\ k \in Nat
        BY <1>1, <1>3, <2>2, <3>2, CaseFields
      <4> QED
        BY <4>1 DEF Group
    <3>3. Group(i) = 0 /\ Group(j) = 0
      BY <1>5, <3>1, <3>2 DEF MayAccess
    <3> QED
      BY <2>1, <2>2, <3>3 DEF InLockStep
  <2>3. CASE ~(case.apple /\ p.offset < case.simd)
    BY <1>1, <1>3, <1>5, <2>3 DEF MayAccess
  <2> QED
    BY <2>2, <2>3
<1>6. CASE p.does = "step"
  <2>1. CASE p.side = 0
    BY <1>1, <1>3, <1>6, <2>1 DEF MayAccess
  <2>2. CASE p.side = case.size
    BY <1>1, <1>3, <1>6, <2>2 DEF MayAccess
  <2> QED
    BY <1>3, <2>1, <2>2
<1>7. CASE p.does = "last"
  BY <1>7 DEF MayAccess
<1>8. CASE p.does = "first_item"
  BY <1>8 DEF MayAccess
<1>9. CASE p.does = "publish"
  BY <1>2, <1>9 DEF MayAccess
<1>10. CASE p.does = "second"
  BY <1>2, <1>10 DEF MayAccess
<1>11. CASE p.does = "combine"
  BY <1>11 DEF MayAccess
<1> QED
  BY <1>4, <1>5, <1>6, <1>7, <1>8, <1>9, <1>10, <1>11, PhaseFields

(* What is accessed was allocated.                                         *)
LEMMA CellsAreAllocated ==
  ASSUME case \in Cases, NEW p \in Phases, NEW i \in Items, NEW n \in Nat, NEW w \in BOOLEAN,
         MayAccess(p, i, n, w), case.supported \/ ~case.supported32 \/ case.fn = "reduce"
  PROVE  n < LocalElements
<1>1. i \in Nat /\ i < case.size /\ Group(i) \in Nat /\ Lane(i) \in Nat
  BY ItemIs
<1>2. p.offset \in Nat /\ p.side \in {0, case.size} /\ case.size \in Nat
  BY PhaseFields
<1>3. CASE p.does \in {"store", "fold", "step", "last"}
  <2>1. Algorithm \notin SubGroupAlgorithms
    BY <1>3 DEF Phases, SubGroupAlgorithms
  <2>2. ~case.supported /\ ~(case.fn # "reduce" /\ case.shuffle)
    BY <2>1, AlgorithmIs DEF SubGroupAlgorithms
  <2>3. LocalElements = IF case.fn = "reduce" THEN case.size ELSE 2 * case.size
    BY <2>2 DEF LocalElements, ReduceElements, ScanElements
  <2>4. p.does = "fold" => 2 * p.offset <= case.size
    BY DEF Phases
  <2>5. p.does \in {"step", "last"} => case.fn # "reduce"
    BY AlgorithmIs DEF Phases
  <2>6. CASE p.does \in {"store", "fold"}
    BY <1>1, <1>2, <2>3, <2>4, <2>6 DEF MayAccess
  <2>7. CASE p.does \in {"step", "last"}
    <3>1. n < 2 * case.size
      <4>1. CASE p.side = 0
        BY <1>1, <1>2, <2>7, <4>1 DEF MayAccess
      <4>2. CASE p.side = case.size
        BY <1>1, <1>2, <2>7, <4>2 DEF MayAccess
      <4> QED
        BY <1>2, <4>1, <4>2
    <3> QED
      BY <2>3, <2>5, <2>7, <3>1
  <2> QED
    BY <1>3, <2>6, <2>7
<1>4. CASE p.does \in {"publish", "second", "combine"}
  <2>1. Algorithm \in SubGroupAlgorithms
    BY <1>4 DEF Phases, SubGroupAlgorithms
  <2>2. case.supported \/ (case.fn # "reduce" /\ case.shuffle)
    BY <2>1, AlgorithmIs DEF SubGroupAlgorithms
  <2>3. case.size % case.simd = 0 /\ GroupCount <= case.simd
    BY <2>2, CaseFields
  <2>4. GroupCount \in Nat /\ Group(i) < GroupCount
    BY <2>3, GroupsAreCounted
  <2>5. n < GroupCount
    BY <1>1, <1>4, <2>4 DEF MayAccess
  <2>6. GroupCount <= LocalElements
    <3>1. GroupCount <= case.size \div case.simd_min
      BY LeastWidthIsEnough
    <3>2. GroupCount <= 2 * case.size
      <4>1. PICK s \in Nat, m \in Nat : s = case.simd /\ s > 0 /\ m = case.size
        BY CaseFields
      <4>2. m = s * GroupCount
        BY <2>3, <4>1, GroupsAreCounted
      <4>3. 1 * GroupCount <= s * GroupCount
        BY <2>4, <4>1, ProductIsMonotonic
      <4> QED
        BY <2>4, <4>1, <4>2, <4>3
    <3>3. case.simd \in Nat
      BY CaseFields
    <3>4. CASE case.fn = "reduce"
      BY <2>2, <3>1, <3>4 DEF LocalElements, ReduceElements
    <3>5. CASE case.fn # "reduce" /\ case.supported32
      BY <3>1, <3>5 DEF LocalElements, ScanElements
    <3>6. CASE case.fn # "reduce" /\ ~case.supported32 /\ case.shuffle /\ ~case.host
      <4>1. LocalElements = IF case.simd > GroupCount THEN case.simd ELSE GroupCount
        BY <3>6 DEF LocalElements, ScanElements
      <4> QED
        BY <2>3, <2>4, <3>3, <4>1
    <3>7. CASE case.fn # "reduce" /\ ~case.supported32 /\ ~(case.shuffle /\ ~case.host)
      <4>1. LocalElements = 2 * case.size
        BY <3>7 DEF LocalElements, ScanElements
      <4> QED
        BY <3>2, <4>1
    <3> QED
      BY <3>4, <3>5, <3>6, <3>7
  <2>7. LocalElements \in Int
    <3>1. case.size \in Nat /\ case.simd \in Nat
      BY CaseFields
    <3>2. case.size \div case.simd_min \in Nat
      <4>1. PICK m \in Nat, k \in Nat : m = case.size /\ k = case.simd_min /\ k > 0
        BY CaseFields
      <4> QED
        BY <4>1, DivisionIs
    <3> QED
      BY <2>4, <3>1, <3>2, CaseFields DEF LocalElements, ReduceElements, ScanElements
  <2> QED
    BY <2>4, <2>5, <2>6, <2>7
<1>5. p.does # "first_item"
  BY DEF MayAccess
<1> QED
  BY <1>3, <1>4, <1>5, PhaseFields

(* For all functions, sizes, widths and supported features, and any number *)
(* of calls: two work-items never access a cell of local memory between    *)
(* the same two barriers but to read it - unless, in a reduction on Apple, *)
(* they are lanes in lock step or the size of the group is not a power of  *)
(* two - and the memory the caller was told to allocate is enough.         *)
THEOREM LocalMemoryIsNeverRaced == GroupsSpec => []LocalMemoryIsSafe
<1>1. GroupsInv => LocalMemoryIsSafe
  <2> SUFFICES ASSUME GroupsInv PROVE LocalMemoryIsSafe
    OBVIOUS
  <2>1. PICK p \in Phases : InPhase(p)
    BY DEF GroupsInv
  <2>2. case \in Cases
    BY DEF GroupsInv, GroupsTypeOK
  <2>3. ASSUME NEW a \in accesses
        PROVE  /\ a[1] \in Items /\ a[2] \in Nat /\ a[3] \in BOOLEAN
               /\ MayAccess(p, a[1], a[2], a[3])
    BY <2>1 DEF InPhase, Accesses
  <2>4. NoLocalRace
    BY <2>2, <2>3, NoRaceInPhase DEF NoLocalRace
  <2>5. InLocalMemory
    BY <2>2, <2>3, CellsAreAllocated DEF InLocalMemory
  <2> QED
    BY <2>4, <2>5 DEF LocalMemoryIsSafe
<1> QED
  BY <1>1, GroupsInitially, GroupsStepPreserves, PTL DEF GroupsSpec

-----------------------------------------------------------------------------
(* Group algorithms: results                                               *)

(* s is made of the inputs of the items S in call k, each exactly once.    *)
Lists(s, k, S) ==
  /\ s \in Seq(Nat \X Nat)
  /\ \A a \in S : \E j \in DOMAIN s : s[j] = <<k, a>>
  /\ \A j \in DOMAIN s : \E a \in S : s[j] = <<k, a>>
  /\ \A i, j \in DOMAIN s : s[i] = s[j] => i = j

(* The same for the items a..b-1, and in their order if the function need not be commutative. *)
Segment(s, k, a, b) ==
  IF case.supported THEN Lists(s, k, a..b - 1) ELSE s = [j \in 1..b - a |-> <<k, a + (j - 1)>>]

(* The items whose values a value of reduce holds when w of them are left  *)
Class(i, w) == {m \in Items : m % w = i}
(* The first item in the value of item i when o have been combined         *)
Reach(i, o) == IF i + 1 > o THEN i + 1 - o ELSE 0
Divides(m, n) == \E q \in Nat : n = m * q

(* How many values reduce has left when the items fold with this offset    *)
Width(o) == IF o = 0 THEN 1 ELSE 2 * o

(* What a call may return to item i                                        *)
Correct(i, v, k) ==
  /\ case.fn = "reduce" /\ i = 0 /\ HalvesEvenly => SameElements(v, Inputs(case.size, k))
  /\ case.fn # "reduce" => Segment(v, k, 0, IF case.fn = "inclusive" THEN i + 1 ELSE i)

(* A value after the first pass, and the value of a whole sub-group        *)
FirstPassed(i, v, k) ==
  IF case.fn = "reduce" THEN Lists(v, k, Lanes(Group(i))) ELSE Segment(v, k, case.simd * Group(i), i + 1)
Total(v, k, g) ==
  IF case.fn = "reduce" THEN Lists(v, k, Lanes(g)) ELSE Segment(v, k, case.simd * g, case.simd * (g + 1))
(* The value of the sub-groups up to g                                     *)
Prefix(v, k, g) == Segment(v, k, 0, case.simd * (g + 1))

(* Items that begin the phase of a call may still be ending the call before. *)
CallAt(label, p, k) ==
  IF p.does \in {"store", "publish"} /\ label \in {"last", "return"} THEN k - 1 ELSE k

(* What item i holds in the phase p of call k: v, and for scans gv.        *)
Holds(i, label, c, v, gv, p, k) ==
  /\ c = CallAt(label, p, k) /\ c <= Calls
  /\ label = "begin" => v = Input(i, c)
  /\ label = "fold" /\ HalvesEvenly /\ i < Width(p.offset) => Lists(v, c, Class(i, Width(p.offset)))
  /\ label = "step" => Segment(v, c, Reach(i, p.offset), i + 1)
  /\ label = "last" /\ p.does = "store" => Segment(v, c, 0, i + 1)
  /\ label = "return" => Correct(i, v, c)
  /\ label \in {"publish", "second", "combine"} => FirstPassed(i, v, c)
  /\ label = "offsets" =>
       IF case.fn = "reduce" THEN Lists(v, c, Items)
       ELSE FirstPassed(i, v, c) /\ (Lane(i) < GroupCount => Prefix(gv, c, Lane(i)))

(* What the local memory m holds in that phase; the items w wait for its end. c is the call of item 0. *)
Stored(m, w, c, p, k) ==
  CASE p.does = "store" -> \A i \in w : m[i] = Input(i, k)
    [] p.does = "fold" ->
         HalvesEvenly =>
           /\ Divides(Width(p.offset), case.size)
           /\ \A i \in Items : p.offset <= i /\ i < 2 * p.offset => Lists(m[i], k, Class(i, 2 * p.offset))
           /\ \A i \in w : i < p.offset /\ p.offset > 1 => Lists(m[i], k, Class(i, p.offset))
    [] p.does = "first_item" ->
         /\ Algorithm = "host_scan" => c <= Calls
         /\ 0 \notin w /\ c <= Calls => \A i \in Items : m[i] = Input(i, k)
         /\ 0 \in w /\ Algorithm = "host_scan" => \A i \in Items : Segment(m[i], k, 0, i + 1)
    [] p.does = "step" ->
         /\ \A i \in Items : Segment(m[p.side + i], k, Reach(i, p.offset), i + 1)
         /\ \A i \in w : Segment(m[(case.size - p.side) + i], k, Reach(i, 2 * p.offset), i + 1)
    [] p.does = "last" -> \A i \in Items : Segment(m[p.side + i], k, 0, i + 1)
    [] p.does = "publish" -> \A i \in w : Lane(i) = Publisher => Total(m[Group(i)], k, Group(i))
    [] p.does = "second" ->
         \A g \in 0..GroupCount - 1 :
           IF g \in w /\ case.fn # "reduce" THEN Prefix(m[g], k, g) ELSE Total(m[g], k, g)
    [] p.does = "combine" -> \A g \in 0..GroupCount - 1 : Prefix(m[g], k, g)

FollowingCall(p, k) == IF Following(p).does \in {"store", "publish"} THEN k + 1 ELSE k
IsFunctionOn(f, D) == f = [a \in D |-> f[a]]

DataInPhase(p, k) ==
  /\ \A i \in waiting : Holds(i, pc[i], call[i], value[i], group_val[i], Following(p), FollowingCall(p, k))
  /\ \A i \in Items \ waiting : \/ call[i] > Calls
                                \/ Holds(i, pc[i], call[i], value[i], group_val[i], p, k)
  /\ Stored(lmem, waiting, call[0], p, k)
Returned == \A i \in Items : call[i] > 1 => Correct(i, result[i], call[i] - 1)
FunctionsOK ==
  /\ IsFunctionOn(value, Items) /\ IsFunctionOn(group_val, Items) /\ IsFunctionOn(result, Items)
  /\ IsFunctionOn(lmem, 0..2 * case.size - 1)
IsSound(p, k) == FunctionsOK /\ Returned /\ DataInPhase(p, k)
ResultsInv ==
  /\ GroupsTypeOK
  /\ \E p \in Phases, k \in Nat : InPhase(p) /\ IsSound(p, k)

-----------------------------------------------------------------------------
(* Values                                                                  *)

LEMMA ListsNothing ==
  ASSUME NEW k
  PROVE  Lists(<<>>, k, {})
<1>1. <<>> \in Seq(Nat \X Nat) /\ DOMAIN <<>> = {}
  OBVIOUS
<1> QED
  BY <1>1 DEF Lists

LEMMA ListsInput ==
  ASSUME NEW i \in Nat, NEW k \in Nat
  PROVE  Lists(Input(i, k), k, {i})
<1>1. Input(i, k) = <<<<k, i>>>> /\ <<k, i>> \in Nat \X Nat
  BY DEF Input
<1>2. Input(i, k) \in Seq(Nat \X Nat) /\ DOMAIN Input(i, k) = {1} /\ Input(i, k)[1] = <<k, i>>
  BY <1>1
<1> QED
  BY <1>2 DEF Lists

LEMMA ListsJoined ==
  ASSUME NEW k, NEW S, NEW T, NEW s, NEW t, Lists(s, k, S), Lists(t, k, T), S \cap T = {}
  PROVE  Lists(s \o t, k, S \cup T)
<1>1. s \in Seq(Nat \X Nat) /\ t \in Seq(Nat \X Nat)
  BY DEF Lists
<1>2. PICK m \in Nat, n \in Nat : m = Len(s) /\ n = Len(t)
  BY <1>1
<1>3. /\ DOMAIN s = 1..m /\ DOMAIN t = 1..n
      /\ s \o t \in Seq(Nat \X Nat) /\ Len(s \o t) = m + n /\ DOMAIN (s \o t) = 1..m + n
  BY <1>1, <1>2
<1>4. /\ \A j \in 1..m : (s \o t)[j] = s[j]
      /\ \A j \in 1..m + n : j > m => (s \o t)[j] = t[j - m] /\ j - m \in 1..n
      /\ \A j \in 1..n : (s \o t)[m + j] = t[j] /\ m + j \in 1..m + n
  BY <1>1, <1>2, <1>3, SMTT(30)
<1>5. PICK u : u = s \o t
  OBVIOUS
<1>6. /\ u \in Seq(Nat \X Nat) /\ DOMAIN u = 1..m + n
      /\ \A j \in 1..m : u[j] = s[j]
      /\ \A j \in 1..m + n : j > m => u[j] = t[j - m] /\ j - m \in 1..n
  BY <1>3, <1>4, <1>5
<1>7. /\ \A a \in S : \E j \in 1..m : s[j] = <<k, a>>
      /\ \A j \in 1..m : \E a \in S : s[j] = <<k, a>>
      /\ \A i, j \in 1..m : s[i] = s[j] => i = j
      /\ \A a \in T : \E j \in 1..n : t[j] = <<k, a>>
      /\ \A j \in 1..n : \E a \in T : t[j] = <<k, a>>
      /\ \A i, j \in 1..n : t[i] = t[j] => i = j
  BY <1>3 DEF Lists
<1>8. ASSUME NEW a \in S \cup T PROVE \E j \in DOMAIN u : u[j] = <<k, a>>
  <2>1. CASE a \in S
    <3>1. PICK j \in 1..m : s[j] = <<k, a>>
      BY <1>7, <2>1
    <3>2. j \in 1..m + n /\ u[j] = s[j]
      BY <1>6
    <3> QED
      BY <1>6, <3>1, <3>2
  <2>2. CASE a \in T
    <3>1. PICK j \in 1..n : t[j] = <<k, a>>
      BY <1>7, <2>2
    <3>2. PICK i : i = m + j
      OBVIOUS
    <3>3. i \in 1..m + n /\ i > m /\ i - m = j
      BY <3>2
    <3>4. u[i] = t[j]
      BY <1>6, <3>3
    <3> QED
      BY <1>6, <3>1, <3>3, <3>4
  <2> QED
    BY <2>1, <2>2
<1>9. ASSUME NEW j \in DOMAIN u PROVE \E a \in S \cup T : u[j] = <<k, a>>
  <2>1. CASE j \in 1..m
    <3>1. u[j] = s[j]
      BY <1>4, <1>5, <2>1
    <3>2. PICK a \in S : s[j] = <<k, a>>
      BY <1>7, <2>1
    <3> QED
      BY <3>1, <3>2
  <2>2. CASE j > m
    <3>1. u[j] = t[j - m] /\ j - m \in 1..n
      BY <1>3, <1>4, <1>5, <2>2
    <3>2. PICK a \in T : t[j - m] = <<k, a>>
      BY <1>7, <3>1
    <3> QED
      BY <3>1, <3>2
  <2>3. j \in 1..m + n
    BY <1>3, <1>5
  <2> QED
    BY <2>1, <2>2, <2>3
<1>10. ASSUME NEW i \in 1..m, NEW j \in 1..n PROVE s[i] # t[j]
  <2>1. PICK a \in S : s[i] = <<k, a>>
    BY <1>7
  <2>2. PICK b \in T : t[j] = <<k, b>>
    BY <1>7
  <2> QED
    BY <2>1, <2>2
<1>11. ASSUME NEW i \in DOMAIN u, NEW j \in DOMAIN u, u[i] = u[j] PROVE i = j
  <2>1. CASE i \in 1..m /\ j \in 1..m
    BY <1>6, <1>7, <1>11, <2>1
  <2>2. CASE i > m /\ j > m
    <3>1. t[i - m] = t[j - m] /\ i - m \in 1..n /\ j - m \in 1..n
      BY <1>6, <1>11, <2>2
    <3>2. i - m = j - m
      BY <1>7, <3>1
    <3> QED
      BY <1>6, <3>2
  <2>3. CASE i \in 1..m /\ j > m
    BY <1>6, <1>10, <1>11, <2>3
  <2>4. CASE i > m /\ j \in 1..m
    BY <1>6, <1>10, <1>11, <2>4
  <2> QED
    BY <1>6, <2>1, <2>2, <2>3, <2>4
<1> QED
  BY <1>5, <1>6, <1>8, <1>9, <1>11, ZenonT(30) DEF Lists

LEMMA SegmentNothing ==
  ASSUME case.supported \in BOOLEAN, NEW k, NEW a \in Nat
  PROVE  Segment(<<>>, k, a, a)
<1>1. a..a - 1 = {} /\ Lists(<<>>, k, {})
  BY ListsNothing
<1>2. <<>> = [j \in 1..a - a |-> <<k, a + (j - 1)>>]
  OBVIOUS
<1> QED
  BY <1>1, <1>2 DEF Segment

LEMMA SegmentInput ==
  ASSUME case.supported \in BOOLEAN, NEW i \in Nat, NEW k \in Nat
  PROVE  Segment(Input(i, k), k, i, i + 1)
<1>1. i..(i + 1) - 1 = {i} /\ Lists(Input(i, k), k, {i})
  BY ListsInput
<1>2. Input(i, k) = [j \in 1..(i + 1) - i |-> <<k, i + (j - 1)>>]
  <2>1. Input(i, k) = <<<<k, i>>>> /\ (i + 1) - i = 1
    BY DEF Input
  <2> QED
    BY <2>1
<1> QED
  BY <1>1, <1>2 DEF Segment

LEMMA SegmentsJoined ==
  ASSUME case.supported \in BOOLEAN, NEW k, NEW a \in Nat, NEW b \in Nat, NEW c \in Nat, a <= b, b <= c,
         NEW s, NEW t, Segment(s, k, a, b), Segment(t, k, b, c)
  PROVE  /\ Segment(s \o t, k, a, c)
         /\ case.supported => Segment(t \o s, k, a, c)
<1>1. CASE case.supported
  <2>1. PICK S, T : S = a..b - 1 /\ T = b..c - 1
    OBVIOUS
  <2>2. S \cap T = {} /\ S \cup T = a..c - 1
    BY <2>1
  <2>3. Lists(s, k, S) /\ Lists(t, k, T)
    BY <1>1, <2>1 DEF Segment
  <2>4. Lists(s \o t, k, S \cup T)
    BY <2>2, <2>3, ListsJoined
  <2>5. Lists(t \o s, k, T \cup S)
    BY <2>2, <2>3, ListsJoined
  <2> QED
    BY <1>1, <2>2, <2>4, <2>5 DEF Segment
<1>2. CASE ~case.supported
  <2>1. s = [j \in 1..b - a |-> <<k, a + (j - 1)>>] /\ t = [j \in 1..c - b |-> <<k, b + (j - 1)>>]
    BY <1>2 DEF Segment
  <2>2. PICK m \in Nat, n \in Nat : m = b - a /\ n = c - b
    OBVIOUS
  <2>3. Len(s) = m /\ Len(t) = n /\ m + n = c - a
    BY <2>1, <2>2
  <2>4. s \o t = [j \in 1..m + n |-> IF j <= m THEN s[j] ELSE t[j - m]]
    BY <2>1, <2>2, <2>3
  <2>5. \A j \in 1..m + n : (IF j <= m THEN s[j] ELSE t[j - m]) = <<k, a + (j - 1)>>
    BY <2>1, <2>2
  <2>6. s \o t = [j \in 1..c - a |-> <<k, a + (j - 1)>>]
    BY <2>3, <2>4, <2>5
  <2> QED
    BY <1>2, <2>6 DEF Segment
<1> QED
  BY <1>1, <1>2

(* A value made of each input once has the elements of the list of them.   *)
LEMMA ListsHasElements ==
  ASSUME NEW n \in Nat, NEW k \in Nat, NEW s, Lists(s, k, 0..n - 1)
  PROVE  SameElements(s, Inputs(n, k))
<1>1. s \in Seq(Nat \X Nat)
  BY DEF Lists
<1>2. PICK m \in Nat : m = Len(s) /\ DOMAIN s = 1..m
  BY <1>1
<1>3. PICK t : t = Inputs(n, k)
  OBVIOUS
<1>4. /\ t = [j \in 1..n |-> <<k, j - 1>>] /\ DOMAIN t = 1..n /\ Len(t) = n
      /\ \A i \in 1..n, j \in 1..n : t[i] = t[j] => i = j
  BY <1>3 DEF Inputs
<1>5. /\ \A a \in 0..n - 1 : \E j \in 1..m : s[j] = <<k, a>>
      /\ \A j \in 1..m : \E a \in 0..n - 1 : s[j] = <<k, a>>
      /\ \A i, j \in 1..m : s[i] = s[j] => i = j
  BY <1>2 DEF Lists
<1>6. m = n
  <2>1. PICK f : f = [j \in 1..m |-> s[j][2]]
    OBVIOUS
  <2>2. ASSUME NEW j \in 1..m PROVE f[j] \in 0..n - 1 /\ s[j] = <<k, f[j]>>
    <3>1. PICK a \in 0..n - 1 : s[j] = <<k, a>>
      BY <1>5
    <3>2. f[j] = a
      BY <2>1, <3>1
    <3> QED
      BY <3>1, <3>2
  <2>3. f \in [1..m -> 0..n - 1]
    BY <2>1, <2>2
  <2>4. ASSUME NEW i \in 1..m, NEW j \in 1..m, f[i] = f[j] PROVE i = j
    <3>1. s[i] = s[j]
      BY <2>2, <2>4
    <3> QED
      BY <1>5, <3>1, Zenon
  <2>5. ASSUME NEW a \in 0..n - 1 PROVE \E j \in 1..m : f[j] = a
    <3>1. PICK j \in 1..m : s[j] = <<k, a>>
      BY <1>5
    <3>2. s[j] = <<k, f[j]>>
      BY <2>2
    <3> QED
      BY <3>1, <3>2
  <2>6. f \in Bijection(1..m, 0..n - 1)
    BY <2>3, <2>4, <2>5 DEF Bijection, Injection, Surjection, IsInjective
  <2>7. ExistsBijection(1..m, 0..n - 1)
    BY <2>6 DEF ExistsBijection
  <2>8. 1 \in Int /\ m \in Int /\ 0 \in Int /\ n - 1 \in Int
    OBVIOUS
  <2>9. IsFiniteSet(1..m) /\ IsFiniteSet(0..n - 1) /\ Cardinality(1..m) = m /\ Cardinality(0..n - 1) = n
    <3>1. /\ IsFiniteSet(1..m) /\ Cardinality(1..m) = IF 1 > m THEN 0 ELSE m - 1 + 1
          /\ IsFiniteSet(0..n - 1) /\ Cardinality(0..n - 1) = IF 0 > n - 1 THEN 0 ELSE n - 1 - 0 + 1
      BY <2>8, FS_Interval
    <3> QED
      BY <3>1
  <2>10. Cardinality(1..m) = Cardinality(0..n - 1)
    BY <2>7, <2>9, FS_Bijection
  <2> QED
    BY <2>9, <2>10
<1>7. ASSUME NEW e \in {s[j] : j \in DOMAIN s} \cup {t[j] : j \in DOMAIN t}
      PROVE  Cardinality({j \in DOMAIN s : s[j] = e}) = Cardinality({j \in DOMAIN t : t[j] = e})
  <2>1. PICK a \in 0..n - 1 : e = <<k, a>>
    <3>1. CASE e \in {s[j] : j \in DOMAIN s}
      <4>1. PICK j \in 1..m : e = s[j]
        BY <1>2, <3>1
      <4> QED
        BY <1>5, <4>1
    <3>2. CASE e \in {t[j] : j \in DOMAIN t}
      <4>1. PICK j \in 1..n : e = t[j]
        BY <1>4, <3>2
      <4>2. j - 1 \in 0..n - 1 /\ t[j] = <<k, j - 1>>
        BY <1>4
      <4> QED
        BY <4>1, <4>2
    <3> QED
      BY <1>7, <3>1, <3>2
  <2>2. PICK i \in 1..m : s[i] = e
    BY <1>5, <2>1
  <2>3. {j \in DOMAIN s : s[j] = e} = {i}
    BY <1>2, <1>5, <2>2
  <2>4. a + 1 \in 1..n /\ t[a + 1] = e
    BY <1>4, <2>1
  <2>5. {j \in DOMAIN t : t[j] = e} = {a + 1}
    BY <1>4, <2>4
  <2> QED
    BY <2>3, <2>5, FS_Singleton
<1>8. Len(s) = Len(t)
  BY <1>2, <1>4, <1>6
<1>9. SameElements(s, t)
  BY <1>7, <1>8 DEF SameElements
<1> QED
  BY <1>3, <1>9

-----------------------------------------------------------------------------
(* Numbers                                                                 *)

(* What is left after division by 2 * d and by d                           *)
LEMMA HalfOf ==
  ASSUME NEW d \in Nat, d > 0, NEW m \in Nat
  PROVE  \E q \in Nat, r \in Nat :
           /\ r < 2 * d /\ m = (2 * d) * q + r /\ m % (2 * d) = r
           /\ m \div d = IF r < d THEN 2 * q ELSE 2 * q + 1
           /\ m % d = IF r < d THEN r ELSE r - d
<1>1. 2 * d \in Nat /\ 2 * d > 0
  OBVIOUS
<1>2. PICK q \in Nat, r \in Nat : m % (2 * d) = r /\ r < 2 * d /\ m = (2 * d) * q + r
  BY <1>1, DivisionIs
<1>3. (2 * d) * q = d * (2 * q) /\ d * (2 * q + 1) = d * (2 * q) + d /\ d * (2 * q) \in Nat
  OBVIOUS
<1>4. CASE r < d
  <2>1. m = d * (2 * q) + r /\ 2 * q \in Nat
    BY <1>2, <1>3
  <2>2. m \div d = 2 * q /\ m % d = r
    BY <1>4, <2>1, QuotientIs
  <2> QED
    BY <1>2, <1>4, <2>2
<1>5. CASE ~(r < d)
  <2>1. PICK s \in Nat : s = r - d /\ s < d
    BY <1>2, <1>5
  <2>2. PICK t \in Nat : t = 2 * q + 1
    OBVIOUS
  <2>3. m = d * t + s
    BY <1>2, <1>3, <2>1, <2>2
  <2>4. m \div d = t /\ m % d = s
    BY <2>1, <2>3, QuotientIs
  <2> QED
    BY <1>2, <1>5, <2>1, <2>2, <2>4
<1> QED
  BY <1>4, <1>5

LEMMA HalvesOfClass ==
  ASSUME NEW d \in Nat, d > 0, NEW m \in Nat, NEW i \in Nat, i < d
  PROVE  m % d = i <=> m % (2 * d) = i \/ m % (2 * d) = i + d
<1>1. PICK q \in Nat, r \in Nat :
        /\ r < 2 * d /\ m = (2 * d) * q + r /\ m % (2 * d) = r
        /\ m \div d = IF r < d THEN 2 * q ELSE 2 * q + 1
        /\ m % d = IF r < d THEN r ELSE r - d
  BY HalfOf
<1>2. PICK a, b : a = m % d /\ b = m % (2 * d)
  OBVIOUS
<1>3. b = r /\ a = IF r < d THEN r ELSE r - d
  BY <1>1, <1>2, Zenon
<1>4. a = i <=> b = i \/ b = i + d
  BY <1>1, <1>3
<1> QED
  BY <1>2, <1>4

(* The two lanes of an exchange in the butterfly                           *)
LEMMA LanesOfExchange ==
  ASSUME NEW d \in Nat, d > 0, NEW n \in Nat, Divides(2 * d, n), NEW l \in 0..n - 1
  PROVE  \E i \in Nat, x \in 0..n - 1 :
           /\ x = LaneXor(l, d) /\ i < d /\ l % d = i
           /\ \/ l % (2 * d) = i /\ x % (2 * d) = i + d
              \/ l % (2 * d) = i + d /\ x % (2 * d) = i
<1>1. PICK p \in Nat : n = (2 * d) * p
  BY DEF Divides
<1>2. PICK q \in Nat, r \in Nat :
        /\ r < 2 * d /\ l = (2 * d) * q + r /\ l % (2 * d) = r
        /\ l \div d = IF r < d THEN 2 * q ELSE 2 * q + 1
        /\ l % d = IF r < d THEN r ELSE r - d
  <2>1. l \in Nat
    OBVIOUS
  <2> QED
    BY <2>1, HalfOf
<1>3. PICK e \in Nat, a \in Nat : e = 2 * d /\ a = e * q
  OBVIOUS
<1>4. l = a + r /\ r < e /\ l < n
  BY <1>2, <1>3
<1>5. a + e <= n
  <2>1. q < p
    <3>1. SUFFICES ASSUME p <= q PROVE FALSE
      OBVIOUS
    <3>2. e * p <= e * q
      BY <3>1, ProductIsMonotonic
    <3>3. n = e * p /\ n <= a
      BY <1>1, <1>3, <3>2
    <3> QED
      BY <1>4, <3>3
  <2>2. e * (q + 1) <= e * p /\ e * (q + 1) = e * q + e
    BY <2>1, ProductIsMonotonic
  <2> QED
    BY <1>1, <1>3, <2>2
<1>6. CASE r < d
  <2>1. (2 * q) % 2 = 0
    OBVIOUS
  <2>2. LaneXor(l, d) = l + d
    BY <1>2, <1>6, <2>1 DEF LaneXor
  <2>3. PICK x \in 0..n - 1, s \in Nat : x = l + d /\ s = r + d /\ s < e /\ x = e * q + s
    BY <1>3, <1>4, <1>5, <1>6
  <2>4. x \in Nat /\ e \in Nat /\ x % e = s
    <3>1. x \in Nat /\ e \in Nat
      BY <1>3
    <3> QED
      BY <2>3, <3>1, QuotientIs
  <2> QED
    BY <1>2, <1>3, <1>6, <2>2, <2>3, <2>4
<1>7. CASE ~(r < d)
  <2>1. (2 * q + 1) % 2 # 0
    OBVIOUS
  <2>2. LaneXor(l, d) = l - d
    BY <1>2, <1>7, <2>1 DEF LaneXor
  <2>3. PICK x \in 0..n - 1, s \in Nat : x = l - d /\ s = r - d /\ s < e /\ x = e * q + s /\ s < d
    BY <1>3, <1>4, <1>5, <1>7
  <2>4. x \in Nat /\ e \in Nat /\ x % e = s
    <3>1. x \in Nat /\ e \in Nat
      BY <1>3
    <3> QED
      BY <2>3, <3>1, QuotientIs
  <2>5. r = s + d /\ l % (2 * d) = s + d /\ l % d = s
    BY <1>2, <1>7, <2>3
  <2> QED
    BY <1>3, <2>2, <2>3, <2>4, <2>5
<1> QED
  BY <1>6, <1>7

(* A divisor of a power of two but 1 is twice another one.                 *)
LEMMA DivisorsAreEven ==
  ASSUME NEW n \in Nat, n > 0, IsPowerOf2(n), NEW m \in Nat, m > 1, Divides(m, n)
  PROVE  \E h \in Nat : h > 0 /\ m = 2 * h /\ m \div 2 = h /\ Divides(h, n)
<1>1. PICK q \in Nat : n = m * q
  BY DEF Divides
<1>2. m \in 2..n
  <2>1. q >= 1
    BY <1>1
  <2>2. m * 1 <= m * q
    BY <2>1, ProductIsMonotonic
  <2> QED
    BY <1>1, <2>2
<1>3. n % m = 0
  <2>1. n = m * q + 0 /\ 0 \in Nat /\ 0 < m
    BY <1>1
  <2> QED
    BY <2>1, QuotientIs
<1>4. m % 2 = 0
  BY <1>2, <1>3 DEF IsPowerOf2
<1>5. PICK h \in Nat : m = 2 * h /\ m \div 2 = h /\ h > 0
  BY <1>4
<1>6. n = h * (2 * q) /\ 2 * q \in Nat
  BY <1>1, <1>5
<1> QED
  BY <1>5, <1>6 DEF Divides

LEMMA DividesItself ==
  ASSUME NEW n \in Nat
  PROVE  Divides(n, n) /\ Divides(1, n)
<1>1. n = n * 1 /\ n = 1 * n /\ 1 \in Nat
  OBVIOUS
<1> QED
  BY <1>1 DEF Divides

-----------------------------------------------------------------------------
(* Loops                                                                   *)

(* The values in the loop of a sub-group when lanes have been combined     *)
Looped(u, v, n) == IF n = 1 THEN v ELSE Pass(u[n \div 2], n)
IsLoop(u, v, k) == u = [n \in 1..k |-> Looped(u, v, n)]

LEMMA LoopExists ==
  ASSUME NEW v, NEW k \in Nat
  PROVE  \E u : IsLoop(u, v, k)
<1> DEFINE none == {n \in Nat : ~\E u : IsLoop(u, v, n)}
<1>1. SUFFICES ASSUME none # {} PROVE FALSE
  OBVIOUS
<1>2. PICK n \in none : \A m \in none : n <= m
  <2>1. none \in SUBSET Nat
    OBVIOUS
  <2> HIDE DEF none
  <2> QED
    BY <1>1, <2>1, LeastNumber
<1>3. n \in Nat /\ ~\E u : IsLoop(u, v, n)
  OBVIOUS
<1>4. n # 0
  <2> SUFFICES ASSUME n = 0 PROVE FALSE
    OBVIOUS
  <2> DEFINE u == [m \in 1..0 |-> v]
  <2>1. u = [m \in 1..0 |-> Looped(u, v, m)]
    <3>1. \A m \in 1..0 : FALSE
      OBVIOUS
    <3> QED
      BY <3>1
  <2> QED
    BY <1>3, <2>1 DEF IsLoop
<1>5. n - 1 \in Nat /\ n - 1 \notin none
  BY <1>2, <1>3, <1>4
<1>6. PICK u : IsLoop(u, v, n - 1)
  BY <1>5
<1> DEFINE w == [m \in 1..n |-> IF m < n THEN u[m] ELSE Looped(u, v, n)]
<1>7. \A m \in 1..n : m # 1 => w[m \div 2] = u[m \div 2]
  <2> SUFFICES ASSUME NEW m \in 1..n, m # 1 PROVE w[m \div 2] = u[m \div 2]
    OBVIOUS
  <2>1. m \div 2 \in 1..n /\ m \div 2 < n
    BY <1>3
  <2> QED
    BY <2>1
<1>8. \A m \in 1..n : Looped(w, v, m) = Looped(u, v, m)
  <2> HIDE DEF w
  <2> QED
    BY <1>7 DEF Looped
<1>9. \A m \in 1..n : m < n => u[m] = Looped(u, v, m)
  BY <1>3, <1>6 DEF IsLoop
<1>10. \A m \in 1..n : w[m] = Looped(w, v, m)
  <2> SUFFICES ASSUME NEW m \in 1..n PROVE w[m] = Looped(w, v, m)
    OBVIOUS
  <2>1. CASE m < n
    BY <1>8, <1>9, <2>1
  <2>2. CASE m = n
    BY <1>3, <1>8, <2>2
  <2> QED
    BY <1>3, <2>1, <2>2
<1>11. w = [m \in 1..n |-> Looped(w, v, m)]
  <2>1. DOMAIN w = 1..n /\ w = [m \in 1..n |-> w[m]]
    OBVIOUS
  <2> HIDE DEF w
  <2> QED
    BY <1>10, <2>1
<1> QED
  BY <1>3, <1>11 DEF IsLoop

LEMMA SubGroupLoopIs ==
  ASSUME case \in Cases, NEW v
  PROVE  \E u : /\ SubGroupLoop(v) = u[case.simd] /\ u[1] = v
                /\ \A n \in 1..case.simd : n # 1 => u[n] = Pass(u[n \div 2], n)
<1>1. case.simd \in Nat /\ case.simd > 0
  BY CaseFields
<1>2. \E u : IsLoop(u, v, case.simd)
  BY <1>1, LoopExists
<1>3. PICK u : u = CHOOSE f : IsLoop(f, v, case.simd)
  OBVIOUS
<1>4. u = [n \in 1..case.simd |-> IF n = 1 THEN v ELSE Pass(u[n \div 2], n)]
  BY <1>2, <1>3 DEF IsLoop, Looped
<1>5. SubGroupLoop(v) = u[case.simd]
  BY <1>3 DEF SubGroupLoop, IsLoop, Looped
<1>6. 1 \in 1..case.simd
  BY <1>1
<1> QED
  BY <1>4, <1>5, <1>6, ZenonT(30)

(* What holds for the input and after each pass holds for the result.      *)
Residues(S, i, w) == UNION {S[m] : m \in {l \in 0..case.simd - 1 : l % w = i}}
SubGroup == 0..case.simd - 1

LEMMA PassReduces ==
  ASSUME case \in Cases, NEW k, NEW S, \A l, m \in SubGroup : l # m => S[l] \cap S[m] = {},
         NEW d \in Nat, d > 0, Divides(2 * d, case.simd), NEW v, DOMAIN v = SubGroup,
         \A l \in SubGroup : Lists(v[l], k, Residues(S, l % (2 * d), 2 * d)), NEW l \in SubGroup
  PROVE  Lists(ReducePass(v, d)[l], k, Residues(S, l % d, d))
<1>1. PICK n \in Nat : n = case.simd /\ SubGroup = 0..n - 1
  BY CaseFields DEF SubGroup
<1>2. PICK i \in Nat, x \in SubGroup :
        /\ x = LaneXor(l, d) /\ i < d /\ l % d = i
        /\ \/ l % (2 * d) = i /\ x % (2 * d) = i + d
           \/ l % (2 * d) = i + d /\ x % (2 * d) = i
  <2>1. l \in 0..n - 1 /\ Divides(2 * d, n)
    BY <1>1
  <2>2. \E i \in Nat, x \in 0..n - 1 :
           /\ x = LaneXor(l, d) /\ i < d /\ l % d = i
           /\ \/ l % (2 * d) = i /\ x % (2 * d) = i + d
              \/ l % (2 * d) = i + d /\ x % (2 * d) = i
    BY <2>1, LanesOfExchange
  <2> QED
    BY <1>1, <2>2
<1>3. ReducePass(v, d)[l] = v[l] \o v[x]
  BY <1>2 DEF ReducePass
<1>4. PICK A, B : A = Residues(S, i, 2 * d) /\ B = Residues(S, i + d, 2 * d)
  OBVIOUS
<1>5. A \cap B = {}
  <2>1. SUFFICES ASSUME NEW a \in A, a \in B PROVE FALSE
    OBVIOUS
  <2>2. PICK m \in SubGroup : m % (2 * d) = i /\ a \in S[m]
    BY <1>4, <2>1 DEF Residues, SubGroup
  <2>3. PICK o \in SubGroup : o % (2 * d) = i + d /\ a \in S[o]
    BY <1>4, <2>1 DEF Residues, SubGroup
  <2>4. m # o
    BY <1>2, <2>2, <2>3
  <2> QED
    BY <2>2, <2>3, <2>4
<1>6. A \cup B = Residues(S, i, d)
  <2>1. ASSUME NEW m \in SubGroup PROVE m % d = i <=> m % (2 * d) = i \/ m % (2 * d) = i + d
    <3>1. m \in Nat
      BY <1>1
    <3> QED
      BY <1>2, <3>1, HalvesOfClass
  <2>2. {m \in SubGroup : m % d = i} = {m \in SubGroup : m % (2 * d) = i} \cup {m \in SubGroup : m % (2 * d) = i + d}
    BY <2>1
  <2>3. PICK M, N, O : /\ M = {m \in SubGroup : m % d = i} /\ N = {m \in SubGroup : m % (2 * d) = i}
                       /\ O = {m \in SubGroup : m % (2 * d) = i + d}
    OBVIOUS
  <2>4. A = UNION {S[m] : m \in N} /\ B = UNION {S[m] : m \in O} /\ Residues(S, i, d) = UNION {S[m] : m \in M}
    BY <1>4, <2>3 DEF Residues, SubGroup
  <2>5. M = N \cup O
    BY <2>2, <2>3
  <2> QED
    BY <2>4, <2>5
<1>7. \/ Lists(v[l], k, A) /\ Lists(v[x], k, B)
      \/ Lists(v[l], k, B) /\ Lists(v[x], k, A)
  BY <1>2, <1>4
<1>8. Lists(v[l] \o v[x], k, A \cup B)
  <2>1. CASE Lists(v[l], k, A) /\ Lists(v[x], k, B)
    BY <1>5, <2>1, ListsJoined
  <2>2. CASE Lists(v[l], k, B) /\ Lists(v[x], k, A)
    <3>1. B \cap A = {} /\ B \cup A = A \cup B
      BY <1>5
    <3>2. Lists(v[l] \o v[x], k, B \cup A)
      BY <2>2, <3>1, ListsJoined
    <3> QED
      BY <3>1, <3>2
  <2> QED
    BY <1>7, <2>1, <2>2
<1> QED
  BY <1>2, <1>3, <1>6, <1>8

LEMMA SubGroupReduces ==
  ASSUME case \in Cases, Algorithm = "sub_group_reduce", NEW k, NEW v, DOMAIN v = SubGroup,
         NEW S, \A l \in SubGroup : Lists(v[l], k, S[l]),
         \A l, m \in SubGroup : \A a \in S[l] : a \in S[m] => l = m,
         NEW T, \A l \in SubGroup : \A a \in S[l] : a \in T, \A a \in T : \E l \in SubGroup : a \in S[l],
         NEW l \in SubGroup
  PROVE  Lists(SubGroupLoop(v)[l], k, T)
<1>1. PICK s \in Nat : s = case.simd /\ s > 0 /\ SubGroup = 0..s - 1 /\ IsPowerOf2(s)
  <2>1. case.supported
    BY AlgorithmIs
  <2>2. IsPowerOf2(case.simd)
    BY <2>1, CasesAssumption DEF RegularSize
  <2> QED
    BY <2>2, CaseFields DEF SubGroup
<1>2. PICK u : /\ SubGroupLoop(v) = u[s] /\ u[1] = v
               /\ \A n \in 1..s : n # 1 => u[n] = Pass(u[n \div 2], n)
  <2>1. \E u : /\ SubGroupLoop(v) = u[case.simd] /\ u[1] = v
               /\ \A n \in 1..case.simd : n # 1 => u[n] = Pass(u[n \div 2], n)
    BY SubGroupLoopIs
  <2> QED
    BY <1>1, <2>1
<1> DEFINE Good(w, d) == DOMAIN w = SubGroup /\ \A m \in SubGroup : Lists(w[m], k, Residues(S, m % d, d))
           Bad == {n \in Nat : n > 0 /\ \E d \in Nat : s = n * d /\ ~Good(u[n], d)}
<1>3. Bad = {}
  <2>1. SUFFICES ASSUME Bad # {} PROVE FALSE
    OBVIOUS
  <2>2. PICK n \in Bad : \A m \in Bad : n <= m
    <3>1. Bad \in SUBSET Nat
      OBVIOUS
    <3> HIDE DEF Bad
    <3> QED
      BY <2>1, <3>1, LeastNumber
  <2>3. PICK d \in Nat : n \in Nat /\ n > 0 /\ s = n * d /\ ~Good(u[n], d)
    BY <2>2
  <2>4. d > 0
    BY <1>1, <2>3
  <2>5. n # 1
    <3>1. SUFFICES ASSUME n = 1 PROVE Good(v, s)
      BY <1>2, <2>3
    <3>2. ASSUME NEW m \in SubGroup PROVE Residues(S, m % s, s) = S[m]
      <4>1. \A o \in SubGroup : o % s = o
        <5>1. SUFFICES ASSUME NEW o \in SubGroup PROVE o % s = o
          OBVIOUS
        <5>2. o \in Nat /\ 0 \in Nat /\ o < s /\ o = s * 0 + o
          BY <1>1
        <5> QED
          BY <1>1, <5>2, QuotientIs
      <4>2. PICK M : M = {o \in SubGroup : o % s = m % s}
        OBVIOUS
      <4>3. M = {m}
        BY <4>1, <4>2
      <4>4. PICK X : X = {S[o] : o \in M}
        OBVIOUS
      <4>5. Residues(S, m % s, s) = UNION X
        BY <4>2, <4>4 DEF Residues, SubGroup
      <4>6. X = {S[m]}
        BY <4>3, <4>4
      <4>7. UNION X = S[m]
        BY <4>6
      <4> QED
        BY <4>5, <4>7
    <3> QED
      BY <3>2
  <2>6. PICK h \in Nat : h > 0 /\ n = 2 * h /\ n \div 2 = h
    <3>1. Divides(n, s) /\ n > 1
      BY <2>3, <2>5 DEF Divides
    <3> QED
      BY <1>1, <2>3, <3>1, DivisorsAreEven
  <2>7. n \in 1..s
    <3>1. n * 1 <= n * d
      BY <2>3, <2>4, ProductIsMonotonic
    <3> QED
      BY <1>1, <2>3, <3>1
  <2>8. u[n] = ReducePass(u[h], d)
    <3>1. s \div n = d
      <4>1. s = n * d + 0 /\ 0 \in Nat /\ 0 < n
        BY <2>3
      <4> QED
        BY <1>1, <2>3, <4>1, QuotientIs
    <3>2. u[n] = Pass(u[h], n)
      BY <1>2, <2>5, <2>6, <2>7
    <3> QED
      BY <1>1, <3>1, <3>2 DEF Pass
  <2>9. Good(u[h], 2 * d)
    <3>1. h < n /\ s = h * (2 * d) /\ 2 * d \in Nat
      BY <2>3, <2>6
    <3>2. h \notin Bad
      BY <2>2, <2>3, <2>6, <3>1
    <3> QED
      BY <2>6, <3>1, <3>2
  <2>10. Divides(2 * d, case.simd)
    <3>1. s = (2 * d) * h
      BY <2>3, <2>6
    <3> QED
      BY <1>1, <2>6, <3>1 DEF Divides
  <2>11. DOMAIN u[n] = SubGroup
    BY <2>8, <2>9 DEF ReducePass
  <2>12. ASSUME NEW m \in SubGroup PROVE Lists(u[n][m], k, Residues(S, m % d, d))
    <3>1. \A i, j \in SubGroup : i # j => S[i] \cap S[j] = {}
      OBVIOUS
    <3> QED
      BY <2>4, <2>8, <2>9, <2>10, <3>1, PassReduces
  <2> QED
    BY <2>3, <2>11, <2>12
<1>4. Good(u[s], 1)
  <2>1. s = s * 1 /\ 1 \in Nat
    BY <1>1
  <2> QED
    BY <1>1, <1>3, <2>1
<1>5. Lists(u[s][l], k, Residues(S, l % 1, 1))
  BY <1>4
<1>6. \A m \in SubGroup : m % 1 = 0
  BY <1>1
<1>7. Residues(S, l % 1, 1) = UNION {S[m] : m \in {m \in SubGroup : m % 1 = 0}}
  BY <1>6 DEF Residues, SubGroup
<1>8. {m \in SubGroup : m % 1 = 0} = SubGroup
  BY <1>6
<1>9. UNION {S[m] : m \in SubGroup} = T
  OBVIOUS
<1> QED
  BY <1>2, <1>5, <1>7, <1>8, <1>9

(* A scan: lane l comes to hold what the lanes up to l held.               *)
LEMMA PassScans ==
  ASSUME case \in Cases, Algorithm \in {"scan_op", "sub_group_scan"}, NEW k, NEW B \in [0..case.simd -> Nat],
         \A l, m \in 0..case.simd : l <= m => B[l] <= B[m],
         NEW h \in Nat, h > 0, NEW v, DOMAIN v = SubGroup,
         \A l \in SubGroup : Segment(v[l], k, B[Reach(l, h)], B[l + 1]), NEW l \in SubGroup
  PROVE  /\ Algorithm = "scan_op" => Segment(ScanPass(v, h)[l], k, B[Reach(l, 2 * h)], B[l + 1])
         /\ Algorithm # "scan_op" => Segment(OrderedPass(v, h)[l], k, B[Reach(l, 2 * h)], B[l + 1])
<1>1. PICK s \in Nat : s = case.simd /\ SubGroup = 0..s - 1 /\ l \in 0..s - 1
  BY CaseFields DEF SubGroup
<1>2. case.supported \in BOOLEAN /\ (Algorithm = "scan_op" => case.supported)
  BY CaseFields, AlgorithmIs
<1>3. CASE l < h
  <2>1. Reach(l, h) = 0 /\ Reach(l, 2 * h) = 0
    BY <1>1, <1>3 DEF Reach
  <2>2. ScanPass(v, h)[l] = v[l] /\ OrderedPass(v, h)[l] = v[l]
    BY <1>1, <1>3 DEF ScanPass, OrderedPass
  <2>3. Segment(v[l], k, B[0], B[l + 1])
    BY <2>1
  <2> QED
    BY <2>1, <2>2, <2>3
<1>4. CASE l >= h
  <2>1. PICK m \in SubGroup : m = l - h
    BY <1>1, <1>4
  <2>2. /\ Reach(l, h) = m + 1 /\ Reach(l, 2 * h) = Reach(m, h)
        /\ m + 1 \in 0..s /\ l + 1 \in 0..s /\ Reach(m, h) \in 0..s /\ Reach(m, h) <= m + 1 /\ m + 1 <= l + 1
    BY <1>1, <1>4, <2>1 DEF Reach
  <2>3. PICK a \in Nat, b \in Nat, c \in Nat : /\ a = B[Reach(m, h)] /\ b = B[m + 1] /\ c = B[l + 1]
                                               /\ a <= b /\ b <= c
    <3>1. B \in [0..s -> Nat] /\ \A o, q \in 0..s : o <= q => B[o] <= B[q]
      BY <1>1
    <3>2. PICK x \in 0..s, y \in 0..s, z \in 0..s : x = Reach(m, h) /\ y = m + 1 /\ z = l + 1 /\ x <= y /\ y <= z
      BY <2>2
    <3>3. B[x] \in Nat /\ B[y] \in Nat /\ B[z] \in Nat /\ B[x] <= B[y] /\ B[y] <= B[z]
      BY <3>1, <3>2
    <3> QED
      BY <3>2, <3>3
  <2>4. Segment(v[m], k, a, b) /\ Segment(v[l], k, b, c)
    BY <2>1, <2>2, <2>3, SMTT(30)
  <2>5. ScanPass(v, h)[l] = v[l] \o v[m] /\ OrderedPass(v, h)[l] = v[m] \o v[l]
    BY <1>1, <1>4, <2>1 DEF ScanPass, OrderedPass, ShuffleUp
  <2>6. Segment(v[m] \o v[l], k, a, c) /\ (case.supported => Segment(v[l] \o v[m], k, a, c))
    BY <1>2, <2>3, <2>4, SegmentsJoined
  <2> QED
    BY <1>2, <2>2, <2>3, <2>5, <2>6
<1> QED
  BY <1>1, <1>3, <1>4

LEMMA SubGroupScans ==
  ASSUME case \in Cases, Algorithm \in {"scan_op", "sub_group_scan"}, NEW k, NEW B \in [0..case.simd -> Nat],
         \A l, m \in 0..case.simd : l <= m => B[l] <= B[m],
         NEW v, DOMAIN v = SubGroup, \A l \in SubGroup : Segment(v[l], k, B[l], B[l + 1]), NEW l \in SubGroup
  PROVE  Segment(SubGroupLoop(v)[l], k, B[0], B[l + 1])
<1>1. PICK s \in Nat : s = case.simd /\ s > 0 /\ SubGroup = 0..s - 1 /\ IsPowerOf2(s)
  <2>1. case.supported \/ (case.fn # "reduce" /\ case.shuffle)
    BY AlgorithmIs
  <2>2. IsPowerOf2(case.simd)
    BY <2>1, CasesAssumption DEF RegularSize
  <2> QED
    BY <2>2, CaseFields DEF SubGroup
<1>2. PICK u : /\ SubGroupLoop(v) = u[s] /\ u[1] = v
               /\ \A n \in 1..s : n # 1 => u[n] = Pass(u[n \div 2], n)
  <2>1. \E u : /\ SubGroupLoop(v) = u[case.simd] /\ u[1] = v
               /\ \A n \in 1..case.simd : n # 1 => u[n] = Pass(u[n \div 2], n)
    BY SubGroupLoopIs
  <2> QED
    BY <1>1, <2>1
<1> DEFINE Good(w, n) == DOMAIN w = SubGroup /\ \A m \in SubGroup : Segment(w[m], k, B[Reach(m, n)], B[m + 1])
           Bad == {n \in Nat : n > 0 /\ Divides(n, s) /\ ~Good(u[n], n)}
<1>3. Bad = {}
  <2>1. SUFFICES ASSUME Bad # {} PROVE FALSE
    OBVIOUS
  <2>2. PICK n \in Bad : \A m \in Bad : n <= m
    <3>1. Bad \in SUBSET Nat
      OBVIOUS
    <3> HIDE DEF Bad
    <3> QED
      BY <2>1, <3>1, LeastNumber
  <2>3. n \in Nat /\ n > 0 /\ Divides(n, s) /\ ~Good(u[n], n)
    BY <2>2
  <2>4. n # 1
    <3>1. SUFFICES ASSUME n = 1 PROVE Good(v, 1)
      BY <1>2, <2>3
    <3>2. \A m \in SubGroup : Reach(m, 1) = m
      BY <1>1 DEF Reach
    <3> QED
      BY <3>2
  <2>5. PICK h \in Nat : h > 0 /\ n = 2 * h /\ n \div 2 = h /\ Divides(h, s)
    BY <1>1, <2>3, <2>4, DivisorsAreEven
  <2>6. n \in 1..s
    <3>1. PICK q \in Nat : s = n * q
      BY <2>3 DEF Divides
    <3>2. q >= 1
      BY <1>1, <3>1
    <3>3. n * 1 <= n * q
      BY <2>3, <3>2, ProductIsMonotonic
    <3> QED
      BY <1>1, <2>3, <3>1, <3>3
  <2>7. u[n] = IF Algorithm = "scan_op" THEN ScanPass(u[h], h) ELSE OrderedPass(u[h], h)
    <3>1. u[n] = Pass(u[h], n)
      BY <1>2, <2>4, <2>5, <2>6
    <3> QED
      BY <2>5, <3>1 DEF Pass
  <2>8. Good(u[h], h)
    <3>1. h < n /\ h \notin Bad
      BY <2>2, <2>3, <2>5
    <3> QED
      BY <2>5, <3>1
  <2>9. DOMAIN u[n] = SubGroup
    BY <2>7, <2>8 DEF ScanPass, OrderedPass
  <2>10. ASSUME NEW m \in SubGroup PROVE Segment(u[n][m], k, B[Reach(m, n)], B[m + 1])
    <3>1. /\ Algorithm = "scan_op" => Segment(ScanPass(u[h], h)[m], k, B[Reach(m, 2 * h)], B[m + 1])
          /\ Algorithm # "scan_op" => Segment(OrderedPass(u[h], h)[m], k, B[Reach(m, 2 * h)], B[m + 1])
      BY <2>5, <2>8, PassScans
    <3> QED
      BY <2>5, <2>7, <3>1
  <2> QED
    BY <2>3, <2>9, <2>10
<1>4. Good(u[s], s)
  <2>1. Divides(s, s)
    BY <1>1, DividesItself
  <2> QED
    BY <1>1, <1>3, <2>1
<1>5. Reach(l, s) = 0
  BY <1>1 DEF Reach
<1>6. Segment(u[s][l], k, B[Reach(l, s)], B[l + 1])
  BY <1>4
<1> QED
  BY <1>2, <1>5, <1>6

(* The loop of the first item of Host-Compute                              *)
HostFolded(f, n) == IF n = 0 THEN lmem[0] ELSE f[n - 1] \o lmem[n]
IsHostLoop(f, k) == f = [n \in 0..k |-> HostFolded(f, n)]

LEMMA HostLoopExists ==
  ASSUME NEW k \in Nat
  PROVE  \E f : IsHostLoop(f, k)
<1> DEFINE none == {n \in Nat : ~\E f : IsHostLoop(f, n)}
<1>1. SUFFICES ASSUME none # {} PROVE FALSE
  OBVIOUS
<1>2. PICK n \in none : \A m \in none : n <= m
  <2>1. none \in SUBSET Nat
    OBVIOUS
  <2> HIDE DEF none
  <2> QED
    BY <1>1, <2>1, LeastNumber
<1>3. n \in Nat /\ ~\E f : IsHostLoop(f, n)
  OBVIOUS
<1>4. n # 0
  <2> SUFFICES ASSUME n = 0 PROVE FALSE
    OBVIOUS
  <2> DEFINE f == [m \in 0..0 |-> lmem[0]]
  <2>1. \A m \in 0..0 : HostFolded(f, m) = lmem[0]
    BY DEF HostFolded
  <2>2. IsHostLoop(f, n)
    BY <2>1 DEF IsHostLoop
  <2> QED
    BY <1>3, <2>2
<1>5. n - 1 \in Nat /\ n - 1 \notin none
  BY <1>2, <1>3, <1>4
<1>6. PICK f : IsHostLoop(f, n - 1)
  BY <1>5
<1> DEFINE g == [m \in 0..n |-> IF m < n THEN f[m] ELSE HostFolded(f, n)]
<1>7. \A m \in 0..n : m # 0 => g[m - 1] = f[m - 1]
  BY <1>3
<1>8. \A m \in 0..n : HostFolded(g, m) = HostFolded(f, m)
  <2> HIDE DEF g
  <2> QED
    BY <1>7 DEF HostFolded
<1>9. \A m \in 0..n : m < n => f[m] = HostFolded(f, m)
  BY <1>3, <1>6 DEF IsHostLoop
<1>10. \A m \in 0..n : g[m] = HostFolded(g, m)
  <2> SUFFICES ASSUME NEW m \in 0..n PROVE g[m] = HostFolded(g, m)
    OBVIOUS
  <2>1. CASE m < n
    BY <1>8, <1>9, <2>1
  <2>2. CASE m = n
    BY <1>3, <1>8, <2>2
  <2> QED
    BY <1>3, <2>1, <2>2
<1>11. g = [m \in 0..n |-> HostFolded(g, m)]
  <2>1. DOMAIN g = 0..n /\ g = [m \in 0..n |-> g[m]]
    OBVIOUS
  <2> HIDE DEF g
  <2> QED
    BY <1>10, <2>1
<1> QED
  BY <1>3, <1>11 DEF IsHostLoop

LEMMA HostPrefixIsSegment ==
  ASSUME case \in Cases, NEW k \in Nat, \A i \in Items : lmem[i] = Input(i, k), NEW i \in Items
  PROVE  Segment(HostPrefix(i), k, 0, i + 1)
<1>1. PICK m \in Nat : Items = 0..m /\ case.supported \in BOOLEAN
  <2>1. case.size - 1 \in Nat
    BY CaseFields
  <2> QED
    BY <2>1, CaseFields DEF Items
<1>2. \E f : IsHostLoop(f, m)
  BY <1>1, HostLoopExists
<1>3. PICK f : f = CHOOSE g : IsHostLoop(g, m)
  OBVIOUS
<1>4. f = [n \in 0..m |-> HostFolded(f, n)]
  BY <1>2, <1>3 DEF IsHostLoop
<1>5. HostPrefix(i) = f[i]
  <2>1. f = CHOOSE g : g = [n \in Items |-> IF n = 0 THEN lmem[0] ELSE g[n - 1] \o lmem[n]]
    BY <1>1, <1>3 DEF IsHostLoop, HostFolded
  <2> QED
    BY <2>1 DEF HostPrefix
<1> DEFINE Bad == {n \in Nat : n <= m /\ ~Segment(f[n], k, 0, n + 1)}
<1>6. Bad = {}
  <2>1. SUFFICES ASSUME Bad # {} PROVE FALSE
    OBVIOUS
  <2>2. PICK n \in Bad : \A o \in Bad : n <= o
    <3>1. Bad \in SUBSET Nat
      OBVIOUS
    <3> HIDE DEF Bad
    <3> QED
      BY <2>1, <3>1, LeastNumber
  <2>3. n \in Nat /\ n \in 0..m /\ ~Segment(f[n], k, 0, n + 1)
    BY <2>2
  <2>4. Segment(lmem[n], k, n, n + 1)
    BY <1>1, <2>3, SegmentInput
  <2>5. CASE n = 0
    BY <1>4, <2>3, <2>4, <2>5 DEF HostFolded
  <2>6. CASE n # 0
    <3>1. PICK o \in Nat : o = n - 1 /\ o + 1 = n /\ o \in 0..m
      BY <1>1, <2>3, <2>6
    <3>2. f[n] = f[o] \o lmem[n]
      BY <1>4, <2>3, <2>6, <3>1 DEF HostFolded
    <3>3. Segment(f[o], k, 0, n)
      BY <2>2, <3>1
    <3>4. 0 <= n /\ n <= n + 1 /\ n + 1 \in Nat /\ 0 \in Nat
      BY <2>3
    <3>5. Segment(f[o] \o lmem[n], k, 0, n + 1)
      BY <1>1, <2>3, <2>4, <3>3, <3>4, SegmentsJoined
    <3> QED
      BY <2>3, <3>2, <3>5
  <2> QED
    BY <2>5, <2>6
<1>7. i \in Nat /\ i <= m
  BY <1>1
<1> QED
  BY <1>5, <1>6, <1>7

-----------------------------------------------------------------------------
(* Steps                                                                   *)

LEMMA SameFacts ==
  ASSUME case' = case
  PROVE  /\ Items' = Items
         /\ \A i, v, k : Correct(i, v, k)' = Correct(i, v, k)
         /\ \A i, label, c, v, gv, p, k : Holds(i, label, c, v, gv, p, k)' = Holds(i, label, c, v, gv, p, k)
         /\ \A m, w, c, p, k : Stored(m, w, c, p, k)' = Stored(m, w, c, p, k)
         /\ \A p, k : Following(p)' = Following(p) /\ FollowingCall(p, k)' = FollowingCall(p, k)
<1>1. /\ Items' = Items /\ Algorithm' = Algorithm /\ GroupCount' = GroupCount /\ Publisher' = Publisher
      /\ \A i : Group(i)' = Group(i) /\ Lane(i)' = Lane(i)
  BY DEF Items, Algorithm, GroupCount, Publisher, Group, Lane
<1>2. ASSUME NEW g PROVE Lanes(g)' = Lanes(g)
  BY <1>1 DEF Lanes
<1>3. \A s, k, a, b : Segment(s, k, a, b)' = Segment(s, k, a, b)
  BY DEF Segment
<1>4. \A i, w : Class(i, w)' = Class(i, w)
  BY <1>1 DEF Class
<1>5. HalvesEvenly' = HalvesEvenly
  BY <1>1 DEF HalvesEvenly
<1>6. ASSUME NEW i, NEW v, NEW k PROVE Correct(i, v, k)' = Correct(i, v, k)
  BY <1>3, <1>5 DEF Correct
<1>7. ASSUME NEW i, NEW v, NEW k
      PROVE  /\ FirstPassed(i, v, k)' = FirstPassed(i, v, k) /\ Total(v, k, i)' = Total(v, k, i)
             /\ Prefix(v, k, i)' = Prefix(v, k, i)
  BY <1>1, <1>2, <1>3 DEF FirstPassed, Total, Prefix
<1>8. ASSUME NEW i, NEW label, NEW c, NEW v, NEW gv, NEW p, NEW k
      PROVE  Holds(i, label, c, v, gv, p, k)' = Holds(i, label, c, v, gv, p, k)
  BY <1>1, <1>3, <1>4, <1>5, <1>6, <1>7 DEF Holds
<1>9. ASSUME NEW m, NEW w, NEW c, NEW p, NEW k PROVE Stored(m, w, c, p, k)' = Stored(m, w, c, p, k)
  BY <1>1, <1>3, <1>4, <1>5, <1>7 DEF Stored
<1>10. ASSUME NEW p, NEW k
       PROVE  Following(p)' = Following(p) /\ FollowingCall(p, k)' = FollowingCall(p, k)
  <2>1. Following(p)' = Following(p)
    BY SameCase
  <2> QED
    BY <2>1 DEF FollowingCall
<1> QED
  BY <1>1, <1>6, <1>8, <1>9, <1>10

(* Some items go on.                                                       *)
LEMMA DataMoves ==
  ASSUME GroupsTypeOK, GroupsTypeOK', NEW p, NEW k, DataInPhase(p, k), NEW S \in SUBSET Items, case' = case,
         \A j \in Items \ S : /\ pc'[j] = pc[j] /\ call'[j] = call[j] /\ value'[j] = value[j]
                              /\ group_val'[j] = group_val[j] /\ (j \in waiting' <=> j \in waiting),
         \A j \in S : \/ /\ j \in waiting'
                         /\ Holds(j, pc'[j], call'[j], value'[j], group_val'[j], Following(p), FollowingCall(p, k))
                      \/ j \notin waiting' /\ call'[j] > Calls
                      \/ j \notin waiting' /\ Holds(j, pc'[j], call'[j], value'[j], group_val'[j], p, k),
         Stored(lmem', waiting', call'[0], p, k)
  PROVE  DataInPhase(p, k)'
<1>1. /\ Items' = Items /\ Following(p)' = Following(p) /\ FollowingCall(p, k)' = FollowingCall(p, k)
      /\ \A i, label, c, v, gv, q, n : Holds(i, label, c, v, gv, q, n)' = Holds(i, label, c, v, gv, q, n)
      /\ \A m, w, c, q, n : Stored(m, w, c, q, n)' = Stored(m, w, c, q, n)
  BY SameFacts
<1>2. waiting' \subseteq Items /\ waiting \subseteq Items
  BY <1>1 DEF GroupsTypeOK
<1>3. PICK f, n : f = Following(p) /\ n = FollowingCall(p, k) /\ f = Following(p)' /\ n = FollowingCall(p, k)'
  BY <1>1
<1>4. ASSUME NEW j \in waiting'
      PROVE  Holds(j, pc'[j], call'[j], value'[j], group_val'[j], f, n)
  <2>1. CASE j \in S
    BY <1>3, <1>4, <2>1
  <2>2. CASE j \notin S
    <3>1. j \in waiting /\ j \in Items \ S
      BY <1>2, <1>4, <2>2
    <3>2. Holds(j, pc[j], call[j], value[j], group_val[j], f, n)
      BY <1>3, <3>1 DEF DataInPhase
    <3> QED
      BY <3>1, <3>2
  <2> QED
    BY <2>1, <2>2
<1>5. ASSUME NEW j \in Items \ waiting'
      PROVE  call'[j] > Calls \/ Holds(j, pc'[j], call'[j], value'[j], group_val'[j], p, k)
  <2>1. CASE j \in S
    BY <1>5, <2>1
  <2>2. CASE j \notin S
    <3>1. j \in Items \ waiting /\ j \in Items \ S
      BY <1>2, <1>5, <2>2
    <3>2. call[j] > Calls \/ Holds(j, pc[j], call[j], value[j], group_val[j], p, k)
      BY <3>1 DEF DataInPhase
    <3> QED
      BY <3>1, <3>2
  <2> QED
    BY <2>1, <2>2
<1>6. /\ \A j \in waiting' : Holds(j, pc[j], call[j], value[j], group_val[j], Following(p), FollowingCall(p, k))'
      /\ \A j \in Items' \ waiting' : \/ call'[j] > Calls
                                      \/ Holds(j, pc[j], call[j], value[j], group_val[j], p, k)'
  BY <1>1, <1>3, <1>4, <1>5
<1>7. Stored(lmem, waiting, call[0], p, k)'
  BY <1>1
<1> QED
  BY <1>6, <1>7 DEF DataInPhase

(* One item goes on to a barrier.                                          *)
LEMMA ItemContinues ==
  ASSUME GroupsTypeOK, GroupsTypeOK', NEW p, NEW k, IsSound(p, k), NEW i \in Items, i \notin waiting,
         case' = case, NEW label, NEW v,
         pc' = [pc EXCEPT ![i] = label], value' = [value EXCEPT ![i] = v], waiting' = waiting \cup {i},
         call' = call, group_val' = group_val, result' = result,
         IsFunctionOn(lmem', 0..2 * case.size - 1), Stored(lmem', waiting', call[0], p, k),
         Holds(i, label, call[i], v, group_val[i], Following(p), FollowingCall(p, k))
  PROVE  IsSound(p, k)'
<1>1. FunctionsOK /\ Returned /\ DataInPhase(p, k) /\ Items' = Items
  BY SameFacts DEF IsSound
<1>2. IsFunctionOn(value', Items) /\ value'[i] = v /\ \A j \in Items \ {i} : value'[j] = value[j]
  <2>1. IsFunctionOn(value, Items)
    BY <1>1 DEF FunctionsOK
  <2> QED
    BY <2>1 DEF IsFunctionOn
<1>3. FunctionsOK'
  BY <1>1, <1>2 DEF FunctionsOK, IsFunctionOn
<1>4. Returned'
  <2>1. \A j \in Items : call[j] > 1 => Correct(j, result[j], call[j] - 1)
    BY <1>1 DEF Returned
  <2>2. \A j, w, n : Correct(j, w, n)' = Correct(j, w, n)
    BY SameFacts
  <2>3. \A j \in Items' : call'[j] > 1 => Correct(j, result[j], call[j] - 1)'
    BY <1>1, <2>1, <2>2
  <2> QED
    BY <2>3 DEF Returned
<1>5. pc'[i] = label /\ \A j \in Items \ {i} : pc'[j] = pc[j]
  BY DEF GroupsTypeOK
<1>6. /\ {i} \in SUBSET Items
      /\ \A j \in Items \ {i} : /\ pc'[j] = pc[j] /\ call'[j] = call[j] /\ value'[j] = value[j]
                                 /\ group_val'[j] = group_val[j] /\ (j \in waiting' <=> j \in waiting)
  BY <1>2, <1>5
<1>7. \A j \in {i} :
        \/ /\ j \in waiting'
           /\ Holds(j, pc'[j], call'[j], value'[j], group_val'[j], Following(p), FollowingCall(p, k))
        \/ j \notin waiting' /\ call'[j] > Calls
        \/ j \notin waiting' /\ Holds(j, pc'[j], call'[j], value'[j], group_val'[j], p, k)
  BY <1>2, <1>5
<1>8. Stored(lmem', waiting', call'[0], p, k)
  OBVIOUS
<1>9. DataInPhase(p, k)'
  BY <1>1, <1>6, <1>7, <1>8, DataMoves, ZenonT(30)
<1> QED
  BY <1>3, <1>4, <1>9 DEF IsSound

(* A call returns to one item.                                             *)
LEMMA ItemReturns ==
  ASSUME GroupsTypeOK, GroupsTypeOK', NEW p, NEW k \in Nat, IsSound(p, k),
         NEW i \in Items, i \notin waiting, call[i] <= Calls,
         case' = case, NEW v, Return(i, v), Correct(i, v, call[i]), group_val' = group_val,
         IsFunctionOn(lmem', 0..2 * case.size - 1), Stored(lmem', waiting', call'[0], p, k),
         Algorithm \in {"reduce", "host_reduce"} => call[i] + 1 = FollowingCall(p, k),
         Algorithm \notin {"reduce", "host_reduce"} => call[i] + 1 = k
  PROVE  IsSound(p, k)'
<1>1. FunctionsOK /\ Returned /\ DataInPhase(p, k) /\ Items' = Items
  BY SameFacts DEF IsSound
<1>2. PICK c \in Nat : c = call[i] /\ c <= Calls /\ Calls \in Nat
  BY CasesAssumption DEF GroupsTypeOK
<1>3. /\ call' = [call EXCEPT ![i] = c + 1] /\ pc' = [pc EXCEPT ![i] = "begin"]
      /\ value' = [value EXCEPT ![i] = Input(i, c + 1)] /\ result' = [result EXCEPT ![i] = v]
      /\ \/ Algorithm \in {"reduce", "host_reduce"} /\ c < Calls /\ waiting' = waiting \cup {i}
         \/ c + 1 > Calls /\ waiting' = waiting
         \/ Algorithm \notin {"reduce", "host_reduce"} /\ waiting' = waiting
  <2>1. call[i] + 1 = c + 1
    BY <1>2
  <2> QED
    BY <1>2, <2>1 DEF Return, BarrierThen, Go
<1>4. /\ IsFunctionOn(value', Items) /\ value'[i] = Input(i, c + 1) /\ \A j \in Items \ {i} : value'[j] = value[j]
      /\ IsFunctionOn(result', Items) /\ result'[i] = v /\ \A j \in Items \ {i} : result'[j] = result[j]
  <2>1. IsFunctionOn(value, Items) /\ IsFunctionOn(result, Items)
    BY <1>1 DEF FunctionsOK
  <2> QED
    BY <1>3, <2>1 DEF IsFunctionOn
<1>5. /\ pc'[i] = "begin" /\ \A j \in Items \ {i} : pc'[j] = pc[j]
      /\ call'[i] = c + 1 /\ \A j \in Items \ {i} : call'[j] = call[j]
  BY <1>3 DEF GroupsTypeOK
<1>6. FunctionsOK'
  BY <1>1, <1>4 DEF FunctionsOK, IsFunctionOn
<1>7. Returned'
  <2>1. \A j, w, n : Correct(j, w, n)' = Correct(j, w, n)
    BY SameFacts
  <2>2. ASSUME NEW j \in Items, call'[j] > 1 PROVE Correct(j, result'[j], call'[j] - 1)
    <3>1. CASE j = i
      <4>1. (c + 1) - 1 = c
        BY <1>2
      <4> QED
        BY <1>2, <1>4, <1>5, <3>1, <4>1
    <3>2. CASE j # i
      BY <1>1, <1>4, <1>5, <2>2, <3>2 DEF Returned
    <3> QED
      BY <3>1, <3>2
  <2>3. \A j \in Items' : call'[j] > 1 => Correct(j, result[j], call[j] - 1)'
    BY <1>1, <2>1, <2>2
  <2> QED
    BY <2>3 DEF Returned
<1>8. /\ {i} \in SUBSET Items
      /\ \A j \in Items \ {i} : /\ pc'[j] = pc[j] /\ call'[j] = call[j] /\ value'[j] = value[j]
                                 /\ group_val'[j] = group_val[j] /\ (j \in waiting' <=> j \in waiting)
  BY <1>3, <1>4, <1>5
<1>9. \A n, q, gv : c + 1 <= Calls /\ n = c + 1 => Holds(i, "begin", c + 1, Input(i, c + 1), gv, q, n)
  BY <1>2 DEF Holds, CallAt
<1>10. ASSUME NEW j \in {i}
       PROVE  \/ /\ j \in waiting'
                 /\ Holds(j, pc'[j], call'[j], value'[j], group_val'[j], Following(p), FollowingCall(p, k))
              \/ j \notin waiting' /\ call'[j] > Calls
              \/ j \notin waiting' /\ Holds(j, pc'[j], call'[j], value'[j], group_val'[j], p, k)
  <2>1. CASE Algorithm \in {"reduce", "host_reduce"} /\ c < Calls /\ waiting' = waiting \cup {i}
    BY <1>2, <1>4, <1>5, <1>9, <2>1
  <2>2. CASE c + 1 > Calls /\ waiting' = waiting
    BY <1>5, <2>2
  <2>3. CASE Algorithm \notin {"reduce", "host_reduce"} /\ waiting' = waiting
    <3>1. CASE c + 1 > Calls
      BY <1>5, <2>3, <3>1
    <3>2. CASE c + 1 <= Calls
      BY <1>2, <1>4, <1>5, <1>9, <2>3, <3>2
    <3> QED
      BY <1>2, <3>1, <3>2
  <2> QED
    BY <1>3, <2>1, <2>2, <2>3
<1>11. DataInPhase(p, k)'
  BY <1>1, <1>8, <1>10, DataMoves
<1> QED
  BY <1>6, <1>7, <1>11 DEF IsSound

(* What an item that may move holds                                        *)
LEMMA ActiveHolds ==
  ASSUME GroupsTypeOK, NEW p \in Phases, InPhase(p), NEW k, IsSound(p, k), NEW i \in Items, NEW label,
         pc[i] = label, i \notin waiting, call[i] <= Calls
  PROVE  /\ IsAt(i, label, offset[i], side_idx[i], p)
         /\ Holds(i, label, call[i], value[i], group_val[i], p, k)
<1>1. call[i] \in Nat /\ Calls \in Nat
  BY CasesAssumption DEF GroupsTypeOK
<1>2. i \in Items \ waiting /\ ~(call[i] > Calls)
  BY <1>1
<1> QED
  BY <1>2 DEF InPhase, IsIn, IsSound, DataInPhase

LEMMA ExceptSame ==
  ASSUME NEW D, NEW f, IsFunctionOn(f, D), NEW i \in D
  PROVE  f = [f EXCEPT ![i] = f[i]]
<1>1. f = [a \in D |-> f[a]]
  BY DEF IsFunctionOn
<1> QED
  BY <1>1

(* Cells of the local memory                                               *)
LEMMA MemoryAfter ==
  ASSUME case \in Cases, IsFunctionOn(lmem, 0..2 * case.size - 1), NEW a \in 0..2 * case.size - 1, NEW v,
         lmem' = [lmem EXCEPT ![a] = v]
  PROVE  /\ IsFunctionOn(lmem', 0..2 * case.size - 1) /\ lmem'[a] = v
         /\ \A b \in 0..2 * case.size - 1 : b # a => lmem'[b] = lmem[b]
BY DEF IsFunctionOn

LEMMA CellsAre ==
  ASSUME case \in Cases, NEW i \in Items
  PROVE  /\ case.size \in Nat /\ case.size > 0 /\ i \in Nat /\ i < case.size
         /\ i \in 0..2 * case.size - 1 /\ case.size + i \in 0..2 * case.size - 1
         /\ 0 \in Items /\ 0 \in 0..2 * case.size - 1
<1>1. PICK n \in Nat : n = case.size /\ n > 0 /\ Items = 0..n - 1
  BY CaseFields DEF Items
<1>2. /\ i \in 0..2 * n - 1 /\ n + i \in 0..2 * n - 1 /\ 0 \in 0..n - 1 /\ 0 \in 0..2 * n - 1
      /\ i \in Nat /\ i < n
  BY <1>1
<1> QED
  BY <1>1, <1>2

LEMMA ClassOfAll ==
  ASSUME case \in Cases, NEW i \in Items
  PROVE  Class(i, case.size) = {i} /\ (case.size = 1 => i = 0)
<1>1. PICK n \in Nat : n = case.size /\ n > 0 /\ Items = 0..n - 1
  BY CaseFields DEF Items
<1>2. ASSUME NEW m \in Items PROVE m % n = m
  <2>1. m \in Nat /\ 0 \in Nat /\ m < n /\ m = n * 0 + m
    BY <1>1
  <2> QED
    BY <1>1, <2>1, QuotientIs
<1>3. {m \in Items : m % n = i} = {i}
  BY <1>2
<1> QED
  BY <1>1, <1>3, SMTT(30) DEF Class

(* All are left before the first fold.                                     *)
LEMMA FirstWidth ==
  ASSUME case \in Cases, Algorithm = "reduce", HalvesEvenly
  PROVE  Width(case.size \div 2) = case.size /\ (case.size \div 2 > 0 => 2 * (case.size \div 2) = case.size)
<1>1. PICK n \in Nat : n = case.size /\ n > 0 /\ IsPowerOf2(n)
  BY CaseFields DEF HalvesEvenly
<1>2. CASE n = 1
  <2>1. 1 \div 2 = 0
    OBVIOUS
  <2> QED
    BY <1>1, <1>2, <2>1 DEF Width
<1>3. CASE n > 1
  <2>1. Divides(n, n)
    BY DividesItself
  <2>2. PICK h \in Nat : h > 0 /\ n = 2 * h /\ n \div 2 = h
    BY <1>1, <1>3, <2>1, DivisorsAreEven
  <2> QED
    BY <1>1, <2>2 DEF Width
<1> QED
  BY <1>1, <1>2, <1>3

(* Half of an even number are left after a fold.                           *)
LEMMA HalfWidth ==
  ASSUME case \in Cases, Algorithm = "reduce", HalvesEvenly, NEW o \in Nat, o \div 2 > 0,
         Divides(Width(o), case.size)
  PROVE  Width(o \div 2) = o /\ 2 * (o \div 2) = o /\ Divides(o, case.size) /\ o > 1
<1>1. o > 1 /\ Width(o) = 2 * o
  BY DEF Width
<1>2. PICK q \in Nat : case.size = (2 * o) * q
  BY <1>1 DEF Divides
<1>3. (2 * o) * q = o * (2 * q) /\ 2 * q \in Nat
  OBVIOUS
<1>4. Divides(o, case.size)
  BY <1>2, <1>3 DEF Divides
<1>5. case.size \in Nat /\ case.size > 0 /\ IsPowerOf2(case.size)
  BY CaseFields DEF HalvesEvenly
<1>6. PICK h \in Nat : h > 0 /\ o = 2 * h /\ o \div 2 = h
  BY <1>1, <1>4, <1>5, DivisorsAreEven
<1> QED
  BY <1>1, <1>4, <1>6 DEF Width

LEMMA InputsHold ==
  ASSUME case \in Cases, NEW i \in Items, NEW k \in Nat
  PROVE  /\ Lists(Input(i, k), k, Class(i, case.size)) /\ Segment(Input(i, k), k, i, i + 1)
<1>1. i \in Nat /\ case.supported \in BOOLEAN
  BY CellsAre, CaseFields
<1> QED
  BY <1>1, ClassOfAll, ListsInput, SegmentInput

(* The phase the items are in before a barrier, and the values they hold.  *)
LEMMA StoreIsSound ==
  ASSUME GroupsInv, GroupsTypeOK', NEW p \in Phases, InPhase(p), NEW k \in Nat, IsSound(p, k),
         NEW i \in Items, Store(i)
  PROVE  IsSound(p, k)'
<1>1. /\ case \in Cases /\ GroupsTypeOK /\ i \notin waiting /\ call[i] <= Calls /\ pc[i] = "begin"
      /\ Algorithm \in {"reduce", "host_reduce", "scan", "host_scan"}
  BY DEF GroupsInv, GroupsTypeOK, Store, At
<1>2. /\ IsAt(i, "begin", offset[i], side_idx[i], p)
      /\ Holds(i, "begin", call[i], value[i], group_val[i], p, k)
  BY <1>1, ActiveHolds
<1>3. p.does = "store"
  BY <1>1, <1>2, LabelsAreOf DEF SubGroupAlgorithms
<1>4. call[i] = k /\ k <= Calls /\ value[i] = Input(i, k)
  BY <1>2, <1>3 DEF Holds, CallAt
<1>5. PICK label : label = CASE Algorithm = "reduce" -> "fold"
                             [] Algorithm = "scan" -> IF 1 < case.size THEN "step" ELSE "last"
                             [] OTHER -> "first_item"
  OBVIOUS
<1>6. /\ pc' = [pc EXCEPT ![i] = label] /\ waiting' = waiting \cup {i} /\ call' = call
      /\ value' = value /\ group_val' = group_val /\ result' = result /\ case' = case
      /\ lmem' = [lmem EXCEPT ![i] = Input(i, k)]
  BY <1>4, <1>5 DEF Store, BarrierThen
<1>7. IsFunctionOn(lmem, 0..2 * case.size - 1) /\ IsFunctionOn(value, Items)
  BY DEF IsSound, FunctionsOK
<1>8. value' = [value EXCEPT ![i] = Input(i, k)]
  BY <1>4, <1>6, <1>7, ExceptSame
<1>9. /\ IsFunctionOn(lmem', 0..2 * case.size - 1) /\ lmem'[i] = Input(i, k)
      /\ \A b \in 0..2 * case.size - 1 : b # i => lmem'[b] = lmem[b]
  BY <1>1, <1>6, <1>7, CellsAre, MemoryAfter
<1>10. Stored(lmem', waiting', call[0], p, k)
  <2>1. \A j \in waiting : lmem[j] = Input(j, k)
    BY <1>3 DEF IsSound, DataInPhase, Stored
  <2>2. \A j \in waiting : j \in 0..2 * case.size - 1
    BY <1>1, CellsAre DEF GroupsTypeOK
  <2>3. \A j \in waiting' : lmem'[j] = Input(j, k)
    BY <1>6, <1>9, <2>1, <2>2
  <2> QED
    BY <1>3, <2>3 DEF Stored
<1>11. Holds(i, label, call[i], Input(i, k), group_val[i], Following(p), FollowingCall(p, k))
  <2>1. PICK f, n, g : f = Following(p) /\ n = FollowingCall(p, k) /\ g = group_val[i]
    OBVIOUS
  <2>2. SUFFICES Holds(i, label, k, Input(i, k), g, f, n)
    BY <1>4, <2>1
  <2>3. Lists(Input(i, k), k, Class(i, case.size)) /\ Segment(Input(i, k), k, i, i + 1)
    BY <1>1, InputsHold
  <2>4. CASE Algorithm = "reduce"
    <3>1. f = Phase("fold", case.size \div 2, 0) /\ label = "fold"
      BY <1>3, <1>5, <2>1, <2>4 DEF Following
    <3>2. f.does = "fold" /\ f.offset = case.size \div 2
      BY <3>1 DEF Phase
    <3>3. n = k /\ CallAt(label, f, n) = k
      BY <2>1, <3>2 DEF FollowingCall, CallAt
    <3>4. HalvesEvenly => Lists(Input(i, k), k, Class(i, Width(f.offset)))
      BY <1>1, <2>3, <2>4, <3>2, FirstWidth
    <3> QED
      BY <1>4, <3>1, <3>3, <3>4 DEF Holds
  <2>5. CASE Algorithm = "scan" /\ 1 < case.size
    <3>1. f = Phase("step", 1, 0) /\ label = "step"
      BY <1>3, <1>5, <2>1, <2>5 DEF Following
    <3>2. f.does = "step" /\ f.offset = 1
      BY <3>1 DEF Phase
    <3>3. n = k /\ CallAt(label, f, n) = k
      BY <2>1, <3>2 DEF FollowingCall, CallAt
    <3>4. Reach(i, 1) = i
      BY <1>1, CellsAre DEF Reach
    <3> QED
      BY <1>4, <2>3, <3>1, <3>2, <3>3, <3>4 DEF Holds
  <2>6. CASE Algorithm = "scan" /\ ~(1 < case.size)
    <3>1. label = "last" /\ f = IF case.fn = "inclusive" THEN Phase("store", 0, 0) ELSE Phase("last", 0, 0)
      BY <1>3, <1>5, <2>1, <2>6 DEF Following
    <3>2. f.does = IF case.fn = "inclusive" THEN "store" ELSE "last"
      BY <3>1 DEF Phase
    <3>3. CallAt(label, f, n) = k
      BY <2>1, <3>1, <3>2 DEF FollowingCall, CallAt
    <3>4. i = 0
      BY <1>1, <2>6, CellsAre
    <3>5. Segment(Input(i, k), k, 0, i + 1)
      BY <2>3, <3>4
    <3> QED
      BY <1>4, <3>1, <3>3, <3>5 DEF Holds
  <2>7. CASE Algorithm \in {"host_reduce", "host_scan"}
    <3>1. f = Phase("first_item", 0, 0) /\ label = "first_item"
      BY <1>3, <1>5, <2>1, <2>7 DEF Following
    <3>2. f.does = "first_item"
      BY <3>1 DEF Phase
    <3>3. n = k /\ CallAt(label, f, n) = k
      BY <2>1, <3>2 DEF FollowingCall, CallAt
    <3> QED
      BY <1>4, <3>1, <3>3 DEF Holds
  <2> QED
    BY <1>1, <2>4, <2>5, <2>6, <2>7
<1> QED
  BY <1>1, <1>6, <1>8, <1>9, <1>10, <1>11, ItemContinues

(* The two halves of a class of items                                      *)
LEMMA ClassesJoined ==
  ASSUME case \in Cases, NEW o \in Nat, o > 0, NEW i \in Nat, i < o
  PROVE  /\ Class(i, 2 * o) \cap Class(i + o, 2 * o) = {}
         /\ Class(i, 2 * o) \cup Class(i + o, 2 * o) = Class(i, o)
<1>1. ASSUME NEW m \in Items PROVE m % o = i <=> m % (2 * o) = i \/ m % (2 * o) = i + o
  <2>1. m \in Nat
    BY CellsAre
  <2> QED
    BY <2>1, HalvesOfClass
<1>2. i # i + o
  OBVIOUS
<1> QED
  BY <1>1, <1>2 DEF Class

(* The value after a fold holds all items of the next class.               *)
LEMMA FoldedLists ==
  ASSUME case \in Cases, NEW k, NEW o \in Nat, 2 * o <= case.size, NEW i \in Items, offset[i] = o,
         i < Width(o) => Lists(value[i], k, Class(i, Width(o))),
         \A j \in Items : o <= j /\ j < 2 * o => Lists(lmem[j], k, Class(j, 2 * o)),
         i < (IF o = 0 THEN 1 ELSE o)
  PROVE  Lists(Folded(i), k, Class(i, IF o = 0 THEN 1 ELSE o))
<1>1. i \in Nat /\ i < case.size /\ case.size \in Nat
  BY CellsAre
<1>2. CASE o = 0
  <2>1. Folded(i) = value[i] /\ Width(o) = 1
    BY <1>1, <1>2 DEF Folded, Width
  <2> QED
    BY <1>2, <2>1
<1>3. CASE o > 0
  <2>1. Width(o) = 2 * o /\ i < o /\ i < 2 * o
    BY <1>1, <1>3 DEF Width
  <2>2. PICK j \in Items : j = i + o /\ o <= j /\ j < 2 * o
    BY <1>1, <2>1 DEF Items
  <2>3. Lists(value[i], k, Class(i, 2 * o)) /\ Lists(lmem[j], k, Class(j, 2 * o))
    BY <2>1, <2>2
  <2>4. Class(i, 2 * o) \cap Class(j, 2 * o) = {} /\ Class(i, 2 * o) \cup Class(j, 2 * o) = Class(i, o)
    BY <1>1, <1>3, <2>1, <2>2, ClassesJoined
  <2>5. Folded(i) = value[i] \o lmem[j]
    BY <2>1, <2>2 DEF Folded
  <2>6. Lists(value[i] \o lmem[j], k, Class(i, 2 * o) \cup Class(j, 2 * o))
    BY <2>3, <2>4, ListsJoined
  <2>7. (IF o = 0 THEN 1 ELSE o) = o
    BY <1>3
  <2> QED
    BY <2>4, <2>5, <2>6, <2>7
<1> QED
  BY <1>2, <1>3

LEMMA FoldIsSound ==
  ASSUME GroupsInv, GroupsTypeOK', NEW p \in Phases, InPhase(p), NEW k \in Nat, IsSound(p, k),
         NEW i \in Items, Fold(i)
  PROVE  IsSound(p, k)'
<1>1. /\ case \in Cases /\ GroupsTypeOK /\ i \notin waiting /\ call[i] <= Calls /\ pc[i] = "fold"
  BY DEF GroupsInv, GroupsTypeOK, Fold, At
<1>2. /\ IsAt(i, "fold", offset[i], side_idx[i], p)
      /\ Holds(i, "fold", call[i], value[i], group_val[i], p, k)
  BY <1>1, ActiveHolds
<1>3. p.does = "fold"
  BY <1>1, <1>2, LabelsAreOf
<1>4. PICK o \in Nat : o = p.offset /\ offset[i] = o /\ 2 * o <= case.size /\ Algorithm = "reduce"
  BY <1>2, <1>3 DEF IsAt, Phases
<1>5. call[i] = k /\ k <= Calls
  BY <1>2, <1>3 DEF Holds, CallAt
<1>6. IsFunctionOn(lmem, 0..2 * case.size - 1) /\ Stored(lmem, waiting, call[0], p, k)
  BY DEF IsSound, FunctionsOK, DataInPhase
<1>7. ASSUME HalvesEvenly
      PROVE  /\ Divides(Width(o), case.size)
             /\ \A j \in Items : o <= j /\ j < 2 * o => Lists(lmem[j], k, Class(j, 2 * o))
             /\ \A j \in waiting : j < o /\ o > 1 => Lists(lmem[j], k, Class(j, o))
  BY <1>3, <1>4, <1>6, <1>7 DEF Stored
<1>8. ASSUME HalvesEvenly, i < (IF o = 0 THEN 1 ELSE o)
      PROVE  Lists(Folded(i), k, Class(i, IF o = 0 THEN 1 ELSE o))
  <2>1. i < Width(o) => Lists(value[i], k, Class(i, Width(o)))
    BY <1>2, <1>4, <1>5, <1>8 DEF Holds
  <2> QED
    BY <1>1, <1>4, <1>7, <1>8, <2>1, FoldedLists
<1>9. /\ case' = case /\ group_val' = group_val
      /\ lmem' = IF i < o /\ o > 1 THEN [lmem EXCEPT ![i] = Folded(i)] ELSE lmem
      /\ IF o \div 2 > 0
         THEN /\ value' = [value EXCEPT ![i] = Folded(i)] /\ pc' = [pc EXCEPT ![i] = "fold"]
              /\ waiting' = waiting \cup {i} /\ call' = call /\ result' = result
         ELSE Return(i, Folded(i))
  BY <1>4 DEF Fold, BarrierThen
<1>10. waiting' \subseteq waiting \cup {i}
  BY <1>9 DEF Return, BarrierThen, Go
<1>11. /\ IsFunctionOn(lmem', 0..2 * case.size - 1)
       /\ \A b \in 0..2 * case.size - 1 : b # i => lmem'[b] = lmem[b]
       /\ i < o /\ o > 1 => lmem'[i] = Folded(i)
  <2>1. CASE i < o /\ o > 1
    <3>1. lmem' = [lmem EXCEPT ![i] = Folded(i)] /\ i \in 0..2 * case.size - 1
      BY <1>1, <1>9, <2>1, CellsAre
    <3> QED
      BY <1>1, <1>6, <3>1, MemoryAfter
  <2>2. CASE ~(i < o /\ o > 1)
    BY <1>6, <1>9, <2>2
  <2> QED
    BY <2>1, <2>2
<1>12. ASSUME NEW c PROVE Stored(lmem', waiting', c, p, k)
  <2>1. SUFFICES ASSUME HalvesEvenly
                 PROVE  /\ \A j \in Items : o <= j /\ j < 2 * o => Lists(lmem'[j], k, Class(j, 2 * o))
                        /\ \A j \in waiting' : j < o /\ o > 1 => Lists(lmem'[j], k, Class(j, o))
    BY <1>3, <1>4, <1>7 DEF Stored
  <2>2. ASSUME NEW j \in Items, o <= j, j < 2 * o PROVE Lists(lmem'[j], k, Class(j, 2 * o))
    <3>1. lmem'[j] = lmem[j]
      <4>1. CASE j = i
        <5>1. ~(i < o /\ o > 1)
          BY <1>1, <2>2, <4>1, CellsAre
        <5> QED
          BY <1>9, <5>1
      <4>2. CASE j # i
        BY <1>1, <1>11, <4>2, CellsAre
      <4> QED
        BY <4>1, <4>2
    <3> QED
      BY <1>7, <2>1, <2>2, <3>1
  <2>3. ASSUME NEW j \in waiting', j < o, o > 1 PROVE Lists(lmem'[j], k, Class(j, o))
    <3>1. CASE j = i
      BY <1>8, <1>11, <2>1, <2>3, <3>1
    <3>2. CASE j # i
      <4>1. j \in waiting /\ j \in Items
        BY <1>1, <1>10, <2>3, <3>2 DEF GroupsTypeOK
      <4>2. lmem'[j] = lmem[j]
        BY <1>1, <1>11, <3>2, <4>1, CellsAre
      <4> QED
        BY <1>7, <2>1, <2>3, <4>1, <4>2
    <3> QED
      BY <3>1, <3>2
  <2> QED
    BY <2>2, <2>3
<1>13. CASE o \div 2 > 0
  <2>1. PICK f, n, g : f = Following(p) /\ n = FollowingCall(p, k) /\ g = group_val[i]
    OBVIOUS
  <2>2. f = Phase("fold", o \div 2, 0)
    BY <1>3, <1>4, <1>13, <2>1 DEF Following
  <2>3. f.does = "fold" /\ f.offset = o \div 2
    BY <2>2 DEF Phase
  <2>4. n = k /\ CallAt("fold", f, n) = k
    BY <2>1, <2>3 DEF FollowingCall, CallAt
  <2>5. ASSUME HalvesEvenly PROVE Width(o \div 2) = o
    BY <1>1, <1>4, <1>7, <1>13, <2>5, HalfWidth
  <2>6. Holds(i, "fold", call[i], Folded(i), g, f, n)
    <3>1. HalvesEvenly /\ i < Width(f.offset) => Lists(Folded(i), k, Class(i, Width(f.offset)))
      <4>1. SUFFICES ASSUME HalvesEvenly, i < o PROVE Lists(Folded(i), k, Class(i, o))
        BY <2>3, <2>5
      <4>2. o # 0
        BY <1>13
      <4> QED
        BY <1>8, <4>1, <4>2
    <3> QED
      BY <1>5, <2>4, <3>1 DEF Holds
  <2> QED
    BY <1>1, <1>9, <1>11, <1>12, <1>13, <2>1, <2>6, ItemContinues
<1>14. CASE ~(o \div 2 > 0)
  <2>1. Return(i, Folded(i))
    BY <1>9, <1>14
  <2>2. o \in {0, 1}
    BY <1>14
  <2>3. FollowingCall(p, k) = k + 1
    <3>1. Following(p) = Phase("store", 0, 0)
      BY <1>3, <1>4, <1>14 DEF Following
    <3> QED
      BY <3>1 DEF FollowingCall, Phase
  <2>4. Correct(i, Folded(i), call[i])
    <3>1. case.fn = "reduce"
      BY <1>1, <1>4, AlgorithmIs
    <3>2. ASSUME i = 0, HalvesEvenly PROVE SameElements(Folded(i), Inputs(case.size, k))
      <4>1. Lists(Folded(i), k, Class(0, 1))
        BY <1>8, <2>2, <3>2
      <4>2. case.size \in Nat /\ \A m \in Items : m \in Nat
        BY <1>1, CellsAre
      <4>3. \A m \in Nat : m % 1 = 0
        OBVIOUS
      <4>4. Class(0, 1) = 0..case.size - 1
        BY <4>2, <4>3 DEF Class, Items
      <4> QED
        BY <4>1, <4>2, <4>4, ListsHasElements
    <3> QED
      BY <1>5, <3>1, <3>2 DEF Correct
  <2> QED
    BY <1>1, <1>4, <1>5, <1>9, <1>11, <1>12, <2>1, <2>3, <2>4, ItemReturns
<1> QED
  BY <1>13, <1>14

LEMMA HostReduceIsSound ==
  ASSUME GroupsInv, GroupsTypeOK', NEW p \in Phases, InPhase(p), NEW k \in Nat, IsSound(p, k),
         NEW i \in Items, HostReduce(i)
  PROVE  IsSound(p, k)'
<1>1. /\ case \in Cases /\ GroupsTypeOK /\ i \notin waiting /\ call[i] <= Calls /\ pc[i] = "first_item"
      /\ Algorithm = "host_reduce"
  BY DEF GroupsInv, GroupsTypeOK, HostReduce, At
<1>2. /\ IsAt(i, "first_item", offset[i], side_idx[i], p)
      /\ Holds(i, "first_item", call[i], value[i], group_val[i], p, k)
  BY <1>1, ActiveHolds
<1>3. p.does = "first_item"
  BY <1>1, <1>2, LabelsAreOf
<1>4. call[i] = k /\ k <= Calls
  BY <1>2, <1>3 DEF Holds, CallAt
<1>5. IsFunctionOn(lmem, 0..2 * case.size - 1) /\ Stored(lmem, waiting, call[0], p, k)
  BY DEF IsSound, FunctionsOK, DataInPhase
<1>6. /\ case' = case /\ group_val' = group_val /\ Return(i, lmem'[0])
      /\ lmem' = IF i = 0 THEN [lmem EXCEPT ![0] = HostFold] ELSE lmem
  BY DEF HostReduce
<1>7. IsFunctionOn(lmem', 0..2 * case.size - 1) /\ (i = 0 => lmem'[0] = HostFold)
  <2>1. CASE i = 0
    BY <1>1, <1>5, <1>6, <2>1, CellsAre, MemoryAfter
  <2>2. CASE i # 0
    BY <1>5, <1>6, <2>2
  <2> QED
    BY <2>1, <2>2
<1>8. Correct(i, lmem'[0], call[i])
  <2>1. case.fn = "reduce" /\ ~case.supported
    BY <1>1, AlgorithmIs
  <2>2. ASSUME i = 0 PROVE SameElements(lmem'[0], Inputs(case.size, k))
    <3>1. \A j \in Items : lmem[j] = Input(j, k)
      BY <1>1, <1>3, <1>5, <2>2 DEF Stored
    <3>2. PICK j \in Items : j = case.size - 1 /\ j + 1 = case.size
      BY <1>1, CellsAre DEF Items
    <3>3. Segment(HostPrefix(j), k, 0, j + 1)
      BY <1>1, <3>1, HostPrefixIsSegment
    <3>4. lmem'[0] = HostPrefix(j)
      BY <1>7, <2>2, <3>2 DEF HostFold
    <3>5. lmem'[0] = [a \in 1..case.size - 0 |-> <<k, 0 + (a - 1)>>]
      BY <2>1, <3>2, <3>3, <3>4 DEF Segment
    <3>6. case.size - 0 = case.size /\ \A a \in 1..case.size : 0 + (a - 1) = a - 1
      BY <1>1, CellsAre
    <3>7. lmem'[0] = Inputs(case.size, k)
      BY <3>5, <3>6 DEF Inputs
    <3> QED
      BY <3>7 DEF SameElements
  <2> QED
    BY <1>4, <2>1, <2>2 DEF Correct
<1>9. FollowingCall(p, k) = k + 1
  BY <1>3 DEF FollowingCall, Following, Phase
<1>10. Stored(lmem', waiting', call'[0], p, k)
  <2>1. ASSUME 0 \notin waiting', call'[0] <= Calls PROVE \A j \in Items : lmem'[j] = Input(j, k)
    <3>1. i # 0
      <4>1. SUFFICES ASSUME i = 0 PROVE FALSE
        OBVIOUS
      <4>2. call'[0] = k + 1 /\ (k < Calls => 0 \in waiting')
        BY <1>1, <1>4, <1>6, <4>1 DEF Return, BarrierThen, Go, GroupsTypeOK
      <4>3. Calls \in Nat
        BY CasesAssumption
      <4> QED
        BY <2>1, <4>2, <4>3
    <3>2. lmem' = lmem /\ 0 \notin waiting /\ call'[0] = call[0]
      <4>1. 0 \in Items
        BY <1>1, CellsAre
      <4> QED
        BY <1>1, <1>6, <2>1, <3>1, <4>1 DEF Return, BarrierThen, Go, GroupsTypeOK
    <3> QED
      BY <1>3, <1>5, <2>1, <3>2 DEF Stored
  <2> QED
    BY <1>1, <1>3, <2>1 DEF Stored
<1> QED
  BY <1>1, <1>4, <1>6, <1>7, <1>8, <1>9, <1>10, ItemReturns

LEMMA HostScanIsSound ==
  ASSUME GroupsInv, GroupsTypeOK', NEW p \in Phases, InPhase(p), NEW k \in Nat, IsSound(p, k),
         NEW i \in Items, HostScan(i)
  PROVE  IsSound(p, k)'
<1>1. /\ case \in Cases /\ GroupsTypeOK /\ i \notin waiting /\ call[i] <= Calls /\ pc[i] = "first_item"
      /\ Algorithm = "host_scan"
  BY DEF GroupsInv, GroupsTypeOK, HostScan, At
<1>2. /\ IsAt(i, "first_item", offset[i], side_idx[i], p)
      /\ Holds(i, "first_item", call[i], value[i], group_val[i], p, k)
  BY <1>1, ActiveHolds
<1>3. p.does = "first_item"
  BY <1>1, <1>2, LabelsAreOf
<1>4. call[i] = k /\ k <= Calls
  BY <1>2, <1>3 DEF Holds, CallAt
<1>5. IsFunctionOn(lmem, 0..2 * case.size - 1) /\ Stored(lmem, waiting, call[0], p, k)
  BY DEF IsSound, FunctionsOK, DataInPhase
<1>6. /\ call[0] <= Calls
      /\ 0 \notin waiting => \A j \in Items : lmem[j] = Input(j, k)
      /\ 0 \in waiting => \A j \in Items : Segment(lmem[j], k, 0, j + 1)
  BY <1>1, <1>3, <1>5 DEF Stored
<1>7. PICK v : v = CASE case.fn = "inclusive" -> lmem'[i]
                     [] case.fn # "inclusive" /\ i = 0 -> <<>>
                     [] OTHER -> lmem'[i - 1]
  OBVIOUS
<1>8. /\ pc' = [pc EXCEPT ![i] = "return"] /\ waiting' = waiting \cup {i} /\ call' = call
      /\ value' = [value EXCEPT ![i] = v] /\ group_val' = group_val /\ result' = result /\ case' = case
      /\ lmem' = IF i = 0 THEN [a \in DOMAIN lmem |-> IF a \in Items THEN HostPrefix(a) ELSE lmem[a]]
                 ELSE lmem
  BY <1>7 DEF HostScan, BarrierThen
<1>9. IsFunctionOn(lmem', 0..2 * case.size - 1)
  BY <1>5, <1>8 DEF IsFunctionOn
<1>10. \A j \in Items : Segment(lmem'[j], k, 0, j + 1)
  <2>1. CASE i = 0
    <3>1. \A j \in Items : lmem[j] = Input(j, k)
      BY <1>1, <1>6, <2>1
    <3>2. DOMAIN lmem = 0..2 * case.size - 1
      BY <1>5 DEF IsFunctionOn
    <3>3. ASSUME NEW j \in Items PROVE lmem'[j] = HostPrefix(j)
      <4>1. j \in DOMAIN lmem
        BY <1>1, <3>2, CellsAre
      <4> QED
        BY <1>8, <2>1, <4>1
    <3> QED
      BY <1>1, <3>1, <3>3, HostPrefixIsSegment
  <2>2. CASE i # 0
    <3>1. 0 \in Items /\ 0 < i
      BY <1>1, <2>2, CellsAre
    <3>2. case.host
      BY <1>1, AlgorithmIs
    <3>3. 0 \in waiting \/ call[0] > Calls
      BY <3>1, <3>2 DEF HostScan, At, FiberOrder
    <3>4. call[0] \in Nat /\ Calls \in Nat
      BY <1>1, <3>1, CasesAssumption DEF GroupsTypeOK
    <3> QED
      BY <1>6, <1>8, <2>2, <3>3, <3>4
  <2> QED
    BY <2>1, <2>2
<1>11. Correct(i, v, k)
  <2>1. case.fn # "reduce" /\ case.fn \in {"inclusive", "exclusive"} /\ case.supported \in BOOLEAN /\ i \in Nat
    BY <1>1, AlgorithmIs, CaseFields, CellsAre
  <2>2. CASE case.fn = "inclusive"
    BY <1>7, <1>10, <2>1, <2>2 DEF Correct
  <2>3. CASE case.fn # "inclusive" /\ i = 0
    <3>1. Segment(<<>>, k, 0, 0)
      BY <2>1, SegmentNothing
    <3> QED
      BY <1>7, <2>1, <2>3, <3>1 DEF Correct
  <2>4. CASE case.fn # "inclusive" /\ i # 0
    <3>1. PICK j \in Items : j = i - 1 /\ j + 1 = i
      BY <1>1, <2>1, <2>4, CellsAre DEF Items
    <3>2. Segment(lmem'[j], k, 0, i)
      BY <1>10, <3>1
    <3> QED
      BY <1>7, <2>1, <2>4, <3>1, <3>2 DEF Correct
  <2> QED
    BY <2>2, <2>3, <2>4
<1>12. Stored(lmem', waiting', call[0], p, k)
  <2>1. 0 \in waiting'
    <3>1. CASE i = 0
      BY <1>8, <3>1
    <3>2. CASE i # 0
      <4>1. 0 \in Items /\ 0 < i
        BY <1>1, <3>2, CellsAre
      <4>2. case.host
        BY <1>1, AlgorithmIs
      <4>3. 0 \in waiting \/ call[0] > Calls
        BY <4>1, <4>2 DEF HostScan, At, FiberOrder
      <4>4. call[0] \in Nat /\ Calls \in Nat
        BY <1>1, <4>1, CasesAssumption DEF GroupsTypeOK
      <4> QED
        BY <1>6, <1>8, <4>3, <4>4
    <3> QED
      BY <3>1, <3>2
  <2> QED
    BY <1>3, <1>6, <1>10, <2>1 DEF Stored
<1>13. Holds(i, "return", call[i], v, group_val[i], Following(p), FollowingCall(p, k))
  <2>1. PICK f, n, g : f = Following(p) /\ n = FollowingCall(p, k) /\ g = group_val[i]
    OBVIOUS
  <2>2. f = Phase("store", 0, 0)
    BY <1>3, <2>1 DEF Following
  <2>3. f.does = "store" /\ n = k + 1
    BY <2>1, <2>2 DEF Phase, FollowingCall
  <2>4. CallAt("return", f, n) = k
    BY <2>3 DEF CallAt
  <2>5. Holds(i, "return", k, v, g, f, n)
    BY <1>4, <1>11, <2>4 DEF Holds
  <2> QED
    BY <1>4, <2>1, <2>5
<1> QED
  BY <1>1, <1>8, <1>9, <1>12, <1>13, ItemContinues

LEMMA ScanStepIsSound ==
  ASSUME GroupsInv, GroupsTypeOK', NEW p \in Phases, InPhase(p), NEW k \in Nat, IsSound(p, k),
         NEW i \in Items, ScanStep(i)
  PROVE  IsSound(p, k)'
<1>1. /\ case \in Cases /\ GroupsTypeOK /\ i \notin waiting /\ call[i] <= Calls /\ pc[i] = "step"
      /\ case.supported \in BOOLEAN
  BY CaseFields DEF GroupsInv, GroupsTypeOK, ScanStep, At
<1>2. /\ IsAt(i, "step", offset[i], side_idx[i], p)
      /\ Holds(i, "step", call[i], value[i], group_val[i], p, k)
  BY <1>1, ActiveHolds
<1>3. p.does = "step"
  BY <1>1, <1>2, LabelsAreOf
<1>4. PICK n \in Nat, o \in Nat, s \in Nat, t \in Nat :
        /\ n = case.size /\ o = p.offset /\ offset[i] = o /\ o >= 1 /\ Items = 0..n - 1 /\ n > 0
        /\ s = p.side /\ side_idx[i] = s /\ t = n - s /\ ((s = 0 /\ t = n) \/ (s = n /\ t = 0))
  <2>1. PICK n \in Nat : n = case.size /\ n > 0 /\ Items = 0..n - 1
    BY <1>1, CaseFields DEF Items
  <2>2. p.offset \in Nat /\ p.offset >= 1 /\ p.side \in {0, n} /\ offset[i] = p.offset /\ side_idx[i] = p.side
    BY <1>2, <1>3, <2>1 DEF IsAt, Phases
  <2>3. PICK o \in Nat, s \in Nat : o = p.offset /\ s = p.side /\ s \in {0, n}
    BY <2>1, <2>2
  <2>4. PICK t \in Nat : t = n - s /\ ((s = 0 /\ t = n) \/ (s = n /\ t = 0))
    BY <2>1, <2>3
  <2> QED
    BY <2>1, <2>2, <2>3, <2>4
<1>5. i \in Nat /\ i < n /\ \A j \in Items : j \in Nat /\ j < n
  BY <1>4
<1>6. /\ (s = 0 /\ t = n) \/ (s = n /\ t = 0)
      /\ \A j \in Nat : j < n => s + j \in 0..2 * n - 1 /\ t + j \in 0..2 * n - 1
      /\ \A j, m \in Nat : j < n /\ m < n => s + j # t + m /\ (j # m => t + j # t + m)
  <2>1. (s = 0 /\ t = n) \/ (s = n /\ t = 0)
    BY <1>4
  <2> QED
    BY <2>1
<1>7. call[i] = k /\ k <= Calls /\ Segment(value[i], k, Reach(i, o), i + 1)
  BY <1>2, <1>3, <1>4 DEF Holds, CallAt
<1>8. IsFunctionOn(lmem, 0..2 * n - 1) /\ Stored(lmem, waiting, call[0], p, k)
  BY <1>4 DEF IsSound, FunctionsOK, DataInPhase
<1>9. /\ \A j \in Items : Segment(lmem[s + j], k, Reach(j, o), j + 1)
      /\ \A j \in waiting : Segment(lmem[t + j], k, Reach(j, 2 * o), j + 1)
  BY <1>3, <1>4, <1>8 DEF Stored
<1>10. PICK v : v = Scanned(i)
  OBVIOUS
<1>11. Segment(v, k, Reach(i, 2 * o), i + 1)
  <2>0. o \in Nat /\ o >= 1 /\ offset[i] = o /\ side_idx[i] = s
    BY <1>4
  <2>1. CASE i >= o
    <3>1. PICK j \in Nat : j < n /\ j = i - o /\ s + i - o = s + j /\ j + 1 = i + 1 - o
      BY <1>5, <2>0, <2>1
    <3>2. v = lmem[s + j] \o value[i]
      BY <1>10, <2>0, <2>1, <3>1 DEF Scanned
    <3>3. Reach(j, o) = Reach(i, 2 * o) /\ Reach(i, o) = j + 1
      BY <1>5, <2>0, <2>1, <3>1 DEF Reach
    <3>4. Reach(j, o) \in Nat /\ j + 1 \in Nat /\ i + 1 \in Nat /\ Reach(j, o) <= j + 1 /\ j + 1 <= i + 1
      BY <1>5, <2>0, <3>1 DEF Reach
    <3>5. Segment(lmem[s + j], k, Reach(j, o), j + 1) /\ Segment(value[i], k, j + 1, i + 1)
      <4>1. j \in Items
        BY <1>4, <3>1, SMTT(30)
      <4> QED
        BY <1>7, <1>9, <3>3, <4>1
    <3>6. Segment(lmem[s + j] \o value[i], k, Reach(j, o), i + 1)
      BY <1>1, <3>4, <3>5, SegmentsJoined
    <3> QED
      BY <3>2, <3>3, <3>6
  <2>2. CASE i < o
    <3>1. Reach(i, o) = 0 /\ Reach(i, 2 * o) = 0
      BY <1>5, <2>0, <2>2 DEF Reach
    <3>2. v = value[i]
      BY <1>10, <1>5, <2>0, <2>2 DEF Scanned
    <3> QED
      BY <1>7, <3>1, <3>2
  <2> QED
    BY <1>5, <2>0, <2>1, <2>2
<1>12. PICK label : label = IF 2 * o < n THEN "step" ELSE "last"
  OBVIOUS
<1>13. /\ pc' = [pc EXCEPT ![i] = label] /\ waiting' = waiting \cup {i} /\ call' = call /\ case' = case
       /\ value' = [value EXCEPT ![i] = v] /\ group_val' = group_val /\ result' = result
       /\ lmem' = [lmem EXCEPT ![t + i] = v]
  BY <1>4, <1>10, <1>12 DEF ScanStep, BarrierThen
<1>14. /\ IsFunctionOn(lmem', 0..2 * n - 1) /\ lmem'[t + i] = v
       /\ \A b \in 0..2 * n - 1 : b # t + i => lmem'[b] = lmem[b]
  <2>1. t + i \in 0..2 * n - 1
    BY <1>5, <1>6
  <2> QED
    BY <1>1, <1>4, <1>8, <1>13, <2>1, MemoryAfter, ZenonT(30)
<1>15. Stored(lmem', waiting', call[0], p, k)
  <2>1. ASSUME NEW j \in Items PROVE Segment(lmem'[s + j], k, Reach(j, o), j + 1)
    <3>1. s + j \in 0..2 * n - 1 /\ s + j # t + i
      BY <1>5, <1>6
    <3> QED
      BY <1>9, <1>14, <3>1
  <2>2. ASSUME NEW j \in waiting' PROVE Segment(lmem'[t + j], k, Reach(j, 2 * o), j + 1)
    <3>1. CASE j = i
      BY <1>11, <1>14, <3>1
    <3>2. CASE j # i
      <4>1. j \in waiting /\ j \in Items
        BY <1>1, <1>13, <3>2 DEF GroupsTypeOK
      <4>2. t + j \in 0..2 * n - 1 /\ t + j # t + i
        BY <1>5, <1>6, <3>2, <4>1
      <4> QED
        BY <1>9, <1>14, <4>1, <4>2
    <3> QED
      BY <3>1, <3>2
  <2> QED
    BY <1>3, <1>4, <2>1, <2>2 DEF Stored
<1>16. Holds(i, label, call[i], v, group_val[i], Following(p), FollowingCall(p, k))
  <2>1. PICK f, m, g : f = Following(p) /\ m = FollowingCall(p, k) /\ g = group_val[i]
    OBVIOUS
  <2>2. SUFFICES Holds(i, label, k, v, g, f, m)
    BY <1>7, <2>1
  <2>3. CASE 2 * o < n
    <3>1. f = Phase("step", 2 * o, t) /\ label = "step"
      BY <1>3, <1>4, <1>12, <2>1, <2>3 DEF Following
    <3>2. f.does = "step" /\ f.offset = 2 * o
      BY <3>1 DEF Phase
    <3>3. m = k /\ CallAt(label, f, m) = k
      BY <2>1, <3>2 DEF FollowingCall, CallAt
    <3> QED
      BY <1>7, <1>11, <3>1, <3>2, <3>3 DEF Holds
  <2>4. CASE ~(2 * o < n)
    <3>1. label = "last" /\ f = IF case.fn = "inclusive" THEN Phase("store", 0, 0) ELSE Phase("last", 0, t)
      BY <1>3, <1>4, <1>12, <2>1, <2>4 DEF Following
    <3>2. f.does = IF case.fn = "inclusive" THEN "store" ELSE "last"
      BY <3>1 DEF Phase
    <3>3. CallAt(label, f, m) = k
      BY <2>1, <3>1, <3>2 DEF FollowingCall, CallAt
    <3>4. Reach(i, 2 * o) = 0
      BY <1>4, <2>4, SMTT(30) DEF Reach
    <3> QED
      BY <1>7, <1>11, <3>1, <3>3, <3>4 DEF Holds
  <2> QED
    BY <2>3, <2>4
<1> QED
  BY <1>1, <1>4, <1>13, <1>14, <1>15, <1>16, ItemContinues

LEMMA ScanLastIsSound ==
  ASSUME GroupsInv, GroupsTypeOK', NEW p \in Phases, InPhase(p), NEW k \in Nat, IsSound(p, k),
         NEW i \in Items, ScanLast(i)
  PROVE  IsSound(p, k)'
<1>1. /\ case \in Cases /\ GroupsTypeOK /\ i \notin waiting /\ call[i] <= Calls /\ pc[i] = "last"
      /\ case.supported \in BOOLEAN
  BY CaseFields DEF GroupsInv, GroupsTypeOK, ScanLast, At
<1>2. /\ IsAt(i, "last", offset[i], side_idx[i], p)
      /\ Holds(i, "last", call[i], value[i], group_val[i], p, k)
  BY <1>1, ActiveHolds
<1>3. /\ IsFunctionOn(lmem, 0..2 * case.size - 1) /\ Stored(lmem, waiting, call[0], p, k)
      /\ group_val' = group_val /\ case' = case /\ lmem' = lmem
  BY DEF IsSound, FunctionsOK, DataInPhase, ScanLast
<1>4. CASE case.fn = "inclusive"
  <2>1. p.does = "store" /\ Algorithm = "scan"
    BY <1>1, <1>2, <1>4, LabelsAreOf
  <2>2. call[i] = k - 1 /\ call[i] + 1 = k /\ Segment(value[i], call[i], 0, i + 1)
    BY <1>2, <2>1 DEF Holds, CallAt
  <2>3. PICK v : v = value[i] /\ Return(i, v) /\ Correct(i, v, call[i])
    BY <1>4, <2>2 DEF ScanLast, Correct
  <2>4. waiting' = waiting
    BY <2>1, <2>3 DEF Return, Go
  <2>5. Stored(lmem', waiting', call'[0], p, k)
    BY <1>3, <2>1, <2>4 DEF Stored
  <2> QED
    BY <1>1, <1>3, <2>1, <2>2, <2>3, <2>5, ItemReturns
<1>5. CASE case.fn # "inclusive"
  <2>1. p.does = "last" /\ Algorithm = "scan" /\ side_idx[i] = p.side
    <3>1. p.does = "last"
      BY <1>1, <1>2, <1>5, LabelsAreOf
    <3> QED
      BY <1>2, <3>1 DEF IsAt, Phases
  <2>2. call[i] = k /\ k <= Calls
    BY <1>2, <2>1 DEF Holds, CallAt
  <2>3. \A j \in Items : Segment(lmem[p.side + j], k, 0, j + 1)
    BY <1>3, <2>1 DEF Stored
  <2>4. PICK v : v = IF i = 0 THEN <<>> ELSE lmem[side_idx[i] + i - 1]
    OBVIOUS
  <2>5. /\ pc' = [pc EXCEPT ![i] = "return"] /\ waiting' = waiting \cup {i} /\ call' = call
        /\ value' = [value EXCEPT ![i] = v] /\ result' = result
    BY <1>5, <2>4 DEF ScanLast, BarrierThen
  <2>6. Correct(i, v, k)
    <3>1. case.fn # "reduce"
      BY <1>1, <2>1, AlgorithmIs
    <3>2. CASE i = 0
      <4>1. Segment(<<>>, k, 0, 0)
        BY <1>1, SegmentNothing
      <4> QED
        BY <1>5, <2>4, <3>1, <3>2, <4>1 DEF Correct
    <3>3. CASE i # 0
      <4>1. i \in Nat /\ p.side \in Nat /\ case.size \in Nat
        BY <1>1, CellsAre, PhaseFields
      <4>2. PICK j \in Items : j = i - 1 /\ j + 1 = i /\ p.side + i - 1 = p.side + j
        BY <3>3, <4>1 DEF Items
      <4>3. Segment(lmem[p.side + j], k, 0, i)
        BY <2>3, <4>2
      <4> QED
        BY <1>5, <2>1, <2>4, <3>1, <3>3, <4>2, <4>3 DEF Correct
    <3> QED
      BY <3>2, <3>3
  <2>7. Stored(lmem', waiting', call[0], p, k)
    BY <1>3, <2>1 DEF Stored
  <2>8. Holds(i, "return", call[i], v, group_val[i], Following(p), FollowingCall(p, k))
    <3>1. PICK f, n, g : f = Following(p) /\ n = FollowingCall(p, k) /\ g = group_val[i]
      OBVIOUS
    <3>2. f = Phase("store", 0, 0)
      BY <2>1, <3>1 DEF Following
    <3>3. f.does = "store" /\ n = k + 1
      BY <3>1, <3>2 DEF Phase, FollowingCall
    <3>4. CallAt("return", f, n) = k
      BY <3>3 DEF CallAt
    <3>5. Holds(i, "return", k, v, g, f, n)
      BY <2>2, <2>6, <3>4 DEF Holds
    <3> QED
      BY <2>2, <3>1, <3>5
  <2> QED
    BY <1>1, <1>3, <2>5, <2>7, <2>8, ItemContinues
<1> QED
  BY <1>4, <1>5

LEMMA ReturnValueIsSound ==
  ASSUME GroupsInv, GroupsTypeOK', NEW p \in Phases, InPhase(p), NEW k \in Nat, IsSound(p, k),
         NEW i \in Items, ReturnValue(i)
  PROVE  IsSound(p, k)'
<1>1. case \in Cases /\ GroupsTypeOK /\ i \notin waiting /\ call[i] <= Calls /\ pc[i] = "return"
  BY DEF GroupsInv, GroupsTypeOK, ReturnValue, At
<1>2. /\ IsAt(i, "return", offset[i], side_idx[i], p)
      /\ Holds(i, "return", call[i], value[i], group_val[i], p, k)
  BY <1>1, ActiveHolds
<1>3. p.does \in {"store", "publish"} /\ Algorithm \notin {"reduce", "host_reduce"}
  BY <1>1, <1>2, LabelsAreOf DEF SubGroupAlgorithms
<1>4. call[i] + 1 = k /\ Correct(i, value[i], call[i])
  BY <1>2, <1>3 DEF Holds, CallAt
<1>5. PICK v : v = value[i] /\ Return(i, v) /\ Correct(i, v, call[i])
  BY <1>4 DEF ReturnValue
<1>6. case' = case /\ group_val' = group_val /\ lmem' = lmem /\ waiting' = waiting
  BY <1>3, <1>5 DEF ReturnValue, Return, Go
<1>7. IsFunctionOn(lmem, 0..2 * case.size - 1) /\ Stored(lmem, waiting, call[0], p, k)
  BY DEF IsSound, FunctionsOK, DataInPhase
<1>8. Stored(lmem', waiting', call'[0], p, k)
  BY <1>3, <1>6, <1>7 DEF Stored
<1> QED
  BY <1>1, <1>3, <1>4, <1>5, <1>6, <1>7, <1>8, ItemReturns

-----------------------------------------------------------------------------
(* Steps with sub-groups                                                   *)

LEMMA SubGroupsAre ==
  ASSUME case \in Cases, Algorithm \in SubGroupAlgorithms
  PROVE  \E w \in Nat, c \in Nat :
           /\ w = case.simd /\ w > 0 /\ c = GroupCount /\ c > 0 /\ c <= w /\ case.size = w * c
           /\ case.supported \in BOOLEAN /\ SubGroup = 0..w - 1
           /\ \A i \in Items : Group(i) < c
           /\ \A g \in Nat : g < c => g \in Items /\ Group(g) = 0
<1>1. case.supported \/ (case.fn # "reduce" /\ case.shuffle)
  BY AlgorithmIs DEF SubGroupAlgorithms
<1>2. case.size % case.simd = 0 /\ GroupCount <= case.simd /\ case.supported \in BOOLEAN
  BY <1>1, CaseFields
<1>3. PICK w \in Nat, n \in Nat : w = case.simd /\ w > 0 /\ n = case.size /\ n > 0
  BY CaseFields
<1>4. 0 \in Items
  BY <1>3 DEF Items
<1>5. GroupCount \in Nat /\ case.size = case.simd * GroupCount /\ \A i \in Items : Group(i) < GroupCount
  BY <1>2, <1>4, GroupsAreCounted
<1>6. PICK c \in Nat : c = GroupCount /\ n = w * c /\ c <= w
  BY <1>2, <1>3, <1>5
<1>7. c > 0
  BY <1>3, <1>6
<1>8. ASSUME NEW g \in Nat, g < c PROVE g \in Items /\ Group(g) = 0
  <2>1. g < n
    <3>1. 1 * c <= w * c
      BY <1>3, ProductIsMonotonic
    <3> QED
      BY <1>6, <1>8, <3>1
  <2>2. g < w /\ 0 \in Nat /\ g = w * 0 + g
    BY <1>6, <1>8
  <2>3. g \div w = 0
    BY <2>2, QuotientIs
  <2> QED
    BY <1>3, <2>1, <2>3 DEF Items, Group
<1> QED
  BY <1>2, <1>3, <1>5, <1>6, <1>7, <1>8 DEF SubGroup

(* The lanes of a sub-group and its items                                  *)
LEMMA LaneIs ==
  ASSUME case \in Cases, Algorithm \in SubGroupAlgorithms, NEW g \in Nat, g < GroupCount
  PROVE  /\ \A l \in SubGroup : g * case.simd + l \in Lanes(g) /\ Lane(g * case.simd + l) = l
         /\ \A i \in Lanes(g) : i \in Items /\ Group(i) = g /\ Lane(i) \in SubGroup /\ i = g * case.simd + Lane(i)
<1>1. PICK w \in Nat, c \in Nat :
        /\ w = case.simd /\ w > 0 /\ c = GroupCount /\ case.size = w * c /\ SubGroup = 0..w - 1
  BY SubGroupsAre
<1>2. ASSUME NEW l \in SubGroup PROVE g * w + l \in Items /\ Group(g * w + l) = g /\ Lane(g * w + l) = l
  <2>1. l \in Nat /\ l < w
    BY <1>1
  <2>2. PICK i \in Nat : i = g * w + l /\ i = w * g + l
    BY <2>1
  <2>3. i \div w = g /\ i % w = l
    BY <2>1, <2>2, QuotientIs
  <2>4. i < w * c
    <3>1. (g + 1) * w <= c * w
      BY <1>1, ProductIsMonotonic
    <3>2. (g + 1) * w = w * g + w /\ c * w = w * c /\ w * g \in Nat /\ w * c \in Nat
      OBVIOUS
    <3> QED
      BY <2>1, <2>2, <3>1, <3>2
  <2> QED
    BY <1>1, <2>2, <2>3, <2>4 DEF Items, Group, Lane
<1>3. ASSUME NEW i \in Items, Group(i) = g PROVE Lane(i) \in SubGroup /\ i = g * w + Lane(i)
  <2>1. Lane(i) \in Nat /\ Lane(i) < w /\ i = w * g + Lane(i)
    BY <1>1, <1>3, ItemIs
  <2>2. w * g = g * w
    OBVIOUS
  <2> QED
    BY <1>1, <2>1, <2>2
<1> QED
  BY <1>1, <1>2, <1>3 DEF Lanes

(* The lanes of a sub-group go on together.                                *)
LEMMA LanesGoOn ==
  ASSUME GroupsTypeOK, GroupsTypeOK', NEW p, NEW k, IsSound(p, k), NEW g, Lanes(g) \cap waiting = {},
         case' = case, call' = call, result' = result, lmem' = lmem, NEW label,
         pc' = [i \in Items |-> IF Group(i) = g THEN label ELSE pc[i]],
         IsFunctionOn(value', Items), \A i \in Items \ Lanes(g) : value'[i] = value[i],
         IsFunctionOn(group_val', Items), \A i \in Items \ Lanes(g) : group_val'[i] = group_val[i],
         \/ /\ waiting' = waiting
            /\ \A i \in Lanes(g) : Holds(i, label, call[i], value'[i], group_val'[i], p, k)
         \/ /\ waiting' = waiting \cup Lanes(g)
            /\ \A i \in Lanes(g) :
                 Holds(i, label, call[i], value'[i], group_val'[i], Following(p), FollowingCall(p, k)),
         Stored(lmem, waiting', call[0], p, k)
  PROVE  IsSound(p, k)'
<1>1. FunctionsOK /\ Returned /\ DataInPhase(p, k) /\ Items' = Items
  BY SameFacts DEF IsSound
<1>2. FunctionsOK'
  BY <1>1 DEF FunctionsOK, IsFunctionOn
<1>3. Returned'
  <2>1. \A j \in Items : call[j] > 1 => Correct(j, result[j], call[j] - 1)
    BY <1>1 DEF Returned
  <2>2. \A j, w, n : Correct(j, w, n)' = Correct(j, w, n)
    BY SameFacts
  <2>3. \A j \in Items' : call'[j] > 1 => Correct(j, result[j], call[j] - 1)'
    BY <1>1, <2>1, <2>2
  <2> QED
    BY <2>3 DEF Returned
<1>4. PICK S \in SUBSET Items : S = Lanes(g) /\ \A i \in Items : i \in S <=> Group(i) = g
  BY DEF Lanes
<1>5. \A j \in Items \ S : /\ pc'[j] = pc[j] /\ call'[j] = call[j] /\ value'[j] = value[j]
                           /\ group_val'[j] = group_val[j] /\ (j \in waiting' <=> j \in waiting)
  BY <1>4
<1>6. \A j \in S : pc'[j] = label /\ call'[j] = call[j] /\ j \notin waiting
  BY <1>4
<1>7. \A j \in S :
        \/ /\ j \in waiting'
           /\ Holds(j, pc'[j], call'[j], value'[j], group_val'[j], Following(p), FollowingCall(p, k))
        \/ j \notin waiting' /\ call'[j] > Calls
        \/ j \notin waiting' /\ Holds(j, pc'[j], call'[j], value'[j], group_val'[j], p, k)
  BY <1>4, <1>6
<1>8. Stored(lmem', waiting', call'[0], p, k)
  OBVIOUS
<1>9. DataInPhase(p, k)'
  BY <1>1, <1>5, <1>7, <1>8, DataMoves
<1> QED
  BY <1>2, <1>3, <1>9 DEF IsSound

LEMMA LanesHold ==
  ASSUME GroupsTypeOK, NEW p \in Phases, InPhase(p), NEW k, IsSound(p, k), NEW g, NEW label, SubGroupAt(g, label)
  PROVE  /\ Lanes(g) \cap waiting = {}
         /\ \A i \in Lanes(g) : /\ i \in Items /\ IsAt(i, label, offset[i], side_idx[i], p)
                                /\ Holds(i, label, call[i], value[i], group_val[i], p, k)
<1>1. Lanes(g) \subseteq Items
  BY DEF Lanes
<1>2. \A i \in Lanes(g) : pc[i] = label /\ i \notin waiting /\ call[i] <= Calls
  BY DEF SubGroupAt
<1> QED
  BY <1>1, <1>2, ActiveHolds

(* The values of the lanes, and back                                       *)
LEMMA WithLanesIs ==
  ASSUME NEW f, NEW g, NEW v
  PROVE  /\ IsFunctionOn(WithLanes(f, g, v), Items)
         /\ \A i \in Items \ Lanes(g) : WithLanes(f, g, v)[i] = f[i]
         /\ \A i \in Lanes(g) : WithLanes(f, g, v)[i] = v[Lane(i)]
BY DEF WithLanes, Lanes, IsFunctionOn

LEMMA FirstPassIsSound ==
  ASSUME GroupsInv, GroupsTypeOK', NEW p \in Phases, InPhase(p), NEW k \in Nat, IsSound(p, k),
         NEW g \in Nat, g < GroupCount, FirstPass(g)
  PROVE  IsSound(p, k)'
<1>1. case \in Cases /\ GroupsTypeOK /\ SubGroupAt(g, "begin") /\ Algorithm \in SubGroupAlgorithms
  BY DEF GroupsInv, GroupsTypeOK, FirstPass, SubGroupAlgorithms
<1>2. PICK w \in Nat, c \in Nat :
        /\ w = case.simd /\ w > 0 /\ c = GroupCount /\ c > 0 /\ SubGroup = 0..w - 1
        /\ case.supported \in BOOLEAN
  BY <1>1, SubGroupsAre
<1>3. /\ \A l \in SubGroup : g * w + l \in Lanes(g) /\ Lane(g * w + l) = l
      /\ \A i \in Lanes(g) : i \in Items /\ Group(i) = g /\ Lane(i) \in SubGroup /\ i = g * w + Lane(i)
  BY <1>1, <1>2, LaneIs
<1>4. /\ Lanes(g) \cap waiting = {}
      /\ \A i \in Lanes(g) : /\ i \in Items /\ IsAt(i, "begin", offset[i], side_idx[i], p)
                             /\ Holds(i, "begin", call[i], value[i], group_val[i], p, k)
  BY <1>1, LanesHold
<1>5. p.does = "publish"
  <2>1. 0 \in SubGroup
    BY <1>2
  <2>2. PICK i \in Lanes(g) : IsAt(i, "begin", offset[i], side_idx[i], p)
    BY <1>3, <1>4, <2>1
  <2> QED
    BY <1>1, <2>2, LabelsAreOf
<1>6. \A i \in Lanes(g) : call[i] = k /\ k <= Calls /\ value[i] = Input(i, k)
  BY <1>4, <1>5 DEF Holds, CallAt
<1>7. PICK v : v = LaneValues(value, g)
  OBVIOUS
<1>8. DOMAIN v = SubGroup /\ \A l \in SubGroup : v[l] = Input(g * w + l, k)
  <2>1. v = [l \in SubGroup |-> value[g * w + l]]
    BY <1>2, <1>7 DEF LaneValues, SubGroup
  <2> QED
    BY <1>3, <1>6, <2>1
<1>9. ASSUME NEW i \in Lanes(g) PROVE FirstPassed(i, SubGroupLoop(v)[Lane(i)], k)
  <2>1. PICK l \in SubGroup : l = Lane(i) /\ i = g * w + l /\ Group(i) = g
    BY <1>3, <1>9
  <2>2. \A m \in SubGroup : m \in Nat /\ g * w + m \in Nat
    BY <1>2
  <2>3. CASE case.fn = "reduce"
    <3>1. Algorithm = "sub_group_reduce"
      BY <1>1, <2>3, AlgorithmIs DEF SubGroupAlgorithms
    <3>2. PICK S : S = [m \in SubGroup |-> {g * w + m}]
      OBVIOUS
    <3>3. \A m \in SubGroup : S[m] = {g * w + m}
      BY <3>2
    <3>4. \A m, n \in SubGroup : \A a \in S[m] : a \in S[n] => m = n
      <4>1. \A m, n \in SubGroup : g * w + m = g * w + n => m = n
        BY <1>3
      <4> QED
        BY <3>3, <4>1
    <3>5. \A m \in SubGroup : Lists(v[m], k, S[m])
      <4> SUFFICES ASSUME NEW m \in SubGroup PROVE Lists(v[m], k, S[m])
        OBVIOUS
      <4>1. PICK n \in Nat : n = g * w + m
        BY <2>2
      <4>2. Lists(Input(n, k), k, {n})
        BY ListsInput
      <4> QED
        BY <1>8, <3>3, <4>1, <4>2
    <3>6. \A m \in SubGroup : \A a \in S[m] : a \in Lanes(g)
      BY <1>3, <3>3
    <3>7. \A a \in Lanes(g) : \E m \in SubGroup : a \in S[m]
      BY <1>3, <3>3
    <3>8. Lists(SubGroupLoop(v)[l], k, Lanes(g))
      BY <1>1, <1>8, <3>1, <3>4, <3>5, <3>6, <3>7, SubGroupReduces
    <3> QED
      BY <2>1, <2>3, <3>8 DEF FirstPassed
  <2>4. CASE case.fn # "reduce"
    <3>1. Algorithm \in {"scan_op", "sub_group_scan"}
      BY <1>1, <2>4, AlgorithmIs DEF SubGroupAlgorithms
    <3>2. PICK B : B = [m \in 0..w |-> g * w + m]
      OBVIOUS
    <3>3. B \in [0..w -> Nat] /\ \A m \in 0..w : B[m] = g * w + m
      <4>1. g * w \in Nat
        OBVIOUS
      <4> QED
        BY <3>2, <4>1
    <3>4. \A m, n \in 0..w : m <= n => B[m] <= B[n]
      <4>1. PICK b \in Nat : b = g * w
        OBVIOUS
      <4> QED
        BY <3>3, <4>1
    <3>5. \A m \in SubGroup : Segment(v[m], k, B[m], B[m + 1])
      <4> SUFFICES ASSUME NEW m \in SubGroup PROVE Segment(v[m], k, B[m], B[m + 1])
        OBVIOUS
      <4>1. PICK n \in Nat : n = g * w + m
        BY <2>2
      <4>2. Segment(Input(n, k), k, n, n + 1)
        BY <1>2, SegmentInput
      <4>3. m \in 0..w /\ m + 1 \in 0..w /\ g * w \in Nat
        BY <1>2
      <4>4. B[m] = n /\ B[m + 1] = n + 1
        BY <2>2, <3>3, <4>1, <4>3
      <4> QED
        BY <1>8, <4>1, <4>2, <4>4
    <3>6. Segment(SubGroupLoop(v)[l], k, B[0], B[l + 1])
      BY <1>1, <1>2, <1>8, <3>1, <3>3, <3>4, <3>5, SubGroupScans
    <3>7. B[0] = w * g /\ B[l + 1] = i + 1
      <4>1. 0 \in 0..w /\ l + 1 \in 0..w /\ l \in Nat
        BY <1>2
      <4>2. g * w = w * g /\ g * w \in Nat
        OBVIOUS
      <4> QED
        BY <2>1, <3>3, <4>1, <4>2
    <3> QED
      BY <1>2, <2>1, <2>4, <3>6, <3>7 DEF FirstPassed
  <2> QED
    BY <2>3, <2>4
<1>10. /\ case' = case /\ call' = call /\ waiting' = waiting /\ lmem' = lmem /\ result' = result
       /\ group_val' = group_val /\ value' = WithLanes(value, g, SubGroupLoop(v))
       /\ pc' = [i \in Items |-> IF Group(i) = g THEN "publish" ELSE pc[i]]
  BY <1>7 DEF FirstPass
<1>11. /\ IsFunctionOn(value', Items) /\ \A i \in Items \ Lanes(g) : value'[i] = value[i]
       /\ \A i \in Lanes(g) : value'[i] = SubGroupLoop(v)[Lane(i)]
  BY <1>10, WithLanesIs
<1>12. IsFunctionOn(group_val', Items)
  BY <1>10 DEF IsSound, FunctionsOK
<1>13. \A i \in Lanes(g) : Holds(i, "publish", call[i], value'[i], group_val'[i], p, k)
  BY <1>5, <1>6, <1>9, <1>11 DEF Holds, CallAt
<1>14. Stored(lmem, waiting', call[0], p, k)
  BY <1>10 DEF IsSound, DataInPhase
<1> QED
  BY <1>1, <1>4, <1>10, <1>11, <1>12, <1>13, <1>14, LanesGoOn

(* The value of the lane that stores it is the one of its sub-group.       *)
LEMMA PublisherHasTotal ==
  ASSUME case \in Cases, NEW i \in Items, Lane(i) = Publisher, NEW v, NEW k, FirstPassed(i, v, k)
  PROVE  Total(v, k, Group(i))
<1>1. PICK w \in Nat : w = case.simd /\ w > 0
  BY CaseFields
<1>2. CASE case.fn = "reduce"
  BY <1>2 DEF FirstPassed, Total
<1>3. CASE case.fn # "reduce"
  <2>1. Lane(i) = w - 1
    BY <1>1, <1>3 DEF Publisher
  <2>2. PICK g \in Nat : g = Group(i) /\ i = w * g + Lane(i)
    BY <1>1, ItemIs
  <2>3. w * (g + 1) = w * g + w /\ w * g \in Nat
    OBVIOUS
  <2>4. i + 1 = w * (g + 1)
    BY <1>1, <2>1, <2>2, <2>3
  <2>5. Segment(v, k, w * g, i + 1)
    BY <1>1, <1>3, <2>2 DEF FirstPassed
  <2> QED
    BY <1>1, <1>3, <2>2, <2>4, <2>5 DEF Total
<1> QED
  BY <1>2, <1>3

LEMMA PublishIsSound ==
  ASSUME GroupsInv, GroupsTypeOK', NEW p \in Phases, InPhase(p), NEW k \in Nat, IsSound(p, k),
         NEW i \in Items, Publish(i)
  PROVE  IsSound(p, k)'
<1>1. case \in Cases /\ GroupsTypeOK /\ i \notin waiting /\ call[i] <= Calls /\ pc[i] = "publish"
  BY DEF GroupsInv, GroupsTypeOK, Publish, At
<1>2. /\ IsAt(i, "publish", offset[i], side_idx[i], p)
      /\ Holds(i, "publish", call[i], value[i], group_val[i], p, k)
  BY <1>1, ActiveHolds
<1>3. p.does = "publish"
  BY <1>1, <1>2, LabelsAreOf
<1>4. PICK v : v = value[i] /\ call[i] = k /\ k <= Calls /\ FirstPassed(i, v, k)
  BY <1>2, <1>3 DEF Holds, CallAt
<1>5. /\ IsFunctionOn(lmem, 0..2 * case.size - 1) /\ IsFunctionOn(value, Items)
      /\ \A j \in waiting : Lane(j) = Publisher => Total(lmem[Group(j)], k, Group(j))
  BY <1>3 DEF IsSound, FunctionsOK, DataInPhase, Stored
<1>6. /\ pc' = [pc EXCEPT ![i] = "second"] /\ waiting' = waiting \cup {i} /\ call' = call /\ case' = case
      /\ value' = value /\ group_val' = group_val /\ result' = result
      /\ lmem' = IF Lane(i) = Publisher THEN [lmem EXCEPT ![Group(i)] = v] ELSE lmem
  BY <1>4 DEF Publish, BarrierThen
<1>7. value' = [value EXCEPT ![i] = v]
  BY <1>4, <1>5, <1>6, ExceptSame
<1>8. \A j \in Items : Group(j) \in 0..2 * case.size - 1
  <2> SUFFICES ASSUME NEW j \in Items PROVE Group(j) \in 0..2 * case.size - 1
    OBVIOUS
  <2>1. PICK w \in Nat, n \in Nat : w = case.simd /\ w > 0 /\ n = case.size
    BY <1>1, CaseFields
  <2>2. PICK g \in Nat : g = Group(j) /\ j < n /\ j = w * g + Lane(j) /\ Lane(j) \in Nat
    BY <1>1, <2>1, ItemIs
  <2>3. 1 * g <= w * g /\ w * g \in Nat
    BY <2>1, ProductIsMonotonic
  <2>4. g < n
    BY <2>2, <2>3
  <2> QED
    BY <2>1, <2>2, <2>4
<1>9. /\ IsFunctionOn(lmem', 0..2 * case.size - 1)
      /\ Lane(i) = Publisher => lmem'[Group(i)] = v
      /\ \A b \in 0..2 * case.size - 1 : b # Group(i) \/ Lane(i) # Publisher => lmem'[b] = lmem[b]
  <2>1. CASE Lane(i) = Publisher
    <3>1. lmem' = [lmem EXCEPT ![Group(i)] = v] /\ Group(i) \in 0..2 * case.size - 1
      BY <1>6, <1>8, <2>1
    <3> QED
      BY <1>1, <1>5, <2>1, <3>1, MemoryAfter
  <2>2. CASE Lane(i) # Publisher
    BY <1>5, <1>6, <2>2
  <2> QED
    BY <2>1, <2>2
<1>10. Stored(lmem', waiting', call[0], p, k)
  <2>1. ASSUME NEW j \in waiting', Lane(j) = Publisher PROVE Total(lmem'[Group(j)], k, Group(j))
    <3>1. CASE j = i
      <4>1. Total(v, k, Group(i))
        BY <1>1, <1>4, <2>1, <3>1, PublisherHasTotal
      <4> QED
        BY <1>9, <2>1, <3>1, <4>1
    <3>2. CASE j # i
      <4>1. j \in waiting /\ j \in Items
        BY <1>1, <1>6, <3>2 DEF GroupsTypeOK
      <4>2. Group(j) # Group(i) \/ Lane(i) # Publisher
        BY <1>1, <2>1, <3>2, <4>1, ItemsDiffer
      <4>3. lmem'[Group(j)] = lmem[Group(j)]
        BY <1>8, <1>9, <4>1, <4>2
      <4> QED
        BY <1>5, <2>1, <4>1, <4>3
    <3> QED
      BY <3>1, <3>2
  <2> QED
    BY <1>3, <2>1 DEF Stored
<1>11. Holds(i, "second", call[i], v, group_val[i], Following(p), FollowingCall(p, k))
  <2>1. PICK f, n, g : f = Following(p) /\ n = FollowingCall(p, k) /\ g = group_val[i]
    OBVIOUS
  <2>2. f = Phase("second", 0, 0)
    BY <1>3, <2>1 DEF Following
  <2>3. f.does = "second" /\ n = k
    BY <2>1, <2>2 DEF Phase, FollowingCall
  <2>4. CallAt("second", f, n) = k
    BY <2>3 DEF CallAt
  <2>5. Holds(i, "second", k, v, g, f, n)
    BY <1>4, <2>4 DEF Holds
  <2> QED
    BY <1>4, <2>1, <2>5
<1> QED
  BY <1>1, <1>6, <1>7, <1>9, <1>10, <1>11, ItemContinues

LEMMA SecondPassIsSound ==
  ASSUME GroupsInv, GroupsTypeOK', NEW p \in Phases, InPhase(p), NEW k \in Nat, IsSound(p, k), SecondPass
  PROVE  IsSound(p, k)'
<1>1. case \in Cases /\ GroupsTypeOK /\ SubGroupAt(0, "second")
  BY DEF GroupsInv, GroupsTypeOK, SecondPass
<1>2. /\ Lanes(0) \cap waiting = {}
      /\ \A i \in Lanes(0) : /\ i \in Items /\ IsAt(i, "second", offset[i], side_idx[i], p)
                             /\ Holds(i, "second", call[i], value[i], group_val[i], p, k)
  BY <1>1, LanesHold
<1>3. p.does = "second" /\ Algorithm \in SubGroupAlgorithms
  <2>1. PICK i : i = 0
    OBVIOUS
  <2>2. i \in Items /\ i = 0 /\ 0 < case.simd /\ case.simd \in Nat
    BY <1>1, <2>1, CaseFields DEF Items
  <2>3. i \in Lanes(0)
    <3>1. PICK w \in Nat : w = case.simd /\ 0 < w
      BY <2>2
    <3>2. 0 \div w = 0
      BY <3>1
    <3> QED
      BY <2>1, <2>2, <3>1, <3>2 DEF Lanes, Group
  <2>4. p.does = "second"
    BY <1>1, <1>2, <2>3, LabelsAreOf
  <2> QED
    BY <2>4 DEF Phases
<1>4. PICK w \in Nat, c \in Nat :
        /\ w = case.simd /\ w > 0 /\ c = GroupCount /\ c > 0 /\ c <= w /\ SubGroup = 0..w - 1
        /\ case.supported \in BOOLEAN /\ (\A i \in Items : Group(i) < c)
        /\ \A g \in Nat : g < c => g \in Items /\ Group(g) = 0
  BY <1>1, <1>3, SubGroupsAre
<1>5. \A i \in Lanes(0) : call[i] = k /\ k <= Calls /\ FirstPassed(i, value[i], k)
  BY <1>2, <1>3 DEF Holds, CallAt
<1>6. ASSUME NEW g \in 0..c - 1 PROVE Total(lmem[g], k, g)
  <2>1. g \in Lanes(0)
    BY <1>4 DEF Lanes
  <2>2. g \notin waiting
    BY <1>2, <2>1
  <2> QED
    BY <1>3, <1>4, <2>2 DEF IsSound, DataInPhase, Stored
<1>7. PICK v : v = [l \in 0..case.simd - 1 |-> SecondInput(l)]
  OBVIOUS
<1>8. DOMAIN v = SubGroup /\ \A l \in SubGroup : l \in Nat /\ v[l] = IF l < c THEN lmem[l] ELSE <<>>
  BY <1>4, <1>7 DEF SecondInput
<1>9. \A i \in Lanes(0) : i \in Items /\ Lane(i) \in SubGroup
  BY <1>1, <1>3, <1>4, LaneIs
<1>10. /\ case' = case /\ call' = call /\ waiting' = waiting /\ lmem' = lmem /\ result' = result
       /\ pc' = [i \in Items |-> IF Group(i) = 0 THEN "offsets" ELSE pc[i]]
       /\ case.fn = "reduce" => value' = WithLanes(value, 0, SubGroupLoop(v)) /\ group_val' = group_val
       /\ case.fn # "reduce" => group_val' = WithLanes(group_val, 0, SubGroupLoop(v)) /\ value' = value
  BY <1>7 DEF SecondPass
<1>11. IsFunctionOn(value, Items) /\ IsFunctionOn(group_val, Items) /\ Stored(lmem, waiting', call[0], p, k)
  BY <1>10 DEF IsSound, DataInPhase, FunctionsOK
<1>12. CASE case.fn = "reduce"
  <2>1. Algorithm = "sub_group_reduce"
    BY <1>1, <1>3, <1>12, AlgorithmIs DEF SubGroupAlgorithms
  <2>2. PICK S : S = [l \in SubGroup |-> IF l < c THEN Lanes(l) ELSE {}]
    OBVIOUS
  <2>3. \A l \in SubGroup : S[l] = IF l < c THEN Lanes(l) ELSE {}
    BY <2>2
  <2>4. \A l \in SubGroup : \A a \in S[l] : a \in Items /\ Group(a) = l
    BY <2>3 DEF Lanes
  <2>5. ASSUME NEW l \in SubGroup PROVE Lists(v[l], k, S[l])
    <3>1. CASE l < c
      <4>1. l \in 0..c - 1
        BY <1>8, <3>1
      <4>2. Lists(lmem[l], k, Lanes(l))
        BY <1>6, <1>12, <4>1 DEF Total
      <4> QED
        BY <1>8, <2>3, <3>1, <4>2
    <3>2. CASE ~(l < c)
      BY <1>8, <2>3, <3>2, ListsNothing
    <3> QED
      BY <3>1, <3>2
  <2>6. ASSUME NEW a \in Items PROVE \E l \in SubGroup : a \in S[l]
    <3>1. PICK g \in Nat : g = Group(a) /\ g < c
      BY <1>1, <1>4, ItemIs
    <3>2. g \in SubGroup /\ a \in Lanes(g)
      BY <1>4, <3>1 DEF Lanes
    <3> QED
      BY <2>3, <3>1, <3>2
  <2>7. \A l \in SubGroup : Lists(SubGroupLoop(v)[l], k, Items)
    <3>1. \A l, m \in SubGroup : \A a \in S[l] : a \in S[m] => l = m
      BY <2>4
    <3>2. \A l \in SubGroup : \A a \in S[l] : a \in Items
      BY <2>4
    <3> QED
      BY <1>1, <1>8, <2>1, <2>5, <2>6, <3>1, <3>2, SubGroupReduces
  <2>8. /\ IsFunctionOn(value', Items) /\ \A i \in Items \ Lanes(0) : value'[i] = value[i]
        /\ \A i \in Lanes(0) : value'[i] = SubGroupLoop(v)[Lane(i)]
    BY <1>10, <1>12, WithLanesIs
  <2>9. \A i \in Lanes(0) : Holds(i, "offsets", call[i], value'[i], group_val'[i], p, k)
    BY <1>3, <1>5, <1>9, <1>12, <2>7, <2>8 DEF Holds, CallAt
  <2>10. IsFunctionOn(group_val', Items) /\ \A i \in Items \ Lanes(0) : group_val'[i] = group_val[i]
    BY <1>10, <1>11, <1>12
  <2> QED
    BY <1>1, <1>2, <1>10, <1>11, <2>8, <2>9, <2>10, LanesGoOn
<1>13. CASE case.fn # "reduce"
  <2>1. Algorithm \in {"scan_op", "sub_group_scan"}
    BY <1>1, <1>3, <1>13, AlgorithmIs DEF SubGroupAlgorithms
  <2>2. PICK B : B = [l \in 0..w |-> IF l < c THEN w * l ELSE w * c]
    OBVIOUS
  <2>3. \A l \in 0..w : B[l] = (IF l < c THEN w * l ELSE w * c) /\ B[l] \in Nat
    <3>1. \A l \in 0..w : w * l \in Nat
      OBVIOUS
    <3>2. w * c \in Nat
      OBVIOUS
    <3> QED
      BY <2>2, <3>1, <3>2
  <2>4. B \in [0..w -> Nat]
    BY <2>2, <2>3
  <2>5. ASSUME NEW l \in 0..w, NEW m \in 0..w, l <= m PROVE B[l] <= B[m]
    <3>1. l \in Nat /\ m \in Nat
      OBVIOUS
    <3>2. w * l <= w * m /\ (l < c => w * l <= w * c)
      BY <2>5, <3>1, ProductIsMonotonic
    <3>3. w * l \in Nat /\ w * m \in Nat /\ w * c \in Nat
      BY <3>1
    <3> QED
      BY <2>3, <2>5, <3>1, <3>2, <3>3
  <2>6. ASSUME NEW l \in SubGroup PROVE Segment(v[l], k, B[l], B[l + 1])
    <3>1. l \in 0..w /\ l + 1 \in 0..w /\ l \in Nat
      BY <1>4
    <3>2. CASE l < c
      <4>1. l \in 0..c - 1
        BY <3>1, <3>2
      <4>2. Segment(lmem[l], k, w * l, w * (l + 1))
        BY <1>4, <1>6, <1>13, <4>1 DEF Total
      <4>3. B[l] = w * l
        BY <2>3, <3>1, <3>2
      <4>4. B[l + 1] = w * (l + 1)
        <5>1. l + 1 < c \/ l + 1 = c
          BY <3>1, <3>2
        <5> QED
          BY <2>3, <3>1, <5>1
      <4> QED
        BY <1>8, <3>2, <4>2, <4>3, <4>4
    <3>3. CASE ~(l < c)
      <4>1. B[l] = w * c /\ B[l + 1] = w * c /\ w * c \in Nat
        BY <2>3, <3>1, <3>3
      <4>2. Segment(<<>>, k, w * c, w * c)
        BY <1>4, <4>1, SegmentNothing
      <4> QED
        BY <1>8, <3>3, <4>1, <4>2
    <3> QED
      BY <3>2, <3>3
  <2>7. ASSUME NEW l \in SubGroup, l < c PROVE Prefix(SubGroupLoop(v)[l], k, l)
    <3>1. Segment(SubGroupLoop(v)[l], k, B[0], B[l + 1])
      BY <1>1, <1>4, <1>8, <2>1, <2>4, <2>5, <2>6, SubGroupScans
    <3>2. l \in 0..w /\ l + 1 \in 0..w /\ l \in Nat /\ 0 \in 0..w
      BY <1>4
    <3>3. B[0] = 0
      BY <1>4, <2>3, <3>2
    <3>4. B[l + 1] = w * (l + 1)
      <4>1. l + 1 < c \/ l + 1 = c
        BY <2>7, <3>2
      <4> QED
        BY <2>3, <3>2, <4>1
    <3> QED
      BY <1>4, <3>1, <3>3, <3>4 DEF Prefix
  <2>8. /\ IsFunctionOn(group_val', Items) /\ \A i \in Items \ Lanes(0) : group_val'[i] = group_val[i]
        /\ \A i \in Lanes(0) : group_val'[i] = SubGroupLoop(v)[Lane(i)]
    BY <1>10, <1>13, WithLanesIs
  <2>9. ASSUME NEW i \in Lanes(0) PROVE Holds(i, "offsets", call[i], value'[i], group_val'[i], p, k)
    <3>1. PICK gv : gv = group_val'[i] /\ (Lane(i) < GroupCount => Prefix(gv, k, Lane(i)))
      BY <1>4, <1>9, <2>7, <2>8
    <3>2. value'[i] = value[i]
      BY <1>10, <1>13
    <3>3. Holds(i, "offsets", k, value[i], gv, p, k)
      BY <1>3, <1>5, <1>13, <3>1 DEF Holds, CallAt
    <3> QED
      BY <1>5, <3>1, <3>2, <3>3
  <2>10. IsFunctionOn(value', Items) /\ \A i \in Items \ Lanes(0) : value'[i] = value[i]
    BY <1>10, <1>11, <1>13
  <2> QED
    BY <1>1, <1>2, <1>10, <1>11, <2>8, <2>9, <2>10, LanesGoOn
<1> QED
  BY <1>12, <1>13

(* What an item holds that ends the second pass                            *)
LEMMA SecondEndsWith ==
  ASSUME case \in Cases, NEW p \in Phases, p.does = "second", NEW k \in Nat, k <= Calls, NEW i \in Items,
         NEW v, NEW gv, case.fn = "reduce" /\ i = 0 => Lists(v, k, Items), case.fn # "reduce" => FirstPassed(i, v, k)
  PROVE  Holds(i, IF case.fn = "reduce" THEN "return" ELSE "combine", k, v, gv, Following(p), FollowingCall(p, k))
<1>1. PICK f, n : f = Following(p) /\ n = FollowingCall(p, k)
  OBVIOUS
<1>2. Algorithm \in SubGroupAlgorithms
  BY DEF Phases
<1>3. CASE case.fn = "reduce"
  <2>1. Algorithm = "sub_group_reduce"
    BY <1>2, <1>3, AlgorithmIs DEF SubGroupAlgorithms
  <2>2. f = Phase("publish", 0, 0)
    BY <1>1, <2>1 DEF Following
  <2>3. f.does = "publish" /\ n = k + 1
    BY <1>1, <2>2 DEF Phase, FollowingCall
  <2>4. CallAt("return", f, n) = k
    BY <2>3 DEF CallAt
  <2>5. Correct(i, v, k)
    <3>1. ASSUME i = 0 PROVE SameElements(v, Inputs(case.size, k))
      <4>1. PICK m \in Nat : m = case.size /\ Items = 0..m - 1
        BY CellsAre DEF Items
      <4>2. Lists(v, k, 0..m - 1)
        BY <1>3, <3>1, <4>1
      <4> QED
        BY <4>1, <4>2, ListsHasElements
    <3> QED
      BY <1>3, <3>1 DEF Correct
  <2>6. Holds(i, "return", k, v, gv, f, n)
    BY <2>4, <2>5 DEF Holds
  <2> QED
    BY <1>1, <1>3, <2>6
<1>4. CASE case.fn # "reduce"
  <2>1. Algorithm # "sub_group_reduce"
    BY <1>4, AlgorithmIs
  <2>2. f = Phase("combine", 0, 0)
    BY <1>1, <2>1 DEF Following
  <2>3. f.does = "combine" /\ n = k
    BY <1>1, <2>2 DEF Phase, FollowingCall
  <2>4. CallAt("combine", f, n) = k
    BY <2>3 DEF CallAt
  <2>5. Holds(i, "combine", k, v, gv, f, n)
    BY <1>4, <2>4 DEF Holds
  <2> QED
    BY <1>1, <1>4, <2>5
<1> QED
  BY <1>3, <1>4

LEMMA StoreOffsetsIsSound ==
  ASSUME GroupsInv, GroupsTypeOK', NEW p \in Phases, InPhase(p), NEW k \in Nat, IsSound(p, k),
         NEW i \in Items, StoreOffsets(i)
  PROVE  IsSound(p, k)'
<1>1. case \in Cases /\ GroupsTypeOK /\ i \notin waiting /\ call[i] <= Calls /\ pc[i] = "offsets"
  BY DEF GroupsInv, GroupsTypeOK, StoreOffsets, At
<1>2. /\ IsAt(i, "offsets", offset[i], side_idx[i], p)
      /\ Holds(i, "offsets", call[i], value[i], group_val[i], p, k)
  BY <1>1, ActiveHolds
<1>3. p.does = "second" /\ Group(i) = 0 /\ Algorithm \in SubGroupAlgorithms
  <2>1. p.does = "second" /\ Group(i) = 0
    BY <1>1, <1>2, LabelsAreOf
  <2> QED
    BY <2>1 DEF Phases
<1>4. Lane(i) = i /\ i \in Nat
  BY <1>1, <1>3, ItemIs, CaseFields
<1>5. PICK v, gv :
        /\ v = value[i] /\ gv = group_val[i] /\ call[i] = k /\ k <= Calls
        /\ case.fn = "reduce" => Lists(v, k, Items)
        /\ case.fn # "reduce" => FirstPassed(i, v, k) /\ (i < GroupCount => Prefix(gv, k, i))
  BY <1>2, <1>3, <1>4 DEF Holds, CallAt
<1>6. /\ IsFunctionOn(lmem, 0..2 * case.size - 1) /\ IsFunctionOn(value, Items)
      /\ \A g \in 0..GroupCount - 1 :
           IF g \in waiting /\ case.fn # "reduce" THEN Prefix(lmem[g], k, g) ELSE Total(lmem[g], k, g)
  BY <1>3 DEF IsSound, FunctionsOK, DataInPhase, Stored
<1>7. PICK label : label = IF case.fn = "reduce" THEN "return" ELSE "combine"
  OBVIOUS
<1>8. /\ pc' = [pc EXCEPT ![i] = label] /\ waiting' = waiting \cup {i} /\ call' = call /\ case' = case
      /\ value' = value /\ group_val' = group_val /\ result' = result
      /\ lmem' = IF case.fn # "reduce" /\ i < GroupCount THEN [lmem EXCEPT ![i] = gv] ELSE lmem
  BY <1>4, <1>5, <1>7 DEF StoreOffsets, BarrierThen
<1>9. value' = [value EXCEPT ![i] = v]
  BY <1>5, <1>6, <1>8, ExceptSame
<1>10. /\ IsFunctionOn(lmem', 0..2 * case.size - 1)
       /\ case.fn # "reduce" /\ i < GroupCount => lmem'[i] = gv
       /\ \A b \in 0..2 * case.size - 1 : b # i \/ case.fn = "reduce" => lmem'[b] = lmem[b]
  <2>1. CASE case.fn # "reduce" /\ i < GroupCount
    <3>1. lmem' = [lmem EXCEPT ![i] = gv] /\ i \in 0..2 * case.size - 1
      BY <1>1, <1>8, <2>1, CellsAre
    <3> QED
      BY <1>1, <1>6, <2>1, <3>1, MemoryAfter
  <2>2. CASE ~(case.fn # "reduce" /\ i < GroupCount)
    BY <1>6, <1>8, <2>2
  <2> QED
    BY <2>1, <2>2
<1>11. PICK c \in Nat : c = GroupCount /\ \A g \in Nat : g < c => g \in Items /\ Group(g) = 0
  BY <1>1, <1>3, SubGroupsAre
<1>12. Stored(lmem', waiting', call[0], p, k)
  <2>1. ASSUME NEW g \in 0..GroupCount - 1
        PROVE  IF g \in waiting' /\ case.fn # "reduce" THEN Prefix(lmem'[g], k, g) ELSE Total(lmem'[g], k, g)
    <3>1. g \in Nat /\ g < c /\ g \in Items
      BY <1>11
    <3>2. g \in 0..2 * case.size - 1
      BY <1>1, <3>1, CellsAre
    <3>3. CASE g = i /\ case.fn # "reduce"
      BY <1>5, <1>8, <1>10, <1>11, <3>1, <3>3
    <3>4. CASE g # i \/ case.fn = "reduce"
      <4>1. lmem'[g] = lmem[g] /\ (case.fn # "reduce" => (g \in waiting' <=> g \in waiting))
        BY <1>8, <1>10, <3>2, <3>4
      <4> QED
        BY <1>6, <4>1
    <3> QED
      BY <3>3, <3>4
  <2> QED
    BY <1>3, <2>1 DEF Stored
<1>13. Holds(i, label, call[i], v, group_val[i], Following(p), FollowingCall(p, k))
  <2>1. Holds(i, IF case.fn = "reduce" THEN "return" ELSE "combine", k, v, gv, Following(p), FollowingCall(p, k))
    BY <1>1, <1>3, <1>5, SecondEndsWith
  <2> QED
    BY <1>5, <1>7, <2>1
<1> QED
  BY <1>1, <1>8, <1>9, <1>10, <1>12, <1>13, ItemContinues

LEMMA SkipSecondIsSound ==
  ASSUME GroupsInv, GroupsTypeOK', NEW p \in Phases, InPhase(p), NEW k \in Nat, IsSound(p, k),
         NEW i \in Items, SkipSecond(i)
  PROVE  IsSound(p, k)'
<1>1. case \in Cases /\ GroupsTypeOK /\ i \notin waiting /\ call[i] <= Calls /\ pc[i] = "second" /\ Group(i) # 0
  BY DEF GroupsInv, GroupsTypeOK, SkipSecond, At
<1>2. /\ IsAt(i, "second", offset[i], side_idx[i], p)
      /\ Holds(i, "second", call[i], value[i], group_val[i], p, k)
  BY <1>1, ActiveHolds
<1>3. p.does = "second" /\ Algorithm \in SubGroupAlgorithms
  <2>1. p.does = "second"
    BY <1>1, <1>2, LabelsAreOf
  <2> QED
    BY <2>1 DEF Phases
<1>4. call[i] = k /\ k <= Calls /\ FirstPassed(i, value[i], k)
  BY <1>2, <1>3 DEF Holds, CallAt
<1>5. PICK c \in Nat : c = GroupCount /\ c > 0 /\ \A g \in Nat : g < c => g \in Items /\ Group(g) = 0
  BY <1>1, <1>3, SubGroupsAre
<1>6. /\ IsFunctionOn(lmem, 0..2 * case.size - 1) /\ IsFunctionOn(value, Items)
      /\ \A g \in 0..GroupCount - 1 :
           IF g \in waiting /\ case.fn # "reduce" THEN Prefix(lmem[g], k, g) ELSE Total(lmem[g], k, g)
  BY <1>3 DEF IsSound, FunctionsOK, DataInPhase, Stored
<1>7. PICK label, v : /\ label = IF case.fn = "reduce" THEN "return" ELSE "combine"
                      /\ v = IF case.fn = "reduce" THEN <<>> ELSE value[i]
  OBVIOUS
<1>8. /\ pc' = [pc EXCEPT ![i] = label] /\ waiting' = waiting \cup {i} /\ call' = call /\ case' = case
      /\ value' = IF case.fn = "reduce" THEN [value EXCEPT ![i] = <<>>] ELSE value
      /\ group_val' = group_val /\ result' = result /\ lmem' = lmem
  BY <1>7 DEF SkipSecond, BarrierThen
<1>9. value' = [value EXCEPT ![i] = v]
  <2>1. value = [value EXCEPT ![i] = value[i]]
    BY <1>6, ExceptSame
  <2> QED
    BY <1>7, <1>8, <2>1
<1>10. Stored(lmem', waiting', call[0], p, k)
  <2>1. ASSUME NEW g \in 0..GroupCount - 1 PROVE g \in waiting' <=> g \in waiting
    <3>1. g \in Nat /\ g < c /\ Group(g) = 0
      BY <1>5
    <3> QED
      BY <1>1, <1>8, <3>1
  <2>2. \A g \in 0..GroupCount - 1 :
          IF g \in waiting' /\ case.fn # "reduce" THEN Prefix(lmem'[g], k, g) ELSE Total(lmem'[g], k, g)
    BY <1>6, <1>8, <2>1
  <2> QED
    BY <1>3, <2>2 DEF Stored
<1>11. Holds(i, label, call[i], v, group_val[i], Following(p), FollowingCall(p, k))
  <2>1. i # 0
    <3>1. Group(0) = 0
      BY <1>5
    <3> QED
      BY <1>1, <3>1
  <2>2. PICK gv : gv = group_val[i]
    OBVIOUS
  <2>3. case.fn # "reduce" => FirstPassed(i, v, k)
    BY <1>4, <1>7
  <2>4. Holds(i, IF case.fn = "reduce" THEN "return" ELSE "combine", k, v, gv, Following(p), FollowingCall(p, k))
    BY <1>1, <1>3, <1>4, <2>1, <2>3, SecondEndsWith
  <2> QED
    BY <1>4, <1>7, <2>2, <2>4
<1> QED
  BY <1>1, <1>6, <1>8, <1>9, <1>10, <1>11, ItemContinues

LEMMA CombineIsSound ==
  ASSUME GroupsInv, GroupsTypeOK', NEW p \in Phases, InPhase(p), NEW k \in Nat, IsSound(p, k),
         NEW g \in Nat, g < GroupCount, Combine(g)
  PROVE  IsSound(p, k)'
<1>1. case \in Cases /\ GroupsTypeOK /\ SubGroupAt(g, "combine")
  BY DEF GroupsInv, GroupsTypeOK, Combine
<1>2. /\ Lanes(g) \cap waiting = {}
      /\ \A i \in Lanes(g) : /\ i \in Items /\ IsAt(i, "combine", offset[i], side_idx[i], p)
                             /\ Holds(i, "combine", call[i], value[i], group_val[i], p, k)
  BY <1>1, LanesHold
<1>3. ASSUME NEW j \in Lanes(g) PROVE p.does = "combine"
  BY <1>1, <1>2, LabelsAreOf
<1>4. PICK before : before = IF g = 0 THEN <<>> ELSE lmem[g - 1]
  OBVIOUS
<1>5. PICK v : v = LaneValues(value, g)
  OBVIOUS
<1>6. PICK own : own = IF case.fn = "inclusive" THEN v
                       ELSE [l \in DOMAIN v |-> IF l = 0 THEN <<>> ELSE ShuffleUp(v, 1)[l]]
  OBVIOUS
<1>7. PICK sum : sum = [l \in DOMAIN v |-> before \o own[l]]
  OBVIOUS
<1>8. /\ case' = case /\ call' = call /\ waiting' = waiting \cup Lanes(g) /\ lmem' = lmem /\ result' = result
      /\ group_val' = group_val /\ value' = WithLanes(value, g, sum)
      /\ pc' = [i \in Items |-> IF Group(i) = g THEN "return" ELSE pc[i]]
  BY <1>4, <1>5, <1>6, <1>7 DEF Combine
<1>9. /\ IsFunctionOn(value', Items) /\ \A i \in Items \ Lanes(g) : value'[i] = value[i]
      /\ \A i \in Lanes(g) : value'[i] = sum[Lane(i)]
  BY <1>8, WithLanesIs
<1>10. IsFunctionOn(group_val', Items)
  BY <1>8 DEF IsSound, FunctionsOK
<1>11. ASSUME NEW i \in Lanes(g)
       PROVE  Holds(i, "return", call[i], value'[i], group_val'[i], Following(p), FollowingCall(p, k))
  <2>1. p.does = "combine" /\ Algorithm \in {"scan_op", "sub_group_scan"} /\ Algorithm \in SubGroupAlgorithms
    <3>1. p.does = "combine"
      BY <1>3
    <3> QED
      BY <3>1 DEF Phases, SubGroupAlgorithms
  <2>2. case.fn # "reduce" /\ case.fn \in {"inclusive", "exclusive"} /\ case.supported \in BOOLEAN
    BY <1>1, <2>1, AlgorithmIs, CaseFields
  <2>3. PICK w \in Nat, c \in Nat : w = case.simd /\ w > 0 /\ c = GroupCount /\ SubGroup = 0..w - 1
    BY <1>1, <2>1, SubGroupsAre
  <2>4. /\ \A l \in SubGroup : g * w + l \in Lanes(g) /\ Lane(g * w + l) = l
        /\ \A j \in Lanes(g) : j \in Items /\ Group(j) = g /\ Lane(j) \in SubGroup /\ j = g * w + Lane(j)
    BY <1>1, <2>1, <2>3, LaneIs
  <2>5. PICK b \in Nat : b = g * w /\ b = w * g
    OBVIOUS
  <2>6. \A j \in Lanes(g) : call[j] = k /\ k <= Calls /\ Segment(value[j], k, b, j + 1)
    <3> SUFFICES ASSUME NEW j \in Lanes(g) PROVE call[j] = k /\ k <= Calls /\ Segment(value[j], k, b, j + 1)
      OBVIOUS
    <3>1. call[j] = k /\ k <= Calls /\ FirstPassed(j, value[j], k)
      BY <1>2, <2>1 DEF Holds, CallAt
    <3> QED
      BY <2>2, <2>3, <2>4, <2>5, <3>1 DEF FirstPassed
  <2>7. Segment(before, k, 0, b)
    <3>1. CASE g = 0
      <4>1. b = 0
        BY <2>5, <3>1
      <4> QED
        BY <1>4, <2>2, <3>1, <4>1, SegmentNothing
    <3>2. CASE g # 0
      <4>1. PICK h \in Nat : h = g - 1 /\ h + 1 = g /\ h \in 0..c - 1
        BY <2>3, <3>2
      <4>2. Prefix(lmem[h], k, h)
        BY <2>1, <2>3, <4>1 DEF IsSound, DataInPhase, Stored
      <4> QED
        BY <1>4, <2>3, <2>5, <3>2, <4>1, <4>2 DEF Prefix
    <3> QED
      BY <3>1, <3>2
  <2>8. PICK l \in SubGroup : l = Lane(i) /\ i = b + l /\ l \in Nat /\ l < w /\ i \in Nat /\ i \in Items
    <3>1. PICK l \in SubGroup : l = Lane(i) /\ i = g * w + l /\ i \in Items
      BY <2>4
    <3>2. l \in Nat /\ l < w
      BY <2>3
    <3>3. b + l \in Nat /\ i = b + l
      BY <2>5, <3>1, <3>2
    <3> QED
      BY <3>1, <3>2, <3>3
  <2>9. v = [m \in SubGroup |-> value[g * w + m]]
    BY <1>5, <2>3 DEF LaneValues
  <2>10. v[l] = value[i] /\ DOMAIN v = SubGroup
    BY <2>5, <2>8, <2>9
  <2>11. PICK e \in Nat : e = IF case.fn = "inclusive" THEN i + 1 ELSE i
    BY <2>8
  <2>12. Segment(own[l], k, b, e)
    <3>1. CASE case.fn = "inclusive"
      BY <1>6, <2>6, <2>10, <2>11, <3>1
    <3>2. CASE case.fn # "inclusive" /\ l = 0
      <4>1. own[l] = <<>> /\ i = b
        BY <1>6, <2>8, <2>10, <3>2
      <4>2. Segment(<<>>, k, b, b)
        BY <2>2, SegmentNothing
      <4> QED
        BY <2>11, <3>2, <4>1, <4>2
    <3>3. CASE case.fn # "inclusive" /\ l # 0
      <4>1. PICK m \in SubGroup : m = l - 1 /\ l >= 1
        BY <2>3, <2>8, <3>3, SMTT(30)
      <4>2. PICK j \in Lanes(g) : j = b + m /\ v[m] = value[j] /\ j + 1 = i
        <5>1. g * w + m \in Lanes(g) /\ v[m] = value[g * w + m]
          BY <2>4, <2>9
        <5>2. (b + m) + 1 = i
          <6>1. l \in Nat /\ m = l - 1 /\ i = b + l
            BY <2>8, <4>1
          <6> QED
            BY <6>1
        <5> QED
          BY <2>5, <5>1, <5>2
      <4>3. own[l] = v[m]
        BY <1>6, <2>10, <3>3, <4>1 DEF ShuffleUp
      <4>4. Segment(value[j], k, b, i)
        BY <2>6, <4>2
      <4> QED
        BY <2>11, <3>3, <4>2, <4>3, <4>4
    <3> QED
      BY <3>1, <3>2, <3>3
  <2>13. PICK x : x = before \o own[l] /\ value'[i] = x
    BY <1>9, <1>7, <2>8, <2>10
  <2>14. Segment(x, k, 0, e)
    <3>1. b <= e /\ 0 <= b /\ 0 \in Nat
      BY <2>8, <2>11
    <3>2. Segment(before \o own[l], k, 0, e)
      BY <2>2, <2>7, <2>12, <3>1, SegmentsJoined
    <3> QED
      BY <2>13, <3>2
  <2>15. Correct(i, x, k)
    BY <2>2, <2>11, <2>14 DEF Correct
  <2>16. PICK f, n, gv : f = Following(p) /\ n = FollowingCall(p, k) /\ gv = group_val'[i]
    OBVIOUS
  <2>17. f = Phase("publish", 0, 0)
    BY <2>1, <2>16 DEF Following
  <2>18. f.does = "publish" /\ n = k + 1
    BY <2>16, <2>17 DEF Phase, FollowingCall
  <2>19. CallAt("return", f, n) = k
    BY <2>18 DEF CallAt
  <2>20. Holds(i, "return", k, x, gv, f, n)
    BY <2>6, <2>15, <2>19 DEF Holds
  <2> QED
    BY <2>6, <2>13, <2>16, <2>20
<1>12. Stored(lmem, waiting', call[0], p, k)
  <2>1. Lanes(g) # {} => p.does = "combine"
    BY <1>3
  <2>2. Stored(lmem, waiting, call[0], p, k)
    BY DEF IsSound, DataInPhase
  <2>3. CASE Lanes(g) # {}
    BY <2>1, <2>2, <2>3 DEF Stored
  <2>4. CASE Lanes(g) = {}
    <3>1. waiting' = waiting
      BY <1>8, <2>4
    <3> QED
      BY <2>2, <3>1
  <2> QED
    BY <2>3, <2>4
<1> QED
  BY <1>1, <1>2, <1>8, <1>9, <1>10, <1>11, <1>12, LanesGoOn

-----------------------------------------------------------------------------
(* Barriers                                                                *)

(* What the items left in the local memory is what the next phase needs.   *)
LEMMA StoredForFold ==
  ASSUME case \in Cases, NEW p \in Phases, NEW f \in Phases, f = Following(p), f.does = "fold",
         NEW k \in Nat, NEW c, Stored(lmem, Items, c, p, k)
  PROVE  Stored(lmem, {}, c, f, k) /\ FollowingCall(p, k) = k
<1>1. FollowingCall(p, k) = k
  BY DEF FollowingCall
<1>2. Algorithm = "reduce"
  BY DEF Phases
<1>3. PICK o \in Nat : o = p.offset
  BY DEF Phases
<1>4. p.does \in {"store", "fold"}
  BY PhaseFields DEF Following, Phase
<1>5. CASE p.does = "store"
  <2>1. f = Phase("fold", case.size \div 2, 0)
    BY <1>2, <1>5 DEF Following
  <2>2. PICK h \in Nat : h = case.size \div 2 /\ f.offset = h
    <3>1. PICK s \in Nat : s = case.size
      BY CaseFields
    <3>2. s \div 2 \in Nat
      OBVIOUS
    <3> QED
      BY <2>1, <3>1, <3>2 DEF Phase
  <2>3. ASSUME HalvesEvenly PROVE Width(h) = case.size /\ (h > 0 => 2 * h = case.size)
    BY <1>2, <2>2, <2>3, FirstWidth
  <2>4. ASSUME HalvesEvenly PROVE Divides(Width(h), case.size)
    <3>1. PICK s \in Nat : s = case.size
      BY CaseFields
    <3>2. Divides(s, s)
      BY DividesItself
    <3> QED
      BY <2>3, <2>4, <3>1, <3>2
  <2>5. ASSUME HalvesEvenly, NEW i \in Items, h <= i, i < 2 * h PROVE Lists(lmem[i], k, Class(i, 2 * h))
    <3>1. 2 * h = case.size
      BY <2>3, <2>5, CellsAre
    <3>2. lmem[i] = Input(i, k)
      BY <1>5 DEF Stored
    <3> QED
      BY <3>1, <3>2, InputsHold
  <2> QED
    BY <1>1, <2>2, <2>4, <2>5 DEF Stored
<1>6. CASE p.does = "fold"
  <2>1. o \div 2 > 0 /\ f = Phase("fold", o \div 2, 0)
    BY <1>3, <1>6 DEF Following, Phase
  <2>2. PICK h \in Nat : h = o \div 2 /\ f.offset = h
    <3>1. o \div 2 \in Nat
      OBVIOUS
    <3> QED
      BY <2>1, <3>1 DEF Phase
  <2>3. ASSUME HalvesEvenly PROVE Width(h) = o /\ 2 * h = o /\ Divides(o, case.size) /\ o > 1
    <3>1. Divides(Width(o), case.size)
      BY <1>3, <1>6, <2>3 DEF Stored
    <3> QED
      BY <1>2, <2>1, <2>2, <2>3, <3>1, HalfWidth
  <2>4. ASSUME HalvesEvenly, NEW i \in Items, h <= i, i < 2 * h PROVE Lists(lmem[i], k, Class(i, 2 * h))
    <3>1. i < o /\ o > 1 /\ 2 * h = o
      BY <2>3, <2>4
    <3>2. Lists(lmem[i], k, Class(i, o))
      BY <1>3, <1>6, <2>4, <3>1 DEF Stored
    <3> QED
      BY <3>1, <3>2
  <2> QED
    BY <1>1, <2>2, <2>3, <2>4 DEF Stored
<1> QED
  BY <1>4, <1>5, <1>6

LEMMA StoredForScan ==
  ASSUME case \in Cases, NEW p \in Phases, NEW f \in Phases, f = Following(p), f.does \in {"step", "last"},
         NEW k \in Nat, NEW c, Stored(lmem, Items, c, p, k)
  PROVE  Stored(lmem, {}, c, f, k) /\ FollowingCall(p, k) = k
<1>1. FollowingCall(p, k) = k
  BY DEF FollowingCall
<1>2. Algorithm = "scan"
  BY DEF Phases
<1>3. PICK n \in Nat, o \in Nat, s \in Nat :
        n = case.size /\ n > 0 /\ o = p.offset /\ s = p.side /\ (s = 0 \/ s = n) /\ Items = 0..n - 1
  BY CaseFields DEF Phases, Items
<1>4. p.does \in {"store", "step"}
  BY PhaseFields DEF Following, Phase
<1>5. CASE p.does = "store"
  <2>1. \A i \in Items : Segment(lmem[i], k, i, i + 1)
    BY <1>5, InputsHold DEF Stored
  <2>2. \A i \in Items : i \in Nat /\ 0 + i = i /\ Reach(i, 1) = i /\ i < n
    BY <1>3 DEF Reach
  <2>3. CASE 1 < n
    <3>1. f = Phase("step", 1, 0)
      BY <1>2, <1>3, <1>5, <2>3 DEF Following
    <3>2. f.does = "step" /\ f.offset = 1 /\ f.side = 0
      BY <3>1 DEF Phase
    <3>3. \A i \in Items : Segment(lmem[f.side + i], k, Reach(i, f.offset), i + 1)
      BY <2>1, <2>2, <3>2
    <3> QED
      BY <1>1, <3>2, <3>3 DEF Stored
  <2>4. CASE ~(1 < n)
    <3>1. f = Phase("last", 0, 0)
      BY <1>2, <1>3, <1>5, <2>4 DEF Following, Phase
    <3>2. f.does = "last" /\ f.side = 0
      BY <3>1 DEF Phase
    <3>3. \A i \in Items : i = 0
      BY <2>2, <2>4
    <3>4. \A i \in Items : Segment(lmem[f.side + i], k, 0, i + 1)
      BY <2>1, <2>2, <3>2, <3>3
    <3> QED
      BY <1>1, <3>2, <3>4 DEF Stored
  <2> QED
    BY <2>3, <2>4
<1>6. CASE p.does = "step"
  <2>1. \A i \in Items : Segment(lmem[(n - s) + i], k, Reach(i, 2 * o), i + 1)
    BY <1>3, <1>6 DEF Stored
  <2>2. CASE 2 * o < n
    <3>1. f = Phase("step", 2 * o, n - s)
      BY <1>3, <1>6, <2>2 DEF Following
    <3>2. f.does = "step" /\ f.offset = 2 * o /\ f.side = n - s
      BY <3>1 DEF Phase
    <3> QED
      BY <1>1, <2>1, <3>2 DEF Stored
  <2>3. CASE ~(2 * o < n)
    <3>1. f = Phase("last", 0, n - s)
      BY <1>3, <1>6, <2>3 DEF Following, Phase
    <3>2. f.does = "last" /\ f.side = n - s
      BY <3>1 DEF Phase
    <3>3. \A i \in Items : Reach(i, 2 * o) = 0
      BY <1>3, <2>3 DEF Reach
    <3>4. \A i \in Items : Segment(lmem[f.side + i], k, 0, i + 1)
      BY <2>1, <3>2, <3>3
    <3> QED
      BY <1>1, <3>2, <3>4 DEF Stored
  <2> QED
    BY <2>2, <2>3
<1> QED
  BY <1>4, <1>5, <1>6

LEMMA StoredForSubGroups ==
  ASSUME case \in Cases, NEW p \in Phases, NEW f \in Phases, f = Following(p), f.does \in {"second", "combine"},
         NEW k \in Nat, NEW c, Stored(lmem, Items, c, p, k)
  PROVE  Stored(lmem, {}, c, f, k) /\ FollowingCall(p, k) = k
<1>1. FollowingCall(p, k) = k
  BY DEF FollowingCall
<1>2. Algorithm \in SubGroupAlgorithms
  BY DEF Phases, SubGroupAlgorithms
<1>3. PICK w \in Nat, n \in Nat :
        /\ w = case.simd /\ w > 0 /\ n = GroupCount /\ SubGroup = 0..w - 1
        /\ \A g \in Nat : g < n => g \in Items
  BY <1>2, SubGroupsAre
<1>4. CASE f.does = "second"
  <2>1. p.does = "publish"
    BY <1>4, PhaseFields DEF Following, Phase
  <2>2. ASSUME NEW g \in 0..GroupCount - 1 PROVE Total(lmem[g], k, g)
    <3>1. g \in Nat /\ g < GroupCount
      BY <1>3
    <3>2. Publisher \in SubGroup
      BY <1>3 DEF Publisher
    <3>3. PICK i \in Lanes(g) : Lane(i) = Publisher
      BY <1>2, <3>1, <3>2, LaneIs
    <3>4. i \in Items /\ Group(i) = g
      BY DEF Lanes
    <3> QED
      BY <2>1, <3>3, <3>4 DEF Stored
  <2> QED
    BY <1>1, <1>4, <2>2 DEF Stored
<1>5. CASE f.does = "combine"
  <2>1. p.does = "second" /\ Algorithm # "sub_group_reduce"
    BY <1>5, PhaseFields DEF Following, Phase
  <2>2. case.fn # "reduce"
    BY <1>2, <2>1, AlgorithmIs DEF SubGroupAlgorithms
  <2>3. ASSUME NEW g \in 0..GroupCount - 1 PROVE Prefix(lmem[g], k, g)
    <3>1. g \in Items
      BY <1>3
    <3> QED
      BY <2>1, <2>2, <3>1 DEF Stored
  <2> QED
    BY <1>1, <1>5, <2>3 DEF Stored
<1> QED
  BY <1>4, <1>5

LEMMA BarrierIsSound ==
  ASSUME GroupsInv, GroupsTypeOK', NEW p \in Phases, InPhase(p), NEW k \in Nat, IsSound(p, k),
         NEW f \in Phases, f = Following(p), NEW n \in Nat, n = FollowingCall(p, k), Barrier
  PROVE  IsSound(f, n)'
<1>1. case \in Cases /\ GroupsTypeOK
  BY DEF GroupsInv, GroupsTypeOK
<1>2. /\ waiting = Items /\ waiting' = {} /\ case' = case /\ call' = call /\ pc' = pc
      /\ value' = value /\ group_val' = group_val /\ lmem' = lmem /\ result' = result
  BY DEF Barrier
<1>3. /\ Items' = Items
      /\ \A i, v, m : Correct(i, v, m)' = Correct(i, v, m)
      /\ \A i, label, c, v, gv, q, m : Holds(i, label, c, v, gv, q, m)' = Holds(i, label, c, v, gv, q, m)
      /\ \A m, w, c, q, j : Stored(m, w, c, q, j)' = Stored(m, w, c, q, j)
  BY <1>2, SameFacts
<1>4. FunctionsOK' /\ Returned'
  BY <1>2, <1>3 DEF IsSound, FunctionsOK, Returned, IsFunctionOn
<1>5. \A i \in Items : Holds(i, pc[i], call[i], value[i], group_val[i], f, n)
  BY <1>2 DEF IsSound, DataInPhase
<1>6. PICK c : c = call[0]
  OBVIOUS
<1>7. Stored(lmem, Items, c, p, k)
  BY <1>2, <1>6 DEF IsSound, DataInPhase
<1>8. Stored(lmem, {}, c, f, n)
  <2>1. CASE f.does \in {"store", "publish"}
    BY <2>1 DEF Stored
  <2>2. CASE f.does = "fold"
    BY <1>1, <1>7, <2>2, StoredForFold
  <2>3. CASE f.does \in {"step", "last"}
    BY <1>1, <1>7, <2>3, StoredForScan
  <2>4. CASE f.does \in {"second", "combine"}
    BY <1>1, <1>7, <2>4, StoredForSubGroups
  <2>5. CASE f.does = "first_item"
    <3>1. p.does = "store"
      BY <1>1, <2>5, PhaseFields DEF Following, Phase
    <3>2. n = k
      BY <2>5 DEF FollowingCall
    <3>3. c <= Calls
      <4>1. 0 \in Items
        BY <1>1, CaseFields DEF Items
      <4> QED
        BY <1>5, <1>6, <4>1 DEF Holds
    <3> QED
      BY <1>7, <2>5, <3>1, <3>2, <3>3 DEF Stored
  <2> QED
    BY <1>1, <2>1, <2>2, <2>3, <2>4, <2>5, PhaseFields
<1>9. /\ \A i \in waiting' : Holds(i, pc[i], call[i], value[i], group_val[i], Following(f), FollowingCall(f, n))'
      /\ \A i \in Items' \ waiting' : Holds(i, pc[i], call[i], value[i], group_val[i], f, n)'
      /\ Stored(lmem, waiting, call[0], f, n)'
  BY <1>2, <1>3, <1>5, <1>6, <1>8
<1>10. DataInPhase(f, n)'
  BY <1>9 DEF DataInPhase
<1> QED
  BY <1>4, <1>10 DEF IsSound

-----------------------------------------------------------------------------
LEMMA ResultsInitially == GroupsInit => ResultsInv
<1> SUFFICES ASSUME GroupsInit PROVE ResultsInv
  OBVIOUS
<1>1. /\ case \in Cases /\ waiting = {} /\ pc = [i \in Items |-> "begin"] /\ call = [i \in Items |-> 1]
      /\ value = [i \in Items |-> Input(i, 1)]
  BY DEF GroupsInit
<1>2. GroupsTypeOK /\ \E p \in Phases : InPhase(p)
  BY GroupsInitially DEF GroupsInv
<1>3. PICK p \in Phases : InPhase(p)
  BY <1>2
<1>4. 1 \in Nat /\ 1 <= Calls /\ ~(1 > Calls) /\ 0 \in Items
  BY <1>1, CasesAssumption, CaseFields DEF Items
<1>5. p.does \in {"store", "publish"}
  <2>1. IsAt(0, "begin", offset[0], side_idx[0], p)
    BY <1>1, <1>3, <1>4 DEF InPhase, IsIn
  <2> QED
    BY <1>1, <2>1, LabelsAreOf
<1>6. FunctionsOK
  BY DEF GroupsInit, FunctionsOK, IsFunctionOn
<1>7. Returned
  BY <1>1 DEF Returned
<1>8. ASSUME NEW i \in Items PROVE Holds(i, pc[i], call[i], value[i], group_val[i], p, 1)
  <2>1. PICK gv : gv = group_val[i]
    OBVIOUS
  <2>2. CallAt("begin", p, 1) = 1
    BY DEF CallAt
  <2>3. Holds(i, "begin", 1, Input(i, 1), gv, p, 1)
    BY <1>4, <2>2 DEF Holds
  <2>4. pc[i] = "begin" /\ call[i] = 1 /\ value[i] = Input(i, 1)
    BY <1>1
  <2> QED
    BY <2>1, <2>3, <2>4
<1>9. Stored(lmem, waiting, call[0], p, 1)
  BY <1>1, <1>5 DEF Stored
<1>10. DataInPhase(p, 1)
  BY <1>1, <1>8, <1>9 DEF DataInPhase
<1> QED
  BY <1>2, <1>3, <1>4, <1>6, <1>7, <1>10 DEF ResultsInv, IsSound

LEMMA StutterIsSound ==
  ASSUME GroupsTypeOK, GroupsTypeOK', NEW p, NEW k, IsSound(p, k), UNCHANGED groupVars
  PROVE  IsSound(p, k)'
<1>1. /\ case' = case /\ call' = call /\ pc' = pc /\ waiting' = waiting /\ value' = value
      /\ group_val' = group_val /\ lmem' = lmem /\ result' = result
  BY DEF groupVars
<1>2. /\ Items' = Items /\ \A j, w, n : Correct(j, w, n)' = Correct(j, w, n)
      /\ FunctionsOK /\ Returned /\ DataInPhase(p, k)
  BY <1>1, SameFacts DEF IsSound
<1>3. FunctionsOK' /\ Returned'
  BY <1>1, <1>2 DEF FunctionsOK, IsFunctionOn, Returned
<1>4. {} \in SUBSET Items /\ Stored(lmem', waiting', call'[0], p, k)
  BY <1>1, <1>2 DEF DataInPhase
<1>5. DataInPhase(p, k)'
  BY <1>1, <1>2, <1>4, DataMoves
<1> QED
  BY <1>3, <1>5 DEF IsSound

LEMMA ResultsStep == ResultsInv /\ [GroupsNext]_groupVars => ResultsInv'
<1> SUFFICES ASSUME ResultsInv, [GroupsNext]_groupVars PROVE ResultsInv'
  OBVIOUS
<1>1. PICK p \in Phases, k \in Nat : InPhase(p) /\ IsSound(p, k)
  BY DEF ResultsInv
<1>2. GroupsTypeOK /\ GroupsInv /\ case \in Cases
  BY <1>1 DEF ResultsInv, GroupsInv, GroupsTypeOK
<1>3. case' = case
  BY DEF GroupsNext, groupVars, Barrier, Finished, ItemStep, Store, Fold, HostReduce, HostScan, ScanStep,
     ScanLast, ReturnValue, Publish, StoreOffsets, SkipSecond, FirstPass, SecondPass, Combine
<1>4. Phases' = Phases
  BY <1>3, SameCase
<1>5. CASE Barrier
  <2>1. PICK f \in Phases : f = Following(p)
    BY <1>1, <1>2, FollowingIsPhase
  <2>2. PICK n \in Nat : n = FollowingCall(p, k)
    BY DEF FollowingCall
  <2>3. GroupsTypeOK' /\ InPhase(f)'
    BY <1>1, <1>2, <1>5, <2>1, BarrierPreserves
  <2>4. IsSound(f, n)'
    BY <1>1, <1>2, <1>5, <2>1, <2>2, <2>3, BarrierIsSound
  <2> QED
    BY <1>4, <2>3, <2>4 DEF ResultsInv
<1>6. CASE ~Barrier
  <2>1. GroupsTypeOK' /\ InPhase(p)'
    BY <1>1, <1>2, <1>6, StepStaysInPhase
  <2>2. ASSUME NEW i \in Items, ItemStep(i) PROVE IsSound(p, k)'
    BY <1>1, <1>2, <2>1, <2>2, StoreIsSound, FoldIsSound, HostReduceIsSound, HostScanIsSound,
       ScanStepIsSound, ScanLastIsSound, ReturnValueIsSound, PublishIsSound, StoreOffsetsIsSound,
       SkipSecondIsSound DEF ItemStep
  <2>3. ASSUME NEW g \in 0..GroupCount - 1, FirstPass(g) \/ Combine(g) PROVE IsSound(p, k)'
    <3>1. PICK n \in Nat, s \in Nat : n = case.size /\ s = case.simd /\ s > 0
      BY <1>2, CaseFields
    <3>2. GroupCount \in Nat
      BY <3>1, DivisionIs DEF GroupCount
    <3>3. g \in Nat /\ g < GroupCount
      BY <3>2
    <3> QED
      BY <1>1, <1>2, <2>1, <2>3, <3>3, FirstPassIsSound, CombineIsSound
  <2>4. ASSUME SecondPass PROVE IsSound(p, k)'
    BY <1>1, <1>2, <2>1, <2>4, SecondPassIsSound
  <2>5. ASSUME UNCHANGED groupVars PROVE IsSound(p, k)'
    BY <1>1, <1>2, <2>1, <2>5, StutterIsSound
  <2>6. IsSound(p, k)'
    BY <1>6, <2>2, <2>3, <2>4, <2>5 DEF GroupsNext, Finished
  <2> QED
    BY <1>1, <1>4, <2>1, <2>6 DEF ResultsInv
<1> QED
  BY <1>5, <1>6

LEMMA SoundResultsAreExact == ResultsInv => ResultsAreExact
<1> SUFFICES ASSUME ResultsInv PROVE ResultsAreExact
  OBVIOUS
<1>1. case \in Cases /\ GroupsTypeOK /\ Returned
  BY DEF ResultsInv, GroupsTypeOK, IsSound
<1>2. PICK n \in Nat : n = case.size /\ n > 0 /\ Items = 0..n - 1 /\ case.supported \in BOOLEAN
  BY <1>1, CaseFields DEF Items
<1>3. ASSUME HalvesEvenly, case.fn = "reduce", call[0] > 1
      PROVE  SameElements(result[0], Inputs(case.size, call[0] - 1))
  <2>1. 0 \in Items
    BY <1>2
  <2> QED
    BY <1>1, <1>3, <2>1 DEF Returned, Correct
<1>4. ASSUME NEW i \in Items, case.fn # "reduce", call[i] > 1
      PROVE  LET expected == Inputs(IF case.fn = "inclusive" THEN i + 1 ELSE i, call[i] - 1)
             IN IF case.supported THEN SameElements(result[i], expected) ELSE result[i] = expected
  <2>1. PICK c \in Nat : c = call[i] - 1
    BY <1>1, <1>4 DEF GroupsTypeOK
  <2>2. PICK e \in Nat : e = IF case.fn = "inclusive" THEN i + 1 ELSE i
    BY <1>2
  <2>3. PICK v : v = result[i] /\ Segment(v, c, 0, e)
    BY <1>1, <1>4, <2>1, <2>2 DEF Returned, Correct
  <2>4. SUFFICES IF case.supported THEN SameElements(v, Inputs(e, c)) ELSE v = Inputs(e, c)
    BY <2>1, <2>2, <2>3
  <2>5. CASE case.supported
    <3>1. Lists(v, c, 0..e - 1)
      BY <2>3, <2>5 DEF Segment
    <3> QED
      BY <2>5, <3>1, ListsHasElements
  <2>6. CASE ~case.supported
    <3>1. v = [j \in 1..e - 0 |-> <<c, 0 + (j - 1)>>]
      BY <2>3, <2>6 DEF Segment
    <3>2. e - 0 = e /\ \A j \in 1..e : 0 + (j - 1) = j - 1
      OBVIOUS
    <3> QED
      BY <2>6, <3>1, <3>2 DEF Inputs
  <2> QED
    BY <2>5, <2>6
<1> QED
  BY <1>3, <1>4 DEF ResultsAreExact, ReduceIsWhole, ScanIsPrefix

(* Whatever the size of the group, the width of the sub-groups and the     *)
(* order of the items, each call returns what it promises: reduce, in item *)
(* 0, a value made of the input of each item exactly once (a generic one   *)
(* only for sizes that halve evenly); a scan, in each item, one made of    *)
(* the inputs up to it, in their order where the function need not be      *)
(* commutative; and of no other call.                                      *)
THEOREM ResultsOfGroupsAreExact == GroupsSpec => []ResultsAreExact
<1>1. GroupsInit => ResultsInv
  BY ResultsInitially
<1>2. ResultsInv /\ [GroupsNext]_groupVars => ResultsInv'
  BY ResultsStep
<1>3. ResultsInv => ResultsAreExact
  BY SoundResultsAreExact
<1> QED
  BY <1>1, <1>2, <1>3, PTL DEF GroupsSpec
=============================================================================
