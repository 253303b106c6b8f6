------------------------- MODULE DeviceQueueProofs -------------------------
(***************************************************************************)
(* Proofs about the command buffers of the Vulkan queue and of the Metal 4 *)
(* queue: for every number of threads, queues, completion threads and      *)
(* command buffers, every capacity of the ring of pending submissions, and *)
(* without a bound on submissions, failing calls and timeouts.             *)
(***************************************************************************)
EXTENDS VulkanQueue, Metal4Queue, FiniteSetTheorems, SequenceTheorems, WellFoundedInduction,
        NaturalsInduction, TLAPS

Batches == [thread : Threads, slot : Slots, value : Nat]
Buffers == Threads \X Slots

QueueTypeOK ==
  /\ pool_queue \in [Threads -> Queues \cup {None}]
  /\ free \in [Threads -> SUBSET Slots] /\ sec_free \in [Threads -> SUBSET SecSlots]
  /\ handlers \in [Buffers -> SUBSET SecSlots]
  /\ tpc \in [Threads -> {"idle", "record", "block", "exited"}]
  /\ buf \in [Threads -> Slots \cup {None}] /\ sec_buf \in [Threads -> SecSlots \cup {None}]
  /\ counter \in [Threads -> Nat] /\ sema \in [Threads -> Nat]
  /\ gpu \in [Queues -> Seq(Batches)] /\ tasks \in Seq(Batches)
  /\ task \in [Completers -> Batches \cup {None}]
  /\ called \in SUBSET Completers /\ lost \in SUBSET Buffers
  /\ sec_lost \in SUBSET (Threads \X SecSlots)

(* What a thread holds fits what it does.                                  *)
ThreadInv(t) ==
  /\ tpc[t] = "record" <=> buf[t] # None
  /\ tpc[t] = "block" <=> task[t] # None
  /\ sec_buf[t] # None => tpc[t] = "record"
  /\ tpc[t] = "record" => pool_queue[t] \in Queues

(* The batches of a thread are on the queue of its pool, in the order of   *)
(* their values, which its semaphore has not reached.                      *)
GpuInv ==
  /\ \A t \in Threads : sema[t] <= counter[t]
  /\ \A q \in Queues : \A i \in 1 .. Len(gpu[q]) :
       LET b == gpu[q][i] IN
       /\ pool_queue[b.thread] = q /\ sema[b.thread] < b.value /\ b.value <= counter[b.thread]
       /\ \A j \in 1 .. Len(gpu[q]) :
            i < j /\ gpu[q][j].thread = b.thread => b.value < gpu[q][j].value

(* Command buffer s of thread t is free, recorded, queued for completion,  *)
(* being completed, or lost: one of these, in one place.                   *)
InQueue(i, t, s) == tasks[i].thread = t /\ tasks[i].slot = s
Completes(a, t, s) == task[a] # None /\ task[a].thread = t /\ task[a].slot = s
SlotInv(t, s) ==
  /\ s \in free[t] => buf[t] # s /\ <<t, s>> \notin lost
  /\ buf[t] = s => <<t, s>> \notin lost
  /\ s \in free[t] \/ buf[t] = s \/ <<t, s>> \in lost =>
       /\ \A i \in 1 .. Len(tasks) : ~InQueue(i, t, s)
       /\ \A a \in Completers : ~Completes(a, t, s)
  /\ \A i, j \in 1 .. Len(tasks) : InQueue(i, t, s) /\ InQueue(j, t, s) => i = j
  /\ \A a, c \in Completers : Completes(a, t, s) /\ Completes(c, t, s) => a = c
  /\ \A i \in 1 .. Len(tasks), a \in Completers : ~(InQueue(i, t, s) /\ Completes(a, t, s))
  /\ \/ s \in free[t] \/ buf[t] = s \/ <<t, s>> \in lost
     \/ \E i \in 1 .. Len(tasks) : InQueue(i, t, s)
     \/ \E a \in Completers : Completes(a, t, s)

(* Secondary command buffer s is free, recorded, lost or one primary's.    *)
SecondaryInv(t, s) ==
  /\ s \in sec_free[t] => sec_buf[t] # s /\ <<t, s>> \notin sec_lost
  /\ sec_buf[t] = s => <<t, s>> \notin sec_lost
  /\ s \in sec_free[t] \/ sec_buf[t] = s \/ <<t, s>> \in sec_lost =>
       \A p \in Slots : s \notin handlers[<<t, p>>]
  /\ \A p, r \in Slots : s \in handlers[<<t, p>>] /\ s \in handlers[<<t, r>>] => p = r
  /\ \/ s \in sec_free[t] \/ sec_buf[t] = s \/ <<t, s>> \in sec_lost
     \/ \E p \in Slots : s \in handlers[<<t, p>>]

(* A command buffer that is free, or whose handlers were called, has none. *)
CalledInv ==
  /\ \A t \in Threads : \A s \in free[t] : handlers[<<t, s>>] = {}
  /\ \A a \in called : task[a] # None /\ handlers[<<task[a].thread, task[a].slot>>] = {}

(* What the device may execute will be completed later, unless its wait    *)
(* failed or it is lost.                                                   *)
WillComplete(b) ==
  \/ \E i \in 1 .. Len(tasks) : tasks[i] = b
  \/ \E a \in Completers : a \notin called /\ task[a] = b
  \/ b \in unwaited
  \/ <<b.thread, b.slot>> \in lost
PendingInv == \A q \in Queues : \A i \in 1 .. Len(gpu[q]) : WillComplete(gpu[q][i])

QueueInv ==
  /\ QueueTypeOK /\ (\A t \in Threads : ThreadInv(t)) /\ GpuInv
  /\ (\A t \in Threads, s \in Slots : SlotInv(t, s))
  /\ (\A t \in Threads, s \in SecSlots : SecondaryInv(t, s))
  /\ CalledInv /\ PendingInv

-----------------------------------------------------------------------------
(* Operators                                                               *)

LEMMA BatchFields ==
  /\ \A b \in Batches : b.thread \in Threads /\ b.slot \in Slots /\ b.value \in Nat /\ b # None
  /\ \A t \in Threads, s \in Slots, v \in Nat :
       LET b == [thread |-> t, slot |-> s, value |-> v] IN
       b \in Batches /\ b.thread = t /\ b.slot = s /\ b.value = v
BY VulkanAssumption DEF Batches

LEMMA ACompletedBuffer ==
  ASSUME QueueTypeOK, NEW a \in Completers, task[a] # None
  PROVE  task[a] \in Batches /\ task[a].thread \in Threads /\ task[a].slot \in Slots
BY BatchFields DEF QueueTypeOK

LEMMA NoHandlersLeft ==
  ASSUME QueueTypeOK, NEW t \in Threads, NEW s \in Slots,
         handlers' = [handlers EXCEPT ![<<t, s>>] = {}]
  PROVE  /\ handlers' \in [Buffers -> SUBSET SecSlots]
         /\ \A u \in Threads, r \in Slots :
              handlers'[<<u, r>>] = IF u = t /\ r = s THEN {} ELSE handlers[<<u, r>>]
BY DEF QueueTypeOK, Buffers

(* Calling the handlers of a command buffer frees its secondary ones.      *)
LEMMA CallingHandlers ==
  ASSUME QueueInv, NEW t \in Threads, NEW s \in Slots, CallHandlers(t, s), sec_buf' = sec_buf, sec_lost' = sec_lost
  PROVE  /\ handlers' \in [Buffers -> SUBSET SecSlots] /\ sec_free' \in [Threads -> SUBSET SecSlots]
         /\ \A u \in Threads, r \in Slots :
              handlers'[<<u, r>>] = IF u = t /\ r = s THEN {} ELSE handlers[<<u, r>>]
         /\ \A u \in Threads, x \in SecSlots : SecondaryInv(u, x)'
<1> USE DEF QueueInv
<1>1. /\ sec_free' = [sec_free EXCEPT ![t] = @ \cup handlers[<<t, s>>]]
      /\ handlers' = [handlers EXCEPT ![<<t, s>>] = {}]
  BY DEF CallHandlers
<1>2. handlers[<<t, s>>] \in SUBSET SecSlots
  BY DEF QueueTypeOK, Buffers
<1>3. /\ handlers' \in [Buffers -> SUBSET SecSlots]
      /\ \A u \in Threads, r \in Slots :
           handlers'[<<u, r>>] = IF u = t /\ r = s THEN {} ELSE handlers[<<u, r>>]
  <2>1. QueueTypeOK
    OBVIOUS
  <2> HIDE DEF QueueInv
  <2> QED
    BY <1>1, <2>1, NoHandlersLeft
<1>4. /\ sec_free' \in [Threads -> SUBSET SecSlots]
      /\ \A u \in Threads : sec_free'[u] = IF u = t THEN sec_free[t] \cup handlers[<<t, s>>] ELSE sec_free[u]
  BY <1>1, <1>2 DEF QueueTypeOK
<1>5. ASSUME NEW u \in Threads, NEW x \in SecSlots
      PROVE  SecondaryInv(u, x)'
  <2>1. SecondaryInv(u, x)
    OBVIOUS
  <2> QED
    BY <1>3, <1>4, <2>1 DEF SecondaryInv
<1> QED
  BY <1>3, <1>4, <1>5

-----------------------------------------------------------------------------
(* The invariant is inductive                                              *)

LEMMA QueueInitially ==
  ASSUME VulkanInit
  PROVE  QueueInv
<1>1. QueueTypeOK
  BY DEF VulkanInit, QueueTypeOK, Buffers
<1>2. \A t \in Threads : ThreadInv(t)
  BY DEF VulkanInit, ThreadInv, Completers
<1>3. GpuInv /\ PendingInv
  BY DEF VulkanInit, GpuInv, PendingInv
<1>4. \A t \in Threads, s \in Slots : SlotInv(t, s)
  BY VulkanAssumption DEF VulkanInit, SlotInv, InQueue, Completes
<1>5. \A t \in Threads, s \in SecSlots : SecondaryInv(t, s)
  BY VulkanAssumption DEF VulkanInit, SecondaryInv
<1>6. CalledInv
  BY DEF VulkanInit, CalledInv
<1> QED
  BY <1>1, <1>2, <1>3, <1>4, <1>5, <1>6 DEF QueueInv

(* A pool keeps its queue; a thread without one has nothing on the device. *)
LEMMA UsingAPool ==
  ASSUME QueueInv, NEW t \in Threads, NEW q \in Queues, UsePool(t, q), UNCHANGED gpuVars
  PROVE  /\ pool_queue' \in [Threads -> Queues \cup {None}] /\ pool_queue'[t] \in Queues
         /\ \A u \in Threads : pool_queue'[u] = pool_queue[u] \/ (u = t /\ pool_queue[u] = None)
         /\ GpuInv'
<1> USE DEF QueueInv
<1>1. /\ pool_queue' = [pool_queue EXCEPT ![t] = IF @ = None THEN q ELSE @]
      /\ gpu' = gpu /\ sema' = sema /\ counter' = counter
  BY DEF UsePool, gpuVars
<1>2. /\ pool_queue' \in [Threads -> Queues \cup {None}] /\ pool_queue'[t] \in Queues
      /\ \A u \in Threads : pool_queue'[u] = pool_queue[u] \/ (u = t /\ pool_queue[u] = None)
  BY <1>1 DEF QueueTypeOK
<1>3. ASSUME NEW r \in Queues, NEW i \in 1 .. Len(gpu[r])
      PROVE  pool_queue'[gpu[r][i].thread] = r
  <2>1. gpu[r][i] \in Batches
    BY DEF QueueTypeOK
  <2>2. pool_queue[gpu[r][i].thread] = r /\ r # None
    BY VulkanAssumption DEF GpuInv
  <2> QED
    BY <1>2, <2>1, <2>2, BatchFields
<1>4. GpuInv'
  BY <1>1, <1>3 DEF GpuInv
<1> QED
  BY <1>2, <1>4

LEMMA MakeBufferPreserves ==
  ASSUME QueueInv, NEW t \in Threads, NEW q \in Queues, MakeBuffer(t, q)
  PROVE  QueueInv'
<1> USE DEF QueueInv
<1>1. PICK s \in free[t] :
        /\ free' = [free EXCEPT ![t] = @ \ {s}]
        /\ handlers' = [handlers EXCEPT ![<<t, s>>] = {}]
        /\ buf' = [buf EXCEPT ![t] = s]
  BY Zenon DEF MakeBuffer
<1>2. /\ tpc[t] = "idle" /\ tpc' = [tpc EXCEPT ![t] = "record"] /\ sec_free' = sec_free
      /\ sec_buf' = sec_buf /\ counter' = counter /\ sema' = sema /\ gpu' = gpu /\ tasks' = tasks
      /\ task' = task /\ called' = called /\ lost' = lost /\ unwaited' = unwaited
      /\ sec_lost' = sec_lost
  BY DEF MakeBuffer, ThreadGoto, gpuVars, workVars
<1>3. /\ pool_queue' \in [Threads -> Queues \cup {None}] /\ pool_queue'[t] \in Queues
      /\ \A u \in Threads : pool_queue'[u] = pool_queue[u] \/ (u = t /\ pool_queue[u] = None)
      /\ GpuInv'
  BY UsingAPool DEF MakeBuffer
<1>4. s \in Slots /\ s # None
  BY VulkanAssumption DEF QueueTypeOK
<1>5. /\ handlers' \in [Buffers -> SUBSET SecSlots]
      /\ \A u \in Threads, r \in Slots : handlers'[<<u, r>>] = handlers[<<u, r>>]
  <2>1. handlers[<<t, s>>] = {}
    BY DEF CalledInv
  <2>2. QueueTypeOK
    OBVIOUS
  <2> HIDE DEF QueueInv
  <2>3. /\ handlers' \in [Buffers -> SUBSET SecSlots]
        /\ \A u \in Threads, r \in Slots :
             handlers'[<<u, r>>] = IF u = t /\ r = s THEN {} ELSE handlers[<<u, r>>]
    BY <1>1, <1>4, <2>2, NoHandlersLeft
  <2> QED
    BY <2>1, <2>3
<1>6. QueueTypeOK'
  BY <1>1, <1>2, <1>3, <1>4, <1>5 DEF QueueTypeOK
<1>7. ASSUME NEW u \in Threads PROVE ThreadInv(u)'
  <2>1. ThreadInv(u)
    OBVIOUS
  <2>2. CASE u = t
    BY <2>1, <2>2, <1>1, <1>2, <1>3, <1>4 DEF ThreadInv, QueueTypeOK
  <2>3. CASE u # t
    BY <2>1, <2>3, <1>1, <1>2, <1>3 DEF ThreadInv, QueueTypeOK
  <2> QED
    BY <2>2, <2>3
<1>8. ASSUME NEW u \in Threads, NEW r \in Slots PROVE SlotInv(u, r)'
  <2>1. /\ r \in free'[u] <=> r \in free[u] /\ ~(u = t /\ r = s)
        /\ buf'[u] = r <=> (u = t /\ r = s) \/ (u # t /\ buf[u] = r)
    BY <1>1 DEF QueueTypeOK
  <2>2. buf[t] = None
    BY <1>2 DEF ThreadInv
  <2>3. SlotInv(u, r) /\ (u = t /\ r = s => r \in free[u])
    BY <1>1
  <2>4. CASE u = t /\ r = s
    BY <1>2, <2>1, <2>3, <2>4 DEF SlotInv, InQueue, Completes
  <2>5. CASE ~(u = t /\ r = s)
    <3>1. /\ r \in free'[u] <=> r \in free[u]
          /\ buf'[u] = r <=> buf[u] = r
      BY <1>4, <2>1, <2>2, <2>5, VulkanAssumption
    <3> QED
      BY <1>2, <2>3, <3>1 DEF SlotInv, InQueue, Completes
  <2> QED
    BY <2>4, <2>5
<1>9. ASSUME NEW u \in Threads, NEW x \in SecSlots PROVE SecondaryInv(u, x)'
  <2>1. SecondaryInv(u, x) /\ \A p \in Slots : handlers'[<<u, p>>] = handlers[<<u, p>>]
    BY <1>5
  <2>2. /\ x \in sec_free'[u] <=> x \in sec_free[u]
        /\ sec_buf'[u] = x <=> sec_buf[u] = x
        /\ <<u, x>> \in sec_lost' <=> <<u, x>> \in sec_lost
    BY <1>2
  <2> QED
    BY <2>1, <2>2 DEF SecondaryInv
<1>10. CalledInv'
  <2>1. \A u \in Threads : free'[u] \in SUBSET free[u] /\ free[u] \in SUBSET Slots
    BY <1>1 DEF QueueTypeOK
  <2>2. \A a \in called : task[a] # None /\ task[a].thread \in Threads /\ task[a].slot \in Slots
    BY ACompletedBuffer DEF CalledInv, QueueTypeOK
  <2>3. CalledInv
    OBVIOUS
  <2> HIDE DEF QueueInv
  <2>4. \A u \in Threads : \A r \in free'[u] : handlers'[<<u, r>>] = {}
    BY <1>5, <2>1, <2>3, ZenonT(30) DEF CalledInv
  <2>5. \A a \in called' : task'[a] # None /\ handlers'[<<task'[a].thread, task'[a].slot>>] = {}
    BY <1>2, <1>5, <2>2, <2>3 DEF CalledInv
  <2> QED
    BY <2>4, <2>5 DEF CalledInv
<1>11. PendingInv'
  BY <1>2 DEF PendingInv, WillComplete
<1> QED
  BY <1>3, <1>6, <1>7, <1>8, <1>9, <1>10, <1>11

LEMMA MakeBufferFailsPreserves ==
  ASSUME QueueInv, NEW t \in Threads, NEW q \in Queues, MakeBufferFails(t, q)
  PROVE  QueueInv'
<1> USE DEF QueueInv
<1>1. PICK s \in free[t] : free' = [free EXCEPT ![t] = @ \ {s}] /\ lost' = lost \cup {<<t, s>>}
  BY Zenon DEF MakeBufferFails
<1>2. /\ tpc' = tpc /\ sec_free' = sec_free /\ handlers' = handlers /\ buf' = buf
      /\ sec_buf' = sec_buf /\ counter' = counter /\ sema' = sema /\ gpu' = gpu /\ tasks' = tasks
      /\ task' = task /\ called' = called /\ unwaited' = unwaited /\ sec_lost' = sec_lost
  BY DEF MakeBufferFails, threadVars, gpuVars, workVars
<1>3. /\ pool_queue' \in [Threads -> Queues \cup {None}] /\ pool_queue'[t] \in Queues
      /\ \A u \in Threads : pool_queue'[u] = pool_queue[u] \/ (u = t /\ pool_queue[u] = None)
      /\ GpuInv'
  BY UsingAPool DEF MakeBufferFails
<1>4. s \in Slots /\ <<t, s>> \in Buffers
  BY DEF QueueTypeOK, Buffers
<1>5. QueueTypeOK'
  BY <1>1, <1>2, <1>3, <1>4 DEF QueueTypeOK
<1>6. ASSUME NEW u \in Threads PROVE ThreadInv(u)'
  BY <1>2, <1>3 DEF ThreadInv
<1>7. ASSUME NEW u \in Threads, NEW r \in Slots PROVE SlotInv(u, r)'
  <2>1. /\ r \in free'[u] <=> r \in free[u] /\ ~(u = t /\ r = s)
        /\ <<u, r>> \in lost' <=> <<u, r>> \in lost \/ (u = t /\ r = s)
    BY <1>1 DEF QueueTypeOK
  <2>2. SlotInv(u, r) /\ (u = t /\ r = s => r \in free[u])
    BY <1>1
  <2> QED
    BY <1>2, <2>1, <2>2 DEF SlotInv, InQueue, Completes
<1>8. ASSUME NEW u \in Threads, NEW x \in SecSlots PROVE SecondaryInv(u, x)'
  BY <1>2 DEF SecondaryInv
<1>9. CalledInv'
  BY <1>1, <1>2 DEF CalledInv, QueueTypeOK
<1>10. PendingInv'
  BY <1>1, <1>2 DEF PendingInv, WillComplete
<1> QED
  BY <1>3, <1>5, <1>6, <1>7, <1>8, <1>9, <1>10

LEMMA MakeSecondaryPreserves ==
  ASSUME QueueInv, NEW t \in Threads, MakeSecondary(t)
  PROVE  QueueInv'
<1> USE DEF QueueInv
<1>1. PICK s \in sec_free[t] : /\ sec_free' = [sec_free EXCEPT ![t] = @ \ {s}]
                               /\ sec_buf' = [sec_buf EXCEPT ![t] = s]
  BY Zenon DEF MakeSecondary
<1>2. /\ tpc[t] = "record" /\ sec_buf[t] = None
      /\ pool_queue' = pool_queue /\ free' = free /\ handlers' = handlers /\ tpc' = tpc /\ buf' = buf
      /\ counter' = counter /\ sema' = sema /\ gpu' = gpu /\ tasks' = tasks
      /\ task' = task /\ called' = called /\ lost' = lost /\ unwaited' = unwaited
      /\ sec_lost' = sec_lost
  BY DEF MakeSecondary, gpuVars, workVars
<1>3. s \in SecSlots /\ s # None
  BY VulkanAssumption DEF QueueTypeOK
<1>4. QueueTypeOK'
  BY <1>1, <1>2, <1>3 DEF QueueTypeOK
<1>5. ASSUME NEW u \in Threads PROVE ThreadInv(u)'
  BY <1>1, <1>2 DEF ThreadInv, QueueTypeOK
<1>6. ASSUME NEW u \in Threads, NEW r \in Slots PROVE SlotInv(u, r)'
  BY <1>2 DEF SlotInv, InQueue, Completes
<1>7. ASSUME NEW u \in Threads, NEW x \in SecSlots PROVE SecondaryInv(u, x)'
  <2>1. /\ x \in sec_free'[u] <=> x \in sec_free[u] /\ ~(u = t /\ x = s)
        /\ sec_buf'[u] = x <=> (u = t /\ x = s) \/ (u # t /\ sec_buf[u] = x)
    BY <1>1 DEF QueueTypeOK
  <2>2. SecondaryInv(u, x) /\ (u = t /\ x = s => x \in sec_free[u]) /\ x # None
    BY <1>1, VulkanAssumption
  <2> QED
    BY <1>2, <2>1, <2>2 DEF SecondaryInv
<1>8. GpuInv' /\ CalledInv' /\ PendingInv'
  BY <1>2 DEF GpuInv, CalledInv, PendingInv, WillComplete
<1> QED
  BY <1>4, <1>5, <1>6, <1>7, <1>8

LEMMA MakeSecondaryFailsPreserves ==
  ASSUME QueueInv, NEW t \in Threads, MakeSecondaryFails(t)
  PROVE  QueueInv'
<1> USE DEF QueueInv
<1>1. PICK s \in sec_free[t] : /\ sec_free' = [sec_free EXCEPT ![t] = @ \ {s}]
                               /\ sec_lost' = sec_lost \cup {<<t, s>>}
  BY Zenon DEF MakeSecondaryFails
<1>2. /\ sec_buf[t] = None
      /\ pool_queue' = pool_queue /\ free' = free /\ handlers' = handlers /\ tpc' = tpc /\ buf' = buf
      /\ sec_buf' = sec_buf /\ counter' = counter /\ sema' = sema /\ gpu' = gpu /\ tasks' = tasks
      /\ task' = task /\ called' = called /\ lost' = lost /\ unwaited' = unwaited
  BY DEF MakeSecondaryFails, threadVars, gpuVars, workVars
<1>3. s \in SecSlots /\ s # None
  BY VulkanAssumption DEF QueueTypeOK
<1>4. QueueTypeOK'
  BY <1>1, <1>2, <1>3 DEF QueueTypeOK
<1>5. ASSUME NEW u \in Threads PROVE ThreadInv(u)'
  BY <1>2 DEF ThreadInv
<1>6. ASSUME NEW u \in Threads, NEW r \in Slots PROVE SlotInv(u, r)'
  BY <1>2 DEF SlotInv, InQueue, Completes
<1>7. ASSUME NEW u \in Threads, NEW x \in SecSlots PROVE SecondaryInv(u, x)'
  <2>1. /\ x \in sec_free'[u] <=> x \in sec_free[u] /\ ~(u = t /\ x = s)
        /\ <<u, x>> \in sec_lost' <=> (u = t /\ x = s) \/ <<u, x>> \in sec_lost
    BY <1>1 DEF QueueTypeOK
  <2>2. SecondaryInv(u, x) /\ (u = t /\ x = s => x \in sec_free[u])
    BY <1>1
  <2> QED
    BY <1>2, <2>1, <2>2 DEF SecondaryInv
<1>8. GpuInv' /\ CalledInv' /\ PendingInv'
  BY <1>2 DEF GpuInv, CalledInv, PendingInv, WillComplete
<1> QED
  BY <1>4, <1>5, <1>6, <1>7, <1>8

LEMMA ExecuteSecondaryPreserves ==
  ASSUME QueueInv, NEW t \in Threads, ExecuteSecondary(t)
  PROVE  QueueInv'
<1> USE DEF QueueInv
<1> DEFINE s == buf[t]
           x0 == sec_buf[t]
<1>1. /\ handlers' = [handlers EXCEPT ![<<t, s>>] = handlers[<<t, s>>] \cup {x0}]
      /\ sec_buf' = [sec_buf EXCEPT ![t] = None]
  BY DEF ExecuteSecondary
<1>2. /\ tpc[t] = "record" /\ sec_buf[t] # None
      /\ pool_queue' = pool_queue /\ free' = free /\ sec_free' = sec_free /\ tpc' = tpc /\ buf' = buf
      /\ counter' = counter /\ sema' = sema /\ gpu' = gpu /\ tasks' = tasks
      /\ task' = task /\ called' = called /\ lost' = lost /\ unwaited' = unwaited
      /\ sec_lost' = sec_lost
  BY DEF ExecuteSecondary, gpuVars, workVars
<1>3. s \in Slots /\ x0 \in SecSlots /\ ThreadInv(t)
  BY <1>2 DEF ThreadInv, QueueTypeOK
<1>4. /\ handlers' \in [Buffers -> SUBSET SecSlots]
      /\ \A u \in Threads, r \in Slots :
           handlers'[<<u, r>>] = IF u = t /\ r = s THEN handlers[<<t, s>>] \cup {x0} ELSE handlers[<<u, r>>]
  <2>1. QueueTypeOK /\ handlers[<<t, s>>] \cup {x0} \in SUBSET SecSlots
    BY <1>3 DEF QueueTypeOK, Buffers
  <2> HIDE DEF QueueInv, s, x0
  <2> QED
    BY <1>1, <1>3, <2>1 DEF QueueTypeOK, Buffers
<1>5. QueueTypeOK'
  BY <1>1, <1>2, <1>4 DEF QueueTypeOK
<1>6. ASSUME NEW u \in Threads PROVE ThreadInv(u)'
  BY <1>1, <1>2 DEF ThreadInv, QueueTypeOK
<1>7. ASSUME NEW u \in Threads, NEW r \in Slots PROVE SlotInv(u, r)'
  BY <1>2 DEF SlotInv, InQueue, Completes
<1>8. ASSUME NEW u \in Threads, NEW x \in SecSlots PROVE SecondaryInv(u, x)'
  <2>1. sec_buf'[u] = x <=> ~(u = t /\ x = x0) /\ sec_buf[u] = x
    BY <1>1, VulkanAssumption DEF QueueTypeOK
  <2>2. SecondaryInv(u, x)
    OBVIOUS
  <2>3. \A p \in Slots : x \in handlers'[<<u, p>>] <=> x \in handlers[<<u, p>>] \/ (u = t /\ p = s /\ x = x0)
    BY <1>4
  <2> QED
    BY <1>2, <1>3, <2>1, <2>2, <2>3 DEF SecondaryInv
<1>9. CalledInv'
  <2>1. CalledInv /\ SlotInv(t, s) /\ \A u \in Threads : free[u] \in SUBSET Slots
    BY <1>3 DEF QueueTypeOK
  <2>2. \A a \in called : a \in Completers /\ task[a] # None /\ task[a].thread \in Threads /\ task[a].slot \in Slots
    BY ACompletedBuffer DEF CalledInv, QueueTypeOK
  <2> HIDE DEF QueueInv
  <2>3. ~(s \in free[t]) /\ \A a \in called : ~(task[a].thread = t /\ task[a].slot = s)
    BY <2>1, <2>2 DEF SlotInv, Completes
  <2> HIDE DEF s, x0
  <2>4. \A u \in Threads : \A r \in free[u] : handlers'[<<u, r>>] = {}
    BY <1>4, <2>1, <2>3 DEF CalledInv
  <2>5. \A a \in called : task[a] # None /\ handlers'[<<task[a].thread, task[a].slot>>] = {}
    BY <1>4, <2>1, <2>2, <2>3 DEF CalledInv
  <2> QED
    BY <1>2, <2>4, <2>5 DEF CalledInv
<1>10. GpuInv' /\ PendingInv'
  BY <1>2 DEF GpuInv, PendingInv, WillComplete
<1> QED
  BY <1>5, <1>6, <1>7, <1>8, <1>9, <1>10

LEMMA FreeSecondaryPreserves ==
  ASSUME QueueInv, NEW t \in Threads, FreeSecondary(t)
  PROVE  QueueInv'
<1> USE DEF QueueInv
<1>1. /\ sec_free' = [sec_free EXCEPT ![t] = @ \cup {sec_buf[t]}]
      /\ sec_buf' = [sec_buf EXCEPT ![t] = None]
  BY DEF FreeSecondary
<1>2. /\ tpc[t] = "record" /\ sec_buf[t] # None
      /\ pool_queue' = pool_queue /\ free' = free /\ handlers' = handlers /\ tpc' = tpc /\ buf' = buf
      /\ counter' = counter /\ sema' = sema /\ gpu' = gpu /\ tasks' = tasks
      /\ task' = task /\ called' = called /\ lost' = lost /\ unwaited' = unwaited
      /\ sec_lost' = sec_lost
  BY DEF FreeSecondary, gpuVars, workVars
<1>3. sec_buf[t] \in SecSlots
  BY <1>2 DEF QueueTypeOK
<1>4. QueueTypeOK'
  BY <1>1, <1>2, <1>3 DEF QueueTypeOK
<1>5. ASSUME NEW u \in Threads PROVE ThreadInv(u)'
  BY <1>1, <1>2 DEF ThreadInv, QueueTypeOK
<1>6. ASSUME NEW u \in Threads, NEW r \in Slots PROVE SlotInv(u, r)'
  BY <1>2 DEF SlotInv, InQueue, Completes
<1>7. ASSUME NEW u \in Threads, NEW x \in SecSlots PROVE SecondaryInv(u, x)'
  <2>1. /\ x \in sec_free'[u] <=> x \in sec_free[u] \/ (u = t /\ x = sec_buf[t])
        /\ sec_buf'[u] = x <=> u # t /\ sec_buf[u] = x
    BY <1>1, VulkanAssumption DEF QueueTypeOK
  <2>2. SecondaryInv(u, x)
    OBVIOUS
  <2> QED
    BY <1>2, <2>1, <2>2 DEF SecondaryInv
<1>8. GpuInv' /\ CalledInv' /\ PendingInv'
  BY <1>2 DEF GpuInv, CalledInv, PendingInv, WillComplete
<1> QED
  BY <1>4, <1>5, <1>6, <1>7, <1>8

LEMMA FreeUnsubmittedPreserves ==
  ASSUME QueueInv, NEW t \in Threads, FreeUnsubmitted(t)
  PROVE  QueueInv'
<1> USE DEF QueueInv
<1> DEFINE s == buf[t]
<1>1. /\ free' = [free EXCEPT ![t] = @ \cup {s}]
      /\ buf' = [buf EXCEPT ![t] = None] /\ tpc' = [tpc EXCEPT ![t] = "idle"]
      /\ CallHandlers(t, s)
  BY DEF FreeUnsubmitted, ThreadGoto
<1>2. /\ tpc[t] = "record" /\ sec_buf[t] = None
      /\ pool_queue' = pool_queue /\ sec_buf' = sec_buf
      /\ counter' = counter /\ sema' = sema /\ gpu' = gpu /\ tasks' = tasks
      /\ task' = task /\ called' = called /\ lost' = lost /\ unwaited' = unwaited
      /\ sec_lost' = sec_lost
  BY DEF FreeUnsubmitted, gpuVars, workVars
<1>3. s \in Slots /\ s # None
  BY <1>2 DEF ThreadInv, QueueTypeOK
<1>4. /\ handlers' \in [Buffers -> SUBSET SecSlots] /\ sec_free' \in [Threads -> SUBSET SecSlots]
      /\ \A u \in Threads, r \in Slots :
           handlers'[<<u, r>>] = IF u = t /\ r = s THEN {} ELSE handlers[<<u, r>>]
      /\ \A u \in Threads, x \in SecSlots : SecondaryInv(u, x)'
  <2> HIDE DEF QueueInv, s
  <2> QED
    BY <1>1, <1>2, <1>3, CallingHandlers
<1>5. QueueTypeOK'
  BY <1>1, <1>2, <1>3, <1>4 DEF QueueTypeOK
<1>6. ASSUME NEW u \in Threads PROVE ThreadInv(u)'
  <2>1. ThreadInv(u)
    OBVIOUS
  <2> QED
    BY <1>1, <1>2, <2>1 DEF ThreadInv, QueueTypeOK
<1>7. ASSUME NEW u \in Threads, NEW r \in Slots PROVE SlotInv(u, r)'
  <2>1. /\ r \in free'[u] <=> r \in free[u] \/ (u = t /\ r = s)
        /\ buf'[u] = r <=> u # t /\ buf[u] = r
    BY <1>1, VulkanAssumption DEF QueueTypeOK
  <2>2. SlotInv(u, r)
    OBVIOUS
  <2> QED
    BY <1>2, <2>1, <2>2 DEF SlotInv, InQueue, Completes
<1>8. CalledInv'
  <2>1. CalledInv /\ \A u \in Threads : free[u] \in SUBSET Slots
    BY <1>3 DEF QueueTypeOK
  <2>2. \A a \in called : task[a] # None /\ task[a].thread \in Threads /\ task[a].slot \in Slots
    BY ACompletedBuffer DEF CalledInv, QueueTypeOK
  <2>3. \A u \in Threads : \A r \in free'[u] : r \in free[u] \/ (u = t /\ r = s)
    BY <1>1 DEF QueueTypeOK
  <2> HIDE DEF QueueInv, s
  <2>4. ASSUME NEW u \in Threads, NEW r \in free'[u] PROVE handlers'[<<u, r>>] = {}
    <3>1. CASE r \in free[u]
      BY <1>4, <2>1, <3>1 DEF CalledInv
    <3>2. CASE u = t /\ r = s
      BY <1>3, <1>4, <3>2
    <3> QED
      BY <2>3, <3>1, <3>2
  <2>5. \A a \in called : task[a] # None /\ handlers'[<<task[a].thread, task[a].slot>>] = {}
    BY <1>4, <2>1, <2>2 DEF CalledInv
  <2> QED
    BY <1>2, <2>4, <2>5 DEF CalledInv
<1>9. GpuInv' /\ PendingInv'
  BY <1>2 DEF GpuInv, PendingInv, WillComplete
<1> QED
  BY <1>4, <1>5, <1>6, <1>7, <1>8, <1>9

(* A submission is the last batch of its queue, or the device got nothing. *)
LEMMA SubmittedLast ==
  ASSUME QueueInv, NEW t \in Threads, tpc[t] = "record",
         NEW b \in Batches, b.thread = t, b.value = counter[t] + 1, QueueSubmit(b),
         counter' = [counter EXCEPT ![t] = @ + 1], sema' = sema, pool_queue' = pool_queue
  PROVE  /\ gpu' \in [Queues -> Seq(Batches)] /\ GpuInv'
         /\ \A q \in Queues : \A i \in 1 .. Len(gpu'[q]) :
              \/ i \in 1 .. Len(gpu[q]) /\ gpu'[q][i] = gpu[q][i]
              \/ gpu'[q][i] = b
<1> DEFINE q0 == pool_queue[t]
<1>1. /\ q0 \in Queues /\ gpu \in [Queues -> Seq(Batches)] /\ GpuInv
      /\ counter \in [Threads -> Nat] /\ sema \in [Threads -> Nat]
  BY DEF QueueInv, ThreadInv, QueueTypeOK
<1>2. gpu' = gpu \/ gpu' = [gpu EXCEPT ![q0] = Append(gpu[q0], b)]
  BY DEF QueueSubmit
<1>3. \A u \in Threads : counter'[u] = IF u = t THEN counter[t] + 1 ELSE counter[u]
  BY <1>1
<1> HIDE DEF q0
<1>4. CASE gpu' = gpu
  <2>1. \A q \in Queues : \A i \in 1 .. Len(gpu[q]) : gpu[q][i] \in Batches /\ gpu[q][i].thread \in Threads /\ gpu[q][i].value \in Nat
    BY <1>1, BatchFields
  <2>2. GpuInv'
    BY <1>1, <1>3, <1>4, <2>1, SMTT(30) DEF GpuInv
  <2> QED
    BY <1>1, <1>4, <2>2
<1>5. CASE gpu' = [gpu EXCEPT ![q0] = Append(gpu[q0], b)]
  <2>1. /\ gpu' \in [Queues -> Seq(Batches)]
        /\ \A q \in Queues : gpu'[q] = IF q = q0 THEN Append(gpu[q0], b) ELSE gpu[q]
    BY <1>1, <1>5
  <2>2. \A q \in Queues : \A i \in 1 .. Len(gpu'[q]) :
          \/ i \in 1 .. Len(gpu[q]) /\ gpu'[q][i] = gpu[q][i]
          \/ q = q0 /\ i = Len(gpu[q]) + 1 /\ gpu'[q][i] = b
    <3>1. ASSUME NEW q \in Queues, NEW i \in 1 .. Len(gpu'[q])
          PROVE  \/ i \in 1 .. Len(gpu[q]) /\ gpu'[q][i] = gpu[q][i]
                 \/ q = q0 /\ i = Len(gpu[q]) + 1 /\ gpu'[q][i] = b
      <4>1. gpu[q] \in Seq(Batches)
        BY <1>1
      <4>2. CASE q = q0
        <5>1. gpu'[q] = Append(gpu[q], b)
          BY <2>1, <4>2
        <5> QED
          BY <4>1, <4>2, <5>1, <3>1
      <4>3. CASE q # q0
        BY <2>1, <4>3
      <4> QED
        BY <4>2, <4>3
    <3> QED
      BY <3>1
  <2>3. \A q \in Queues : Len(gpu[q]) \in Nat /\ Len(gpu'[q]) \in Nat /\ \A i \in 1 .. Len(gpu[q]) :
          gpu[q][i] \in Batches /\ gpu[q][i].thread \in Threads /\ gpu[q][i].value \in Nat
    BY <1>1, <2>1, BatchFields
  <2>4. ASSUME NEW q \in Queues, NEW i \in 1 .. Len(gpu'[q])
        PROVE  LET c == gpu'[q][i] IN
               /\ pool_queue[c.thread] = q /\ sema[c.thread] < c.value /\ c.value <= counter'[c.thread]
               /\ \A j \in 1 .. Len(gpu'[q]) :
                    i < j /\ gpu'[q][j].thread = c.thread => c.value < gpu'[q][j].value
    <3>1. CASE q = q0 /\ i = Len(gpu[q]) + 1 /\ gpu'[q][i] = b
      <4>1. sema[t] <= counter[t]
        BY <1>1 DEF GpuInv
      <4>2. \A j \in 1 .. Len(gpu'[q]) : ~(i < j)
        BY <2>2, <2>3, <3>1
      <4> QED
        BY <1>1, <1>3, <3>1, <4>1, <4>2 DEF q0
    <3>2. CASE i \in 1 .. Len(gpu[q]) /\ gpu'[q][i] = gpu[q][i]
      <4>1. LET c == gpu[q][i] IN
            /\ pool_queue[c.thread] = q /\ sema[c.thread] < c.value /\ c.value <= counter[c.thread]
            /\ \A j \in 1 .. Len(gpu[q]) :
                 i < j /\ gpu[q][j].thread = c.thread => c.value < gpu[q][j].value
        BY <1>1, <3>2 DEF GpuInv
      <4>2. gpu[q][i].thread \in Threads /\ gpu[q][i].value \in Nat
        BY <2>3, <3>2
      <4>3. gpu[q][i].value <= counter'[gpu[q][i].thread]
        BY <1>1, <1>3, <4>1, <4>2
      <4>4. ASSUME NEW j \in 1 .. Len(gpu'[q]), i < j, gpu'[q][j].thread = gpu[q][i].thread
            PROVE  gpu[q][i].value < gpu'[q][j].value
        <5>1. CASE j \in 1 .. Len(gpu[q]) /\ gpu'[q][j] = gpu[q][j]
          BY <4>1, <4>4, <5>1
        <5>2. CASE gpu'[q][j] = b
          BY <1>1, <4>1, <4>2, <4>4, <5>2, SMTT(30)
        <5> QED
          BY <2>2, <5>1, <5>2
      <4> QED
        BY <3>2, <4>1, <4>3, <4>4
    <3> QED
      BY <2>2, <3>1, <3>2
  <2>5. \A u \in Threads : sema[u] <= counter'[u]
    BY <1>1, <1>3 DEF GpuInv
  <2>6. GpuInv'
    BY <2>4, <2>5 DEF GpuInv
  <2> QED
    BY <2>1, <2>2, <2>6
<1> QED
  BY <1>2, <1>4, <1>5

LEMMA SubmitPreserves ==
  ASSUME QueueInv, NEW t \in Threads, NEW blocking \in BOOLEAN, Submit(t, blocking)
  PROVE  QueueInv'
<1> DEFINE bb == [thread |-> t, slot |-> buf[t], value |-> counter[t] + 1]
<1>1. /\ tpc[t] = "record" /\ sec_buf[t] = None /\ QueueSubmit(bb)
      /\ counter' = [counter EXCEPT ![t] = @ + 1] /\ buf' = [buf EXCEPT ![t] = None]
      /\ pool_queue' = pool_queue /\ free' = free /\ sec_free' = sec_free /\ handlers' = handlers
      /\ sec_buf' = sec_buf /\ sema' = sema /\ called' = called /\ lost' = lost /\ unwaited' = unwaited
      /\ sec_lost' = sec_lost
  BY DEF Submit, poolVars
<1>2. \/ /\ task' = [task EXCEPT ![t] = bb] /\ tasks' = tasks
         /\ tpc' = [tpc EXCEPT ![t] = "block"]
      \/ /\ tasks' = Append(tasks, bb) /\ task' = task
         /\ tpc' = [tpc EXCEPT ![t] = "idle"]
  <2>1. CASE blocking \/ ~NoBlocking
    BY <2>1, Zenon DEF Submit, ThreadGoto
  <2>2. CASE ~(blocking \/ ~NoBlocking)
    BY <2>2, Zenon DEF Submit, ThreadGoto
  <2> QED
    BY <2>1, <2>2
<1>3. QueueTypeOK /\ buf[t] \in Slots /\ buf[t] # None /\ counter[t] \in Nat
  BY <1>1, VulkanAssumption DEF QueueInv, ThreadInv, QueueTypeOK
<1>4. PICK b \in Batches : b = bb /\ b.thread = t /\ b.slot = buf[t] /\ b.value = counter[t] + 1
  <2>1. bb \in Batches /\ bb.thread = t /\ bb.slot = buf[t] /\ bb.value = counter[t] + 1
    BY <1>3 DEF Batches
  <2> HIDE DEF bb
  <2> QED
    BY <2>1
<1> HIDE DEF bb
<1>16. PICK s \in Slots : s = buf[t]
  BY <1>3
<1>5. /\ gpu' \in [Queues -> Seq(Batches)] /\ GpuInv'
      /\ \A q \in Queues : \A i \in 1 .. Len(gpu'[q]) :
           \/ i \in 1 .. Len(gpu[q]) /\ gpu'[q][i] = gpu[q][i]
           \/ gpu'[q][i] = b
  <2>1. QueueSubmit(b)
    BY <1>1, <1>4
  <2>2. /\ tpc[t] = "record" /\ b.thread = t /\ b.value = counter[t] + 1
        /\ counter' = [counter EXCEPT ![t] = @ + 1] /\ sema' = sema /\ pool_queue' = pool_queue
    BY <1>1, <1>4
  <2> QED
    BY <2>1, <2>2, SubmittedLast
<1>6. t \in Completers /\ task[t] = None /\ b # None
  BY <1>1, <1>4, BatchFields DEF QueueInv, ThreadInv, Completers
<1>7. /\ Len(tasks) \in Nat /\ Len(tasks') \in Nat
      /\ \A i \in 1 .. Len(tasks) : i \in 1 .. Len(tasks') /\ tasks'[i] = tasks[i]
      /\ \A i \in 1 .. Len(tasks') : i \in 1 .. Len(tasks) \/ (i = Len(tasks) + 1 /\ tasks'[i] = b)
      /\ \A a \in Completers : task'[a] = task[a] \/ (a = t /\ task'[a] = b)
      /\ \/ task'[t] = b /\ tasks' = tasks /\ tpc' = [tpc EXCEPT ![t] = "block"]
         \/ Len(tasks') = Len(tasks) + 1 /\ tasks'[Len(tasks')] = b /\ task' = task /\ tpc' = [tpc EXCEPT ![t] = "idle"]
  <2>1. CASE tasks' = tasks /\ task' = [task EXCEPT ![t] = b] /\ tpc' = [tpc EXCEPT ![t] = "block"]
    BY <1>3, <1>4, <1>6, <2>1 DEF QueueTypeOK
  <2>2. CASE tasks' = Append(tasks, b) /\ task' = task /\ tpc' = [tpc EXCEPT ![t] = "idle"]
    BY <1>3, <1>4, <2>2 DEF QueueTypeOK
  <2> QED
    BY <1>2, <1>4, <2>1, <2>2
<1>8. QueueTypeOK'
  <2>1. tasks' \in Seq(Batches) /\ task' \in [Completers -> Batches \cup {None}]
    <3>1. CASE tasks' = tasks /\ task' = [task EXCEPT ![t] = b]
      BY <1>3, <1>4, <1>6, <3>1 DEF QueueTypeOK
    <3>2. CASE tasks' = Append(tasks, b) /\ task' = task
      BY <1>3, <1>4, <3>2 DEF QueueTypeOK
    <3> QED
      BY <1>2, <1>4, <3>1, <3>2
  <2>2. tpc' \in [Threads -> {"idle", "record", "block", "exited"}]
    BY <1>3, <1>7 DEF QueueTypeOK
  <2> QED
    BY <1>1, <1>3, <1>5, <2>1, <2>2 DEF QueueTypeOK
<1>9. ASSUME NEW u \in Threads PROVE ThreadInv(u)'
  <2>1. ThreadInv(u) /\ u \in Completers
    BY DEF QueueInv, Completers
  <2>2. CASE u = t
    BY <1>1, <1>3, <1>6, <1>7, <2>1, <2>2 DEF ThreadInv, QueueTypeOK
  <2>3. CASE u # t
    BY <1>1, <1>3, <1>7, <2>1, <2>3 DEF ThreadInv, QueueTypeOK
  <2> QED
    BY <2>2, <2>3
<1>10. ASSUME NEW u \in Threads, NEW r \in Slots PROVE SlotInv(u, r)'
  <2>1. SlotInv(u, r) /\ (buf'[u] = r <=> u # t /\ buf[u] = r)
    BY <1>1, <1>3, VulkanAssumption DEF QueueInv, QueueTypeOK
  <2>2. CASE u = t /\ r = s
    <3>1. /\ r \notin free[u] /\ <<u, r>> \notin lost
          /\ \A i \in 1 .. Len(tasks) : ~InQueue(i, u, r)
          /\ \A a \in Completers : ~Completes(a, u, r)
      BY <2>1, <2>2, <1>16 DEF SlotInv
    <3>2. CASE task'[t] = b /\ tasks' = tasks
      <4>1. /\ \A i \in 1 .. Len(tasks') : ~InQueue(i, u, r)'
            /\ \A a \in Completers : Completes(a, u, r)' <=> a = t
        BY <1>4, <1>16, <1>6, <1>7, <2>2, <3>1, <3>2 DEF InQueue, Completes
      <4> QED
        BY <1>1, <1>6, <2>1, <2>2, <3>1, <4>1 DEF SlotInv
    <3>3. CASE Len(tasks') = Len(tasks) + 1 /\ tasks'[Len(tasks')] = b /\ task' = task
      <4>1. /\ \A i \in 1 .. Len(tasks') : InQueue(i, u, r)' <=> i = Len(tasks')
            /\ \A a \in Completers : ~Completes(a, u, r)'
            /\ Len(tasks') \in 1 .. Len(tasks')
        BY <1>4, <1>16, <1>7, <2>2, <3>1, <3>3 DEF InQueue, Completes
      <4> QED
        BY <1>1, <2>1, <2>2, <3>1, <4>1 DEF SlotInv
    <3> QED
      BY <1>7, <3>2, <3>3
  <2>3. CASE ~(u = t /\ r = s)
    <3>1. /\ \A i \in 1 .. Len(tasks') : InQueue(i, u, r)' <=> i \in 1 .. Len(tasks) /\ InQueue(i, u, r)
          /\ \A i \in 1 .. Len(tasks) : i \in 1 .. Len(tasks') /\ (InQueue(i, u, r)' <=> InQueue(i, u, r))
          /\ \A a \in Completers : Completes(a, u, r)' <=> Completes(a, u, r)
      BY <1>4, <1>16, <1>6, <1>7, <2>3 DEF InQueue, Completes
    <3>2. buf'[u] = r <=> buf[u] = r
      BY <2>1, <2>3, <1>16
    <3> QED
      BY <1>1, <2>1, <3>1, <3>2 DEF SlotInv
  <2> QED
    BY <2>2, <2>3
<1>11. ASSUME NEW u \in Threads, NEW x \in SecSlots PROVE SecondaryInv(u, x)'
  BY <1>1 DEF SecondaryInv, QueueInv
<1>12. CalledInv'
  <2>1. CalledInv /\ called \in SUBSET Completers
    BY <1>3 DEF QueueInv, QueueTypeOK
  <2>2. \A a \in called : task'[a] = task[a]
    BY <1>6, <1>7, <2>1 DEF CalledInv
  <2> QED
    BY <1>1, <2>1, <2>2 DEF CalledInv
<1>13. ASSUME NEW c, WillComplete(c), c # None PROVE WillComplete(c)'
  BY <1>1, <1>6, <1>7, <1>13 DEF WillComplete
<1>14. WillComplete(b)'
  <2>1. t \notin called
    BY <1>6 DEF CalledInv, QueueInv
  <2> QED
    BY <1>1, <1>6, <1>7, <2>1 DEF WillComplete
<1>15. PendingInv'
  <2>1. \A q \in Queues : \A i \in 1 .. Len(gpu[q]) : gpu[q][i] # None /\ WillComplete(gpu[q][i])
    BY <1>3, BatchFields DEF QueueTypeOK, QueueInv, PendingInv
  <2>2. ASSUME NEW q \in Queues, NEW i \in 1 .. Len(gpu'[q]) PROVE WillComplete(gpu[q][i])'
    <3>1. PICK c : c = gpu'[q][i]
      OBVIOUS
    <3>2. WillComplete(c)'
      BY <1>5, <1>13, <1>14, <2>1, <3>1
    <3> QED
      BY <3>1, <3>2 DEF WillComplete
  <2> QED
    BY <2>2 DEF PendingInv
<1> QED
  BY <1>5, <1>8, <1>9, <1>10, <1>11, <1>12, <1>15 DEF QueueInv

LEMMA GpuSignalPreserves ==
  ASSUME QueueInv, NEW q \in Queues, GpuSignal(q)
  PROVE  QueueInv'
<1>1. /\ gpu[q] # <<>> /\ gpu' = [gpu EXCEPT ![q] = Tail(gpu[q])]
      /\ sema' = [sema EXCEPT ![Head(gpu[q]).thread] = Head(gpu[q]).value]
      /\ pool_queue' = pool_queue /\ free' = free /\ sec_free' = sec_free /\ handlers' = handlers
      /\ tpc' = tpc /\ buf' = buf /\ sec_buf' = sec_buf /\ counter' = counter /\ tasks' = tasks
      /\ task' = task /\ called' = called /\ lost' = lost /\ unwaited' = unwaited
      /\ sec_lost' = sec_lost
  BY DEF GpuSignal, poolVars, threadVars, workVars
<1>2. /\ QueueTypeOK /\ GpuInv /\ PendingInv /\ gpu \in [Queues -> Seq(Batches)]
      /\ counter \in [Threads -> Nat] /\ sema \in [Threads -> Nat]
  BY DEF QueueInv, QueueTypeOK
<1>3. PICK h \in Batches : /\ h = Head(gpu[q]) /\ h = gpu[q][1] /\ 1 \in 1 .. Len(gpu[q])
                           /\ h.thread \in Threads /\ h.value \in Nat
  BY <1>1, <1>2, BatchFields
<1>4. /\ gpu' \in [Queues -> Seq(Batches)]
      /\ \A r \in Queues : gpu'[r] = IF r = q THEN Tail(gpu[q]) ELSE gpu[r]
  BY <1>1, <1>2
<1>5. ASSUME NEW r \in Queues
      PROVE  \E d \in {0, 1} :
               /\ r = q <=> d = 1
               /\ \A i \in 1 .. Len(gpu'[r]) : i + d \in 1 .. Len(gpu[r]) /\ gpu'[r][i] = gpu[r][i + d]
  <2>1. gpu[r] \in Seq(Batches)
    BY <1>2
  <2>2. CASE r = q
    <3>1. gpu'[r] = Tail(gpu[r]) /\ gpu[r] # <<>>
      BY <1>1, <1>4, <2>2
    <3>2. \A i \in 1 .. Len(gpu'[r]) : i + 1 \in 1 .. Len(gpu[r]) /\ gpu'[r][i] = gpu[r][i + 1]
      BY <2>1, <3>1
    <3> QED
      BY <2>2, <3>2
  <2>3. CASE r # q
    <3>1. gpu'[r] = gpu[r]
      BY <1>4, <2>3
    <3>2. \A i \in 1 .. Len(gpu'[r]) : i + 0 \in 1 .. Len(gpu[r]) /\ gpu'[r][i] = gpu[r][i + 0]
      BY <3>1
    <3> QED
      BY <2>3, <3>2
  <2> QED
    BY <2>2, <2>3
<1>6. \A u \in Threads : sema'[u] = IF u = h.thread THEN h.value ELSE sema[u]
  BY <1>1, <1>2, <1>3
<1>7. LET b == gpu[q][1] IN
      /\ pool_queue[b.thread] = q /\ sema[b.thread] < b.value /\ b.value <= counter[b.thread]
      /\ \A j \in 1 .. Len(gpu[q]) :
           1 < j /\ gpu[q][j].thread = b.thread => b.value < gpu[q][j].value
  BY <1>2, <1>3 DEF GpuInv
<1>8. GpuInv'
  <2>1. \A u \in Threads : sema'[u] <= counter'[u]
    BY <1>1, <1>2, <1>3, <1>6, <1>7 DEF GpuInv
  <2>2. ASSUME NEW r \in Queues, NEW i \in 1 .. Len(gpu'[r])
        PROVE  LET b == gpu'[r][i] IN
               /\ pool_queue[b.thread] = r /\ sema'[b.thread] < b.value /\ b.value <= counter[b.thread]
               /\ \A j \in 1 .. Len(gpu'[r]) :
                    i < j /\ gpu'[r][j].thread = b.thread => b.value < gpu'[r][j].value
    <3>1. PICK d \in {0, 1} :
            /\ r = q <=> d = 1
            /\ \A j \in 1 .. Len(gpu'[r]) : j + d \in 1 .. Len(gpu[r]) /\ gpu'[r][j] = gpu[r][j + d]
      BY <1>5
    <3>2. PICK k \in 1 .. Len(gpu[r]) : k = i + d /\ gpu'[r][i] = gpu[r][k]
      BY <3>1
    <3>3. PICK b \in Batches : b = gpu[r][k] /\ b.thread \in Threads /\ b.value \in Nat
      BY <1>2, <3>2, BatchFields
    <3>4. /\ pool_queue[b.thread] = r /\ sema[b.thread] < b.value /\ b.value <= counter[b.thread]
          /\ \A j \in 1 .. Len(gpu[r]) :
               k < j /\ gpu[r][j].thread = b.thread => b.value < gpu[r][j].value
      BY <1>2, <3>3 DEF GpuInv
    <3>5. ASSUME NEW j \in 1 .. Len(gpu'[r]), i < j, gpu'[r][j].thread = b.thread
          PROVE  b.value < gpu'[r][j].value
      <4>1. PICK n \in 1 .. Len(gpu[r]) : n = j + d /\ gpu'[r][j] = gpu[r][n]
        BY <3>1
      <4>2. k < n
        BY <3>2, <3>5, <4>1
      <4> QED
        BY <3>4, <3>5, <4>1, <4>2
    <3>6. sema'[b.thread] < b.value
      <4>1. CASE b.thread = h.thread
        <5>1. r = q /\ 1 < k
          BY <1>3, <1>7, <3>1, <3>2, <3>4, <4>1
        <5> QED
          BY <1>3, <1>6, <1>7, <3>3, <4>1, <5>1
      <4>2. CASE b.thread # h.thread
        BY <1>6, <3>3, <3>4, <4>2
      <4> QED
        BY <4>1, <4>2
    <3> QED
      BY <3>2, <3>3, <3>4, <3>5, <3>6
  <2> QED
    BY <1>1, <2>1, <2>2 DEF GpuInv
<1>9. QueueTypeOK'
  BY <1>1, <1>2, <1>3, <1>4 DEF QueueTypeOK
<1>10. PendingInv'
  <2>1. ASSUME NEW r \in Queues, NEW i \in 1 .. Len(gpu'[r]) PROVE WillComplete(gpu[r][i])'
    <3>1. PICK k \in 1 .. Len(gpu[r]) : gpu'[r][i] = gpu[r][k]
      BY <1>5
    <3>2. WillComplete(gpu[r][k])
      BY <1>2 DEF PendingInv
    <3> QED
      BY <1>1, <3>1, <3>2, SMTT(30) DEF WillComplete
  <2> QED
    BY <2>1 DEF PendingInv
<1>11. /\ \A u \in Threads : ThreadInv(u)'
       /\ \A u \in Threads, r \in Slots : SlotInv(u, r)'
       /\ \A u \in Threads, x \in SecSlots : SecondaryInv(u, x)'
       /\ CalledInv'
  BY <1>1 DEF QueueInv, ThreadInv, SlotInv, InQueue, Completes, SecondaryInv, CalledInv
<1> QED
  BY <1>8, <1>9, <1>10, <1>11 DEF QueueInv

LEMMA PickUpPreserves ==
  ASSUME QueueInv, NEW w \in Workers, PickUp(w)
  PROVE  QueueInv'
<1>1. /\ task[w] = None /\ tasks # <<>>
      /\ task' = [task EXCEPT ![w] = Head(tasks)] /\ tasks' = Tail(tasks)
      /\ pool_queue' = pool_queue /\ free' = free /\ sec_free' = sec_free /\ handlers' = handlers
      /\ tpc' = tpc /\ buf' = buf /\ sec_buf' = sec_buf /\ counter' = counter /\ sema' = sema
      /\ gpu' = gpu /\ called' = called /\ lost' = lost /\ unwaited' = unwaited
      /\ sec_lost' = sec_lost
  BY DEF PickUp, poolVars, threadVars, gpuVars
<1>2. QueueTypeOK /\ CalledInv /\ PendingInv /\ w \in Completers
  BY DEF QueueInv, Completers
<1>3. PICK h \in Batches : h = tasks[1] /\ h = Head(tasks) /\ h # None /\ 1 \in 1 .. Len(tasks)
  BY <1>1, <1>2, BatchFields DEF QueueTypeOK
<1>4. /\ tasks' \in Seq(Batches) /\ Len(tasks) \in Nat /\ Len(tasks') = Len(tasks) - 1
      /\ \A i \in 1 .. Len(tasks') : i + 1 \in 1 .. Len(tasks) /\ tasks'[i] = tasks[i + 1]
      /\ \A i \in 1 .. Len(tasks) : i = 1 \/ (i - 1 \in 1 .. Len(tasks') /\ tasks'[i - 1] = tasks[i])
  BY <1>1, <1>2 DEF QueueTypeOK
<1>5. /\ task' \in [Completers -> Batches \cup {None}]
      /\ \A a \in Completers : task'[a] = IF a = w THEN h ELSE task[a]
  BY <1>1, <1>2, <1>3 DEF QueueTypeOK
<1>6. QueueTypeOK'
  BY <1>1, <1>2, <1>4, <1>5 DEF QueueTypeOK
<1>7. ASSUME NEW u \in Threads PROVE ThreadInv(u)'
  BY <1>1, <1>5, VulkanAssumption DEF QueueInv, ThreadInv, Completers
<1>8. ASSUME NEW u \in Threads, NEW r \in Slots PROVE SlotInv(u, r)'
  <2>1. SlotInv(u, r)
    BY DEF QueueInv
  <2>2. /\ \A i \in 1 .. Len(tasks') : i + 1 \in 1 .. Len(tasks) /\ (InQueue(i, u, r)' <=> InQueue(i + 1, u, r))
        /\ \A i \in 1 .. Len(tasks) : i = 1 \/ (i - 1 \in 1 .. Len(tasks') /\ (InQueue(i - 1, u, r)' <=> InQueue(i, u, r)))
        /\ \A a \in Completers : Completes(a, u, r)' <=>
             (a = w /\ InQueue(1, u, r)) \/ (a # w /\ Completes(a, u, r))
        /\ ~Completes(w, u, r)
    <3>1. \A i \in 1 .. Len(tasks') : i + 1 \in 1 .. Len(tasks) /\ (InQueue(i, u, r)' <=> InQueue(i + 1, u, r))
      BY <1>4 DEF InQueue
    <3>2. \A i \in 1 .. Len(tasks) : i = 1 \/ (i - 1 \in 1 .. Len(tasks') /\ (InQueue(i - 1, u, r)' <=> InQueue(i, u, r)))
      BY <1>4 DEF InQueue
    <3>3. \A a \in Completers : Completes(a, u, r)' <=>
             (a = w /\ InQueue(1, u, r)) \/ (a # w /\ Completes(a, u, r))
      BY <1>3, <1>5 DEF InQueue, Completes
    <3> QED
      BY <1>1, <3>1, <3>2, <3>3 DEF Completes
  <2>3. CASE InQueue(1, u, r)
    <3>1. /\ ~(r \in free[u]) /\ buf[u] # r /\ <<u, r>> \notin lost
          /\ \A i \in 1 .. Len(tasks) : InQueue(i, u, r) => i = 1
          /\ \A a \in Completers : ~Completes(a, u, r)
      BY <1>3, <2>1, <2>3 DEF SlotInv
    <3>2. /\ \A i \in 1 .. Len(tasks') : ~InQueue(i, u, r)'
          /\ \A a \in Completers : Completes(a, u, r)' <=> a = w
      BY <2>2, <2>3, <3>1
    <3> QED
      BY <1>1, <1>2, <3>1, <3>2 DEF SlotInv
  <2>4. CASE ~InQueue(1, u, r)
    <3>1. \A a \in Completers : Completes(a, u, r)' <=> Completes(a, u, r)
      BY <2>2, <2>4
    <3>2. /\ (\E i \in 1 .. Len(tasks) : InQueue(i, u, r)) <=> (\E i \in 1 .. Len(tasks') : InQueue(i, u, r)')
          /\ \A i, j \in 1 .. Len(tasks') : InQueue(i, u, r)' /\ InQueue(j, u, r)' => i = j
      BY <2>1, <2>2, <2>4 DEF SlotInv
    <3> QED
      BY <1>1, <2>1, <3>1, <3>2 DEF SlotInv
  <2> QED
    BY <2>3, <2>4
<1>9. CalledInv'
  <2>1. w \notin called /\ called \in SUBSET Completers
    BY <1>1, <1>2 DEF CalledInv, QueueTypeOK
  <2>2. \A a \in called : task'[a] = task[a]
    BY <1>5, <2>1
  <2> QED
    BY <1>1, <1>2, <2>2 DEF CalledInv
<1>10. PendingInv'
  <2>1. w \notin called
    BY <1>1, <1>2 DEF CalledInv, QueueTypeOK
  <2>2. ASSUME NEW c \in Batches, WillComplete(c) PROVE WillComplete(c)'
    <3>1. CASE \E i \in 1 .. Len(tasks) : tasks[i] = c
      <4>1. (\E i \in 1 .. Len(tasks') : tasks'[i] = c) \/ task'[w] = c
        BY <1>2, <1>3, <1>4, <1>5, <3>1
      <4> QED
        BY <1>1, <1>2, <2>1, <4>1 DEF WillComplete
    <3>2. CASE \E a \in Completers : a \notin called /\ task[a] = c
      <4>1. c # None
        BY BatchFields
      <4> QED
        BY <1>1, <1>5, <3>2, <4>1 DEF WillComplete
    <3>3. CASE c \in unwaited \/ <<c.thread, c.slot>> \in lost
      BY <1>1, <3>3 DEF WillComplete
    <3> QED
      BY <2>2, <3>1, <3>2, <3>3 DEF WillComplete
  <2>3. ASSUME NEW r \in Queues, NEW i \in 1 .. Len(gpu'[r]) PROVE WillComplete(gpu[r][i])'
    <3>1. PICK c \in Batches : c = gpu[r][i] /\ WillComplete(c)
      BY <1>1, <1>2 DEF PendingInv, QueueTypeOK
    <3> QED
      BY <1>1, <2>2, <3>1 DEF WillComplete
  <2> QED
    BY <2>3 DEF PendingInv
<1>11. GpuInv' /\ \A u \in Threads, x \in SecSlots : SecondaryInv(u, x)'
  BY <1>1, SMTT(30) DEF QueueInv, SecondaryInv, GpuInv
<1> QED
  BY <1>6, <1>7, <1>8, <1>9, <1>10, <1>11 DEF QueueInv

(* The completion handlers of a batch are called, whether its wait failed  *)
(* or not: what remains is to release its command buffer.                  *)
LEMMA CallingPreserves ==
  ASSUME QueueInv, NEW a \in Completers, task[a] # None, a \notin called,
         CallHandlers(task[a].thread, task[a].slot),
         called' = called \cup {a}, PendingInv',
         pool_queue' = pool_queue, free' = free, tpc' = tpc, buf' = buf, sec_buf' = sec_buf,
         counter' = counter, sema' = sema, gpu' = gpu, tasks' = tasks, task' = task, lost' = lost,
         sec_lost' = sec_lost
  PROVE  QueueInv'
<1>1. PICK t \in Threads, s \in Slots : t = task[a].thread /\ s = task[a].slot
  BY ACompletedBuffer DEF QueueInv
<1>2. CallHandlers(t, s)
  BY <1>1
<1>3. /\ handlers' \in [Buffers -> SUBSET SecSlots] /\ sec_free' \in [Threads -> SUBSET SecSlots]
      /\ \A u \in Threads, r \in Slots :
           handlers'[<<u, r>>] = IF u = t /\ r = s THEN {} ELSE handlers[<<u, r>>]
      /\ \A u \in Threads, x \in SecSlots : SecondaryInv(u, x)'
  BY <1>2, CallingHandlers
<1>4. QueueTypeOK'
  BY <1>3 DEF QueueInv, QueueTypeOK
<1>5. /\ \A u \in Threads : ThreadInv(u)'
      /\ \A u \in Threads, r \in Slots : SlotInv(u, r)'
      /\ GpuInv'
  BY DEF QueueInv, ThreadInv, SlotInv, InQueue, Completes, GpuInv
<1>6. CalledInv'
  <2>1. CalledInv /\ \A u \in Threads : free[u] \in SUBSET Slots
    BY DEF QueueInv, QueueTypeOK
  <2>2. \A c \in called \cup {a} : task[c] # None /\ task[c].thread \in Threads /\ task[c].slot \in Slots
    BY ACompletedBuffer DEF CalledInv, QueueInv, QueueTypeOK
  <2>3. \A u \in Threads : \A r \in free[u] : handlers'[<<u, r>>] = {}
    BY <1>3, <2>1 DEF CalledInv
  <2>4. \A c \in called \cup {a} : handlers'[<<task[c].thread, task[c].slot>>] = {}
    BY <1>1, <1>3, <2>1, <2>2 DEF CalledInv
  <2> QED
    BY <2>2, <2>3, <2>4 DEF CalledInv
<1> QED
  BY <1>3, <1>4, <1>5, <1>6 DEF QueueInv

LEMMA CompletePreserves ==
  ASSUME QueueInv, NEW a \in Completers, Complete(a)
  PROVE  QueueInv'
<1>1. /\ task[a] # None /\ a \notin called /\ sema[task[a].thread] >= task[a].value
      /\ CallHandlers(task[a].thread, task[a].slot) /\ called' = called \cup {a}
      /\ pool_queue' = pool_queue /\ free' = free /\ tpc' = tpc /\ buf' = buf /\ sec_buf' = sec_buf
      /\ counter' = counter /\ sema' = sema /\ gpu' = gpu /\ tasks' = tasks /\ task' = task
      /\ lost' = lost /\ unwaited' = unwaited
      /\ sec_lost' = sec_lost
  BY DEF Complete, Signalled, threadVars, gpuVars
<1>2. ASSUME NEW q \in Queues, NEW i \in 1 .. Len(gpu[q]) PROVE gpu[q][i] # task[a]
  <2>1. PICK b \in Batches : b = gpu[q][i] /\ b.thread \in Threads /\ b.value \in Nat /\ sema[b.thread] \in Nat
    BY BatchFields DEF QueueInv, QueueTypeOK
  <2>2. sema[b.thread] < b.value
    BY <2>1 DEF QueueInv, GpuInv
  <2> QED
    BY <1>1, <2>1, <2>2
<1>3. PendingInv'
  <2>1. ASSUME NEW q \in Queues, NEW i \in 1 .. Len(gpu[q]) PROVE WillComplete(gpu[q][i])'
    <3>1. WillComplete(gpu[q][i]) /\ gpu[q][i] # task[a]
      BY <1>2 DEF QueueInv, PendingInv
    <3> QED
      BY <1>1, <3>1 DEF WillComplete
  <2> QED
    BY <1>1, <2>1 DEF PendingInv
<1> QED
  BY <1>1, <1>3, CallingPreserves

LEMMA WaitFailsPreserves ==
  ASSUME QueueInv, NEW a \in Completers, WaitFails(a)
  PROVE  QueueInv'
<1>1. /\ task[a] # None /\ a \notin called /\ unwaited' = unwaited \cup {task[a]}
      /\ CallHandlers(task[a].thread, task[a].slot) /\ called' = called \cup {a}
      /\ pool_queue' = pool_queue /\ free' = free /\ tpc' = tpc /\ buf' = buf /\ sec_buf' = sec_buf
      /\ counter' = counter /\ sema' = sema /\ gpu' = gpu /\ tasks' = tasks /\ task' = task /\ lost' = lost
      /\ sec_lost' = sec_lost
  BY DEF WaitFails, threadVars, gpuVars
<1>2. PendingInv'
  <2>1. ASSUME NEW q \in Queues, NEW i \in 1 .. Len(gpu[q]) PROVE WillComplete(gpu[q][i])'
    <3>1. WillComplete(gpu[q][i])
      BY DEF QueueInv, PendingInv
    <3> QED
      BY <1>1, <3>1 DEF WillComplete
  <2> QED
    BY <1>1, <2>1 DEF PendingInv
<1> QED
  BY <1>1, <1>2, CallingPreserves

(* A completer is done with its batch: the command buffer is free or lost. *)
LEMMA FinishingPreserves ==
  ASSUME QueueInv, NEW a \in Completers, task[a] # None, Finished(a),
         NEW t \in Threads, NEW s \in Slots, t = task[a].thread, s = task[a].slot,
         \/ free' = [free EXCEPT ![t] = @ \cup {s}] /\ lost' = lost /\ handlers[<<t, s>>] = {}
         \/ free' = free /\ lost' = lost \cup {<<t, s>>},
         PendingInv',
         pool_queue' = pool_queue, sec_free' = sec_free, handlers' = handlers,
         counter' = counter, sema' = sema, gpu' = gpu, tasks' = tasks, sec_lost' = sec_lost
  PROVE  QueueInv'
<1>1. /\ task' = [task EXCEPT ![a] = None] /\ called' = called \ {a}
      /\ tpc' = [u \in Threads |-> IF u = a THEN "idle" ELSE tpc[u]]
      /\ buf' = buf /\ sec_buf' = sec_buf
  BY DEF Finished
<1>2. QueueTypeOK /\ CalledInv
  BY DEF QueueInv
<1>3. /\ task' \in [Completers -> Batches \cup {None}] /\ called' \in SUBSET Completers
      /\ \A c \in Completers : task'[c] = IF c = a THEN None ELSE task[c]
      /\ tpc' \in [Threads -> {"idle", "record", "block", "exited"}]
  BY <1>1, <1>2 DEF QueueTypeOK
<1>4. /\ free' \in [Threads -> SUBSET Slots] /\ lost' \in SUBSET Buffers
      /\ \A u \in Threads, r \in Slots :
           /\ ~(u = t /\ r = s) => (r \in free'[u] <=> r \in free[u]) /\ (<<u, r>> \in lost' <=> <<u, r>> \in lost)
           /\ r \in free'[u] => r \in free[u] \/ (handlers[<<u, r>>] = {} /\ lost' = lost /\ u = t /\ r = s)
      /\ \/ s \in free'[t] /\ lost' = lost
         \/ free' = free /\ <<t, s>> \in lost'
  <2>1. CASE free' = [free EXCEPT ![t] = @ \cup {s}] /\ lost' = lost /\ handlers[<<t, s>>] = {}
    BY <1>2, <2>1 DEF QueueTypeOK
  <2>2. CASE free' = free /\ lost' = lost \cup {<<t, s>>}
    BY <1>2, <2>2 DEF QueueTypeOK, Buffers
  <2> QED
    BY <2>1, <2>2
<1>5. QueueTypeOK'
  BY <1>1, <1>2, <1>3, <1>4 DEF QueueTypeOK
<1>6. ASSUME NEW u \in Threads PROVE ThreadInv(u)'
  <2>1. ThreadInv(u) /\ u \in Completers
    BY DEF QueueInv, Completers
  <2> QED
    BY <1>1, <1>3, <2>1 DEF ThreadInv
<1>7. ASSUME NEW u \in Threads, NEW r \in Slots PROVE SlotInv(u, r)'
  <2>1. SlotInv(u, r)
    BY DEF QueueInv
  <2>2. \A i \in 1 .. Len(tasks) : InQueue(i, u, r)' <=> InQueue(i, u, r)
    BY DEF InQueue
  <2>3. CASE u = t /\ r = s
    <3>1. /\ ~(r \in free[u]) /\ buf[u] # r /\ <<u, r>> \notin lost
          /\ \A i \in 1 .. Len(tasks) : ~InQueue(i, u, r)
          /\ \A c \in Completers : Completes(c, u, r) => c = a
      BY <2>1, <2>3 DEF SlotInv, Completes
    <3>2. \A c \in Completers : ~Completes(c, u, r)'
      BY <1>3, <3>1 DEF Completes
    <3> QED
      BY <1>1, <1>4, <2>2, <2>3, <3>1, <3>2 DEF SlotInv
  <2>4. CASE ~(u = t /\ r = s)
    <3>1. \A c \in Completers : Completes(c, u, r)' <=> Completes(c, u, r)
      BY <1>3, <2>4 DEF Completes
    <3> QED
      BY <1>1, <1>4, <2>1, <2>2, <2>4, <3>1 DEF SlotInv
  <2> QED
    BY <2>3, <2>4
<1>8. CalledInv'
  <2>1. \A c \in called' : c \in called /\ c \in Completers /\ task'[c] = task[c]
    BY <1>1, <1>2, <1>3 DEF QueueTypeOK
  <2>2. \A u \in Threads : \A r \in free'[u] : r \in Slots /\ handlers[<<u, r>>] = {}
    BY <1>2, <1>4 DEF CalledInv
  <2> QED
    BY <1>2, <2>1, <2>2 DEF CalledInv
<1>9. GpuInv' /\ \A u \in Threads, x \in SecSlots : SecondaryInv(u, x)'
  BY <1>1 DEF QueueInv, SecondaryInv, GpuInv
<1> QED
  BY <1>5, <1>6, <1>7, <1>8, <1>9 DEF QueueInv

LEMMA ReleaseBufferPreserves ==
  ASSUME QueueInv, NEW a \in Completers, ReleaseBuffer(a)
  PROVE  QueueInv'
<1>1. /\ a \in called /\ Finished(a)
      /\ free' = [free EXCEPT ![task[a].thread] = @ \cup {task[a].slot}]
      /\ pool_queue' = pool_queue /\ sec_free' = sec_free /\ handlers' = handlers
      /\ counter' = counter /\ sema' = sema /\ gpu' = gpu /\ tasks' = tasks /\ lost' = lost /\ unwaited' = unwaited
      /\ sec_lost' = sec_lost
  BY DEF ReleaseBuffer, gpuVars
<1>2. task[a] # None /\ handlers[<<task[a].thread, task[a].slot>>] = {}
  BY <1>1 DEF QueueInv, CalledInv
<1>3. PICK t \in Threads, s \in Slots : t = task[a].thread /\ s = task[a].slot
  BY <1>2, ACompletedBuffer DEF QueueInv
<1>4. PendingInv'
  <2>1. called' = called \ {a} /\ \A c \in Completers : task'[c] = IF c = a THEN None ELSE task[c]
    BY <1>1 DEF Finished, QueueInv, QueueTypeOK
  <2>2. ASSUME NEW q \in Queues, NEW i \in 1 .. Len(gpu[q]) PROVE WillComplete(gpu[q][i])'
    <3>1. WillComplete(gpu[q][i])
      BY DEF QueueInv, PendingInv
    <3> QED
      BY <1>1, <2>1, <3>1 DEF WillComplete
  <2> QED
    BY <1>1, <2>2 DEF PendingInv
<1>5. free' = [free EXCEPT ![t] = @ \cup {s}] /\ handlers[<<t, s>>] = {}
  BY <1>1, <1>2, <1>3
<1> QED
  BY <1>1, <1>2, <1>3, <1>4, <1>5, FinishingPreserves

LEMMA DeviceLostPreserves ==
  ASSUME QueueInv, NEW a \in Completers, DeviceLost(a)
  PROVE  QueueInv'
<1>1. /\ task[a] # None /\ a \notin called /\ Finished(a)
      /\ lost' = lost \cup {<<task[a].thread, task[a].slot>>}
      /\ pool_queue' = pool_queue /\ free' = free /\ sec_free' = sec_free /\ handlers' = handlers
      /\ counter' = counter /\ sema' = sema /\ gpu' = gpu /\ tasks' = tasks /\ unwaited' = unwaited
      /\ sec_lost' = sec_lost
  BY DEF DeviceLost, poolVars, gpuVars
<1>2. PICK t \in Threads, s \in Slots : t = task[a].thread /\ s = task[a].slot
  BY <1>1, ACompletedBuffer DEF QueueInv
<1>3. PendingInv'
  <2>1. called' = called \ {a} /\ \A c \in Completers : task'[c] = IF c = a THEN None ELSE task[c]
    BY <1>1 DEF Finished, QueueInv, QueueTypeOK
  <2>2. ASSUME NEW q \in Queues, NEW i \in 1 .. Len(gpu[q]) PROVE WillComplete(gpu[q][i])'
    <3>1. WillComplete(gpu[q][i])
      BY DEF QueueInv, PendingInv
    <3> QED
      BY <1>1, <2>1, <3>1 DEF WillComplete
  <2> QED
    BY <1>1, <2>2 DEF PendingInv
<1>4. lost' = lost \cup {<<t, s>>}
  BY <1>1, <1>2
<1> QED
  BY <1>1, <1>2, <1>3, <1>4, FinishingPreserves

LEMMA ThreadExitPreserves ==
  ASSUME QueueInv, NEW t \in Threads, ThreadExit(t)
  PROVE  QueueInv'
<1>1. /\ tpc[t] = "idle" /\ tpc' = [tpc EXCEPT ![t] = "exited"]
      /\ pool_queue' = pool_queue /\ free' = free /\ sec_free' = sec_free /\ handlers' = handlers
      /\ buf' = buf /\ sec_buf' = sec_buf /\ counter' = counter /\ sema' = sema /\ gpu' = gpu
      /\ tasks' = tasks /\ task' = task /\ called' = called /\ lost' = lost /\ unwaited' = unwaited
      /\ sec_lost' = sec_lost
  BY DEF ThreadExit, ThreadGoto, gpuVars, workVars
<1>2. QueueTypeOK'
  BY <1>1 DEF QueueInv, QueueTypeOK
<1>3. ASSUME NEW u \in Threads PROVE ThreadInv(u)'
  <2>1. ThreadInv(u)
    BY DEF QueueInv
  <2> QED
    BY <1>1, <2>1 DEF ThreadInv, QueueInv, QueueTypeOK
<1>4. /\ \A u \in Threads, r \in Slots : SlotInv(u, r)'
      /\ \A u \in Threads, x \in SecSlots : SecondaryInv(u, x)'
      /\ GpuInv' /\ CalledInv' /\ PendingInv'
  BY <1>1 DEF QueueInv, SlotInv, InQueue, Completes, SecondaryInv, GpuInv, CalledInv, PendingInv, WillComplete
<1> QED
  BY <1>2, <1>3, <1>4 DEF QueueInv

LEMMA DestroyHandlerPreserves ==
  ASSUME QueueInv, DestroyHandler
  PROVE  QueueInv'
<1>1. /\ lost' = lost \cup {<<b.thread, b.slot>> : b \in Queued} /\ tasks' = <<>>
      /\ pool_queue' = pool_queue /\ free' = free /\ sec_free' = sec_free /\ handlers' = handlers
      /\ tpc' = tpc /\ buf' = buf /\ sec_buf' = sec_buf /\ counter' = counter /\ sema' = sema
      /\ gpu' = gpu /\ task' = task /\ called' = called /\ unwaited' = unwaited
      /\ sec_lost' = sec_lost
  BY DEF DestroyHandler, poolVars, threadVars, gpuVars
<1>2. QueueTypeOK /\ \A i \in 1 .. Len(tasks) :
        tasks[i] \in Batches /\ tasks[i].thread \in Threads /\ tasks[i].slot \in Slots
  BY BatchFields DEF QueueInv, QueueTypeOK
<1>3. \A u, r : <<u, r>> \in lost' <=> <<u, r>> \in lost \/ \E i \in 1 .. Len(tasks) : InQueue(i, u, r)
  <2>1. \A b : b \in Queued <=> \E i \in 1 .. Len(tasks) : b = tasks[i]
    BY DEF Queued
  <2>2. ASSUME NEW u, NEW r
        PROVE  <<u, r>> \in {<<b.thread, b.slot>> : b \in Queued} <=> \E i \in 1 .. Len(tasks) : InQueue(i, u, r)
    BY <2>1 DEF InQueue
  <2> QED
    BY <1>1, <2>2
<1>4. QueueTypeOK'
  <2>1. lost' \in SUBSET Buffers
    <3>1. ASSUME NEW b \in Queued PROVE <<b.thread, b.slot>> \in Buffers
      BY <1>2 DEF Queued, Buffers
    <3> QED
      BY <1>1, <1>2, <3>1 DEF QueueTypeOK
  <2>2. tasks' \in Seq(Batches)
    BY <1>1
  <2> QED
    BY <1>1, <1>2, <2>1, <2>2 DEF QueueTypeOK
<1>5. ASSUME NEW u \in Threads, NEW r \in Slots PROVE SlotInv(u, r)'
  <2>1. SlotInv(u, r)
    BY DEF QueueInv
  <2>2. /\ \A i : i \notin 1 .. Len(tasks')
        /\ \A a \in Completers : Completes(a, u, r)' <=> Completes(a, u, r)
    BY <1>1 DEF Completes
  <2> QED
    BY <1>1, <1>3, <2>1, <2>2 DEF SlotInv
<1>6. PendingInv'
  <2>1. ASSUME NEW q \in Queues, NEW i \in 1 .. Len(gpu[q]) PROVE WillComplete(gpu[q][i])'
    <3>1. WillComplete(gpu[q][i])
      BY DEF QueueInv, PendingInv
    <3> QED
      BY <1>1, <1>3, <3>1 DEF WillComplete, InQueue
  <2> QED
    BY <1>1, <2>1 DEF PendingInv
<1>7. /\ \A u \in Threads : ThreadInv(u)'
      /\ \A u \in Threads, x \in SecSlots : SecondaryInv(u, x)'
      /\ GpuInv' /\ CalledInv'
  BY <1>1 DEF QueueInv, ThreadInv, SecondaryInv, GpuInv, CalledInv
<1> QED
  BY <1>4, <1>5, <1>6, <1>7 DEF QueueInv

LEMMA UnchangedPreserves ==
  ASSUME QueueInv, UNCHANGED <<poolVars, threadVars, gpuVars, workVars, lost, sec_lost, unwaited>>
  PROVE  QueueInv'
<1>1. /\ pool_queue' = pool_queue /\ free' = free /\ sec_free' = sec_free /\ handlers' = handlers
      /\ tpc' = tpc /\ buf' = buf /\ sec_buf' = sec_buf /\ counter' = counter /\ sema' = sema
      /\ gpu' = gpu /\ tasks' = tasks /\ task' = task /\ called' = called /\ lost' = lost
      /\ unwaited' = unwaited /\ sec_lost' = sec_lost
  BY DEF poolVars, threadVars, gpuVars, workVars
<1>2. QueueTypeOK' /\ \A u \in Threads : ThreadInv(u)'
  BY <1>1 DEF QueueInv, QueueTypeOK, ThreadInv
<1>3. /\ \A u \in Threads, r \in Slots : SlotInv(u, r)'
      /\ \A u \in Threads, x \in SecSlots : SecondaryInv(u, x)'
      /\ GpuInv' /\ CalledInv' /\ PendingInv'
  BY <1>1 DEF QueueInv, SlotInv, InQueue, Completes, SecondaryInv, GpuInv, CalledInv, PendingInv, WillComplete
<1> QED
  BY <1>2, <1>3 DEF QueueInv

LEMMA QueueInductive ==
  ASSUME QueueInv, [VulkanNext]_vulkanVars
  PROVE  QueueInv'
<1>1. CASE \E t \in Threads :
             \/ \E q \in Queues : MakeBuffer(t, q) \/ MakeBufferFails(t, q)
             \/ MakeSecondary(t) \/ MakeSecondaryFails(t) \/ ExecuteSecondary(t)
             \/ FreeSecondary(t) \/ FreeUnsubmitted(t)
             \/ \E blocking \in BOOLEAN : Submit(t, blocking)
             \/ ThreadExit(t)
  BY <1>1, MakeBufferPreserves, MakeBufferFailsPreserves, MakeSecondaryPreserves,
     MakeSecondaryFailsPreserves,
     ExecuteSecondaryPreserves, FreeSecondaryPreserves, FreeUnsubmittedPreserves, SubmitPreserves,
     ThreadExitPreserves
<1>2. CASE (\E q \in Queues : GpuSignal(q)) \/ \E w \in Workers : PickUp(w)
  BY <1>2, GpuSignalPreserves, PickUpPreserves
<1>3. CASE \E a \in Completers : Complete(a) \/ ReleaseBuffer(a) \/ WaitFails(a) \/ DeviceLost(a)
  BY <1>3, CompletePreserves, ReleaseBufferPreserves, WaitFailsPreserves, DeviceLostPreserves
<1>4. CASE DestroyHandler
  BY <1>4, DestroyHandlerPreserves
<1>5. CASE Shutdown \/ UNCHANGED vulkanVars
  BY <1>5, UnchangedPreserves DEF Shutdown, vulkanVars
<1>6. CASE (\E t \in Threads : SubmitToDestroyed(t)) \/ \E a \in Completers : UseDestroyedPool(a)
  BY <1>6, UnchangedPreserves DEF SubmitToDestroyed, UseDestroyedPool
<1> QED
  BY <1>1, <1>2, <1>3, <1>4, <1>5, <1>6 DEF VulkanNext, CompletionStep

-----------------------------------------------------------------------------
(* What the invariant implies                                              *)

(* What the device may execute is in use, and its secondaries are not free *)
(* (vulkan_queue::submit_command_buffer and vulkan_complete_cmd_buffer).   *)
LEMMA InvariantProtectsTheGpu ==
  ASSUME QueueInv
  PROVE  NotReusedOnGpu
<1> SUFFICES ASSUME NEW b \in OnGpu \ unwaited
             PROVE  /\ b.slot \notin free[b.thread]
                    /\ buf[b.thread] # b.slot
                    /\ handlers[<<b.thread, b.slot>>] \cap sec_free[b.thread] = {}
  BY DEF NotReusedOnGpu
<1>0. PICK q \in Queues : \E i \in 1 .. Len(gpu[q]) : b = gpu[q][i]
  BY DEF OnGpu
<1>1. PICK i \in 1 .. Len(gpu[q]) : b = gpu[q][i]
  BY <1>0
<1>2. b \in Batches /\ b # None /\ b.thread \in Threads /\ b.slot \in Slots /\ WillComplete(b)
  BY <1>1, BatchFields DEF QueueInv, QueueTypeOK, PendingInv
<1>3. PICK t \in Threads, s \in Slots : t = b.thread /\ s = b.slot
  BY <1>2
<1>4. \/ \E j \in 1 .. Len(tasks) : InQueue(j, t, s)
      \/ \E a \in Completers : Completes(a, t, s)
      \/ <<t, s>> \in lost
  BY <1>2, <1>3 DEF WillComplete, InQueue, Completes
<1>5. ~(s \in free[t]) /\ buf[t] # s
  BY <1>4 DEF QueueInv, SlotInv
<1>6. handlers[<<t, s>>] \in SUBSET SecSlots
  BY DEF QueueInv, QueueTypeOK, Buffers
<1>7. ASSUME NEW x \in handlers[<<t, s>>] PROVE x \notin sec_free[t]
  BY <1>6 DEF QueueInv, SecondaryInv
<1> QED
  BY <1>3, <1>5, <1>7

(* Each command buffer in use has one party that releases it.              *)
LEMMA InvariantGivesOneReleaser ==
  ASSUME QueueInv, NEW t \in Threads, NEW s \in Slots
  PROVE  Cardinality(Releasers(t, s)) = IF s \in free[t] THEN 0 ELSE 1
<1> DEFINE W == {i \in 1 .. Len(tasks) : InQueue(i, t, s)}
           C == {a \in Completers : Completes(a, t, s)}
           R == {x \in {"record"} : buf[t] = s}
           L == {x \in {"lost"} : <<t, s>> \in lost}
<1>1. Releasers(t, s) = R \cup W \cup C \cup L
  BY DEF Releasers, InQueue, Completes
<1>2. SlotInv(t, s)
  BY DEF QueueInv
<1>3. CASE s \in free[t]
  <2>1. R = {} /\ W = {} /\ C = {} /\ L = {}
    BY <1>2, <1>3 DEF SlotInv
  <2> QED
    BY <1>1, <1>3, <2>1, FS_EmptySet
<1>4. CASE s \notin free[t]
  <2>1. CASE buf[t] = s
    <3>1. R = {"record"} /\ W = {} /\ C = {} /\ L = {}
      BY <1>2, <2>1 DEF SlotInv
    <3> QED
      BY <1>1, <1>4, <3>1, FS_Singleton
  <2>2. CASE <<t, s>> \in lost
    <3>1. R = {} /\ W = {} /\ C = {} /\ L = {"lost"}
      BY <1>2, <2>2 DEF SlotInv
    <3> QED
      BY <1>1, <1>4, <3>1, FS_Singleton
  <2>3. CASE buf[t] # s /\ <<t, s>> \notin lost /\ \E i \in 1 .. Len(tasks) : InQueue(i, t, s)
    <3>1. PICK i \in 1 .. Len(tasks) : InQueue(i, t, s)
      BY <2>3
    <3>2. R = {} /\ W = {i} /\ C = {} /\ L = {}
      BY <1>2, <2>3, <3>1 DEF SlotInv
    <3> QED
      BY <1>1, <1>4, <3>2, FS_Singleton
  <2>4. CASE buf[t] # s /\ <<t, s>> \notin lost /\ \E a \in Completers : Completes(a, t, s)
    <3>1. PICK a \in Completers : Completes(a, t, s)
      BY <2>4
    <3>2. R = {} /\ W = {} /\ C = {a} /\ L = {}
      BY <1>2, <2>4, <3>1 DEF SlotInv
    <3> QED
      BY <1>1, <1>4, <3>2, FS_Singleton
  <2> QED
    BY <1>2, <1>4, <2>1, <2>2, <2>3, <2>4 DEF SlotInv
<1> QED
  BY <1>3, <1>4

LEMMA InvariantGivesOnePrimary ==
  ASSUME QueueInv, NEW t \in Threads, NEW s \in SecSlots
  PROVE  Cardinality({p \in Slots : s \in handlers[<<t, p>>]}) =
           IF s \in sec_free[t] \/ sec_buf[t] = s \/ <<t, s>> \in sec_lost THEN 0 ELSE 1
<1> DEFINE P == {p \in Slots : s \in handlers[<<t, p>>]}
<1>1. SecondaryInv(t, s)
  BY DEF QueueInv
<1>2. CASE s \in sec_free[t] \/ sec_buf[t] = s \/ <<t, s>> \in sec_lost
  <2>1. P = {}
    BY <1>1, <1>2 DEF SecondaryInv
  <2> QED
    BY <1>2, <2>1, FS_EmptySet
<1>3. CASE ~(s \in sec_free[t] \/ sec_buf[t] = s \/ <<t, s>> \in sec_lost)
  <2>1. PICK p \in Slots : s \in handlers[<<t, p>>]
    BY <1>1, <1>3 DEF SecondaryInv
  <2>2. P = {p}
    BY <1>1, <2>1 DEF SecondaryInv
  <2> QED
    BY <1>3, <2>2, FS_Singleton
<1> QED
  BY <1>2, <1>3

(* The command buffers of every thread are handed out only when the device *)
(* is done with them, and each of them that is in use is released by one   *)
(* party only: the recording thread, the completion handler, a completing  *)
(* thread, or none because an error path lost it.                          *)
THEOREM CommandBuffersAreSafelyReused == VulkanSpec => []CommandBuffersAreSafe
<1>1. VulkanInit => QueueInv
  BY QueueInitially
<1>2. QueueInv /\ [VulkanNext]_vulkanVars => QueueInv'
  BY QueueInductive
<1>3. QueueInv => CommandBuffersAreSafe
  BY InvariantProtectsTheGpu, InvariantGivesOneReleaser, InvariantGivesOnePrimary
  DEF CommandBuffersAreSafe, OneReleaser
<1> QED
  BY <1>1, <1>2, <1>3, PTL DEF VulkanSpec

-----------------------------------------------------------------------------
(* The ring of pending submissions (small_ring_buffer)                     *)

(* A buffer with elements of a set, whose indices are sound.               *)
Rings(E) == {rb \in [data : [0 .. Capacity - 1 -> E], write_idx : Nat, read_idx : Nat] : indices_are_sound(rb)}

(* The indices stay below twice the capacity, so that one subtraction is   *)
(* all that the remainder does.                                            *)
LEMMA Wrapped ==
  ASSUME NEW a \in Nat, a < 2 * Capacity
  PROVE  a % Capacity = IF a < Capacity THEN a ELSE a - Capacity
<1>1. CASE a < Capacity
  BY <1>1, CapacityAssumption
<1>2. CASE a >= Capacity
  BY <1>2, CapacityAssumption
<1> QED
  BY <1>1, <1>2, CapacityAssumption

LEMMA SmallestNumber ==
  ASSUME NEW S \in SUBSET Nat, S # {}
  PROVE  \E n \in S : \A m \in S : n <= m
<1>1. PICK n \in S : \A m \in S : ~(<<m, n>> \in OpToRel(<, Nat))
  BY NatLessThanWellFounded, WFMin, Zenon
<1>2. ASSUME NEW m \in S, m < n PROVE FALSE
  <2>1. <<m, n>> \in OpToRel(<, Nat)
    BY <1>2 DEF OpToRel
  <2> QED
    BY <1>1, <2>1
<1> QED
  BY <1>2

(* Where a buffer has its elements                                         *)
Place(rb, k) == (rb.read_idx + k - 1) % Capacity

LEMMA RingFields ==
  ASSUME NEW E, NEW rb \in Rings(E)
  PROVE  /\ rb.read_idx \in Nat /\ rb.write_idx \in Nat /\ rb.data \in [0 .. Capacity - 1 -> E]
         /\ rb.read_idx < Capacity /\ rb.read_idx <= rb.write_idx
         /\ rb.write_idx - rb.read_idx <= Capacity
         /\ readable_elements(rb) \in 0 .. Capacity
         /\ rb \in [data : [0 .. Capacity - 1 -> E], write_idx : Nat, read_idx : Nat]
BY CapacityAssumption DEF Rings, indices_are_sound, readable_elements

LEMMA RingPlaces ==
  ASSUME NEW E, NEW rb \in Rings(E)
  PROVE  \A k \in 1 .. readable_elements(rb) :
           /\ Place(rb, k) = IF rb.read_idx + k - 1 < Capacity THEN rb.read_idx + k - 1
                             ELSE rb.read_idx + k - 1 - Capacity
           /\ Place(rb, k) \in 0 .. Capacity - 1
<1> SUFFICES ASSUME NEW k \in 1 .. readable_elements(rb)
             PROVE  /\ Place(rb, k) = IF rb.read_idx + k - 1 < Capacity THEN rb.read_idx + k - 1
                                      ELSE rb.read_idx + k - 1 - Capacity
                    /\ Place(rb, k) \in 0 .. Capacity - 1
  OBVIOUS
<1> DEFINE a == rb.read_idx + k - 1
<1>1. a \in Nat /\ a < 2 * Capacity /\ rb.read_idx \in Nat /\ k \in Nat
  BY CapacityAssumption, RingFields DEF readable_elements
<1>2. Place(rb, k) = IF a < Capacity THEN a ELSE a - Capacity
  BY <1>1, Wrapped DEF Place
<1>3. Place(rb, k) \in 0 .. Capacity - 1
  <2> HIDE DEF a
  <2> QED
    BY <1>1, <1>2, CapacityAssumption
<1> QED
  BY <1>1, <1>2, <1>3, CapacityAssumption

(* What the buffer holds is read from its places, each once.               *)
LEMMA ContentsAreRead ==
  ASSUME NEW E, NEW rb \in Rings(E)
  PROVE  /\ contents(rb) \in Seq(E) /\ Len(contents(rb)) = readable_elements(rb)
         /\ \A k \in 1 .. readable_elements(rb) : contents(rb)[k] = rb.data[Place(rb, k)]
<1>1. \A k \in 1 .. readable_elements(rb) : rb.data[Place(rb, k)] \in E
  BY RingFields, RingPlaces
<1>2. contents(rb) = [k \in 1 .. readable_elements(rb) |-> rb.data[Place(rb, k)]]
  BY DEF contents, Place
<1>3. readable_elements(rb) \in Nat
  BY RingFields, CapacityAssumption
<1> QED
  BY <1>1, <1>2, <1>3

(* Elements are at different places.                                       *)
LEMMA PlacesDiffer ==
  ASSUME NEW E, NEW rb \in Rings(E),
         NEW j \in 1 .. readable_elements(rb), NEW k \in 1 .. readable_elements(rb), j # k
  PROVE  Place(rb, j) # Place(rb, k)
<1>1. /\ j \in Nat /\ k \in Nat /\ j <= Capacity /\ k <= Capacity /\ j >= 1 /\ k >= 1
      /\ rb.read_idx \in Nat
  BY RingFields, CapacityAssumption
<1> QED
  BY <1>1, RingPlaces, CapacityAssumption

(* enqueue appends an element to what the buffer holds                     *)
(* (small_ring_buffer).                                                    *)
LEMMA EnqueueAppends ==
  ASSUME NEW E, NEW rb \in Rings(E), NEW e \in E, writable_elements(rb) > 0
  PROVE  /\ enqueue(rb, e) \in Rings(E)
         /\ contents(enqueue(rb, e)) = Append(contents(rb), e)
<1> DEFINE new == enqueue(rb, e)
           w == write_offset(rb)
           n == readable_elements(rb)
<1>1. /\ rb.read_idx \in Nat /\ rb.write_idx \in Nat /\ rb.data \in [0 .. Capacity - 1 -> E]
      /\ rb.read_idx < Capacity /\ rb.read_idx <= rb.write_idx
      /\ rb.write_idx - rb.read_idx < Capacity
      /\ n = rb.write_idx - rb.read_idx /\ n \in Nat
  BY CapacityAssumption, RingFields DEF writable_elements, readable_elements
<1>2. /\ w = IF rb.write_idx < Capacity THEN rb.write_idx ELSE rb.write_idx - Capacity
      /\ w \in 0 .. Capacity - 1
  <2>1. rb.write_idx \in Nat /\ rb.write_idx < 2 * Capacity
    BY <1>1, CapacityAssumption
  <2>2. rb.write_idx % Capacity = IF rb.write_idx < Capacity THEN rb.write_idx ELSE rb.write_idx - Capacity
    BY <2>1, Wrapped
  <2> QED
    BY <2>1, <2>2, CapacityAssumption DEF write_offset
<1>3. /\ new.data = [rb.data EXCEPT ![w] = e] /\ new.write_idx = rb.write_idx + 1
      /\ new.read_idx = rb.read_idx
      /\ new \in [data : [0 .. Capacity - 1 -> E], write_idx : Nat, read_idx : Nat]
  <2>1. rb \in [data : [0 .. Capacity - 1 -> E], write_idx : Nat, read_idx : Nat]
    BY RingFields
  <2>2. new = [rb EXCEPT !.data = [rb.data EXCEPT ![w] = e], !.write_idx = rb.write_idx + 1]
    <3> HIDE DEF w
    <3> QED
      BY <2>1 DEF enqueue, w
  <2> HIDE DEF new, w
  <2>3. [rb.data EXCEPT ![w] = e] \in [0 .. Capacity - 1 -> E] /\ rb.write_idx + 1 \in Nat
    BY <1>1, <1>2
  <2> QED
    BY <2>1, <2>2, <2>3
<1> HIDE DEF new, w
<1>4. new \in Rings(E)
  BY <1>1, <1>3, CapacityAssumption DEF Rings, indices_are_sound
<1>5. readable_elements(new) = n + 1
  BY <1>1, <1>3 DEF readable_elements
<1>6. \A k \in 1 .. n + 1 : Place(new, k) = Place(rb, k)
  BY <1>3 DEF Place
<1>7. Place(new, n + 1) = w
  <2>1. rb.read_idx + (n + 1) - 1 = rb.write_idx
    BY <1>1
  <2> QED
    BY <1>3, <2>1 DEF Place, w, write_offset
<1>8. \A k \in 1 .. n : contents(new)[k] = contents(rb)[k]
  <2> SUFFICES ASSUME NEW k \in 1 .. n PROVE contents(new)[k] = contents(rb)[k]
    OBVIOUS
  <2>1. k \in 1 .. n + 1 /\ (n + 1) \in 1 .. n + 1 /\ k # n + 1
    BY <1>1
  <2>2. Place(new, k) # w
    BY <1>4, <1>5, <1>7, <2>1, PlacesDiffer
  <2>3. Place(rb, k) \in 0 .. Capacity - 1
    BY RingPlaces
  <2>4. new.data[Place(rb, k)] = rb.data[Place(rb, k)]
    BY <1>1, <1>3, <1>6, <2>1, <2>2, <2>3
  <2> QED
    BY <1>4, <1>5, <1>6, <2>1, <2>4, ContentsAreRead
<1>9. contents(new)[n + 1] = e
  <2>1. n + 1 \in 1 .. n + 1
    BY <1>1
  <2>2. contents(new)[n + 1] = new.data[w]
    BY <1>4, <1>5, <1>7, <2>1, ContentsAreRead
  <2> QED
    BY <1>1, <1>2, <1>3, <2>2
<1>10. contents(new) \in Seq(E) /\ Len(contents(new)) = n + 1 /\ contents(rb) \in Seq(E) /\ Len(contents(rb)) = n
  BY <1>4, <1>5, ContentsAreRead
<1> HIDE DEF n
<1>11. contents(new) = Append(contents(rb), e)
  BY <1>8, <1>9, <1>10
<1> QED
  BY <1>4, <1>11 DEF new

(* advance_read_index drops the elements in front.                         *)
LEMMA AdvanceDrops ==
  ASSUME NEW E, NEW rb \in Rings(E), NEW n \in 0 .. readable_elements(rb)
  PROVE  /\ advance_read_index(rb, n) \in Rings(E)
         /\ Len(contents(advance_read_index(rb, n))) = readable_elements(rb) - n
         /\ \A k \in 1 .. readable_elements(rb) - n :
              contents(advance_read_index(rb, n))[k] = contents(rb)[k + n]
<1> DEFINE new == advance_read_index(rb, n)
           r == readable_elements(rb)
<1>1. /\ rb.read_idx \in Nat /\ rb.write_idx \in Nat /\ rb.data \in [0 .. Capacity - 1 -> E]
      /\ rb.read_idx < Capacity /\ rb.read_idx <= rb.write_idx
      /\ rb.write_idx - rb.read_idx <= Capacity
      /\ r = rb.write_idx - rb.read_idx /\ r \in Nat /\ n \in Nat /\ n <= r
      /\ rb \in [data : [0 .. Capacity - 1 -> E], write_idx : Nat, read_idx : Nat]
  BY CapacityAssumption, RingFields DEF readable_elements
<1> HIDE DEF r
<1>2. /\ new.data = rb.data /\ new \in [data : [0 .. Capacity - 1 -> E], write_idx : Nat, read_idx : Nat]
      /\ \/ new.read_idx = rb.read_idx + n /\ new.write_idx = rb.write_idx /\ new.read_idx < Capacity
         \/ /\ new.read_idx = rb.read_idx + n - Capacity /\ new.write_idx = rb.write_idx - Capacity
            /\ rb.read_idx + n >= Capacity
  <2>1. CASE rb.read_idx + n < Capacity
    <3>1. new = [rb EXCEPT !.read_idx = rb.read_idx + n]
      BY <1>1, <2>1 DEF advance_read_index
    <3>2. rb.read_idx + n \in Nat
      BY <1>1
    <3> HIDE DEF new
    <3> QED
      BY <1>1, <2>1, <3>1, <3>2
  <2>2. CASE rb.read_idx + n >= Capacity
    <3>1. /\ rb.read_idx + n \in Nat /\ rb.read_idx + n < 2 * Capacity
          /\ rb.write_idx >= Capacity /\ rb.write_idx < 2 * Capacity
      BY <1>1, <2>2, CapacityAssumption
    <3>2. /\ (rb.read_idx + n) % Capacity = rb.read_idx + n - Capacity
          /\ rb.write_idx % Capacity = rb.write_idx - Capacity
      <4>1. (rb.read_idx + n) % Capacity = rb.read_idx + n - Capacity
        <5> DEFINE a == rb.read_idx + n
        <5>1. a \in Nat /\ a < 2 * Capacity /\ ~(a < Capacity)
          BY <1>1, <2>2, <3>1, CapacityAssumption
        <5> HIDE DEF a
        <5>2. a % Capacity = a - Capacity
          BY <5>1, Wrapped
        <5> QED
          BY <1>1, <5>2, CapacityAssumption DEF a
      <4>2. ~(rb.write_idx < Capacity) /\ rb.write_idx \in Nat
        BY <1>1, <3>1, CapacityAssumption
      <4>3. rb.write_idx % Capacity = rb.write_idx - Capacity
        BY <3>1, <4>2, Wrapped
      <4> QED
        BY <4>1, <4>3
    <3>3. new = [rb EXCEPT !.read_idx = (rb.read_idx + n) % Capacity, !.write_idx = rb.write_idx % Capacity]
      BY <1>1, <2>2, CapacityAssumption DEF advance_read_index
    <3>4. new = [rb EXCEPT !.read_idx = rb.read_idx + n - Capacity, !.write_idx = rb.write_idx - Capacity]
      BY <3>2, <3>3
    <3>5. rb.read_idx + n - Capacity \in Nat /\ rb.write_idx - Capacity \in Nat
      BY <1>1, <2>2, <3>1, CapacityAssumption
    <3> HIDE DEF new
    <3> QED
      BY <1>1, <2>2, <3>4, <3>5
  <2> QED
    BY <1>1, <2>1, <2>2, CapacityAssumption
<1> HIDE DEF new
<1>3. new \in Rings(E) /\ readable_elements(new) = r - n
  <2>1. CASE new.read_idx = rb.read_idx + n /\ new.write_idx = rb.write_idx /\ new.read_idx < Capacity
    BY <1>1, <1>2, <2>1, CapacityAssumption DEF Rings, indices_are_sound, readable_elements
  <2>2. CASE /\ new.read_idx = rb.read_idx + n - Capacity /\ new.write_idx = rb.write_idx - Capacity
             /\ rb.read_idx + n >= Capacity
    <3>1. /\ new.read_idx < Capacity /\ new.read_idx <= new.write_idx
          /\ new.write_idx - new.read_idx = r - n /\ new.write_idx - new.read_idx <= Capacity
      BY <1>1, <2>2, CapacityAssumption
    <3> QED
      BY <1>2, <3>1 DEF Rings, indices_are_sound, readable_elements
  <2> QED
    BY <1>2, <2>1, <2>2
<1>4. ASSUME NEW k \in 1 .. r - n PROVE contents(new)[k] = contents(rb)[k + n]
  <2>1. k + n \in 1 .. r /\ k \in Nat
    BY <1>1
  <2>4. Place(new, k) = Place(rb, k + n)
    <3> DEFINE x == new.read_idx + k - 1
               y == rb.read_idx + (k + n) - 1
    <3>1. Place(new, k) = x % Capacity /\ Place(rb, k + n) = y % Capacity
      BY DEF Place
    <3>2. CASE new.read_idx = rb.read_idx + n
      <4>1. x = y
        BY <1>1, <2>1, <3>2
      <4> QED
        BY <3>1, <4>1
    <3>3. CASE new.read_idx = rb.read_idx + n - Capacity /\ rb.read_idx + n >= Capacity
      <4>0. PICK f \in Nat : f = rb.read_idx
        BY <1>1
      <4>1. x \in Nat /\ y \in Nat /\ x = y - Capacity
        <5>1. x = f + n - Capacity + k - 1 /\ y = f + (k + n) - 1 /\ f + n >= Capacity /\ k >= 1
          BY <3>3, <4>0
        <5> QED
          BY <1>1, <2>1, <5>1, CapacityAssumption, SMTT(30)
      <4>2. x < Capacity /\ y < 2 * Capacity
        <5>1. f < Capacity /\ k + n <= r /\ r <= Capacity /\ y = f + (k + n) - 1
          BY <1>1, <2>1, <4>0
        <5>2. y < 2 * Capacity
          BY <1>1, <2>1, <5>1, CapacityAssumption
        <5> QED
          BY <4>1, <5>2, CapacityAssumption
      <4> HIDE DEF x, y
      <4>3. x < 2 * Capacity /\ ~(y < Capacity)
        BY <4>1, <4>2, CapacityAssumption
      <4>4. x % Capacity = x /\ y % Capacity = y - Capacity
        BY <4>1, <4>2, <4>3, Wrapped
      <4> QED
        BY <3>1, <4>1, <4>4
    <3> QED
      BY <1>2, <3>2, <3>3
  <2>5. contents(new)[k] = new.data[Place(new, k)]
    BY <1>3, ContentsAreRead
  <2>6. contents(rb)[k + n] = rb.data[Place(rb, k + n)]
    BY <2>1, ContentsAreRead DEF r
  <2> QED
    BY <1>2, <2>4, <2>5, <2>6
<1>5. Len(contents(new)) = r - n
  BY <1>3, ContentsAreRead
<1> QED
  BY <1>3, <1>4, <1>5 DEF new, r

(* peek and peek_back are the ends of what the buffer holds.               *)
LEMMA PeeksAreEnds ==
  ASSUME NEW E, NEW rb \in Rings(E), readable_elements(rb) > 0
  PROVE  /\ peek(rb) = contents(rb)[1]
         /\ peek_back(rb) = contents(rb)[readable_elements(rb)]
<1> DEFINE r == readable_elements(rb)
<1>1. /\ rb.read_idx \in Nat /\ rb.write_idx \in Nat /\ rb.read_idx < Capacity
      /\ rb.write_idx - rb.read_idx <= Capacity
      /\ r = rb.write_idx - rb.read_idx /\ r \in Nat /\ r > 0
      /\ 1 \in 1 .. r /\ r \in 1 .. r
  BY CapacityAssumption, RingFields DEF readable_elements
<1>2. peek(rb) = rb.data[Place(rb, 1)]
  <2>1. rb.read_idx + 1 - 1 = rb.read_idx
    BY <1>1
  <2> QED
    BY <2>1 DEF peek, read_offset, Place
<1>3. Place(rb, r) = IF write_offset(rb) = 0 THEN Capacity - 1 ELSE write_offset(rb) - 1
  <2>1. write_offset(rb) = IF rb.write_idx < Capacity THEN rb.write_idx ELSE rb.write_idx - Capacity
    BY <1>1, Wrapped, CapacityAssumption DEF write_offset
  <2>2. Place(rb, r) = IF rb.read_idx + r - 1 < Capacity THEN rb.read_idx + r - 1
                       ELSE rb.read_idx + r - 1 - Capacity
    BY <1>1, RingPlaces
  <2> QED
    BY <1>1, <2>1, <2>2, CapacityAssumption
<1> QED
  BY <1>1, <1>2, <1>3, ContentsAreRead DEF peek_back

(* Elements of the queue of pending submissions                            *)
Submissions == [number : Nat, complete : BOOLEAN]
SubmissionRings ==
  {rb \in Rings(Submissions \cup {NoElement}) :
     \A k \in 1 .. Len(contents(rb)) : contents(rb)[k] \in Submissions}

LEMMA SubmissionRingIs ==
  ASSUME NEW rb \in SubmissionRings
  PROVE  /\ rb \in Rings(Submissions \cup {NoElement}) /\ indices_are_sound(rb)
         /\ contents(rb) \in Seq(Submissions) /\ Len(contents(rb)) = readable_elements(rb)
         /\ readable_elements(rb) \in Nat
<1>1. /\ rb \in Rings(Submissions \cup {NoElement}) /\ indices_are_sound(rb)
      /\ \A k \in 1 .. Len(contents(rb)) : contents(rb)[k] \in Submissions
  BY DEF SubmissionRings, Rings
<1>2. /\ contents(rb) \in Seq(Submissions \cup {NoElement}) /\ Len(contents(rb)) = readable_elements(rb)
      /\ readable_elements(rb) \in Nat
  BY <1>1, ContentsAreRead, RingFields, CapacityAssumption
<1> QED
  BY <1>1, <1>2

LEMMA EmptyRing ==
  empty_buffer \in SubmissionRings /\ contents(empty_buffer) = <<>>
<1>1. empty_buffer \in Rings(Submissions \cup {NoElement})
  BY CapacityAssumption DEF empty_buffer, Rings, indices_are_sound
<1>2. readable_elements(empty_buffer) = 0
  BY DEF empty_buffer, readable_elements
<1>3. contents(empty_buffer) \in Seq(Submissions \cup {NoElement}) /\ Len(contents(empty_buffer)) = 0
  BY <1>1, <1>2, ContentsAreRead
<1> QED
  BY <1>1, <1>3 DEF SubmissionRings

LEMMA EnqueueKeeps ==
  ASSUME NEW rb \in SubmissionRings, NEW e \in Submissions, writable_elements(rb) > 0
  PROVE  /\ enqueue(rb, e) \in SubmissionRings
         /\ contents(enqueue(rb, e)) = Append(contents(rb), e)
<1>1. rb \in Rings(Submissions \cup {NoElement}) /\ contents(rb) \in Seq(Submissions)
  BY SubmissionRingIs
<1>2. /\ enqueue(rb, e) \in Rings(Submissions \cup {NoElement})
      /\ contents(enqueue(rb, e)) = Append(contents(rb), e)
  BY <1>1, EnqueueAppends
<1>3. Append(contents(rb), e) \in Seq(Submissions)
  BY <1>1
<1> QED
  BY <1>2, <1>3 DEF SubmissionRings

(* What is left of a queue when n are removed from the front               *)
Without(s, n) == SubSeq(s, n + 1, Len(s))

LEMMA AdvanceKeeps ==
  ASSUME NEW rb \in SubmissionRings, NEW n \in 0 .. readable_elements(rb)
  PROVE  /\ advance_read_index(rb, n) \in SubmissionRings
         /\ contents(advance_read_index(rb, n)) = Without(contents(rb), n)
<1> DEFINE new == advance_read_index(rb, n)
           s == contents(rb)
<1>1. /\ rb \in Rings(Submissions \cup {NoElement}) /\ s \in Seq(Submissions)
      /\ Len(s) = readable_elements(rb) /\ readable_elements(rb) \in Nat
  BY SubmissionRingIs
<1>2. /\ new \in Rings(Submissions \cup {NoElement})
      /\ Len(contents(new)) = Len(s) - n
      /\ \A k \in 1 .. Len(s) - n : contents(new)[k] = s[k + n]
  BY <1>1, AdvanceDrops
<1>3. contents(new) \in Seq(Submissions \cup {NoElement})
  BY <1>2, ContentsAreRead
<1> HIDE DEF new, s
<1>4. contents(new) = Without(s, n)
  <2>1. /\ Without(s, n) \in Seq(Submissions) /\ Len(Without(s, n)) = Len(s) - n
        /\ \A k \in 1 .. Len(s) - n : Without(s, n)[k] = s[k + n]
    BY <1>1 DEF Without
  <2>2. /\ Len(contents(new)) = Len(Without(s, n))
        /\ \A k \in 1 .. Len(contents(new)) : contents(new)[k] = Without(s, n)[k]
    BY <1>2, <2>1
  <2> QED
    BY <1>3, <2>1, <2>2, SeqEqual, SMTT(30)
<1>5. \A k \in 1 .. Len(contents(new)) : contents(new)[k] \in Submissions
  BY <1>1, <1>2
<1> QED
  BY <1>2, <1>4, <1>5 DEF new, s, SubmissionRings

(* The leading complete elements: as many as there are in front of the     *)
(* first one that is not complete.                                         *)
LEMMA LeadingCompleteIs ==
  ASSUME NEW rb \in SubmissionRings
  PROVE  LET n == LeadingComplete(rb) IN
         /\ n \in 0 .. readable_elements(rb)
         /\ \A k \in 1 .. n : contents(rb)[k].complete
         /\ n < readable_elements(rb) => ~contents(rb)[n + 1].complete
<1> DEFINE r == readable_elements(rb)
           left == {n \in 0 .. r : n < r => ~contents(rb)[n + 1].complete}
<1>1. r \in Nat
  BY SubmissionRingIs
<1> HIDE DEF r
<1>2. r \in left
  BY <1>1
<1>3. PICK n \in left : \A m \in left : n <= m
  <2>1. left \in SUBSET Nat /\ left # {}
    BY <1>1, <1>2
  <2> HIDE DEF left
  <2> QED
    BY <2>1, SmallestNumber
<1>4. ASSUME NEW k \in 1 .. n PROVE contents(rb)[k].complete
  <2>1. k - 1 \in 0 .. r /\ k - 1 < r /\ (k - 1) + 1 = k /\ ~(n <= k - 1)
    BY <1>1, <1>3
  <2> QED
    BY <1>3, <2>1
<1>5. n \in 0 .. r /\ (n < r => ~contents(rb)[n + 1].complete)
  BY <1>3
<1> HIDE DEF left
<1> QED
  BY <1>4, <1>5 DEF LeadingComplete, r

(* dequeue_completed_submissions drops completed elements in front, up to  *)
(* the first open one.                                                     *)
LEMMA CleaningKeeps ==
  ASSUME NEW rb \in SubmissionRings
  PROVE  /\ dequeue_completed_submissions(rb) \in SubmissionRings
         /\ \E n \in 0 .. Len(contents(rb)) :
              /\ \A k \in 1 .. n : contents(rb)[k].complete
              /\ n < Len(contents(rb)) => ~contents(rb)[n + 1].complete
              /\ contents(dequeue_completed_submissions(rb)) = Without(contents(rb), n)
<1>1. Len(contents(rb)) = readable_elements(rb)
  BY SubmissionRingIs
<1> QED
  BY <1>1, LeadingCompleteIs, AdvanceKeeps DEF dequeue_completed_submissions

(* Flagging a number changes the elements that have it.                    *)
LEMMA FlaggedKeeps ==
  ASSUME NEW rb \in SubmissionRings, NEW n \in Nat
  PROVE  /\ Flagged(rb, n) \in SubmissionRings
         /\ Len(contents(Flagged(rb, n))) = Len(contents(rb))
         /\ \A k \in 1 .. Len(contents(rb)) :
              contents(Flagged(rb, n))[k] =
                IF contents(rb)[k].number = n THEN [contents(rb)[k] EXCEPT !.complete = TRUE]
                ELSE contents(rb)[k]
<1> DEFINE E == Submissions \cup {NoElement}
           new == Flagged(rb, n)
           r == readable_elements(rb)
           flagged == [i \in 0 .. Capacity - 1 |->
                        IF i \in peek_iterate(rb) /\ rb.data[i].number = n
                        THEN [rb.data[i] EXCEPT !.complete = TRUE] ELSE rb.data[i]]
<1>1. /\ rb \in Rings(E) /\ contents(rb) \in Seq(Submissions) /\ Len(contents(rb)) = r /\ r \in Nat
  BY SubmissionRingIs
<1>2. /\ rb.data \in [0 .. Capacity - 1 -> E] /\ rb.read_idx \in Nat /\ rb.write_idx \in Nat
      /\ rb \in [data : [0 .. Capacity - 1 -> E], write_idx : Nat, read_idx : Nat]
      /\ rb.read_idx < Capacity
  BY <1>1, RingFields
<1>3. \A k \in 1 .. r : Place(rb, k) \in 0 .. Capacity - 1 /\ contents(rb)[k] = rb.data[Place(rb, k)]
  BY <1>1, RingPlaces, ContentsAreRead
<1>4. /\ \A k \in 1 .. r : Place(rb, k) \in peek_iterate(rb)
      /\ \A i \in peek_iterate(rb) : \E k \in 1 .. r : i = Place(rb, k)
  <2>1. read_offset(rb) = rb.read_idx
    BY <1>2, Wrapped, CapacityAssumption DEF read_offset
  <2>2. ASSUME NEW k \in 1 .. r PROVE Place(rb, k) \in peek_iterate(rb)
    <3>1. k - 1 \in 0 .. r - 1 /\ rb.read_idx + (k - 1) = rb.read_idx + k - 1
      BY <1>1, <1>2
    <3> QED
      BY <2>1, <3>1 DEF peek_iterate, Place
  <2>3. ASSUME NEW k \in 0 .. r - 1 PROVE \E j \in 1 .. r : (rb.read_idx + k) % Capacity = Place(rb, j)
    <3>1. k + 1 \in 1 .. r /\ rb.read_idx + (k + 1) - 1 = rb.read_idx + k
      BY <1>1, <1>2
    <3> QED
      BY <3>1 DEF Place
  <2> QED
    BY <2>1, <2>2, <2>3 DEF peek_iterate
<1>5. new = [rb EXCEPT !.data = flagged]
  BY <1>2 DEF Flagged
<1>6. flagged \in [0 .. Capacity - 1 -> E]
  <2>1. ASSUME NEW i \in peek_iterate(rb) PROVE [rb.data[i] EXCEPT !.complete = TRUE] \in Submissions
    <3>1. PICK k \in 1 .. r : i = Place(rb, k)
      BY <1>4
    <3>2. rb.data[i] \in Submissions
      BY <1>1, <1>3, <3>1
    <3> QED
      BY <3>2 DEF Submissions
  <2> QED
    BY <1>2, <2>1
<1>7. /\ new.data = flagged /\ new.read_idx = rb.read_idx /\ new.write_idx = rb.write_idx
      /\ new \in [data : [0 .. Capacity - 1 -> E], write_idx : Nat, read_idx : Nat]
  <2> HIDE DEF new, flagged, E
  <2> QED
    BY <1>2, <1>5, <1>6
<1>8. new \in Rings(E) /\ readable_elements(new) = r
  <2> HIDE DEF new, flagged, E
  <2> QED
    BY <1>1, <1>7 DEF Rings, indices_are_sound, readable_elements
<1>9. Len(contents(new)) = r /\ contents(new) \in Seq(E)
  BY <1>8, ContentsAreRead
<1>10. ASSUME NEW k \in 1 .. r
       PROVE  contents(new)[k] = IF contents(rb)[k].number = n THEN [contents(rb)[k] EXCEPT !.complete = TRUE]
                                 ELSE contents(rb)[k]
  <2>1. contents(new)[k] = new.data[Place(new, k)] /\ Place(new, k) = Place(rb, k)
    <3>1. Place(new, k) = Place(rb, k)
      BY <1>7 DEF Place
    <3>2. contents(new)[k] = new.data[Place(new, k)]
      BY <1>8, ContentsAreRead
    <3> QED
      BY <3>1, <3>2
  <2>2. flagged[Place(rb, k)] = IF rb.data[Place(rb, k)].number = n
                                THEN [rb.data[Place(rb, k)] EXCEPT !.complete = TRUE] ELSE rb.data[Place(rb, k)]
    BY <1>3, <1>4
  <2> HIDE DEF new, flagged
  <2> QED
    BY <1>3, <1>7, <2>1, <2>2
<1>11. \A k \in 1 .. r : contents(new)[k] \in Submissions
  <2> SUFFICES ASSUME NEW k \in 1 .. r PROVE contents(new)[k] \in Submissions
    OBVIOUS
  <2>1. contents(rb)[k] \in Submissions
    BY <1>1
  <2> HIDE DEF new, r
  <2> QED
    BY <1>10, <2>1 DEF Submissions
<1> HIDE DEF new
<1>12. new \in SubmissionRings
  BY <1>8, <1>9, <1>11 DEF SubmissionRings
<1> QED
  BY <1>1, <1>9, <1>10, <1>12 DEF new

(* Numbers that are not complete; numbers in order; the first is open      *)
OpenNumbers(s) == {s[k].number : k \in {i \in 1 .. Len(s) : ~s[i].complete}}
InNumberOrder(s) == \A i, j \in 1 .. Len(s) : i < j => s[i].number < s[j].number
FrontIsOpen(s) == s # <<>> => ~s[1].complete
NumbersOf(s) == {s[k].number : k \in 1 .. Len(s)}

LEMMA WithoutIs ==
  ASSUME NEW s \in Seq(Submissions), NEW n \in 0 .. Len(s)
  PROVE  /\ Without(s, n) \in Seq(Submissions) /\ Len(Without(s, n)) = Len(s) - n
         /\ \A k \in 1 .. Len(s) - n : Without(s, n)[k] = s[k + n]
         /\ InNumberOrder(s) => InNumberOrder(Without(s, n))
         /\ NumbersOf(Without(s, n)) \subseteq NumbersOf(s)
<1> DEFINE t == Without(s, n)
<1>1. /\ t \in Seq(Submissions) /\ Len(t) = Len(s) - n
      /\ \A k \in 1 .. Len(s) - n : t[k] = s[k + n]
  BY DEF Without
<1>2. Len(s) \in Nat /\ n \in Nat /\ n <= Len(s)
  OBVIOUS
<1> HIDE DEF t
<1>3. \A k \in 1 .. Len(t) : k + n \in 1 .. Len(s) /\ t[k] = s[k + n]
  BY <1>1, <1>2
<1>4. ASSUME InNumberOrder(s), NEW i \in 1 .. Len(t), NEW j \in 1 .. Len(t), i < j
      PROVE  t[i].number < t[j].number
  <2>1. i + n \in 1 .. Len(s) /\ j + n \in 1 .. Len(s) /\ i + n < j + n
    BY <1>1, <1>2, <1>3, <1>4
  <2> QED
    BY <1>3, <1>4, <2>1 DEF InNumberOrder
<1>5. NumbersOf(t) \subseteq NumbersOf(s)
  BY <1>3 DEF NumbersOf
<1> QED
  BY <1>1, <1>4, <1>5 DEF t, InNumberOrder

LEMMA WithoutComplete ==
  ASSUME NEW s \in Seq(Submissions), NEW n \in 0 .. Len(s), \A k \in 1 .. n : s[k].complete
  PROVE  OpenNumbers(Without(s, n)) = OpenNumbers(s)
<1> DEFINE t == Without(s, n)
<1>1. /\ Len(t) = Len(s) - n /\ \A k \in 1 .. Len(s) - n : t[k] = s[k + n]
      /\ Len(s) \in Nat /\ n \in Nat /\ n <= Len(s)
  BY WithoutIs
<1> HIDE DEF t
<1>2. ASSUME NEW k \in 1 .. Len(t), ~t[k].complete
      PROVE  k + n \in 1 .. Len(s) /\ ~s[k + n].complete /\ t[k].number = s[k + n].number
  BY <1>1, <1>2
<1>3. ASSUME NEW k \in 1 .. Len(s), ~s[k].complete
      PROVE  k - n \in 1 .. Len(t) /\ t[k - n] = s[k]
  <2>1. k > n
    BY <1>1, <1>3
  <2> QED
    BY <1>1, <2>1
<1> QED
  BY <1>2, <1>3 DEF OpenNumbers, t

(* Cleaning up leaves the open numbers and their order, and an open        *)
(* element in front.                                                       *)
LEMMA CleaningOpens ==
  ASSUME NEW rb \in SubmissionRings, InNumberOrder(contents(rb))
  PROVE  LET t == contents(dequeue_completed_submissions(rb)) IN
         /\ dequeue_completed_submissions(rb) \in SubmissionRings
         /\ InNumberOrder(t) /\ FrontIsOpen(t)
         /\ OpenNumbers(t) = OpenNumbers(contents(rb))
         /\ NumbersOf(t) \subseteq NumbersOf(contents(rb))
<1> DEFINE s == contents(rb)
           t == contents(dequeue_completed_submissions(rb))
<1>1. s \in Seq(Submissions)
  BY SubmissionRingIs
<1>2. /\ dequeue_completed_submissions(rb) \in SubmissionRings
      /\ \E n \in 0 .. Len(s) :
           (\A k \in 1 .. n : s[k].complete) /\ (n < Len(s) => ~s[n + 1].complete) /\ t = Without(s, n)
  BY CleaningKeeps
<1> HIDE DEF s, t
<1>3. PICK n \in 0 .. Len(s) :
        (\A k \in 1 .. n : s[k].complete) /\ (n < Len(s) => ~s[n + 1].complete) /\ t = Without(s, n)
  BY <1>2
<1>4. /\ t \in Seq(Submissions) /\ Len(t) = Len(s) - n /\ \A k \in 1 .. Len(s) - n : t[k] = s[k + n]
      /\ InNumberOrder(t) /\ NumbersOf(t) \subseteq NumbersOf(s)
  BY <1>1, <1>3, WithoutIs DEF s
<1>5. OpenNumbers(t) = OpenNumbers(s)
  BY <1>1, <1>3, WithoutComplete
<1>6. FrontIsOpen(t)
  <2> SUFFICES ASSUME t # <<>> PROVE ~t[1].complete
    BY DEF FrontIsOpen
  <2>1. Len(t) > 0 /\ n < Len(s) /\ 1 \in 1 .. Len(s) - n /\ 1 + n = n + 1
    BY <1>1, <1>4
  <2> QED
    BY <1>3, <1>4, <2>1
<1> QED
  BY <1>2, <1>4, <1>5, <1>6 DEF s, t

(* A completed submission is no longer open, and the others are as before. *)
LEMMA CompletedSubmissionIs ==
  ASSUME NEW rb \in SubmissionRings, NEW n \in OpenNumbers(contents(rb)), n \in Nat,
         InNumberOrder(contents(rb))
  PROVE  LET t == contents(completed_submission(rb, n)) IN
         /\ completed_submission(rb, n) \in SubmissionRings
         /\ InNumberOrder(t) /\ FrontIsOpen(t)
         /\ OpenNumbers(t) = OpenNumbers(contents(rb)) \ {n}
         /\ NumbersOf(t) \subseteq NumbersOf(contents(rb))
<1> DEFINE cleaned == dequeue_completed_submissions(rb)
           c == contents(cleaned)
           new == completed_submission(rb, n)
<1>1. /\ cleaned \in SubmissionRings /\ InNumberOrder(c) /\ FrontIsOpen(c)
      /\ OpenNumbers(c) = OpenNumbers(contents(rb)) /\ NumbersOf(c) \subseteq NumbersOf(contents(rb))
  BY CleaningOpens
<1>2. new = IF readable_elements(cleaned) > 0 /\ peek(cleaned).number = n
            THEN dequeue_completed_submissions(dequeue(cleaned)) ELSE Flagged(cleaned, n)
  BY DEF completed_submission
<1> HIDE DEF cleaned, new
<1>3. /\ c \in Seq(Submissions) /\ Len(c) = readable_elements(cleaned) /\ readable_elements(cleaned) \in Nat
      /\ cleaned \in Rings(Submissions \cup {NoElement})
  BY <1>1, SubmissionRingIs
<1>5. readable_elements(cleaned) > 0 => peek(cleaned) = c[1]
  BY <1>3, PeeksAreEnds
<1> HIDE DEF c
<1>4. \A k \in 1 .. Len(c) : c[k] \in Submissions /\ c[k].number \in Nat
  <2>1. \A k \in 1 .. Len(c) : c[k] \in Submissions
    BY <1>3
  <2> QED
    BY <2>1 DEF Submissions
<1>6. CASE readable_elements(cleaned) > 0 /\ peek(cleaned).number = n
  <2> DEFINE next == dequeue(cleaned)
             d == contents(next)
  <2>1. 1 \in 0 .. Len(c) /\ c[1].number = n /\ ~c[1].complete
    BY <1>1, <1>3, <1>5, <1>6 DEF FrontIsOpen
  <2>2. next \in SubmissionRings /\ d = Without(c, 1)
    BY <1>1, <1>3, <2>1, AdvanceKeeps DEF dequeue, c
  <2> HIDE DEF next, d
  <2>3. /\ InNumberOrder(d) /\ NumbersOf(d) \subseteq NumbersOf(c)
        /\ Len(d) = Len(c) - 1 /\ \A k \in 1 .. Len(c) - 1 : d[k] = c[k + 1]
    BY <1>1, <1>3, <2>1, <2>2, WithoutIs
  <2>4. OpenNumbers(d) = OpenNumbers(c) \ {n}
    <3>1. ASSUME NEW k \in 1 .. Len(d), ~d[k].complete
          PROVE  d[k].number \in OpenNumbers(c) /\ d[k].number # n
      <4>1. k + 1 \in 1 .. Len(c) /\ d[k] = c[k + 1] /\ 1 < k + 1 /\ 1 \in 1 .. Len(c)
        BY <1>3, <2>1, <2>3
      <4>2. c[1].number < c[k + 1].number
        BY <1>1, <4>1 DEF InNumberOrder
      <4> QED
        BY <1>4, <2>1, <3>1, <4>1, <4>2 DEF OpenNumbers
    <3>2. ASSUME NEW k \in 1 .. Len(c), ~c[k].complete, c[k].number # n
          PROVE  k - 1 \in 1 .. Len(d) /\ d[k - 1] = c[k]
      <4>1. k # 1
        BY <2>1, <3>2
      <4>2. k - 1 \in 1 .. Len(c) - 1 /\ (k - 1) + 1 = k
        BY <1>3, <4>1
      <4>3. d[k - 1] = c[(k - 1) + 1]
        BY <2>3, <4>2
      <4> QED
        BY <2>3, <4>2, <4>3
    <3>3. OpenNumbers(d) \subseteq OpenNumbers(c) \ {n}
      BY <3>1 DEF OpenNumbers
    <3>4. OpenNumbers(c) \ {n} \subseteq OpenNumbers(d)
      BY <3>2 DEF OpenNumbers
    <3> QED
      BY <3>3, <3>4
  <2>5. new = dequeue_completed_submissions(next)
    BY <1>2, <1>6 DEF next
  <2>6. /\ new \in SubmissionRings /\ InNumberOrder(contents(new)) /\ FrontIsOpen(contents(new))
        /\ OpenNumbers(contents(new)) = OpenNumbers(d) /\ NumbersOf(contents(new)) \subseteq NumbersOf(d)
    BY <2>2, <2>3, <2>5, CleaningOpens DEF d
  <2> QED
    BY <1>1, <2>3, <2>4, <2>6 DEF new
<1>7. CASE ~(readable_elements(cleaned) > 0 /\ peek(cleaned).number = n)
  <2> DEFINE d == contents(new)
  <2>1. new = Flagged(cleaned, n)
    BY <1>2, <1>7
  <2>2. /\ new \in SubmissionRings /\ Len(d) = Len(c)
        /\ \A k \in 1 .. Len(c) :
             d[k] = IF c[k].number = n THEN [c[k] EXCEPT !.complete = TRUE] ELSE c[k]
    BY <1>1, <2>1, FlaggedKeeps, SMTT(30) DEF c
  <2> HIDE DEF d
  <2>3. \A k \in 1 .. Len(c) : d[k].number = c[k].number /\ d[k].complete = (c[k].complete \/ c[k].number = n)
    <3> SUFFICES ASSUME NEW k \in 1 .. Len(c)
                 PROVE  d[k].number = c[k].number /\ d[k].complete = (c[k].complete \/ c[k].number = n)
      OBVIOUS
    <3>0. c[k] \in Submissions /\ d[k] = IF c[k].number = n THEN [c[k] EXCEPT !.complete = TRUE] ELSE c[k]
      BY <1>4, <2>2
    <3>1. CASE c[k].number = n
      BY <3>0, <3>1 DEF Submissions
    <3>2. CASE c[k].number # n
      BY <3>0, <3>2 DEF Submissions
    <3> QED
      BY <3>1, <3>2
  <2>4. InNumberOrder(d) /\ NumbersOf(d) \subseteq NumbersOf(c)
    BY <1>1, <2>2, <2>3 DEF InNumberOrder, NumbersOf
  <2>5. OpenNumbers(d) = OpenNumbers(c) \ {n}
    BY <2>2, <2>3 DEF OpenNumbers
  <2>6. FrontIsOpen(d)
    <3> SUFFICES ASSUME d # <<>> PROVE ~d[1].complete
      BY DEF FrontIsOpen
    <3>1. d \in Seq(Submissions)
      BY <2>2, SubmissionRingIs DEF d
    <3>2. readable_elements(cleaned) > 0 /\ 1 \in 1 .. Len(c) /\ c # <<>>
      BY <1>3, <2>2, <3>1
    <3> QED
      BY <1>1, <1>5, <1>7, <2>3, <3>2 DEF FrontIsOpen
  <2> QED
    BY <1>1, <2>2, <2>4, <2>5, <2>6 DEF new, d
<1> QED
  BY <1>6, <1>7

-----------------------------------------------------------------------------
(* The Metal 4 queue                                                       *)

(* Command buffers of the Metal 4 queue                                    *)
CommandBuffers == [pool : Actors, slot : MetalSlots, number : Nat, handler : {"none", "submit"}]

MetalTypeOK ==
  /\ metal_ctx \in {"up", "handler_gone", "shutdown"}
  /\ unused \in [Actors -> SUBSET MetalSlots]
  /\ completed \in [Actors -> [MetalSlots -> BOOLEAN]]
  /\ submission_counter \in Nat /\ pending_submissions \in SubmissionRings
  /\ step \in [Actors -> {"idle", "recording", "enqueue", "commit", "wait", "handlers", "release",
                          "finishing", "exited"}]
  /\ held \in [Actors -> MetalSlots \cup {NoSlot}]
  /\ call \in [Actors -> [blocking : BOOLEAN, handler : {"none", "submit"}, number : Nat]]
  /\ stack \in [Actors -> Seq(CommandBuffers)]
  /\ on_device \in SUBSET CommandBuffers /\ work_queue \in Seq(CommandBuffers)
  /\ last \in [MetalThreads -> Nat] /\ finished \in Nat

(* An actor completes at most two command buffers, the second one for a    *)
(* handler of the first one, which waits for it and has no handler then.   *)
ActorInv(a) ==
  /\ held[a] # NoSlot <=> step[a] \in {"recording", "enqueue", "commit"}
  /\ step[a] \in {"wait", "handlers", "release"} => stack[a] # <<>>
  /\ step[a] \in {"idle", "finishing", "exited"} => stack[a] = <<>>
  /\ Len(stack[a]) \in {0, 1, 2}
  /\ held[a] # NoSlot => Len(stack[a]) \in {0, 1}
  /\ Len(stack[a]) = 2 => stack[a][1].handler = "none" /\ stack[a][2].handler = "none"
  /\ held[a] # NoSlot /\ stack[a] # <<>> => stack[a][1].handler = "none"
  /\ step[a] \in {"enqueue", "commit"} /\ stack[a] # <<>> => call[a].blocking /\ call[a].handler = "none"
  /\ step[a] = "release" => Top(a).handler = "none"

(* The places a command buffer can be at: recorded or submitted by an      *)
(* actor (0), among the ones an actor completes, or in the line of the     *)
(* completion handler                                                      *)
HandlerLine == CHOOSE q : q \notin Actors
Lines == Actors \cup {HandlerLine}
Occupied(x, k) ==
  IF x = HandlerLine THEN k \in 1 .. Len(work_queue)
  ELSE k \in 1 .. Len(stack[x]) \/ (k = 0 /\ held[x] # NoSlot)
PoolOf(x, k) == IF x = HandlerLine THEN work_queue[k].pool ELSE IF k = 0 THEN x ELSE stack[x][k].pool
SlotOf(x, k) ==
  IF x = HandlerLine THEN work_queue[k].slot ELSE IF k = 0 THEN held[x] ELSE stack[x][k].slot
NumberOf(x, k) ==
  IF x = HandlerLine THEN work_queue[k].number ELSE IF k = 0 THEN call[x].number ELSE stack[x][k].number
(* Places whose number was handed out and is not reported as completed     *)
Reports(x, k) ==
  /\ Occupied(x, k)
  /\ \/ x = HandlerLine
     \/ k = 0 /\ step[x] = "commit"
     \/ k # 0 /\ ~(step[x] = "release" /\ k = Len(stack[x]))

(* A command buffer is unused, dropped, or in one place.                   *)
PlacesInv ==
  /\ \A x, y \in Lines, k, l \in Nat :
       Occupied(x, k) /\ Occupied(y, l) /\ PoolOf(x, k) = PoolOf(y, l) /\ SlotOf(x, k) = SlotOf(y, l)
       => x = y /\ k = l
  /\ \A x \in Lines, k \in Nat :
       Occupied(x, k) => SlotOf(x, k) \notin unused[PoolOf(x, k)] /\ <<PoolOf(x, k), SlotOf(x, k)>> \notin dropped
  /\ \A p \in Actors, s \in MetalSlots : s \in unused[p] => <<p, s>> \notin dropped
  /\ \A p \in Actors, s \in MetalSlots :
       \/ s \in unused[p] \/ <<p, s>> \in dropped
       \/ \E x \in Lines, k \in Nat : Occupied(x, k) /\ PoolOf(x, k) = p /\ SlotOf(x, k) = s

(* Where a command buffer is completed, and where it is not                *)
CompletedInv ==
  /\ \A p \in Actors, s \in MetalSlots : s \in unused[p] => completed[p][s]
  /\ \A a \in Actors :
       /\ step[a] = "recording" => completed[a][held[a]]
       /\ step[a] \in {"enqueue", "commit"} => ~completed[a][held[a]] \/ <<a, held[a]>> \in timed_out
       /\ \A k \in 1 .. Len(stack[a]) :
            completed[stack[a][k].pool][stack[a][k].slot] \/ (step[a] = "wait" /\ k = Len(stack[a]))

(* The device has a command buffer once, and nobody else records it.       *)
DeviceInv ==
  /\ \A b \in on_device : Id(b) \notin timed_out => ~completed[b.pool][b.slot] /\ held[b.pool] # b.slot
  /\ \A b, c \in on_device : Id(b) = Id(c) /\ Id(b) \notin timed_out => b = c

(* The open numbers are those of the places that report them.              *)
NumbersInv ==
  /\ \A x, y \in Lines, k, l \in Nat :
       Reports(x, k) /\ Reports(y, l) /\ NumberOf(x, k) = NumberOf(y, l) => x = y /\ k = l
  /\ \A x \in Lines, k \in Nat : Reports(x, k) => NumberOf(x, k) \in OpenNumbers(Pending)
  /\ dropped = {} =>
       \A n \in OpenNumbers(Pending) : \E x \in Lines, k \in Nat : Reports(x, k) /\ NumberOf(x, k) = n

RingInv ==
  /\ InNumberOrder(Pending) /\ FrontIsOpen(Pending)
  /\ \A n \in NumbersOf(Pending) : n < submission_counter
  /\ finished < submission_counter
  /\ \A t \in MetalThreads : last[t] < submission_counter
  /\ \A n \in OpenNumbers(Pending) : n > finished

MetalInv ==
  /\ MetalTypeOK /\ \A a \in Actors : ActorInv(a)
  /\ PlacesInv /\ CompletedInv /\ DeviceInv /\ NumbersInv /\ RingInv
MetalInductive == undefined = "no" => MetalInv
-----------------------------------------------------------------------------
LEMMA TheLineIsNoActor == HandlerLine \notin Actors
<1>1. \E q : q \notin Actors
  BY NoSetContainsEverything
<1> QED
  BY <1>1 DEF HandlerLine

(* What the type invariant says of single values                           *)
LEMMA MetalFields ==
  ASSUME MetalTypeOK
  PROVE  /\ \A a \in Actors : /\ stack[a] \in Seq(CommandBuffers) /\ Len(stack[a]) \in Nat
                              /\ \A k \in 1 .. Len(stack[a]) : stack[a][k] \in CommandBuffers
                              /\ unused[a] \in SUBSET MetalSlots
         /\ work_queue \in Seq(CommandBuffers) /\ Len(work_queue) \in Nat
         /\ \A k \in 1 .. Len(work_queue) : work_queue[k] \in CommandBuffers
         /\ \A b \in CommandBuffers : /\ b.pool \in Actors /\ b.slot \in MetalSlots /\ b.number \in Nat
                                      /\ b.handler \in {"none", "submit"} /\ Id(b) = <<b.pool, b.slot>>
<1>1. work_queue \in Seq(CommandBuffers) /\ \A a \in Actors : stack[a] \in Seq(CommandBuffers) /\ unused[a] \in SUBSET MetalSlots
  BY DEF MetalTypeOK
<1>2. \A b \in CommandBuffers : /\ b.pool \in Actors /\ b.slot \in MetalSlots /\ b.number \in Nat
                                /\ b.handler \in {"none", "submit"} /\ Id(b) = <<b.pool, b.slot>>
  BY DEF CommandBuffers, Id
<1> QED
  BY <1>1, <1>2

(* The command buffers of places are command buffers.                      *)
LEMMA PlacesAreTyped ==
  ASSUME MetalTypeOK, NEW x \in Lines, NEW k \in Nat, Occupied(x, k)
  PROVE  PoolOf(x, k) \in Actors /\ SlotOf(x, k) \in MetalSlots
<1>1. CASE x = HandlerLine
  BY <1>1, MetalFields DEF Occupied, PoolOf, SlotOf
<1>2. CASE x # HandlerLine /\ k = 0
  BY <1>2 DEF Occupied, PoolOf, SlotOf, Lines, MetalTypeOK
<1>3. CASE x # HandlerLine /\ k # 0
  <2>1. x \in Actors /\ k \in 1 .. Len(stack[x])
    BY <1>3, MetalFields DEF Lines, Occupied
  <2> QED
    BY <1>3, <2>1, MetalFields DEF PoolOf, SlotOf
<1> QED
  BY <1>1, <1>2, <1>3

(* Steps that move no command buffer                                       *)
LEMMA SamePlaces ==
  ASSUME UNCHANGED <<held, stack, work_queue, unused, dropped>>, PlacesInv
  PROVE  PlacesInv'
BY DEF PlacesInv, Occupied, PoolOf, SlotOf

(* The parts of the invariant that other steps leave alone                 *)
LEMMA SameReports ==
  ASSUME UNCHANGED <<held, stack, work_queue, dropped, call, pending_submissions>>, NumbersInv,
         \A a \in Actors : (step[a] = "commit" <=> step'[a] = "commit") /\ (step[a] = "release" <=> step'[a] = "release")
  PROVE  NumbersInv'
<1>1. \A x \in Lines, k \in Nat : (Reports(x, k)' <=> Reports(x, k)) /\ NumberOf(x, k)' = NumberOf(x, k)
  BY DEF Reports, Occupied, NumberOf, Lines
<1>2. OpenNumbers(Pending)' = OpenNumbers(Pending)
  BY DEF Pending
<1> QED
  BY <1>1, <1>2 DEF NumbersInv
LEMMA SameRing ==
  ASSUME UNCHANGED <<pending_submissions, submission_counter, last, finished>>, RingInv
  PROVE  RingInv'
BY DEF RingInv, Pending

(* Steps that change nothing but what one actor does                       *)
LEMMA OnlyTheStep ==
  ASSUME MetalInv, NEW a \in Actors, NEW l, GoTo(a, l),
         UNCHANGED <<unused, held, stack, work_queue, completed, call, on_device, dropped, timed_out>>,
         l \in {"idle", "wait", "handlers", "finishing", "exited"},
         step[a] \in {"idle", "wait", "handlers", "finishing", "exited"},
         l \in {"wait", "handlers"} <=> step[a] \in {"wait", "handlers"},
         l = "handlers" /\ stack[a] # <<>> => completed[Top(a).pool][Top(a).slot]
  PROVE  /\ step' \in [Actors -> {"idle", "recording", "enqueue", "commit", "wait", "handlers", "release",
                                  "finishing", "exited"}]
         /\ \A c \in Actors : ActorInv(c)'
         /\ PlacesInv' /\ CompletedInv' /\ DeviceInv'
<1>1. /\ step' = [step EXCEPT ![a] = l] /\ step'[a] = l
      /\ \A c \in Actors : c # a => step'[c] = step[c]
      /\ step' \in [Actors -> {"idle", "recording", "enqueue", "commit", "wait", "handlers", "release",
                               "finishing", "exited"}]
  BY DEF GoTo, MetalInv, MetalTypeOK
<1>2. ASSUME NEW c \in Actors PROVE ActorInv(c)'
  <2>1. ActorInv(c)
    BY DEF MetalInv
  <2>2. CASE c = a
    BY <1>1, <2>1, <2>2 DEF ActorInv
  <2>3. CASE c # a
    BY <1>1, <2>1, <2>3 DEF ActorInv, Top
  <2> QED
    BY <2>2, <2>3
<1>3. PlacesInv'
  BY SamePlaces DEF MetalInv
<1>4. CompletedInv'
  <2>1. CompletedInv
    BY DEF MetalInv
  <2>2. ASSUME NEW c \in Actors, NEW k \in 1 .. Len(stack[c])
        PROVE  completed[stack[c][k].pool][stack[c][k].slot] \/ (step'[c] = "wait" /\ k = Len(stack[c]))
    <3>1. completed[stack[c][k].pool][stack[c][k].slot] \/ (step[c] = "wait" /\ k = Len(stack[c]))
      BY <2>1, <2>2 DEF CompletedInv
    <3>2. stack[c] # <<>>
      BY <2>2, MetalFields DEF MetalInv
    <3> QED
      BY <1>1, <3>1, <3>2 DEF Top
  <2> QED
    BY <1>1, <2>1, <2>2 DEF CompletedInv
<1>5. DeviceInv'
  BY DEF MetalInv, DeviceInv, Id
<1> QED
  BY <1>1, <1>2, <1>3, <1>4, <1>5

LEMMA WaitEndsPreserves ==
  ASSUME MetalInv, NEW a \in Actors, wait_ends(a)
  PROVE  MetalInv'
<1>1. /\ step[a] = "wait" /\ completed[Top(a).pool][Top(a).slot] /\ GoTo(a, "handlers")
      /\ UNCHANGED <<metal_ctx, metalPool, completed, metalNumbers, held, call, stack, on_device, work_queue,
                     metalFinish, metalHistory, undefined>>
  BY DEF wait_ends
<1>2. /\ step' \in [Actors -> {"idle", "recording", "enqueue", "commit", "wait", "handlers", "release",
                               "finishing", "exited"}]
      /\ \A c \in Actors : ActorInv(c)'
      /\ PlacesInv' /\ CompletedInv' /\ DeviceInv'
  BY <1>1, OnlyTheStep DEF metalPool, metalHistory
<1>3. MetalTypeOK'
  BY <1>1, <1>2 DEF MetalInv, MetalTypeOK, metalPool, metalNumbers, metalFinish
<1>4. NumbersInv' /\ RingInv'
  <2>1. \A c \in Actors : (step[c] = "commit" <=> step'[c] = "commit") /\ (step[c] = "release" <=> step'[c] = "release")
    BY <1>1 DEF GoTo, MetalInv, MetalTypeOK
  <2> QED
    BY <1>1, <2>1, SameReports, SameRing DEF MetalInv, metalNumbers, metalFinish, metalHistory
<1> QED
  BY <1>2, <1>3, <1>4 DEF MetalInv

LEMMA FinishPreserves ==
  ASSUME MetalInv, NEW t \in MetalThreads, finish(t)
  PROVE  MetalInv'
<1> DEFINE n == peek_back(pending_submissions).number
<1>1. /\ step[t] = "idle" /\ GoTo(t, "finishing") /\ t \in Actors
      /\ readable_elements(pending_submissions) > 0 /\ last' = [last EXCEPT ![t] = n]
      /\ UNCHANGED <<metal_ctx, metalPool, completed, metalNumbers, held, call, stack, on_device, work_queue,
                     finished, metalHistory, undefined>>
  BY DEF finish, Actors
<1>2. /\ step' \in [Actors -> {"idle", "recording", "enqueue", "commit", "wait", "handlers", "release",
                               "finishing", "exited"}]
      /\ \A c \in Actors : ActorInv(c)'
      /\ PlacesInv' /\ CompletedInv' /\ DeviceInv'
  BY <1>1, OnlyTheStep DEF metalPool, metalHistory
<1>3. n \in Nat /\ n \in NumbersOf(Pending)
  <2>1. /\ pending_submissions \in Rings(Submissions \cup {NoElement})
        /\ Pending \in Seq(Submissions) /\ Len(Pending) = readable_elements(pending_submissions)
    BY SubmissionRingIs DEF MetalInv, MetalTypeOK, Pending
  <2>2. peek_back(pending_submissions) = Pending[Len(Pending)]
    BY <1>1, <2>1, PeeksAreEnds DEF Pending
  <2>3. Len(Pending) \in 1 .. Len(Pending) /\ Pending[Len(Pending)] \in Submissions
    BY <1>1, <2>1
  <2> QED
    BY <2>2, <2>3 DEF NumbersOf, Submissions
<1> HIDE DEF n
<1>4. MetalTypeOK'
  BY <1>1, <1>2, <1>3 DEF MetalInv, MetalTypeOK, metalPool, metalNumbers
<1>5. NumbersInv'
  <2>1. \A c \in Actors : (step[c] = "commit" <=> step'[c] = "commit") /\ (step[c] = "release" <=> step'[c] = "release")
    BY <1>1 DEF GoTo, MetalInv, MetalTypeOK
  <2> QED
    BY <1>1, <2>1, SameReports DEF MetalInv, metalNumbers, metalHistory
<1>6. RingInv'
  BY <1>1, <1>3 DEF MetalInv, MetalTypeOK, RingInv, Pending, metalNumbers
<1> QED
  BY <1>2, <1>4, <1>5, <1>6 DEF MetalInv

LEMMA FinishReturnsPreserves ==
  ASSUME MetalInv, NEW t \in MetalThreads, finish_returns(t)
  PROVE  MetalInv'
<1>1. /\ step[t] = "finishing" /\ GoTo(t, "idle") /\ t \in Actors
      /\ last' = [last EXCEPT ![t] = 0]
      /\ UNCHANGED <<metal_ctx, metalPool, completed, metalNumbers, held, call, stack, on_device, work_queue,
                     metalHistory, undefined>>
  BY DEF finish_returns, Actors
<1>2. /\ step' \in [Actors -> {"idle", "recording", "enqueue", "commit", "wait", "handlers", "release",
                               "finishing", "exited"}]
      /\ \A c \in Actors : ActorInv(c)'
      /\ PlacesInv' /\ CompletedInv' /\ DeviceInv'
  BY <1>1, OnlyTheStep DEF metalPool, metalHistory
<1>3. /\ last[t] \in Nat /\ finished \in Nat /\ submission_counter \in Nat
      /\ finished < submission_counter /\ last[t] < submission_counter
      /\ \A n \in OpenNumbers(Pending) : n > finished
  BY DEF MetalInv, MetalTypeOK, RingInv
<1>4. \/ finished' = finished
      \/ /\ readable_elements(pending_submissions) > 0 => peek(pending_submissions).number > last[t]
         /\ finished' = IF finished < last[t] THEN last[t] ELSE finished
  BY DEF finish_returns
<1>5. finished' \in Nat /\ finished' < submission_counter
  BY <1>3, <1>4
<1>6. \A n \in OpenNumbers(Pending) : n > finished'
  <2>1. CASE finished' = finished
    BY <1>3, <2>1
  <2>2. CASE finished' # finished
    <3>1. /\ readable_elements(pending_submissions) > 0 => peek(pending_submissions).number > last[t]
          /\ finished' = last[t]
      BY <1>4, <2>2
    <3>2. /\ pending_submissions \in Rings(Submissions \cup {NoElement})
          /\ Pending \in Seq(Submissions) /\ Len(Pending) = readable_elements(pending_submissions)
      BY SubmissionRingIs DEF MetalInv, MetalTypeOK, Pending
    <3>3. ASSUME NEW k \in 1 .. Len(Pending) PROVE Pending[k].number > last[t]
      <4>1. Pending[1].number > last[t] /\ 1 \in 1 .. Len(Pending)
        BY <3>1, <3>2, <3>3, PeeksAreEnds DEF Pending
      <4>2. Pending[1] \in Submissions /\ Pending[k] \in Submissions
        BY <3>2, <3>3, <4>1
      <4>3. Pending[1].number \in Nat /\ Pending[k].number \in Nat
        BY <4>2 DEF Submissions
      <4>4. InNumberOrder(Pending)
        BY DEF MetalInv, RingInv
      <4>5. k = 1 \/ Pending[1].number < Pending[k].number
        BY <3>3, <4>1, <4>4 DEF InNumberOrder
      <4> QED
        BY <1>3, <4>1, <4>3, <4>5
    <3> QED
      BY <3>1, <3>3 DEF OpenNumbers
  <2> QED
    BY <2>1, <2>2
<1>7. MetalTypeOK'
  BY <1>1, <1>2, <1>5 DEF MetalInv, MetalTypeOK, metalPool, metalNumbers
<1>8. NumbersInv'
  <2>1. \A c \in Actors : (step[c] = "commit" <=> step'[c] = "commit") /\ (step[c] = "release" <=> step'[c] = "release")
    BY <1>1 DEF GoTo, MetalInv, MetalTypeOK
  <2> QED
    BY <1>1, <2>1, SameReports DEF MetalInv, metalNumbers, metalHistory
<1>9. RingInv'
  <2>1. 0 < submission_counter
    BY <1>3
  <2> QED
    BY <1>1, <1>3, <1>5, <1>6, <2>1 DEF MetalInv, MetalTypeOK, RingInv, Pending, metalNumbers
<1> QED
  BY <1>2, <1>7, <1>8, <1>9 DEF MetalInv

LEMMA ThreadExitsPreserves ==
  ASSUME MetalInv, NEW t \in MetalThreads, thread_exit(t)
  PROVE  MetalInv'
<1>1. /\ step[t] = "idle" /\ GoTo(t, "exited") /\ t \in Actors
      /\ UNCHANGED <<metal_ctx, unused, completed, metalNumbers, held, call, stack, on_device, work_queue,
                     metalFinish, timed_out, dropped, undefined>>
  BY DEF thread_exit, Actors
<1>2. /\ step' \in [Actors -> {"idle", "recording", "enqueue", "commit", "wait", "handlers", "release",
                               "finishing", "exited"}]
      /\ \A c \in Actors : ActorInv(c)'
      /\ PlacesInv' /\ CompletedInv' /\ DeviceInv'
  BY <1>1, OnlyTheStep
<1>3. MetalTypeOK'
  BY <1>1, <1>2 DEF MetalInv, MetalTypeOK, metalNumbers, metalFinish
<1>4. NumbersInv' /\ RingInv'
  <2>1. \A c \in Actors : (step[c] = "commit" <=> step'[c] = "commit") /\ (step[c] = "release" <=> step'[c] = "release")
    BY <1>1 DEF GoTo, MetalInv, MetalTypeOK
  <2> QED
    BY <1>1, <2>1, SameReports, SameRing DEF MetalInv, metalNumbers, metalFinish
<1> QED
  BY <1>2, <1>3, <1>4 DEF MetalInv

LEMMA ShuttingDownPreserves ==
  ASSUME MetalInv, set_ctx_shutdown
  PROVE  MetalInv'
<1>1. /\ metal_ctx' = "shutdown"
      /\ UNCHANGED <<unused, completed, submission_counter, pending_submissions, step, held, call, stack,
                     on_device, work_queue, last, finished, timed_out, dropped>>
  BY DEF set_ctx_shutdown, metalPool, metalNumbers, metalActors, metalFinish, metalHistory
<1>2. MetalTypeOK'
  BY <1>1 DEF MetalInv, MetalTypeOK
<1>3. \A a \in Actors : ActorInv(a)'
  BY <1>1 DEF MetalInv, ActorInv, Top
<1>4. PlacesInv' /\ NumbersInv' /\ RingInv'
  BY <1>1, SamePlaces, SameReports, SameRing DEF MetalInv
<1>5. CompletedInv' /\ DeviceInv'
  BY <1>1 DEF MetalInv, CompletedInv, DeviceInv, Id
<1> QED
  BY <1>2, <1>3, <1>4, <1>5 DEF MetalInv

(* What an actor holds is in no other place.                               *)
LEMMA HeldIsNowhereElse ==
  ASSUME MetalInv, NEW a \in Actors, held[a] # NoSlot
  PROVE  /\ held[a] \in MetalSlots /\ held[a] \notin unused[a] /\ <<a, held[a]>> \notin dropped
         /\ \A c \in Actors : \A k \in 1 .. Len(stack[c]) : ~(stack[c][k].pool = a /\ stack[c][k].slot = held[a])
         /\ \A k \in 1 .. Len(work_queue) : ~(work_queue[k].pool = a /\ work_queue[k].slot = held[a])
<1>1. a # HandlerLine /\ a \in Lines /\ HandlerLine \in Lines
  BY TheLineIsNoActor DEF Lines
<1>2. Occupied(a, 0) /\ PoolOf(a, 0) = a /\ SlotOf(a, 0) = held[a]
  BY <1>1 DEF Occupied, PoolOf, SlotOf
<1>3. held[a] \in MetalSlots /\ held[a] \notin unused[a] /\ <<a, held[a]>> \notin dropped
  BY <1>1, <1>2 DEF MetalInv, MetalTypeOK, PlacesInv
<1>4. ASSUME NEW c \in Actors, NEW k \in 1 .. Len(stack[c])
      PROVE  ~(stack[c][k].pool = a /\ stack[c][k].slot = held[a])
  <2>1. c # HandlerLine /\ c \in Lines /\ k \in Nat /\ k # 0
    BY <1>4, TheLineIsNoActor DEF Lines
  <2>2. Occupied(c, k) /\ PoolOf(c, k) = stack[c][k].pool /\ SlotOf(c, k) = stack[c][k].slot
    BY <1>4, <2>1 DEF Occupied, PoolOf, SlotOf
  <2> QED
    BY <1>1, <1>2, <2>1, <2>2 DEF MetalInv, PlacesInv
<1>5. ASSUME NEW k \in 1 .. Len(work_queue)
      PROVE  ~(work_queue[k].pool = a /\ work_queue[k].slot = held[a])
  <2>1. k \in Nat /\ Occupied(HandlerLine, k) /\ PoolOf(HandlerLine, k) = work_queue[k].pool
        /\ SlotOf(HandlerLine, k) = work_queue[k].slot
    BY <1>5 DEF Occupied, PoolOf, SlotOf
  <2> QED
    BY <1>1, <1>2, <2>1 DEF MetalInv, PlacesInv
<1> QED
  BY <1>3, <1>4, <1>5

LEMMA SubmitCommandBufferPreserves ==
  ASSUME MetalInv, NEW a \in Actors, NEW blocking \in BOOLEAN, NEW handler \in {"none", "submit"},
         submit_command_buffer(a, blocking, handler)
  PROVE  MetalInv'
<1>1. /\ step[a] = "recording" /\ GoTo(a, "enqueue")
      /\ stack[a] # <<>> => blocking /\ handler = "none"
      /\ completed' = [completed EXCEPT ![a][held[a]] = FALSE]
      /\ call' = [call EXCEPT ![a] = [blocking |-> blocking, handler |-> handler, number |-> 0]]
      /\ UNCHANGED <<metal_ctx, unused, submission_counter, pending_submissions, held, stack, on_device,
                     work_queue, last, finished, timed_out, dropped>>
  BY DEF submit_command_buffer, metalPool, metalNumbers, metalFinish, metalHistory
<1>2. /\ held[a] # NoSlot /\ ActorInv(a)
      /\ held[a] \in MetalSlots /\ held[a] \notin unused[a] /\ <<a, held[a]>> \notin dropped
      /\ \A c \in Actors : \A k \in 1 .. Len(stack[c]) : ~(stack[c][k].pool = a /\ stack[c][k].slot = held[a])
  BY <1>1, HeldIsNowhereElse DEF MetalInv, ActorInv
<1>3. /\ step'[a] = "enqueue" /\ \A c \in Actors : c # a => step'[c] = step[c] /\ call'[c] = call[c]
      /\ call'[a].blocking = blocking /\ call'[a].handler = handler
  BY <1>1 DEF GoTo, MetalInv, MetalTypeOK
<1>4. MetalTypeOK'
  BY <1>1 DEF MetalInv, MetalTypeOK, GoTo
<1>5. ASSUME NEW c \in Actors PROVE ActorInv(c)'
  <2>1. ActorInv(c)
    BY DEF MetalInv
  <2>2. CASE c = a
    BY <1>1, <1>2, <1>3, <2>1, <2>2 DEF ActorInv
  <2>3. CASE c # a
    BY <1>1, <1>3, <2>1, <2>3 DEF ActorInv, Top
  <2> QED
    BY <2>2, <2>3
<1>6. PlacesInv' /\ RingInv'
  BY <1>1, SamePlaces, SameRing DEF MetalInv
<1>7. /\ completed'[a][held[a]] = FALSE
      /\ \A p \in Actors, s \in MetalSlots : ~(p = a /\ s = held[a]) => completed'[p][s] = completed[p][s]
  BY <1>1, <1>2 DEF MetalInv, MetalTypeOK
<1>8. CompletedInv'
  <2>1. CompletedInv
    BY DEF MetalInv
  <2>2. ASSUME NEW p \in Actors, NEW s \in MetalSlots, s \in unused[p] PROVE completed'[p][s]
    BY <1>2, <1>7, <2>1, <2>2 DEF CompletedInv
  <2>3. ASSUME NEW c \in Actors, NEW k \in 1 .. Len(stack[c])
        PROVE  completed'[stack[c][k].pool][stack[c][k].slot] \/ (step'[c] = "wait" /\ k = Len(stack[c]))
    <3>1. completed[stack[c][k].pool][stack[c][k].slot] \/ (step[c] = "wait" /\ k = Len(stack[c]))
      BY <2>1, <2>3 DEF CompletedInv
    <3>2. stack[c][k].pool \in Actors /\ stack[c][k].slot \in MetalSlots
      BY <2>3, MetalFields DEF MetalInv
    <3> QED
      BY <1>1, <1>2, <1>3, <1>7, <2>3, <3>1, <3>2
  <2>4. ASSUME NEW c \in Actors
        PROVE  /\ step'[c] = "recording" => completed'[c][held[c]]
               /\ step'[c] \in {"enqueue", "commit"} => ~completed'[c][held[c]] \/ <<c, held[c]>> \in timed_out
    <3>1. CASE c = a
      BY <1>3, <1>7, <3>1
    <3>2. CASE c # a
      <4>1. completed'[c] = completed[c]
        BY <1>1, <3>2 DEF MetalInv, MetalTypeOK
      <4> QED
        BY <1>3, <2>1, <3>2, <4>1 DEF CompletedInv
    <3> QED
      BY <3>1, <3>2
  <2>5. unused' = unused /\ held' = held /\ stack' = stack /\ timed_out' = timed_out
    BY <1>1
  <2> QED
    BY <2>2, <2>3, <2>4, <2>5 DEF CompletedInv
<1>9. DeviceInv'
  <2>1. \A b \in on_device : Id(b) \notin timed_out => ~completed[b.pool][b.slot] /\ held[b.pool] # b.slot
    BY DEF MetalInv, DeviceInv
  <2>2. \A b \in on_device : b.pool \in Actors /\ b.slot \in MetalSlots
    BY MetalFields DEF MetalInv, MetalTypeOK
  <2>3. \A b \in on_device : Id(b) \notin timed_out => ~completed'[b.pool][b.slot] /\ held[b.pool] # b.slot
    BY <1>7, <2>1, <2>2
  <2> QED
    BY <1>1, <2>3 DEF MetalInv, DeviceInv, Id
<1>10. NumbersInv'
  <2>1. \A x \in Lines, k \in Nat : /\ Reports(x, k)' <=> Reports(x, k)
                                    /\ Reports(x, k) => NumberOf(x, k)' = NumberOf(x, k)
    <3> SUFFICES ASSUME NEW x \in Lines, NEW k \in Nat
                 PROVE  /\ Reports(x, k)' <=> Reports(x, k)
                        /\ Reports(x, k) => NumberOf(x, k)' = NumberOf(x, k)
      OBVIOUS
    <3>1. CASE x = a
      BY <1>1, <1>3, <3>1, TheLineIsNoActor DEF Reports, Occupied, NumberOf
    <3>2. CASE x # a
      BY <1>1, <1>3, <3>2 DEF Reports, Occupied, NumberOf, Lines
    <3> QED
      BY <3>1, <3>2
  <2>2. OpenNumbers(Pending)' = OpenNumbers(Pending) /\ dropped' = dropped
    BY <1>1 DEF Pending
  <2> QED
    BY <2>1, <2>2 DEF MetalInv, NumbersInv
<1> QED
  BY <1>4, <1>5, <1>6, <1>8, <1>9, <1>10 DEF MetalInv

(* Steps that set the flag of one command buffer                           *)
LEMMA CompletedIsSet ==
  ASSUME MetalInv, NEW p \in Actors, NEW s \in MetalSlots, completed' = [completed EXCEPT ![p][s] = TRUE],
         UNCHANGED <<unused, stack, held>>, timed_out \subseteq timed_out',
         held[p] # s \/ <<p, s>> \in timed_out',
         \A a \in Actors : /\ step[a] \in {"recording", "enqueue", "commit"} \/ step'[a] \in {"recording", "enqueue", "commit"}
                              => step'[a] = step[a]
                           /\ step[a] = "wait" => \/ step'[a] = "wait"
                                                  \/ Top(a).pool = p /\ Top(a).slot = s
  PROVE  CompletedInv'
<1>1. /\ completed'[p][s] /\ \A q \in Actors, r \in MetalSlots : completed[q][r] => completed'[q][r]
      /\ \A q \in Actors, r \in MetalSlots : ~(p = q /\ r = s) => completed'[q][r] = completed[q][r]
  BY DEF MetalInv, MetalTypeOK
<1>2. CompletedInv
  BY DEF MetalInv
<1>3. ASSUME NEW c \in Actors, NEW k \in 1 .. Len(stack[c])
      PROVE  completed'[stack[c][k].pool][stack[c][k].slot] \/ (step'[c] = "wait" /\ k = Len(stack[c]))
  <2>1. completed[stack[c][k].pool][stack[c][k].slot] \/ (step[c] = "wait" /\ k = Len(stack[c]))
    BY <1>2, <1>3 DEF CompletedInv
  <2>2. stack[c][k].pool \in Actors /\ stack[c][k].slot \in MetalSlots
    BY <1>3, MetalFields DEF MetalInv
  <2> QED
    BY <1>1, <1>3, <2>1, <2>2 DEF Top
<1>4. ASSUME NEW c \in Actors
      PROVE  /\ step'[c] = "recording" => completed'[c][held[c]]
             /\ step'[c] \in {"enqueue", "commit"} => ~completed'[c][held[c]] \/ <<c, held[c]>> \in timed_out'
  <2>1. CASE step'[c] \in {"recording", "enqueue", "commit"}
    <3>1. step'[c] = step[c] /\ held[c] \in MetalSlots
      BY <2>1, HeldIsNowhereElse DEF MetalInv, ActorInv
    <3> QED
      BY <1>1, <1>2, <3>1 DEF CompletedInv
  <2> QED
    BY <2>1
<1> QED
  BY <1>1, <1>2, <1>3, <1>4 DEF CompletedInv

LEMMA FeedbackPreserves ==
  ASSUME MetalInv, NEW b \in on_device, feedback(b)
  PROVE  MetalInv'
<1>1. /\ completed' = [completed EXCEPT ![b.pool][b.slot] = TRUE] /\ on_device' = on_device \ {b}
      /\ UNCHANGED <<metal_ctx, unused, submission_counter, pending_submissions, step, held, call, stack,
                     work_queue, last, finished, timed_out, dropped>>
  BY DEF feedback, metalPool, metalNumbers, metalActors, metalFinish, metalHistory
<1>2. b \in CommandBuffers /\ b.pool \in Actors /\ b.slot \in MetalSlots /\ Id(b) = <<b.pool, b.slot>>
  BY MetalFields DEF MetalInv, MetalTypeOK
<1>3. MetalTypeOK'
  BY <1>1 DEF MetalInv, MetalTypeOK
<1>4. \A a \in Actors : ActorInv(a)'
  BY <1>1 DEF MetalInv, ActorInv, Top
<1>5. PlacesInv' /\ NumbersInv' /\ RingInv'
  BY <1>1, SamePlaces, SameReports, SameRing DEF MetalInv
<1>6. held[b.pool] # b.slot \/ <<b.pool, b.slot>> \in timed_out
  BY <1>2 DEF MetalInv, DeviceInv
<1>7. CompletedInv'
  BY <1>1, <1>2, <1>6, CompletedIsSet
<1>8. DeviceInv'
  <2>1. ASSUME NEW c \in on_device', Id(c) \notin timed_out'
        PROVE  ~completed'[c.pool][c.slot] /\ held'[c.pool] # c.slot
    <3>1. c \in on_device /\ c # b /\ Id(c) \notin timed_out
      BY <1>1, <2>1
    <3>2. Id(c) # Id(b) /\ ~completed[c.pool][c.slot] /\ held[c.pool] # c.slot
      BY <3>1 DEF MetalInv, DeviceInv
    <3>3. c.pool \in Actors /\ c.slot \in MetalSlots /\ Id(c) = <<c.pool, c.slot>>
      BY <3>1, MetalFields DEF MetalInv, MetalTypeOK
    <3> QED
      BY <1>1, <1>2, <3>2, <3>3 DEF MetalInv, MetalTypeOK
  <2> QED
    BY <1>1, <2>1 DEF MetalInv, DeviceInv, Id
<1> QED
  BY <1>3, <1>4, <1>5, <1>7, <1>8 DEF MetalInv

LEMMA WaitTimesOutPreserves ==
  ASSUME MetalInv, NEW a \in Actors, wait_times_out(a)
  PROVE  MetalInv'
<1> DEFINE p == Top(a).pool
           s == Top(a).slot
<1>1. /\ step[a] = "wait" /\ GoTo(a, "handlers")
      /\ completed' = [completed EXCEPT ![p][s] = TRUE] /\ timed_out' = timed_out \cup {Id(Top(a))}
      /\ UNCHANGED <<metal_ctx, unused, submission_counter, pending_submissions, held, call, stack, on_device,
                     work_queue, last, finished, dropped>>
  BY DEF wait_times_out, metalPool, metalNumbers, metalFinish
<1>2. Len(stack[a]) \in 1 .. Len(stack[a])
  BY <1>1, MetalFields DEF MetalInv, ActorInv
<1>3. p \in Actors /\ s \in MetalSlots /\ Id(Top(a)) = <<p, s>>
  BY <1>2, MetalFields DEF MetalInv, Top
<1>4. /\ step'[a] = "handlers" /\ \A c \in Actors : c # a => step'[c] = step[c]
  BY <1>1 DEF GoTo, MetalInv, MetalTypeOK
<1> HIDE DEF p, s
<1>5. MetalTypeOK'
  BY <1>1 DEF MetalInv, MetalTypeOK, GoTo
<1>6. ASSUME NEW c \in Actors PROVE ActorInv(c)'
  <2>1. ActorInv(c)
    BY DEF MetalInv
  <2>2. CASE c = a
    BY <1>1, <1>4, <2>1, <2>2 DEF ActorInv
  <2>3. CASE c # a
    BY <1>1, <1>4, <2>1, <2>3 DEF ActorInv, Top
  <2> QED
    BY <2>2, <2>3
<1>7. PlacesInv' /\ RingInv' /\ NumbersInv'
  <2>1. \A c \in Actors : (step[c] = "commit" <=> step'[c] = "commit") /\ (step[c] = "release" <=> step'[c] = "release")
    BY <1>1, <1>4
  <2> QED
    BY <1>1, <2>1, SamePlaces, SameReports, SameRing DEF MetalInv
<1>8. CompletedInv'
  <2>1. timed_out \subseteq timed_out' /\ <<p, s>> \in timed_out' /\ UNCHANGED <<unused, stack, held>>
    BY <1>1, <1>3
  <2>2. \A c \in Actors : /\ step[c] \in {"recording", "enqueue", "commit"} \/ step'[c] \in {"recording", "enqueue", "commit"}
                              => step'[c] = step[c]
                          /\ step[c] = "wait" => step'[c] = "wait" \/ (Top(c).pool = p /\ Top(c).slot = s)
    BY <1>1, <1>4 DEF p, s
  <2> QED
    BY <1>1, <1>3, <2>1, <2>2, CompletedIsSet
<1>9. DeviceInv'
  <2>1. ASSUME NEW c \in on_device, Id(c) \notin timed_out'
        PROVE  ~completed'[c.pool][c.slot] /\ held'[c.pool] # c.slot
    <3>1. Id(c) # <<p, s>> /\ Id(c) \notin timed_out
      BY <1>1, <1>3, <2>1
    <3>2. ~completed[c.pool][c.slot] /\ held[c.pool] # c.slot
      BY <2>1, <3>1 DEF MetalInv, DeviceInv
    <3>3. c.pool \in Actors /\ c.slot \in MetalSlots /\ Id(c) = <<c.pool, c.slot>>
      BY <2>1, MetalFields DEF MetalInv, MetalTypeOK
    <3> QED
      BY <1>1, <1>3, <3>1, <3>2, <3>3 DEF MetalInv, MetalTypeOK
  <2> QED
    BY <1>1, <2>1 DEF MetalInv, DeviceInv, Id
<1> QED
  BY <1>5, <1>6, <1>7, <1>8, <1>9 DEF MetalInv

(* A handler is forgotten: the command buffers are where they were.        *)
LEMMA AHandlerIsForgotten ==
  ASSUME MetalInv, NEW a \in Actors, stack[a] # <<>>,
         stack' = [stack EXCEPT ![a][Len(stack[a])].handler = "none"]
  PROVE  /\ stack' \in [Actors -> Seq(CommandBuffers)]
         /\ \A c \in Actors : Len(stack'[c]) = Len(stack[c])
         /\ \A c \in Actors : \A k \in 1 .. Len(stack[c]) :
              /\ stack'[c][k].pool = stack[c][k].pool /\ stack'[c][k].slot = stack[c][k].slot
              /\ stack'[c][k].number = stack[c][k].number
              /\ stack'[c][k].handler = IF c = a /\ k = Len(stack[c]) THEN "none" ELSE stack[c][k].handler
<1> DEFINE n == Len(stack[a])
           new == [stack[a] EXCEPT ![n] = [@ EXCEPT !.handler = "none"]]
<1>1. stack \in [Actors -> Seq(CommandBuffers)] /\ stack[a] \in Seq(CommandBuffers) /\ n \in 1 .. Len(stack[a])
  BY MetalFields DEF MetalInv, MetalTypeOK
<1>2. stack[a][n] \in CommandBuffers
  BY <1>1
<1>3. /\ [stack[a][n] EXCEPT !.handler = "none"] \in CommandBuffers
      /\ [stack[a][n] EXCEPT !.handler = "none"].pool = stack[a][n].pool
      /\ [stack[a][n] EXCEPT !.handler = "none"].slot = stack[a][n].slot
      /\ [stack[a][n] EXCEPT !.handler = "none"].number = stack[a][n].number
      /\ [stack[a][n] EXCEPT !.handler = "none"].handler = "none"
  BY <1>2 DEF CommandBuffers
<1>4. /\ new \in Seq(CommandBuffers) /\ Len(new) = Len(stack[a])
      /\ new[n] = [stack[a][n] EXCEPT !.handler = "none"]
      /\ \A k \in 1 .. Len(stack[a]) : k # n => new[k] = stack[a][k]
  BY <1>1, <1>3
<1>5. stack' = [stack EXCEPT ![a] = new]
  OBVIOUS
<1> HIDE DEF new
<1>6. stack' \in [Actors -> Seq(CommandBuffers)] /\ stack'[a] = new /\ \A c \in Actors : c # a => stack'[c] = stack[c]
  BY <1>1, <1>4, <1>5
<1> QED
  BY <1>3, <1>4, <1>6

LEMMA GivingUpPreserves ==
  ASSUME MetalInv, NEW a \in Actors, handler_gives_up(a)
  PROVE  MetalInv'
<1>1. /\ step[a] = "handlers" /\ stack' = [stack EXCEPT ![a][Len(stack[a])].handler = "none"]
      /\ UNCHANGED <<metal_ctx, unused, completed, submission_counter, pending_submissions, step, held, call,
                     on_device, work_queue, last, finished, timed_out, dropped>>
  BY DEF handler_gives_up, CallsHandler, metalPool, metalNumbers, metalFinish, metalHistory
<1>2. stack[a] # <<>>
  BY <1>1 DEF MetalInv, ActorInv
<1>3. /\ stack' \in [Actors -> Seq(CommandBuffers)]
      /\ \A c \in Actors : Len(stack'[c]) = Len(stack[c])
      /\ \A c \in Actors : \A k \in 1 .. Len(stack[c]) :
           /\ stack'[c][k].pool = stack[c][k].pool /\ stack'[c][k].slot = stack[c][k].slot
           /\ stack'[c][k].number = stack[c][k].number
           /\ stack'[c][k].handler = IF c = a /\ k = Len(stack[c]) THEN "none" ELSE stack[c][k].handler
  BY <1>1, <1>2, AHandlerIsForgotten
<1>4. MetalTypeOK'
  BY <1>1, <1>3 DEF MetalInv, MetalTypeOK
<1>5. ASSUME NEW c \in Actors PROVE ActorInv(c)'
  <2>1. /\ ActorInv(c) /\ stack[c] \in Seq(CommandBuffers) /\ stack'[c] \in Seq(CommandBuffers)
        /\ Len(stack'[c]) = Len(stack[c]) /\ Len(stack[c]) \in Nat
    BY <1>3, MetalFields DEF MetalInv, MetalTypeOK
  <2>2. stack'[c] = <<>> <=> stack[c] = <<>>
    BY <2>1
  <2>3. \A k \in 1 .. Len(stack[c]) : stack[c][k].handler = "none" => stack'[c][k].handler = "none"
    BY <1>3
  <2>4. stack[c] # <<>> => 1 \in 1 .. Len(stack[c]) /\ Len(stack[c]) \in 1 .. Len(stack[c])
    BY <2>1
  <2>5. Len(stack[c]) = 2 => 2 \in 1 .. Len(stack[c]) /\ stack[c] # <<>>
    <3>1. Len(stack[c]) # 0 => stack[c] # <<>>
      OBVIOUS
    <3> QED
      BY <3>1
  <2>6. held'[c] = held[c] /\ step'[c] = step[c] /\ call'[c] = call[c]
    BY <1>1
  <2>7. Len(stack'[c]) = 2 => stack'[c][1].handler = "none" /\ stack'[c][2].handler = "none"
    BY <2>1, <2>3, <2>4, <2>5 DEF ActorInv
  <2>8. held[c] # NoSlot /\ stack'[c] # <<>> => stack'[c][1].handler = "none"
    BY <2>1, <2>2, <2>3, <2>4 DEF ActorInv
  <2>9. step[c] = "release" => stack'[c][Len(stack'[c])].handler = "none"
    BY <2>1, <2>2, <2>3, <2>4 DEF ActorInv, Top
  <2> QED
    BY <2>1, <2>2, <2>6, <2>7, <2>8, <2>9 DEF ActorInv, Top
<1>6. \A x \in Lines, k \in Nat :
        /\ Occupied(x, k)' <=> Occupied(x, k)
        /\ Reports(x, k)' <=> Reports(x, k)
        /\ Occupied(x, k) => /\ PoolOf(x, k)' = PoolOf(x, k) /\ SlotOf(x, k)' = SlotOf(x, k)
                             /\ NumberOf(x, k)' = NumberOf(x, k)
  BY <1>1, <1>3 DEF Occupied, Reports, PoolOf, SlotOf, NumberOf, Lines
<1>7. PlacesInv'
  BY <1>1, <1>6 DEF MetalInv, PlacesInv
<1>8. NumbersInv'
  <2>1. \A x \in Lines, k \in Nat : Reports(x, k) => Occupied(x, k)
    BY DEF Reports
  <2>2. OpenNumbers(Pending)' = OpenNumbers(Pending) /\ dropped' = dropped
    BY <1>1 DEF Pending
  <2> QED
    BY <1>6, <2>1, <2>2 DEF MetalInv, NumbersInv
<1>9. CompletedInv' /\ DeviceInv' /\ RingInv'
  <2>1. CompletedInv'
    <3>1. CompletedInv /\ unused' = unused /\ completed' = completed /\ step' = step /\ held' = held
          /\ timed_out' = timed_out
      BY <1>1 DEF MetalInv
    <3>2. ASSUME NEW c \in Actors, NEW k \in 1 .. Len(stack'[c])
          PROVE  completed[stack'[c][k].pool][stack'[c][k].slot] \/ (step[c] = "wait" /\ k = Len(stack'[c]))
      <4>1. Len(stack'[c]) = Len(stack[c]) /\ k \in 1 .. Len(stack[c])
        BY <1>3, <3>2
      <4>2. stack'[c][k].pool = stack[c][k].pool /\ stack'[c][k].slot = stack[c][k].slot
        BY <1>3, <4>1
      <4>3. completed[stack[c][k].pool][stack[c][k].slot] \/ (step[c] = "wait" /\ k = Len(stack[c]))
        BY <3>1, <4>1 DEF CompletedInv
      <4> QED
        BY <4>1, <4>2, <4>3
    <3> QED
      BY <3>1, <3>2 DEF CompletedInv
  <2> QED
    BY <1>1, <2>1, SameRing DEF MetalInv, DeviceInv, Id
<1> QED
  BY <1>4, <1>5, <1>7, <1>8, <1>9 DEF MetalInv

(* A new number is the last one, and open.                                 *)
LEMMA ANumberIsAdded ==
  ASSUME NEW s \in Seq(Submissions), NEW n \in Nat, InNumberOrder(s), FrontIsOpen(s),
         \A m \in NumbersOf(s) : m < n
  PROVE  LET t == Append(s, [number |-> n, complete |-> FALSE]) IN
         /\ InNumberOrder(t) /\ FrontIsOpen(t)
         /\ OpenNumbers(t) = OpenNumbers(s) \cup {n} /\ NumbersOf(t) = NumbersOf(s) \cup {n}
<1> DEFINE e == [number |-> n, complete |-> FALSE]
           t == Append(s, e)
<1>1. e.number = n /\ e.complete = FALSE /\ e \in Submissions
  BY DEF Submissions
<1> HIDE DEF e
<1>2. /\ Len(s) \in Nat /\ Len(t) = Len(s) + 1 /\ t[Len(s) + 1] = e /\ t \in Seq(Submissions)
      /\ \A k \in 1 .. Len(s) : t[k] = s[k]
  BY <1>1
<1> HIDE DEF t
<1>3. 1 .. Len(t) = (1 .. Len(s)) \cup {Len(s) + 1} /\ Len(s) + 1 \notin 1 .. Len(s)
  BY <1>2
<1>4. InNumberOrder(t)
  <2> SUFFICES ASSUME NEW i \in 1 .. Len(t), NEW j \in 1 .. Len(t), i < j
               PROVE  t[i].number < t[j].number
    BY DEF InNumberOrder
  <2>1. i \in 1 .. Len(s)
    BY <1>2
  <2>2. CASE j \in 1 .. Len(s)
    BY <1>2, <2>1, <2>2 DEF InNumberOrder
  <2>3. CASE j \notin 1 .. Len(s)
    BY <1>1, <1>2, <1>3, <2>1, <2>3 DEF NumbersOf
  <2> QED
    BY <2>2, <2>3
<1>5. FrontIsOpen(t)
  <2>1. CASE Len(s) = 0
    BY <1>1, <1>2, <2>1 DEF FrontIsOpen
  <2>2. CASE Len(s) # 0
    <3>1. s # <<>> /\ 1 \in 1 .. Len(s)
      BY <1>2, <2>2
    <3> QED
      BY <1>2, <3>1 DEF FrontIsOpen
  <2> QED
    BY <2>1, <2>2
<1>6. OpenNumbers(t) = OpenNumbers(s) \cup {n}
  BY <1>1, <1>2, <1>3 DEF OpenNumbers
<1>7. NumbersOf(t) = NumbersOf(s) \cup {n}
  BY <1>1, <1>2, <1>3 DEF NumbersOf
<1> QED
  BY <1>4, <1>5, <1>6, <1>7 DEF t, e

LEMMA EnqueueNumberPreserves ==
  ASSUME MetalInv, NEW a \in Actors, enqueue_number(a)
  PROVE  MetalInv'
<1> DEFINE n == submission_counter
           e == [number |-> n, complete |-> FALSE]
<1>1. /\ step[a] = "enqueue" /\ GoTo(a, "commit") /\ writable_elements(pending_submissions) > 0
      /\ call' = [call EXCEPT ![a].number = n]
      /\ pending_submissions' = enqueue(pending_submissions, e)
      /\ submission_counter' = n + 1
      /\ UNCHANGED <<metal_ctx, unused, completed, held, stack, on_device, work_queue, last, finished,
                     timed_out, dropped>>
  BY DEF enqueue_number, metalPool, metalFinish, metalHistory
<1>2. /\ pending_submissions \in SubmissionRings /\ n \in Nat /\ e \in Submissions
      /\ Pending \in Seq(Submissions)
  BY SubmissionRingIs DEF MetalInv, MetalTypeOK, Submissions, Pending
<1>3. /\ pending_submissions' \in SubmissionRings /\ Pending' = Append(Pending, e)
  BY <1>1, <1>2, EnqueueKeeps DEF Pending
<1>4. /\ InNumberOrder(Pending)' /\ FrontIsOpen(Pending)'
      /\ OpenNumbers(Pending)' = OpenNumbers(Pending) \cup {n}
      /\ NumbersOf(Pending)' = NumbersOf(Pending) \cup {n}
  <2>1. InNumberOrder(Pending) /\ FrontIsOpen(Pending) /\ \A m \in NumbersOf(Pending) : m < n
    BY DEF MetalInv, RingInv
  <2> QED
    BY <1>2, <1>3, <2>1, ANumberIsAdded
<1> HIDE DEF e
<1>5. /\ step'[a] = "commit" /\ \A c \in Actors : c # a => step'[c] = step[c] /\ call'[c] = call[c]
      /\ call'[a].number = n /\ call'[a].blocking = call[a].blocking /\ call'[a].handler = call[a].handler
      /\ call' \in [Actors -> [blocking : BOOLEAN, handler : {"none", "submit"}, number : Nat]]
  BY <1>1, <1>2 DEF GoTo, MetalInv, MetalTypeOK
<1>6. MetalTypeOK'
  BY <1>1, <1>2, <1>3, <1>5 DEF MetalInv, MetalTypeOK, GoTo
<1>7. ASSUME NEW c \in Actors PROVE ActorInv(c)'
  <2>1. ActorInv(c)
    BY DEF MetalInv
  <2>2. CASE c = a
    BY <1>1, <1>5, <2>1, <2>2 DEF ActorInv
  <2>3. CASE c # a
    BY <1>1, <1>5, <2>1, <2>3 DEF ActorInv, Top
  <2> QED
    BY <2>2, <2>3
<1>8. PlacesInv'
  BY <1>1, SamePlaces DEF MetalInv
<1>9. CompletedInv' /\ DeviceInv'
  <2>1. CompletedInv
    BY DEF MetalInv
  <2>2. CompletedInv'
    BY <1>1, <1>5, <2>1 DEF CompletedInv
  <2> QED
    BY <1>1, <2>2 DEF MetalInv, DeviceInv, Id
<1>10. NumbersInv'
  <2>1. /\ Reports(a, 0)' /\ NumberOf(a, 0)' = n /\ a \in Lines /\ ~Reports(a, 0) /\ a # HandlerLine
    BY <1>1, <1>5, TheLineIsNoActor DEF Reports, Occupied, NumberOf, Lines, MetalInv, ActorInv
  <2>2. ASSUME NEW x \in Lines, NEW k \in Nat, ~(x = a /\ k = 0)
        PROVE  (Reports(x, k)' <=> Reports(x, k)) /\ NumberOf(x, k)' = NumberOf(x, k)
    <3>1. CASE x = a
      BY <1>1, <1>5, <2>1, <2>2, <3>1 DEF Reports, Occupied, NumberOf
    <3>2. CASE x # a
      BY <1>1, <1>5, <3>2 DEF Reports, Occupied, NumberOf, Lines
    <3> QED
      BY <3>1, <3>2
  <2>3. n \notin OpenNumbers(Pending)
    <3>1. \A m \in OpenNumbers(Pending) : m \in NumbersOf(Pending)
      BY DEF OpenNumbers, NumbersOf
    <3> QED
      BY <1>2, <3>1 DEF MetalInv, RingInv
  <2>4. NumbersInv
    BY DEF MetalInv
  <2>5. \A x \in Lines, k \in Nat : Reports(x, k) => NumberOf(x, k) \in OpenNumbers(Pending) /\ NumberOf(x, k) # n
    BY <2>3, <2>4 DEF NumbersInv
  <2>6. ASSUME NEW x \in Lines, NEW y \in Lines, NEW k \in Nat, NEW l \in Nat,
               Reports(x, k)', Reports(y, l)', NumberOf(x, k)' = NumberOf(y, l)'
        PROVE  x = y /\ k = l
    <3>1. CASE x = a /\ k = 0
      BY <2>1, <2>2, <2>5, <2>6, <3>1
    <3>2. CASE y = a /\ l = 0
      BY <2>1, <2>2, <2>5, <2>6, <3>2
    <3>3. CASE ~(x = a /\ k = 0) /\ ~(y = a /\ l = 0)
      BY <2>2, <2>4, <2>6, <3>3 DEF NumbersInv
    <3> QED
      BY <3>1, <3>2, <3>3
  <2>7. ASSUME NEW x \in Lines, NEW k \in Nat, Reports(x, k)'
        PROVE  NumberOf(x, k)' \in OpenNumbers(Pending)'
    BY <1>4, <2>1, <2>2, <2>5, <2>7
  <2>8. ASSUME dropped' = {}, NEW m \in OpenNumbers(Pending)'
        PROVE  \E x \in Lines, k \in Nat : Reports(x, k)' /\ NumberOf(x, k)' = m
    <3>1. CASE m = n
      BY <2>1, <3>1
    <3>2. CASE m # n
      <4>1. PICK x \in Lines, k \in Nat : Reports(x, k) /\ NumberOf(x, k) = m
        BY <1>1, <1>4, <2>4, <2>8, <3>2 DEF NumbersInv
      <4> QED
        BY <2>1, <2>2, <4>1
    <3> QED
      BY <3>1, <3>2
  <2> QED
    BY <2>6, <2>7, <2>8 DEF NumbersInv
<1>11. RingInv'
  <2>1. /\ RingInv /\ finished \in Nat /\ \A t \in MetalThreads : last[t] \in Nat
    BY DEF MetalInv, MetalTypeOK
  <2>2. /\ finished < n /\ \A t \in MetalThreads : last[t] < n
        /\ \A m \in NumbersOf(Pending) : m \in Nat /\ m < n
        /\ \A m \in OpenNumbers(Pending) : m > finished
    <3>1. \A k \in 1 .. Len(Pending) : Pending[k] \in Submissions
      BY <1>2
    <3>2. \A m \in NumbersOf(Pending) : m \in Nat
      BY <3>1 DEF NumbersOf, Submissions
    <3> QED
      BY <2>1, <3>2 DEF RingInv
  <2>3. /\ n < n + 1 /\ \A m \in Nat : m < n => m < n + 1
    BY <1>2
  <2> QED
    BY <1>1, <1>2, <1>4, <2>1, <2>2, <2>3 DEF RingInv
<1> QED
  BY <1>6, <1>7, <1>8, <1>9, <1>10, <1>11 DEF MetalInv

(* A command buffer leaves its place: it is unused again, or dropped.      *)
LEMMA APlaceIsLeft ==
  ASSUME MetalInv, NEW z \in Lines, NEW j \in Nat, Occupied(z, j),
         \A x \in Lines, k \in Nat :
           /\ Occupied(x, k)' <=> Occupied(x, k) /\ ~(x = z /\ k = j)
           /\ Occupied(x, k)' => PoolOf(x, k)' = PoolOf(x, k) /\ SlotOf(x, k)' = SlotOf(x, k),
         \/ /\ unused' = [unused EXCEPT ![PoolOf(z, j)] = @ \cup {SlotOf(z, j)}]
            /\ dropped' = dropped
         \/ /\ dropped' = dropped \cup {<<PoolOf(z, j), SlotOf(z, j)>>}
            /\ unused' = unused
  PROVE  PlacesInv'
<1> DEFINE q == PoolOf(z, j)
           r == SlotOf(z, j)
<1>1. q \in Actors /\ r \in MetalSlots
  BY PlacesAreTyped DEF MetalInv
<1>2. /\ r \notin unused[q] /\ <<q, r>> \notin dropped /\ PlacesInv
      /\ unused \in [Actors -> SUBSET MetalSlots]
  BY DEF MetalInv, PlacesInv, MetalTypeOK
<1>3. \A x \in Lines, k \in Nat : Occupied(x, k) /\ ~(x = z /\ k = j) => ~(PoolOf(x, k) = q /\ SlotOf(x, k) = r)
  BY <1>2 DEF PlacesInv
<1>4. \A p \in Actors, s \in MetalSlots :
        /\ s \in unused'[p] => s \in unused[p] \/ (p = q /\ s = r /\ dropped' = dropped)
        /\ <<p, s>> \in dropped' => <<p, s>> \in dropped \/ (p = q /\ s = r /\ unused' = unused)
        /\ s \in unused[p] => s \in unused'[p]
        /\ <<p, s>> \in dropped => <<p, s>> \in dropped'
        /\ p = q /\ s = r => s \in unused'[p] \/ <<p, s>> \in dropped'
  BY <1>1, <1>2
<1>5. \A x \in Lines, k \in Nat : Occupied(x, k)' => PoolOf(x, k) \in Actors /\ SlotOf(x, k) \in MetalSlots
  BY PlacesAreTyped DEF MetalInv
<1> HIDE DEF q, r
<1>6. ASSUME NEW x \in Lines, NEW y \in Lines, NEW k \in Nat, NEW l \in Nat,
             Occupied(x, k)', Occupied(y, l)', PoolOf(x, k)' = PoolOf(y, l)', SlotOf(x, k)' = SlotOf(y, l)'
      PROVE  x = y /\ k = l
  BY <1>2, <1>6 DEF PlacesInv
<1>7. ASSUME NEW x \in Lines, NEW k \in Nat, Occupied(x, k)'
      PROVE  SlotOf(x, k)' \notin unused'[PoolOf(x, k)'] /\ <<PoolOf(x, k)', SlotOf(x, k)'>> \notin dropped'
  <2>1. /\ SlotOf(x, k) \notin unused[PoolOf(x, k)] /\ <<PoolOf(x, k), SlotOf(x, k)>> \notin dropped
        /\ ~(PoolOf(x, k) = q /\ SlotOf(x, k) = r)
    BY <1>2, <1>3, <1>7 DEF PlacesInv
  <2> QED
    BY <1>4, <1>5, <1>7, <2>1
<1>8. \A p \in Actors, s \in MetalSlots : s \in unused'[p] => <<p, s>> \notin dropped'
  BY <1>2, <1>4 DEF PlacesInv
<1>9. ASSUME NEW p \in Actors, NEW s \in MetalSlots, s \notin unused'[p], <<p, s>> \notin dropped'
      PROVE  \E x \in Lines, k \in Nat : Occupied(x, k)' /\ PoolOf(x, k)' = p /\ SlotOf(x, k)' = s
  <2>1. PICK x \in Lines, k \in Nat : Occupied(x, k) /\ PoolOf(x, k) = p /\ SlotOf(x, k) = s
    BY <1>2, <1>4, <1>9 DEF PlacesInv
  <2>2. ~(x = z /\ k = j)
    BY <1>4, <1>9, <2>1 DEF q, r
  <2> QED
    BY <2>1, <2>2
<1> QED
  BY <1>6, <1>7, <1>8, <1>9 DEF PlacesInv

LEMMA ReportsStay ==
  ASSUME NumbersInv, OpenNumbers(Pending)' = OpenNumbers(Pending), dropped \subseteq dropped',
         \A x \in Lines, k \in Nat : /\ Reports(x, k)' <=> Reports(x, k)
                                     /\ Reports(x, k) => NumberOf(x, k)' = NumberOf(x, k)
  PROVE  NumbersInv'
BY DEF NumbersInv

LEMMA EnqueueAbortsPreserves ==
  ASSUME MetalInv, NEW a \in Actors, enqueue_aborts(a)
  PROVE  MetalInv'
<1>1. /\ step[a] = "enqueue" /\ GoTo(a, After(a)) /\ held' = [held EXCEPT ![a] = NoSlot]
      /\ dropped' = dropped \cup {<<a, held[a]>>} /\ call' = [call EXCEPT ![a] = NoCall]
      /\ UNCHANGED <<metal_ctx, unused, completed, submission_counter, pending_submissions, stack, on_device,
                     work_queue, last, finished, timed_out>>
  BY DEF enqueue_aborts, metalPool, metalNumbers, metalFinish
<1>2. /\ step'[a] = After(a) /\ After(a) \in {"idle", "handlers"}
      /\ \A c \in Actors : c # a => step'[c] = step[c] /\ call'[c] = call[c] /\ held'[c] = held[c]
      /\ held'[a] = NoSlot /\ call'[a] = NoCall
      /\ held[a] # NoSlot
  BY <1>1 DEF GoTo, After, MetalInv, MetalTypeOK, ActorInv
<1>3. MetalTypeOK'
  BY <1>1, <1>2 DEF MetalInv, MetalTypeOK, GoTo, NoCall
<1>4. ASSUME NEW c \in Actors PROVE ActorInv(c)'
  <2>1. ActorInv(c)
    BY DEF MetalInv
  <2>2. CASE c = a
    BY <1>1, <1>2, <2>1, <2>2 DEF ActorInv, After
  <2>3. CASE c # a
    BY <1>1, <1>2, <2>1, <2>3 DEF ActorInv, Top
  <2> QED
    BY <2>2, <2>3
<1>5. a \in Lines /\ a # HandlerLine /\ Occupied(a, 0) /\ PoolOf(a, 0) = a /\ SlotOf(a, 0) = held[a]
  BY <1>2, TheLineIsNoActor DEF Lines, Occupied, PoolOf, SlotOf
<1>6. ASSUME NEW x \in Lines, NEW k \in Nat
      PROVE  /\ Occupied(x, k)' <=> Occupied(x, k) /\ ~(x = a /\ k = 0)
             /\ Occupied(x, k)' => PoolOf(x, k)' = PoolOf(x, k) /\ SlotOf(x, k)' = SlotOf(x, k)
             /\ Reports(x, k)' <=> Reports(x, k)
             /\ Reports(x, k) => NumberOf(x, k)' = NumberOf(x, k)
  <2>1. CASE x = a
    <3>1. Len(stack[a]) \in Nat
      BY MetalFields DEF MetalInv
    <3> QED
      BY <1>1, <1>2, <1>5, <2>1, <3>1 DEF Occupied, PoolOf, SlotOf, Reports, NumberOf, After
  <2>2. CASE x # a
    BY <1>1, <1>2, <2>2 DEF Occupied, PoolOf, SlotOf, Reports, NumberOf, Lines
  <2> QED
    BY <2>1, <2>2
<1>7. PlacesInv'
  BY <1>1, <1>5, <1>6, APlaceIsLeft
<1>8. CompletedInv'
  <2>1. CompletedInv
    BY DEF MetalInv
  <2>2. ASSUME NEW c \in Actors
        PROVE  /\ step'[c] = "recording" => completed[c][held'[c]]
               /\ step'[c] \in {"enqueue", "commit"} => ~completed[c][held'[c]] \/ <<c, held'[c]>> \in timed_out
               /\ \A k \in 1 .. Len(stack[c]) :
                    completed[stack[c][k].pool][stack[c][k].slot] \/ (step'[c] = "wait" /\ k = Len(stack[c]))
    <3>1. CASE c = a
      BY <1>1, <1>2, <2>1, <3>1 DEF CompletedInv
    <3>2. CASE c # a
      BY <1>1, <1>2, <2>1, <3>2 DEF CompletedInv
    <3> QED
      BY <3>1, <3>2
  <2>3. unused' = unused /\ completed' = completed /\ stack' = stack /\ timed_out' = timed_out
    BY <1>1
  <2> QED
    BY <2>1, <2>2, <2>3 DEF CompletedInv
<1>9. DeviceInv'
  <2>1. \A b \in on_device : b.pool \in Actors /\ b.slot \in MetalSlots
    BY MetalFields DEF MetalInv, MetalTypeOK
  <2>2. \A b \in on_device : held[b.pool] # b.slot => held'[b.pool] # b.slot
    BY <1>2, <2>1, MetalAssumption
  <2> QED
    BY <1>1, <2>2 DEF MetalInv, DeviceInv, Id
<1>10. NumbersInv' /\ RingInv'
  <2>1. OpenNumbers(Pending)' = OpenNumbers(Pending) /\ dropped \subseteq dropped'
    BY <1>1 DEF Pending
  <2> QED
    BY <1>1, <1>6, <2>1, ReportsStay, SameRing DEF MetalInv
<1> QED
  BY <1>3, <1>4, <1>7, <1>8, <1>9, <1>10 DEF MetalInv

LEMMA ReleaseUnsubmittedPreserves ==
  ASSUME MetalInv, NEW a \in MetalThreads, release_unsubmitted_command_buffer(a)
  PROVE  MetalInv'
<1>1. /\ step[a] = "recording" /\ stack[a] = <<>> /\ GoTo(a, "idle") /\ held' = [held EXCEPT ![a] = NoSlot]
      /\ unused' = [unused EXCEPT ![a] = @ \cup {held[a]}] /\ a \in Actors
      /\ UNCHANGED <<metal_ctx, completed, submission_counter, pending_submissions, call, stack, on_device,
                     work_queue, last, finished, timed_out, dropped>>
  BY DEF release_unsubmitted_command_buffer, metalNumbers, metalFinish, metalHistory, Actors
<1>2. /\ step'[a] = "idle" /\ held'[a] = NoSlot /\ held[a] # NoSlot /\ held[a] \in MetalSlots
      /\ \A c \in Actors : c # a => step'[c] = step[c] /\ held'[c] = held[c]
  BY <1>1, HeldIsNowhereElse DEF GoTo, MetalInv, MetalTypeOK, ActorInv
<1>3. MetalTypeOK'
  BY <1>1, <1>2 DEF MetalInv, MetalTypeOK, GoTo
<1>4. ASSUME NEW c \in Actors PROVE ActorInv(c)'
  <2>1. ActorInv(c)
    BY DEF MetalInv
  <2>2. CASE c = a
    BY <1>1, <1>2, <2>1, <2>2 DEF ActorInv
  <2>3. CASE c # a
    BY <1>1, <1>2, <2>1, <2>3 DEF ActorInv, Top
  <2> QED
    BY <2>2, <2>3
<1>5. a \in Lines /\ a # HandlerLine /\ Occupied(a, 0) /\ PoolOf(a, 0) = a /\ SlotOf(a, 0) = held[a]
  BY <1>1, <1>2, TheLineIsNoActor DEF Lines, Occupied, PoolOf, SlotOf
<1>6. ASSUME NEW x \in Lines, NEW k \in Nat
      PROVE  /\ Occupied(x, k)' <=> Occupied(x, k) /\ ~(x = a /\ k = 0)
             /\ Occupied(x, k)' => PoolOf(x, k)' = PoolOf(x, k) /\ SlotOf(x, k)' = SlotOf(x, k)
             /\ Reports(x, k)' <=> Reports(x, k)
             /\ Reports(x, k) => NumberOf(x, k)' = NumberOf(x, k)
  <2>1. CASE x = a
    BY <1>1, <1>2, <1>5, <2>1 DEF Occupied, PoolOf, SlotOf, Reports, NumberOf
  <2>2. CASE x # a
    BY <1>1, <1>2, <2>2 DEF Occupied, PoolOf, SlotOf, Reports, NumberOf, Lines
  <2> QED
    BY <2>1, <2>2
<1>7. PlacesInv'
  BY <1>1, <1>5, <1>6, APlaceIsLeft
<1>8. CompletedInv'
  <2>1. CompletedInv
    BY DEF MetalInv
  <2>2. \A p \in Actors, s \in MetalSlots : s \in unused'[p] => s \in unused[p] \/ (p = a /\ s = held[a])
    BY <1>1 DEF MetalInv, MetalTypeOK
  <2>3. completed[a][held[a]]
    BY <1>1, <2>1 DEF CompletedInv
  <2> QED
    BY <1>1, <1>2, <2>1, <2>2, <2>3 DEF CompletedInv
<1>9. DeviceInv'
  <2>1. \A b \in on_device : b.pool \in Actors /\ b.slot \in MetalSlots
    BY MetalFields DEF MetalInv, MetalTypeOK
  <2>2. \A b \in on_device : held[b.pool] # b.slot => held'[b.pool] # b.slot
    BY <1>2, <2>1, MetalAssumption
  <2> QED
    BY <1>1, <2>2 DEF MetalInv, DeviceInv, Id
<1>10. NumbersInv' /\ RingInv'
  <2>1. OpenNumbers(Pending)' = OpenNumbers(Pending) /\ dropped \subseteq dropped'
    BY <1>1 DEF Pending
  <2> QED
    BY <1>1, <1>6, <2>1, ReportsStay, SameRing DEF MetalInv
<1> QED
  BY <1>3, <1>4, <1>7, <1>8, <1>9, <1>10 DEF MetalInv

LEMMA MakePreserves ==
  ASSUME MetalInv, NEW a \in Actors, make_command_buffer(a)
  PROVE  MetalInv'
<1>1. PICK s \in unused[a] : unused' = [unused EXCEPT ![a] = @ \ {s}] /\ held' = [held EXCEPT ![a] = s]
  BY DEF make_command_buffer
<1>2. /\ (a \in MetalThreads /\ step[a] = "idle") \/ (step[a] = "handlers" /\ Top(a).handler = "submit")
      /\ GoTo(a, "recording")
      /\ stack' = IF stack[a] = <<>> THEN stack ELSE [stack EXCEPT ![a][Len(stack[a])].handler = "none"]
      /\ UNCHANGED <<metal_ctx, completed, submission_counter, pending_submissions, call, on_device, work_queue,
                     last, finished, timed_out, dropped>>
  BY DEF make_command_buffer, CallsHandler, metalNumbers, metalFinish, metalHistory
<1>3. /\ stack' \in [Actors -> Seq(CommandBuffers)]
      /\ \A c \in Actors : Len(stack'[c]) = Len(stack[c])
      /\ \A c \in Actors : \A k \in 1 .. Len(stack[c]) :
           /\ stack'[c][k].pool = stack[c][k].pool /\ stack'[c][k].slot = stack[c][k].slot
           /\ stack'[c][k].number = stack[c][k].number
           /\ stack'[c][k].handler = IF c = a /\ k = Len(stack[c]) THEN "none" ELSE stack[c][k].handler
  <2>1. CASE stack[a] = <<>>
    <3>1. stack' = stack /\ stack \in [Actors -> Seq(CommandBuffers)]
      BY <1>2, <2>1 DEF MetalInv, MetalTypeOK
    <3>2. \A k \in 1 .. Len(stack[a]) : FALSE
      BY <2>1
    <3> QED
      BY <3>1, <3>2
  <2>2. CASE stack[a] # <<>>
    BY <1>2, <2>2, AHandlerIsForgotten
  <2> QED
    BY <2>1, <2>2
<1>4. /\ s \in MetalSlots /\ s # NoSlot /\ held[a] = NoSlot /\ step'[a] = "recording" /\ held'[a] = s
      /\ \A c \in Actors : c # a => step'[c] = step[c] /\ held'[c] = held[c]
  <2>1. s \in MetalSlots /\ s # NoSlot
    BY <1>1, MetalFields, MetalAssumption DEF MetalInv
  <2>2. /\ step'[a] = "recording" /\ held'[a] = s
        /\ \A c \in Actors : c # a => step'[c] = step[c] /\ held'[c] = held[c]
    BY <1>1, <1>2 DEF GoTo, MetalInv, MetalTypeOK
  <2>3. held[a] = NoSlot
    BY <1>2 DEF MetalInv, ActorInv
  <2> QED
    BY <2>1, <2>2, <2>3
<1>5. MetalTypeOK'
  BY <1>1, <1>2, <1>3, <1>4 DEF MetalInv, MetalTypeOK, GoTo
<1>6. ASSUME NEW c \in Actors PROVE ActorInv(c)'
  <2>1. /\ ActorInv(c) /\ stack[c] \in Seq(CommandBuffers) /\ stack'[c] \in Seq(CommandBuffers)
        /\ Len(stack'[c]) = Len(stack[c]) /\ Len(stack[c]) \in Nat
    BY <1>3, MetalFields DEF MetalInv, MetalTypeOK
  <2>2. stack'[c] = <<>> <=> stack[c] = <<>>
    BY <2>1
  <2>3. stack[c] # <<>> => 1 \in 1 .. Len(stack[c]) /\ Len(stack[c]) \in 1 .. Len(stack[c])
    BY <2>1
  <2>4. Len(stack[c]) # 0 => stack[c] # <<>>
    OBVIOUS
  <2>5. CASE c = a
    <3>1. Len(stack[a]) \in {0, 1}
      <4>1. CASE step[a] = "idle"
        BY <2>1, <2>5, <4>1 DEF ActorInv
      <4>2. CASE step[a] = "handlers" /\ Top(a).handler = "submit"
        <5>1. Len(stack[a]) # 2
          BY <2>1, <2>5, <4>2 DEF ActorInv, Top
        <5> QED
          BY <2>1, <2>5, <5>1 DEF ActorInv
      <4> QED
        BY <1>2, <4>1, <4>2
    <3>2. stack[a] # <<>> => Len(stack[a]) = 1
      <4>1. stack[a] # <<>> => Len(stack[a]) # 0
        BY <2>1, <2>5
      <4> QED
        BY <3>1, <4>1
    <3>3. stack[a] # <<>> => stack'[a][1].handler = "none"
      BY <1>3, <2>3, <2>5, <3>2
    <3> QED
      BY <1>4, <2>1, <2>2, <2>5, <3>1, <3>3 DEF ActorInv
  <2>6. CASE c # a
    <3>1. stack'[c] = stack[c]
      BY <1>2, <2>6 DEF MetalInv, MetalTypeOK
    <3> QED
      BY <1>2, <1>4, <2>1, <2>6, <3>1 DEF ActorInv, Top
  <2> QED
    BY <2>5, <2>6
<1>7. /\ a \in Lines /\ a # HandlerLine /\ Occupied(a, 0)' /\ PoolOf(a, 0)' = a /\ SlotOf(a, 0)' = s
      /\ ~Occupied(a, 0) /\ ~Reports(a, 0) /\ ~Reports(a, 0)'
  <2>1. Len(stack[a]) \in Nat /\ 0 \notin 1 .. Len(stack[a])
    BY MetalFields DEF MetalInv
  <2> QED
    BY <1>4, <2>1, TheLineIsNoActor DEF Lines, Occupied, PoolOf, SlotOf, Reports
<1>8. ASSUME NEW x \in Lines, NEW k \in Nat, ~(x = a /\ k = 0)
      PROVE  /\ Occupied(x, k)' <=> Occupied(x, k)
             /\ Occupied(x, k) => /\ PoolOf(x, k)' = PoolOf(x, k) /\ SlotOf(x, k)' = SlotOf(x, k)
                                  /\ NumberOf(x, k)' = NumberOf(x, k)
             /\ Reports(x, k)' <=> Reports(x, k)
             /\ Reports(x, k) => Occupied(x, k)
  <2>1. CASE x = a
    BY <1>2, <1>3, <1>4, <1>7, <1>8, <2>1 DEF Occupied, PoolOf, SlotOf, Reports, NumberOf
  <2>2. CASE x = HandlerLine
    BY <1>2, <2>2 DEF Occupied, PoolOf, SlotOf, Reports, NumberOf
  <2>3. CASE x # a /\ x # HandlerLine
    <3>1. x \in Actors
      BY <2>3 DEF Lines
    <3> QED
      BY <1>2, <1>3, <1>4, <2>3, <3>1 DEF Occupied, PoolOf, SlotOf, Reports, NumberOf
  <2> QED
    BY <2>1, <2>2, <2>3
<1>9. PlacesInv'
  <2>1. PlacesInv /\ unused \in [Actors -> SUBSET MetalSlots] /\ dropped' = dropped
    BY <1>2 DEF MetalInv, MetalTypeOK
  <2>2. \A p \in Actors, r \in MetalSlots : r \in unused'[p] <=> r \in unused[p] /\ ~(p = a /\ r = s)
    BY <1>1, <2>1
  <2>3. \A x \in Lines, k \in Nat : Occupied(x, k) =>
          /\ PoolOf(x, k) \in Actors /\ SlotOf(x, k) \in MetalSlots /\ ~(PoolOf(x, k) = a /\ SlotOf(x, k) = s)
    <3>1. \A x \in Lines, k \in Nat : Occupied(x, k) => PoolOf(x, k) \in Actors /\ SlotOf(x, k) \in MetalSlots
      BY PlacesAreTyped DEF MetalInv
    <3>2. \A x \in Lines, k \in Nat : Occupied(x, k) => SlotOf(x, k) \notin unused[PoolOf(x, k)]
      BY <2>1 DEF PlacesInv
    <3> QED
      BY <1>1, <3>1, <3>2
  <2>4. ASSUME NEW x \in Lines, NEW y \in Lines, NEW k \in Nat, NEW l \in Nat,
               Occupied(x, k)', Occupied(y, l)', PoolOf(x, k)' = PoolOf(y, l)', SlotOf(x, k)' = SlotOf(y, l)'
        PROVE  x = y /\ k = l
    <3>1. CASE x = a /\ k = 0
      BY <1>7, <1>8, <2>3, <2>4, <3>1
    <3>2. CASE y = a /\ l = 0
      BY <1>7, <1>8, <2>3, <2>4, <3>2
    <3>3. CASE ~(x = a /\ k = 0) /\ ~(y = a /\ l = 0)
      BY <1>8, <2>1, <2>4, <3>3 DEF PlacesInv
    <3> QED
      BY <3>1, <3>2, <3>3
  <2>5. ASSUME NEW x \in Lines, NEW k \in Nat, Occupied(x, k)'
        PROVE  SlotOf(x, k)' \notin unused'[PoolOf(x, k)'] /\ <<PoolOf(x, k)', SlotOf(x, k)'>> \notin dropped'
    <3>1. CASE x = a /\ k = 0
      BY <1>1, <1>4, <1>7, <2>1, <2>2, <3>1 DEF PlacesInv
    <3>2. CASE ~(x = a /\ k = 0)
      BY <1>8, <2>1, <2>2, <2>3, <2>5, <3>2 DEF PlacesInv
    <3> QED
      BY <3>1, <3>2
  <2>6. \A p \in Actors, r \in MetalSlots : r \in unused'[p] => <<p, r>> \notin dropped'
    BY <2>1, <2>2 DEF PlacesInv
  <2>7. ASSUME NEW p \in Actors, NEW r \in MetalSlots, r \notin unused'[p], <<p, r>> \notin dropped'
        PROVE  \E x \in Lines, k \in Nat : Occupied(x, k)' /\ PoolOf(x, k)' = p /\ SlotOf(x, k)' = r
    <3>1. CASE p = a /\ r = s
      BY <1>7, <3>1
    <3>2. CASE ~(p = a /\ r = s)
      <4>1. PICK x \in Lines, k \in Nat : Occupied(x, k) /\ PoolOf(x, k) = p /\ SlotOf(x, k) = r
        BY <2>1, <2>2, <2>7, <3>2 DEF PlacesInv
      <4> QED
        BY <1>7, <1>8, <4>1
    <3> QED
      BY <3>1, <3>2
  <2> QED
    BY <2>4, <2>5, <2>6, <2>7 DEF PlacesInv
<1>10. CompletedInv'
  <2>1. CompletedInv /\ completed' = completed /\ timed_out' = timed_out
    BY <1>2 DEF MetalInv
  <2>2. completed[a][s]
    BY <1>1, <1>4, <2>1 DEF CompletedInv
  <2>3. \A p \in Actors, r \in MetalSlots : r \in unused'[p] => r \in unused[p]
    BY <1>1 DEF MetalInv, MetalTypeOK
  <2>4. ASSUME NEW c \in Actors, NEW k \in 1 .. Len(stack'[c])
        PROVE  completed[stack'[c][k].pool][stack'[c][k].slot] \/ (step'[c] = "wait" /\ k = Len(stack'[c]))
    <3>1. Len(stack'[c]) = Len(stack[c]) /\ k \in 1 .. Len(stack[c])
      BY <1>3, <2>4
    <3>2. stack'[c][k].pool = stack[c][k].pool /\ stack'[c][k].slot = stack[c][k].slot
      BY <1>3, <3>1
    <3>3. completed[stack[c][k].pool][stack[c][k].slot] \/ (step[c] = "wait" /\ k = Len(stack[c]))
      BY <2>1, <3>1 DEF CompletedInv
    <3>4. step[c] = "wait" => step'[c] = "wait"
      BY <1>2, <1>4
    <3> QED
      BY <3>1, <3>2, <3>3, <3>4
  <2> QED
    BY <1>4, <2>1, <2>2, <2>3, <2>4 DEF CompletedInv
<1>11. DeviceInv'
  <2>1. \A b \in on_device : b.pool \in Actors /\ b.slot \in MetalSlots
    BY MetalFields DEF MetalInv, MetalTypeOK
  <2>2. \A b \in on_device : ~completed[b.pool][b.slot] /\ held[b.pool] # b.slot => held'[b.pool] # b.slot
    BY <1>1, <1>4, <2>1 DEF MetalInv, CompletedInv
  <2> QED
    BY <1>2, <2>2 DEF MetalInv, DeviceInv, Id
<1>12. NumbersInv' /\ RingInv'
  <2>1. OpenNumbers(Pending)' = OpenNumbers(Pending) /\ dropped \subseteq dropped'
    BY <1>2 DEF Pending
  <2>2. \A x \in Lines, k \in Nat : /\ Reports(x, k)' <=> Reports(x, k)
                                    /\ Reports(x, k) => NumberOf(x, k)' = NumberOf(x, k)
    BY <1>7, <1>8
  <2> QED
    BY <1>2, <2>1, <2>2, ReportsStay, SameRing DEF MetalInv
<1> QED
  BY <1>5, <1>6, <1>9, <1>10, <1>11, <1>12 DEF MetalInv

LEMMA HandlersDonePreserves ==
  ASSUME MetalInv, NEW a \in Actors, handlers_done(a)
  PROVE  MetalInv'
<1> DEFINE j == Len(stack[a])
           n == Top(a).number
<1>1. /\ step[a] = "handlers" /\ Top(a).handler = "none" /\ GoTo(a, "release")
      /\ pending_submissions' = completed_submission(pending_submissions, n)
      /\ UNCHANGED <<metal_ctx, unused, completed, submission_counter, held, call, stack, on_device, work_queue,
                     last, finished, timed_out, dropped>>
  BY DEF handlers_done, metalPool, metalFinish, metalHistory
<1>2. j \in 1 .. j /\ j \in Nat
  BY <1>1, MetalFields DEF MetalInv, ActorInv
<1>3. step'[a] = "release" /\ \A c \in Actors : c # a => step'[c] = step[c]
  BY <1>1 DEF GoTo, MetalInv, MetalTypeOK
<1>4. /\ a \in Lines /\ a # HandlerLine /\ Reports(a, j) /\ NumberOf(a, j) = n
  BY <1>1, <1>2, TheLineIsNoActor DEF Lines, Reports, Occupied, NumberOf, Top
<1>5. n \in OpenNumbers(Pending) /\ n \in Nat
  <2>1. stack[a][j] \in CommandBuffers
    BY <1>2, MetalFields DEF MetalInv
  <2> QED
    BY <1>2, <1>4, <2>1 DEF MetalInv, NumbersInv, CommandBuffers, Top
<1>6. /\ pending_submissions' \in SubmissionRings /\ InNumberOrder(Pending)' /\ FrontIsOpen(Pending)'
      /\ OpenNumbers(Pending)' = OpenNumbers(Pending) \ {n} /\ NumbersOf(Pending)' \subseteq NumbersOf(Pending)
  BY <1>1, <1>5, CompletedSubmissionIs DEF MetalInv, MetalTypeOK, RingInv, Pending
<1>7. MetalTypeOK'
  BY <1>1, <1>6 DEF MetalInv, MetalTypeOK, GoTo
<1>8. ASSUME NEW c \in Actors PROVE ActorInv(c)'
  <2>1. ActorInv(c)
    BY DEF MetalInv
  <2>2. CASE c = a
    BY <1>1, <1>3, <2>1, <2>2 DEF ActorInv, Top
  <2>3. CASE c # a
    BY <1>1, <1>3, <2>1, <2>3 DEF ActorInv, Top
  <2> QED
    BY <2>2, <2>3
<1>9. PlacesInv'
  BY <1>1, SamePlaces DEF MetalInv
<1>10. CompletedInv' /\ DeviceInv'
  <2>1. CompletedInv
    BY DEF MetalInv
  <2>2. ASSUME NEW c \in Actors
        PROVE  /\ step'[c] = "recording" => completed[c][held[c]]
               /\ step'[c] \in {"enqueue", "commit"} => ~completed[c][held[c]] \/ <<c, held[c]>> \in timed_out
               /\ \A k \in 1 .. Len(stack[c]) :
                    completed[stack[c][k].pool][stack[c][k].slot] \/ (step'[c] = "wait" /\ k = Len(stack[c]))
    <3>1. CASE c = a
      BY <1>1, <1>3, <2>1, <3>1 DEF CompletedInv
    <3>2. CASE c # a
      BY <1>1, <1>3, <2>1, <3>2 DEF CompletedInv
    <3> QED
      BY <3>1, <3>2
  <2>3. UNCHANGED <<unused, completed, stack, timed_out, held>>
    BY <1>1
  <2>4. CompletedInv'
    BY <2>1, <2>2, <2>3 DEF CompletedInv
  <2> QED
    BY <1>1, <2>4 DEF MetalInv, DeviceInv, Id
<1>11. NumbersInv'
  <2>1. ASSUME NEW x \in Lines, NEW k \in Nat
        PROVE  /\ Reports(x, k)' <=> Reports(x, k) /\ ~(x = a /\ k = j)
               /\ NumberOf(x, k)' = NumberOf(x, k)
    <3>1. CASE x = a
      BY <1>1, <1>2, <1>3, <1>4, <3>1 DEF Reports, Occupied, NumberOf
    <3>2. CASE x # a
      BY <1>1, <1>3, <3>2 DEF Reports, Occupied, NumberOf, Lines
    <3> QED
      BY <3>1, <3>2
  <2>2. NumbersInv /\ dropped' = dropped
    BY <1>1 DEF MetalInv
  <2> HIDE DEF j, n
  <2>3. \A x \in Lines, k \in Nat : Reports(x, k) /\ ~(x = a /\ k = j) => NumberOf(x, k) # n
    BY <1>2, <1>4, <2>2 DEF NumbersInv
  <2> QED
    BY <1>6, <2>1, <2>2, <2>3, <1>4 DEF NumbersInv
<1>12. RingInv'
  <2>1. RingInv
    BY DEF MetalInv
  <2> QED
    BY <1>1, <1>6, <2>1 DEF RingInv
<1> QED
  BY <1>7, <1>8, <1>9, <1>10, <1>11, <1>12 DEF MetalInv

LEMMA ReleaseResourcePreserves ==
  ASSUME MetalInv, NEW a \in Actors, release_resource(a)
  PROVE  MetalInv'
<1> DEFINE j == Len(stack[a])
           q == Top(a).pool
           r == Top(a).slot
<1>1. /\ step[a] = "release" /\ GoTo(a, IF j = 1 THEN "idle" ELSE "handlers")
      /\ unused' = [unused EXCEPT ![q] = @ \cup {r}]
      /\ stack' = [stack EXCEPT ![a] = SubSeq(@, 1, j - 1)]
      /\ UNCHANGED <<metal_ctx, completed, submission_counter, pending_submissions, held, call, on_device,
                     work_queue, last, finished, timed_out, dropped>>
  BY DEF release_resource, metalNumbers, metalFinish, metalHistory
<1>2. j \in 1 .. j /\ j \in Nat /\ (j = 1 \/ j = 2) /\ stack[a] \in Seq(CommandBuffers)
  <2>1. stack[a] \in Seq(CommandBuffers) /\ j \in Nat
    BY MetalFields DEF MetalInv
  <2>2. stack[a] # <<>> /\ j \in {0, 1, 2}
    BY <1>1 DEF MetalInv, ActorInv
  <2>3. j # 0
    BY <2>1, <2>2
  <2> QED
    BY <2>1, <2>2, <2>3
<1>3. /\ step'[a] = (IF j = 1 THEN "idle" ELSE "handlers") /\ \A c \in Actors : c # a => step'[c] = step[c]
      /\ \A c \in Actors : c # a => stack'[c] = stack[c]
      /\ stack'[a] = SubSeq(stack[a], 1, j - 1)
  BY <1>1 DEF GoTo, MetalInv, MetalTypeOK
<1>4. /\ stack'[a] \in Seq(CommandBuffers) /\ Len(stack'[a]) = j - 1
      /\ \A k \in 1 .. j - 1 : stack'[a][k] = stack[a][k]
  BY <1>2, <1>3
<1>5. q \in Actors /\ r \in MetalSlots /\ completed[q][r]
  <2>1. stack[a][j] \in CommandBuffers
    BY <1>2
  <2> QED
    BY <1>1, <1>2, <2>1 DEF MetalInv, CompletedInv, CommandBuffers, Top
<1>6. MetalTypeOK'
  <2>1. stack' \in [Actors -> Seq(CommandBuffers)]
    BY <1>1, <1>3, <1>4 DEF MetalInv, MetalTypeOK
  <2>2. unused' \in [Actors -> SUBSET MetalSlots]
    BY <1>1, <1>5 DEF MetalInv, MetalTypeOK
  <2> QED
    BY <1>1, <2>1, <2>2 DEF MetalInv, MetalTypeOK, GoTo
<1>7. ASSUME NEW c \in Actors PROVE ActorInv(c)'
  <2>1. ActorInv(c)
    BY DEF MetalInv
  <2>2. CASE c = a
    <3>1. held[a] = NoSlot
      BY <1>1, <2>1, <2>2 DEF ActorInv
    <3>2. CASE j = 1
      <4>1. stack'[a] = <<>> /\ Len(stack'[a]) = 0
        BY <1>4, <3>2
      <4> QED
        BY <1>1, <1>3, <2>2, <3>1, <3>2, <4>1 DEF ActorInv
    <3>3. CASE j = 2
      <4>1. stack'[a] # <<>> /\ Len(stack'[a]) = 1
        BY <1>4, <3>3
      <4> QED
        BY <1>1, <1>3, <2>2, <3>1, <3>3, <4>1 DEF ActorInv
    <3> QED
      BY <1>2, <3>2, <3>3
  <2>3. CASE c # a
    BY <1>1, <1>3, <2>1, <2>3 DEF ActorInv, Top
  <2> QED
    BY <2>2, <2>3
<1>8. /\ a \in Lines /\ a # HandlerLine /\ Occupied(a, j) /\ PoolOf(a, j) = q /\ SlotOf(a, j) = r
  BY <1>2, TheLineIsNoActor DEF Lines, Occupied, PoolOf, SlotOf, Top
<1>9. ASSUME NEW x \in Lines, NEW k \in Nat
      PROVE  /\ Occupied(x, k)' <=> Occupied(x, k) /\ ~(x = a /\ k = j)
             /\ Occupied(x, k)' => PoolOf(x, k)' = PoolOf(x, k) /\ SlotOf(x, k)' = SlotOf(x, k)
             /\ Reports(x, k)' <=> Reports(x, k)
             /\ Reports(x, k) => NumberOf(x, k)' = NumberOf(x, k)
  <2>1. CASE x = a
    <3>1. held[a] = NoSlot
      BY <1>1 DEF MetalInv, ActorInv
    <3>2. \A m \in Nat : m \in 1 .. j - 1 <=> m \in 1 .. j /\ m # j
      BY <1>2
    <3>3. /\ Occupied(a, k) <=> k \in 1 .. j
          /\ Occupied(a, k)' <=> k \in 1 .. j - 1
      BY <1>1, <1>4, <1>8, <3>1 DEF Occupied
    <3>4. k \in 1 .. j - 1 => k # 0 /\ stack'[a][k] = stack[a][k]
      BY <1>2, <1>4
    <3>5. Occupied(a, k)' => /\ PoolOf(a, k)' = PoolOf(a, k) /\ SlotOf(a, k)' = SlotOf(a, k)
                             /\ NumberOf(a, k)' = NumberOf(a, k)
      BY <1>8, <3>3, <3>4 DEF PoolOf, SlotOf, NumberOf
    <3>6. Reports(a, k)' <=> k \in 1 .. j - 1
      <4>1. step'[a] # "commit" /\ step'[a] # "release"
        BY <1>3
      <4> QED
        BY <1>8, <3>3, <3>4, <4>1 DEF Reports
    <3>7. Reports(a, k) <=> k \in 1 .. j - 1
      <4>1. step[a] = "release"
        BY <1>1
      <4> QED
        BY <1>2, <1>8, <3>2, <3>3, <4>1 DEF Reports
    <3> QED
      BY <2>1, <3>2, <3>3, <3>5, <3>6, <3>7
  <2>2. CASE x # a
    BY <1>1, <1>3, <2>2 DEF Occupied, PoolOf, SlotOf, Reports, NumberOf, Lines
  <2> QED
    BY <2>1, <2>2
<1>10. PlacesInv'
  BY <1>1, <1>2, <1>8, <1>9, APlaceIsLeft
<1>11. CompletedInv'
  <2>1. CompletedInv /\ UNCHANGED <<completed, timed_out, held>>
    BY <1>1 DEF MetalInv
  <2>2. \A p \in Actors, s \in MetalSlots : s \in unused'[p] => s \in unused[p] \/ (p = q /\ s = r)
    BY <1>1, <1>5 DEF MetalInv, MetalTypeOK
  <2>3. ASSUME NEW c \in Actors
        PROVE  /\ step'[c] = "recording" => completed[c][held[c]]
               /\ step'[c] \in {"enqueue", "commit"} => ~completed[c][held[c]] \/ <<c, held[c]>> \in timed_out
               /\ \A k \in 1 .. Len(stack'[c]) :
                    completed[stack'[c][k].pool][stack'[c][k].slot] \/ (step'[c] = "wait" /\ k = Len(stack'[c]))
    <3>1. CASE c = a
      <4>1. ASSUME NEW k \in 1 .. Len(stack'[a]) PROVE completed[stack'[a][k].pool][stack'[a][k].slot]
        <5>1. k \in 1 .. j /\ k \in 1 .. j - 1 /\ k # j
          BY <1>2, <1>4, <4>1
        <5> QED
          BY <1>1, <1>4, <2>1, <5>1 DEF CompletedInv
      <4> QED
        BY <1>3, <3>1, <4>1
    <3>2. CASE c # a
      BY <1>3, <2>1, <3>2 DEF CompletedInv
    <3> QED
      BY <3>1, <3>2
  <2> QED
    BY <1>5, <2>1, <2>2, <2>3 DEF CompletedInv
<1>12. DeviceInv'
  BY <1>1 DEF MetalInv, DeviceInv, Id
<1>13. NumbersInv' /\ RingInv'
  <2>1. OpenNumbers(Pending)' = OpenNumbers(Pending) /\ dropped \subseteq dropped'
    BY <1>1 DEF Pending
  <2> QED
    BY <1>1, <1>9, <2>1, ReportsStay, SameRing DEF MetalInv
<1> QED
  BY <1>6, <1>7, <1>10, <1>11, <1>12, <1>13 DEF MetalInv

(* A command buffer goes from one place to another, and its number with it. *)
LEMMA APlaceMoves ==
  ASSUME MetalInv, NEW z \in Lines, NEW j \in Nat, NEW y \in Lines, NEW i \in Nat,
         Occupied(z, j), Reports(z, j), ~Occupied(y, i), ~Occupied(z, j)', Occupied(y, i)', Reports(y, i)',
         PoolOf(y, i)' = PoolOf(z, j), SlotOf(y, i)' = SlotOf(z, j), NumberOf(y, i)' = NumberOf(z, j),
         \A x \in Lines, k \in Nat :
           ~(x = z /\ k = j) /\ ~(x = y /\ k = i) =>
             /\ Occupied(x, k)' <=> Occupied(x, k)
             /\ Reports(x, k)' <=> Reports(x, k)
             /\ Occupied(x, k) => /\ PoolOf(x, k)' = PoolOf(x, k) /\ SlotOf(x, k)' = SlotOf(x, k)
                                  /\ NumberOf(x, k)' = NumberOf(x, k),
         UNCHANGED <<unused, dropped, pending_submissions>>
  PROVE  PlacesInv' /\ NumbersInv'
<1>1. PlacesInv /\ NumbersInv /\ OpenNumbers(Pending)' = OpenNumbers(Pending)
  BY DEF MetalInv, Pending
<1>2. \A x \in Lines, k \in Nat : (Reports(x, k) => Occupied(x, k)) /\ (Reports(x, k)' => Occupied(x, k)')
  BY DEF Reports
<1>3. ~Reports(z, j)' /\ ~Reports(y, i)
  BY <1>2
(* Where the command buffer was that is now at a place                     *)
<1> DEFINE lx(x, k) == IF x = y /\ k = i THEN z ELSE x
           kx(x, k) == IF x = y /\ k = i THEN j ELSE k
<1>4. ASSUME NEW x \in Lines, NEW k \in Nat, Occupied(x, k)'
      PROVE  /\ lx(x, k) \in Lines /\ kx(x, k) \in Nat /\ Occupied(lx(x, k), kx(x, k))
             /\ PoolOf(x, k)' = PoolOf(lx(x, k), kx(x, k)) /\ SlotOf(x, k)' = SlotOf(lx(x, k), kx(x, k))
             /\ NumberOf(x, k)' = NumberOf(lx(x, k), kx(x, k))
             /\ Reports(x, k)' => Reports(lx(x, k), kx(x, k))
  <2>1. CASE x = y /\ k = i
    BY <2>1
  <2>2. CASE ~(x = y /\ k = i)
    BY <1>4, <2>2
  <2> QED
    BY <2>1, <2>2
<1>5. ASSUME NEW x \in Lines, NEW k \in Nat, NEW u \in Lines, NEW l \in Nat, Occupied(x, k)', Occupied(u, l)',
             lx(x, k) = lx(u, l), kx(x, k) = kx(u, l)
      PROVE  x = u /\ k = l
  BY <1>5
<1>6. ASSUME NEW x \in Lines, NEW k \in Nat, Occupied(x, k)
      PROVE  \E u \in Lines, l \in Nat :
               /\ Occupied(u, l)' /\ PoolOf(u, l)' = PoolOf(x, k) /\ SlotOf(u, l)' = SlotOf(x, k)
               /\ NumberOf(u, l)' = NumberOf(x, k) /\ (Reports(x, k) => Reports(u, l)')
  <2>1. CASE x = z /\ k = j
    BY <2>1
  <2>2. CASE ~(x = z /\ k = j)
    <3>1. ~(x = y /\ k = i)
      BY <1>6
    <3> QED
      BY <1>6, <2>2, <3>1
  <2> QED
    BY <2>1, <2>2
<1> HIDE DEF lx, kx
<1>7. PlacesInv'
  <2>1. ASSUME NEW x \in Lines, NEW u \in Lines, NEW k \in Nat, NEW l \in Nat,
               Occupied(x, k)', Occupied(u, l)', PoolOf(x, k)' = PoolOf(u, l)', SlotOf(x, k)' = SlotOf(u, l)'
        PROVE  x = u /\ k = l
    <3>1. lx(x, k) = lx(u, l) /\ kx(x, k) = kx(u, l)
      BY <1>1, <1>4, <2>1 DEF PlacesInv
    <3> QED
      BY <1>5, <2>1, <3>1
  <2>2. ASSUME NEW x \in Lines, NEW k \in Nat, Occupied(x, k)'
        PROVE  SlotOf(x, k)' \notin unused[PoolOf(x, k)'] /\ <<PoolOf(x, k)', SlotOf(x, k)'>> \notin dropped
    BY <1>1, <1>4, <2>2 DEF PlacesInv
  <2>3. ASSUME NEW p \in Actors, NEW s \in MetalSlots, s \notin unused[p], <<p, s>> \notin dropped
        PROVE  \E u \in Lines, l \in Nat : Occupied(u, l)' /\ PoolOf(u, l)' = p /\ SlotOf(u, l)' = s
    <3>1. PICK x \in Lines, k \in Nat : Occupied(x, k) /\ PoolOf(x, k) = p /\ SlotOf(x, k) = s
      BY <1>1, <2>3 DEF PlacesInv
    <3> QED
      BY <1>6, <3>1
  <2> QED
    BY <1>1, <2>1, <2>2, <2>3 DEF PlacesInv
<1>8. NumbersInv'
  <2>1. ASSUME NEW x \in Lines, NEW u \in Lines, NEW k \in Nat, NEW l \in Nat,
               Reports(x, k)', Reports(u, l)', NumberOf(x, k)' = NumberOf(u, l)'
        PROVE  x = u /\ k = l
    <3>1. Occupied(x, k)' /\ Occupied(u, l)'
      BY <1>2, <2>1
    <3>2. lx(x, k) = lx(u, l) /\ kx(x, k) = kx(u, l)
      BY <1>1, <1>4, <2>1, <3>1 DEF NumbersInv
    <3> QED
      BY <1>5, <3>1, <3>2
  <2>2. ASSUME NEW x \in Lines, NEW k \in Nat, Reports(x, k)'
        PROVE  NumberOf(x, k)' \in OpenNumbers(Pending)
    BY <1>1, <1>2, <1>4, <2>2 DEF NumbersInv
  <2>3. ASSUME dropped = {}, NEW n \in OpenNumbers(Pending)
        PROVE  \E u \in Lines, l \in Nat : Reports(u, l)' /\ NumberOf(u, l)' = n
    <3>1. PICK x \in Lines, k \in Nat : Reports(x, k) /\ NumberOf(x, k) = n
      BY <1>1, <2>3 DEF NumbersInv
    <3> QED
      BY <1>2, <1>6, <3>1
  <2> QED
    BY <1>1, <2>1, <2>2, <2>3 DEF NumbersInv
<1> QED
  BY <1>7, <1>8

LEMMA CommitPreserves ==
  ASSUME MetalInv, NEW a \in Actors, commit_to_queue(a), undefined = "no", undefined' = "no"
  PROVE  MetalInv'
<1> DEFINE b == [pool |-> a, slot |-> held[a], number |-> call[a].number, handler |-> call[a].handler]
           d == [b EXCEPT !.handler = "none"]
<1>1. /\ step[a] = "commit" /\ on_device' = on_device \cup {d}
      /\ held' = [held EXCEPT ![a] = NoSlot] /\ call' = [call EXCEPT ![a] = NoCall]
      /\ \/ /\ call[a].blocking /\ stack' = [stack EXCEPT ![a] = Append(@, b)] /\ GoTo(a, "wait")
            /\ work_queue' = work_queue
         \/ /\ ~call[a].blocking /\ GoTo(a, After(a)) /\ work_queue' = Append(work_queue, b) /\ stack' = stack
      /\ UNCHANGED <<metal_ctx, unused, completed, submission_counter, pending_submissions, last, finished,
                     timed_out, dropped>>
  BY DEF commit_to_queue, metalPool, metalNumbers, metalFinish, metalHistory
<1>2. /\ ActorInv(a) /\ held[a] # NoSlot /\ held[a] \in MetalSlots
      /\ call[a] \in [blocking : BOOLEAN, handler : {"none", "submit"}, number : Nat]
  BY <1>1, HeldIsNowhereElse DEF MetalInv, MetalTypeOK, ActorInv
<1>3. /\ b \in CommandBuffers /\ b.pool = a /\ b.slot = held[a] /\ b.number = call[a].number
      /\ b.handler = call[a].handler
      /\ d \in CommandBuffers /\ d.pool = a /\ d.slot = held[a] /\ Id(d) = <<a, held[a]>>
  BY <1>2 DEF CommandBuffers, Id
<1> HIDE DEF b, d
<1>0. PICK j \in Nat, m \in Nat : j = Len(stack[a]) /\ m = Len(work_queue)
  BY MetalFields DEF MetalInv
<1>4. /\ held'[a] = NoSlot /\ call'[a] = NoCall
      /\ stack[a] \in Seq(CommandBuffers) /\ work_queue \in Seq(CommandBuffers)
      /\ \A c \in Actors : c # a => /\ held'[c] = held[c] /\ call'[c] = call[c]
                                    /\ step'[c] = step[c] /\ stack'[c] = stack[c]
  BY <1>1, MetalFields DEF GoTo, MetalInv, MetalTypeOK
<1>5. /\ a \in Lines /\ a # HandlerLine /\ HandlerLine \in Lines
      /\ Occupied(a, 0) /\ Reports(a, 0) /\ PoolOf(a, 0) = a /\ SlotOf(a, 0) = held[a]
      /\ NumberOf(a, 0) = call[a].number
  BY <1>1, <1>2, TheLineIsNoActor DEF Lines, Occupied, Reports, PoolOf, SlotOf, NumberOf
<1>6. DeviceInv'
  <2>1. DeviceInv /\ CompletedInv /\ UNCHANGED <<completed, timed_out>>
    BY <1>1 DEF MetalInv
  <2>2. \A c \in on_device : c.pool \in Actors /\ c.slot \in MetalSlots /\ Id(c) = <<c.pool, c.slot>>
    BY MetalFields DEF MetalInv, MetalTypeOK
  <2>3. \A c \in on_device : Id(c) \notin timed_out => Id(c) # Id(d)
    BY <1>3, <2>1, <2>2 DEF DeviceInv
  <2>4. ASSUME NEW c \in on_device', Id(c) \notin timed_out
        PROVE  ~completed[c.pool][c.slot] /\ held'[c.pool] # c.slot
    <3>1. CASE c = d
      BY <1>1, <1>2, <1>3, <1>4, <2>1, <2>4, <3>1 DEF CompletedInv
    <3>2. CASE c # d
      <4>1. c \in on_device
        BY <1>1, <3>2
      <4>2. ~completed[c.pool][c.slot] /\ held[c.pool] # c.slot /\ c.pool \in Actors /\ c.slot \in MetalSlots
        BY <2>1, <2>2, <2>4, <4>1 DEF DeviceInv
      <4> QED
        BY <1>4, <4>2, MetalAssumption
    <3> QED
      BY <3>1, <3>2
  <2>5. ASSUME NEW c \in on_device', NEW e \in on_device', Id(c) = Id(e), Id(c) \notin timed_out
        PROVE  c = e
    BY <1>1, <2>1, <2>3, <2>5 DEF DeviceInv
  <2> QED
    BY <2>1, <2>4, <2>5 DEF DeviceInv, Id
<1>7. RingInv'
  BY <1>1, SameRing DEF MetalInv
<1>8. /\ call' \in [Actors -> [blocking : BOOLEAN, handler : {"none", "submit"}, number : Nat]]
      /\ held' \in [Actors -> MetalSlots \cup {NoSlot}] /\ on_device' \in SUBSET CommandBuffers
      /\ step' \in [Actors -> {"idle", "recording", "enqueue", "commit", "wait", "handlers", "release",
                               "finishing", "exited"}]
  <2>1. call' \in [Actors -> [blocking : BOOLEAN, handler : {"none", "submit"}, number : Nat]]
    BY <1>1 DEF MetalInv, MetalTypeOK, NoCall
  <2>2. held' \in [Actors -> MetalSlots \cup {NoSlot}]
    BY <1>1 DEF MetalInv, MetalTypeOK
  <2>3. on_device' \in SUBSET CommandBuffers
    BY <1>1, <1>3 DEF MetalInv, MetalTypeOK
  <2>4. step' = [step EXCEPT ![a] = "wait"] \/ step' = [step EXCEPT ![a] = After(a)]
    BY <1>1 DEF GoTo
  <2>5. After(a) \in {"idle", "handlers"}
    BY DEF After
  <2> QED
    BY <2>1, <2>2, <2>3, <2>4, <2>5 DEF MetalInv, MetalTypeOK
<1>9. CASE call[a].blocking
  <2>1. /\ stack'[a] = Append(stack[a], b) /\ step'[a] = "wait" /\ work_queue' = work_queue
        /\ stack' = [stack EXCEPT ![a] = Append(@, b)]
    BY <1>1, <1>9 DEF GoTo, MetalInv, MetalTypeOK
  <2>2. /\ stack'[a] \in Seq(CommandBuffers) /\ Len(stack'[a]) = j + 1 /\ stack'[a][j + 1] = b
        /\ \A k \in 1 .. j : stack'[a][k] = stack[a][k]
    BY <1>0, <1>3, <1>4, <2>1
  <2>3. MetalTypeOK'
    <3>1. stack' \in [Actors -> Seq(CommandBuffers)]
      BY <2>1, <2>2 DEF MetalInv, MetalTypeOK
    <3> QED
      BY <1>1, <1>8, <2>1, <3>1 DEF MetalInv, MetalTypeOK
  <2>4. ASSUME NEW c \in Actors PROVE ActorInv(c)'
    <3>1. CASE c = a
      <4>1. CASE j = 0
        <5>1. Len(stack'[a]) = 1 /\ stack'[a] # <<>>
          BY <2>2, <4>1
        <5> QED
          BY <1>4, <2>1, <3>1, <5>1 DEF ActorInv
      <4>2. CASE j = 1
        <5>1. Len(stack'[a]) = 2 /\ stack'[a] # <<>> /\ stack'[a][1] = stack[a][1] /\ stack'[a][2] = b
          BY <2>2, <4>2
        <5>2. stack[a] # <<>>
          <6>1. Len(stack[a]) # 0
            BY <1>0, <4>2
          <6> QED
            BY <6>1
        <5>3. stack[a][1].handler = "none" /\ b.handler = "none"
          BY <1>1, <1>2, <1>3, <5>2 DEF ActorInv
        <5> QED
          BY <1>4, <2>1, <3>1, <5>1, <5>3 DEF ActorInv
      <4> QED
        BY <1>0, <1>2, <4>1, <4>2 DEF ActorInv
    <3>2. CASE c # a
      <4>1. ActorInv(c)
        BY DEF MetalInv
      <4> QED
        BY <1>4, <3>2, <4>1 DEF ActorInv, Top
    <3> QED
      BY <3>1, <3>2
  <2>5. CompletedInv'
    <3>1. CompletedInv /\ UNCHANGED <<unused, completed, timed_out>>
      BY <1>1 DEF MetalInv
    <3>2. ASSUME NEW c \in Actors
          PROVE  /\ step'[c] = "recording" => completed[c][held'[c]]
                 /\ step'[c] \in {"enqueue", "commit"} => ~completed[c][held'[c]] \/ <<c, held'[c]>> \in timed_out
                 /\ \A k \in 1 .. Len(stack'[c]) :
                      completed[stack'[c][k].pool][stack'[c][k].slot] \/ (step'[c] = "wait" /\ k = Len(stack'[c]))
      <4>1. CASE c = a
        <5>1. ASSUME NEW k \in 1 .. Len(stack'[a]), k # Len(stack'[a])
              PROVE  completed[stack'[a][k].pool][stack'[a][k].slot]
          <6>1. k \in 1 .. j
            BY <1>4, <2>2, <5>1
          <6> QED
            BY <1>0, <1>1, <2>2, <3>1, <6>1 DEF CompletedInv
        <5>2. step'[c] = "wait"
          BY <2>1, <4>1
        <5>3. ASSUME NEW k \in 1 .. Len(stack'[c])
              PROVE  completed[stack'[c][k].pool][stack'[c][k].slot] \/ k = Len(stack'[c])
          BY <4>1, <5>1
        <5> QED
          BY <5>2, <5>3
      <4>2. CASE c # a
        <5>1. step'[c] = step[c] /\ held'[c] = held[c] /\ stack'[c] = stack[c]
          BY <1>4, <4>2
        <5>2. /\ step[c] = "recording" => completed[c][held[c]]
              /\ step[c] \in {"enqueue", "commit"} => ~completed[c][held[c]] \/ <<c, held[c]>> \in timed_out
              /\ \A k \in 1 .. Len(stack[c]) :
                   completed[stack[c][k].pool][stack[c][k].slot] \/ (step[c] = "wait" /\ k = Len(stack[c]))
          BY <3>1 DEF CompletedInv
        <5> QED
          BY <5>1, <5>2
      <4> QED
        BY <4>1, <4>2
    <3> QED
      BY <3>1, <3>2 DEF CompletedInv
  <2>6. PlacesInv' /\ NumbersInv'
    <3>1. j + 1 \in Nat /\ j + 1 # 0 /\ j + 1 \in 1 .. j + 1 /\ j + 1 \notin 1 .. j
          /\ \A k \in Nat : k # j + 1 => (k \in 1 .. j + 1 <=> k \in 1 .. j)
      BY <1>4
    <3>2. ~Occupied(a, j + 1) /\ ~Occupied(a, 0)'
      BY <1>0, <1>4, <1>5, <2>2, <3>1 DEF Occupied
    <3>3. /\ Occupied(a, j + 1)' /\ Reports(a, j + 1)' /\ PoolOf(a, j + 1)' = a
          /\ SlotOf(a, j + 1)' = held[a] /\ NumberOf(a, j + 1)' = call[a].number
      BY <1>3, <1>5, <2>1, <2>2, <3>1 DEF Occupied, Reports, PoolOf, SlotOf, NumberOf
    <3>4. ASSUME NEW x \in Lines, NEW k \in Nat, ~(x = a /\ k = 0), ~(x = a /\ k = j + 1)
          PROVE  /\ Occupied(x, k)' <=> Occupied(x, k)
                 /\ Reports(x, k)' <=> Reports(x, k)
                 /\ Occupied(x, k) => /\ PoolOf(x, k)' = PoolOf(x, k) /\ SlotOf(x, k)' = SlotOf(x, k)
                                      /\ NumberOf(x, k)' = NumberOf(x, k)
      <4>1. CASE x = a
        <5>1. k # 0 /\ k # j + 1
          BY <3>4, <4>1
        <5>2. Occupied(a, k)' <=> Occupied(a, k)
          BY <1>0, <1>4, <1>5, <2>2, <3>1, <5>1 DEF Occupied
        <5>3. Occupied(a, k) => k \in 1 .. j /\ stack'[a][k] = stack[a][k]
          BY <1>0, <1>5, <2>2, <5>1 DEF Occupied
        <5>4. Reports(a, k)' <=> Reports(a, k)
          <6>1. step[a] = "commit" /\ step'[a] = "wait"
            BY <1>1, <2>1
          <6> QED
            BY <1>5, <5>1, <5>2, <6>1 DEF Reports
        <5>5. Occupied(a, k) => /\ PoolOf(a, k)' = PoolOf(a, k) /\ SlotOf(a, k)' = SlotOf(a, k)
                                /\ NumberOf(a, k)' = NumberOf(a, k)
          BY <1>5, <5>1, <5>3 DEF PoolOf, SlotOf, NumberOf
        <5> QED
          BY <4>1, <5>2, <5>4, <5>5
      <4>2. CASE x # a
        BY <1>4, <2>1, <4>2 DEF Occupied, Reports, PoolOf, SlotOf, NumberOf, Lines
      <4> QED
        BY <4>1, <4>2
    <3>5. UNCHANGED <<unused, dropped, pending_submissions>>
      BY <1>1
    <3> QED
      BY <1>5, <3>1, <3>2, <3>3, <3>4, <3>5, APlaceMoves
  <2> QED
    BY <1>6, <1>7, <2>3, <2>4, <2>5, <2>6 DEF MetalInv
<1>10. CASE ~call[a].blocking
  <2>1. /\ stack[a] = <<>> /\ step'[a] = "idle" /\ stack' = stack /\ work_queue' = Append(work_queue, b)
    BY <1>1, <1>2, <1>10 DEF GoTo, After, MetalInv, MetalTypeOK, ActorInv
  <2>2. /\ work_queue' \in Seq(CommandBuffers) /\ Len(work_queue') = m + 1 /\ work_queue'[m + 1] = b
        /\ \A k \in 1 .. m : work_queue'[k] = work_queue[k]
    BY <1>0, <1>3, <1>4, <2>1
  <2>3. MetalTypeOK'
    BY <1>1, <1>8, <2>1, <2>2 DEF MetalInv, MetalTypeOK
  <2>4. ASSUME NEW c \in Actors PROVE ActorInv(c)'
    <3>1. ActorInv(c)
      BY DEF MetalInv
    <3>2. CASE c = a
      BY <1>4, <2>1, <3>1, <3>2 DEF ActorInv
    <3>3. CASE c # a
      BY <1>4, <2>1, <3>1, <3>3 DEF ActorInv, Top
    <3> QED
      BY <3>2, <3>3
  <2>5. CompletedInv'
    <3>1. CompletedInv /\ UNCHANGED <<unused, completed, timed_out, stack>>
      BY <1>1, <2>1 DEF MetalInv
    <3>2. ASSUME NEW c \in Actors
          PROVE  /\ step'[c] = "recording" => completed[c][held'[c]]
                 /\ step'[c] \in {"enqueue", "commit"} => ~completed[c][held'[c]] \/ <<c, held'[c]>> \in timed_out
                 /\ \A k \in 1 .. Len(stack[c]) :
                      completed[stack[c][k].pool][stack[c][k].slot] \/ (step'[c] = "wait" /\ k = Len(stack[c]))
      <4>1. CASE c = a
        BY <1>1, <2>1, <3>1, <4>1 DEF CompletedInv
      <4>2. CASE c # a
        <5>1. step'[c] = step[c] /\ held'[c] = held[c] /\ stack'[c] = stack[c]
          BY <1>4, <4>2
        <5>2. /\ step[c] = "recording" => completed[c][held[c]]
              /\ step[c] \in {"enqueue", "commit"} => ~completed[c][held[c]] \/ <<c, held[c]>> \in timed_out
              /\ \A k \in 1 .. Len(stack[c]) :
                   completed[stack[c][k].pool][stack[c][k].slot] \/ (step[c] = "wait" /\ k = Len(stack[c]))
          BY <3>1 DEF CompletedInv
        <5> QED
          BY <5>1, <5>2
      <4> QED
        BY <4>1, <4>2
    <3> QED
      BY <3>1, <3>2 DEF CompletedInv
  <2>6. PlacesInv' /\ NumbersInv'
    <3>1. m + 1 \in Nat /\ m + 1 \in 1 .. m + 1 /\ m + 1 \notin 1 .. m
          /\ \A k \in Nat : k # m + 1 => (k \in 1 .. m + 1 <=> k \in 1 .. m)
      BY <1>4
    <3>2. ~Occupied(HandlerLine, m + 1) /\ ~Occupied(a, 0)'
      BY <1>0, <1>4, <1>5, <2>1, <3>1 DEF Occupied
    <3>3. /\ Occupied(HandlerLine, m + 1)' /\ Reports(HandlerLine, m + 1)' /\ PoolOf(HandlerLine, m + 1)' = a
          /\ SlotOf(HandlerLine, m + 1)' = held[a] /\ NumberOf(HandlerLine, m + 1)' = call[a].number
      BY <1>3, <2>2, <3>1 DEF Occupied, Reports, PoolOf, SlotOf, NumberOf
    <3>4. ASSUME NEW x \in Lines, NEW k \in Nat, ~(x = a /\ k = 0), ~(x = HandlerLine /\ k = m + 1)
          PROVE  /\ Occupied(x, k)' <=> Occupied(x, k)
                 /\ Reports(x, k)' <=> Reports(x, k)
                 /\ Occupied(x, k) => /\ PoolOf(x, k)' = PoolOf(x, k) /\ SlotOf(x, k)' = SlotOf(x, k)
                                      /\ NumberOf(x, k)' = NumberOf(x, k)
      <4>1. CASE x = HandlerLine
        <5>1. Occupied(x, k)' <=> Occupied(x, k)
          BY <1>0, <2>2, <3>1, <3>4, <4>1 DEF Occupied
        <5>2. Occupied(x, k) => work_queue'[k] = work_queue[k]
          BY <1>0, <2>2, <4>1 DEF Occupied
        <5> QED
          BY <4>1, <5>1, <5>2 DEF Reports, PoolOf, SlotOf, NumberOf
      <4>2. CASE x = a
        BY <1>1, <1>4, <1>5, <2>1, <3>4, <4>2 DEF Occupied, Reports, PoolOf, SlotOf, NumberOf
      <4>3. CASE x # a /\ x # HandlerLine
        BY <1>4, <2>1, <4>3 DEF Occupied, Reports, PoolOf, SlotOf, NumberOf, Lines
      <4> QED
        BY <4>1, <4>2, <4>3
    <3>5. UNCHANGED <<unused, dropped, pending_submissions>>
      BY <1>1
    <3> QED
      BY <1>5, <3>1, <3>2, <3>3, <3>4, <3>5, APlaceMoves
  <2> QED
    BY <1>6, <1>7, <2>3, <2>4, <2>5, <2>6 DEF MetalInv
<1> QED
  BY <1>9, <1>10

(* The first command buffer in the line goes to a completion thread.       *)
LEMMA PickUpTakesTheFirst ==
  ASSUME MetalInv, NEW w \in Actors, pick_up(w)
  PROVE  MetalInv'
<1>0. PICK m \in Nat : m = Len(work_queue)
  BY MetalFields DEF MetalInv
<1> DEFINE b == Head(work_queue)
<1>1. /\ step[w] = "idle" /\ work_queue # <<>> /\ GoTo(w, "wait")
      /\ stack' = [stack EXCEPT ![w] = <<b>>] /\ work_queue' = Tail(work_queue)
      /\ UNCHANGED <<metal_ctx, unused, completed, submission_counter, pending_submissions, held, call,
                     on_device, last, finished, timed_out, dropped>>
  BY DEF pick_up, metalPool, metalNumbers, metalFinish, metalHistory
<1>2. /\ ActorInv(w) /\ held[w] = NoSlot /\ stack[w] = <<>> /\ work_queue \in Seq(CommandBuffers)
  BY <1>1, MetalFields DEF MetalInv, ActorInv
<1>3. /\ m # 0 /\ 1 \in 1 .. m /\ b = work_queue[1] /\ b \in CommandBuffers
      /\ work_queue' \in Seq(CommandBuffers) /\ Len(work_queue') = m - 1
      /\ \A k \in 1 .. m - 1 : work_queue'[k] = work_queue[k + 1]
  BY <1>0, <1>1, <1>2
<1> HIDE DEF b
<1>4. /\ step'[w] = "wait" /\ stack'[w] = <<b>> /\ Len(stack'[w]) = 1 /\ stack'[w][1] = b /\ stack'[w] # <<>>
      /\ \A c \in Actors : c # w => step'[c] = step[c] /\ stack'[c] = stack[c]
  BY <1>1 DEF GoTo, MetalInv, MetalTypeOK
<1>5. MetalTypeOK'
  <2>1. stack' \in [Actors -> Seq(CommandBuffers)]
    BY <1>1, <1>3 DEF MetalInv, MetalTypeOK
  <2> QED
    BY <1>1, <1>3, <2>1 DEF MetalInv, MetalTypeOK, GoTo
<1>6. ASSUME NEW c \in Actors PROVE ActorInv(c)'
  <2>1. ActorInv(c)
    BY DEF MetalInv
  <2>2. CASE c = w
    BY <1>1, <1>2, <1>4, <2>2 DEF ActorInv
  <2>3. CASE c # w
    BY <1>1, <1>4, <2>1, <2>3 DEF ActorInv, Top
  <2> QED
    BY <2>2, <2>3
<1>7. CompletedInv'
  <2>1. CompletedInv /\ UNCHANGED <<unused, completed, timed_out, held>>
    BY <1>1 DEF MetalInv
  <2>2. ASSUME NEW c \in Actors
        PROVE  /\ step'[c] = "recording" => completed[c][held[c]]
               /\ step'[c] \in {"enqueue", "commit"} => ~completed[c][held[c]] \/ <<c, held[c]>> \in timed_out
               /\ \A k \in 1 .. Len(stack'[c]) :
                    completed[stack'[c][k].pool][stack'[c][k].slot] \/ (step'[c] = "wait" /\ k = Len(stack'[c]))
    <3>1. CASE c = w
      BY <1>4, <3>1
    <3>2. CASE c # w
      BY <1>4, <2>1, <3>2 DEF CompletedInv
    <3> QED
      BY <3>1, <3>2
  <2> QED
    BY <2>1, <2>2 DEF CompletedInv
<1>8. DeviceInv' /\ RingInv'
  BY <1>1, SameRing DEF MetalInv, DeviceInv, Id
(* Where the command buffer was that is now at a place                     *)
<1> DEFINE lx(x, k) == IF x = w THEN HandlerLine ELSE x
           kx(x, k) == IF x = w THEN 1 ELSE IF x = HandlerLine THEN k + 1 ELSE k
<1>9. w \in Lines /\ w # HandlerLine /\ HandlerLine \in Lines
  BY TheLineIsNoActor DEF Lines
<1>10. ASSUME NEW k \in Nat
       PROVE  /\ Occupied(w, k)' <=> k = 1
              /\ Reports(w, k)' <=> k = 1
              /\ PoolOf(w, 1)' = b.pool /\ SlotOf(w, 1)' = b.slot /\ NumberOf(w, 1)' = b.number
              /\ ~Occupied(w, k)
  <2>1. held'[w] = NoSlot /\ (k \in 1 .. 1 <=> k = 1) /\ Len(stack[w]) = 0 /\ k \notin 1 .. 0
    BY <1>1, <1>2
  <2>2. Occupied(w, k)' <=> k = 1
    BY <1>4, <1>9, <2>1 DEF Occupied
  <2>3. ~Occupied(w, k)
    BY <1>2, <1>9, <2>1 DEF Occupied
  <2>4. Reports(w, k)' <=> k = 1
    BY <1>4, <1>9, <2>2 DEF Reports
  <2>5. PoolOf(w, 1)' = b.pool /\ SlotOf(w, 1)' = b.slot /\ NumberOf(w, 1)' = b.number
    BY <1>4, <1>9 DEF PoolOf, SlotOf, NumberOf
  <2> QED
    BY <2>2, <2>3, <2>4, <2>5
<1>11. ASSUME NEW k \in Nat
       PROVE  /\ Occupied(HandlerLine, k) <=> k \in 1 .. m
              /\ Occupied(HandlerLine, k)' <=> k \in 1 .. m - 1
              /\ Reports(HandlerLine, k) <=> k \in 1 .. m
              /\ Reports(HandlerLine, k)' <=> k \in 1 .. m - 1
              /\ k \in 1 .. m - 1 => /\ k + 1 \in 1 .. m
                                      /\ PoolOf(HandlerLine, k)' = PoolOf(HandlerLine, k + 1)
                                      /\ SlotOf(HandlerLine, k)' = SlotOf(HandlerLine, k + 1)
                                      /\ NumberOf(HandlerLine, k)' = NumberOf(HandlerLine, k + 1)
  BY <1>0, <1>3 DEF Occupied, Reports, PoolOf, SlotOf, NumberOf
<1>12. PoolOf(HandlerLine, 1) = b.pool /\ SlotOf(HandlerLine, 1) = b.slot /\ NumberOf(HandlerLine, 1) = b.number
  BY <1>3 DEF PoolOf, SlotOf, NumberOf
<1>13. ASSUME NEW x \in Lines, NEW k \in Nat, x # w, x # HandlerLine
       PROVE  /\ Occupied(x, k)' <=> Occupied(x, k)
              /\ Reports(x, k)' <=> Reports(x, k)
              /\ PoolOf(x, k)' = PoolOf(x, k) /\ SlotOf(x, k)' = SlotOf(x, k)
              /\ NumberOf(x, k)' = NumberOf(x, k)
  BY <1>1, <1>4, <1>13 DEF Occupied, Reports, PoolOf, SlotOf, NumberOf, Lines
<1>14. ASSUME NEW x \in Lines, NEW k \in Nat, Occupied(x, k)'
       PROVE  /\ lx(x, k) \in Lines /\ kx(x, k) \in Nat /\ Occupied(lx(x, k), kx(x, k))
              /\ PoolOf(x, k)' = PoolOf(lx(x, k), kx(x, k)) /\ SlotOf(x, k)' = SlotOf(lx(x, k), kx(x, k))
              /\ NumberOf(x, k)' = NumberOf(lx(x, k), kx(x, k))
              /\ Reports(x, k)' => Reports(lx(x, k), kx(x, k))
  <2>1. CASE x = w
    BY <1>3, <1>9, <1>10, <1>11, <1>12, <1>14, <2>1
  <2>2. CASE x = HandlerLine
    BY <1>9, <1>11, <1>14, <2>2
  <2>3. CASE x # w /\ x # HandlerLine
    BY <1>13, <1>14, <2>3
  <2> QED
    BY <2>1, <2>2, <2>3
<1>15. ASSUME NEW x \in Lines, NEW k \in Nat, NEW u \in Lines, NEW l \in Nat, Occupied(x, k)', Occupied(u, l)',
              lx(x, k) = lx(u, l), kx(x, k) = kx(u, l)
       PROVE  x = u /\ k = l
  <2>1. \A y \in Lines, i \in Nat : Occupied(y, i)' => (y = w => i = 1) /\ (y = HandlerLine => i \in 1 .. m - 1)
    BY <1>10, <1>11
  <2>2. CASE x = w
    BY <1>9, <1>15, <2>1, <2>2
  <2>3. CASE x = HandlerLine
    BY <1>9, <1>15, <2>1, <2>3
  <2>4. CASE x # w /\ x # HandlerLine
    BY <1>9, <1>15, <2>1, <2>4
  <2> QED
    BY <2>2, <2>3, <2>4
<1>16. ASSUME NEW x \in Lines, NEW k \in Nat, Occupied(x, k)
       PROVE  \E u \in Lines, l \in Nat :
                /\ Occupied(u, l)' /\ PoolOf(u, l)' = PoolOf(x, k) /\ SlotOf(u, l)' = SlotOf(x, k)
                /\ NumberOf(u, l)' = NumberOf(x, k) /\ (Reports(x, k) => Reports(u, l)')
  <2>1. CASE x = HandlerLine /\ k = 1
    BY <1>9, <1>10, <1>12, <2>1
  <2>2. CASE x = HandlerLine /\ k # 1
    <3>1. k - 1 \in Nat /\ k - 1 \in 1 .. m - 1 /\ (k - 1) + 1 = k
      BY <1>11, <1>16, <2>2
    <3>2. /\ Occupied(HandlerLine, k - 1)' /\ Reports(HandlerLine, k - 1)'
          /\ PoolOf(HandlerLine, k - 1)' = PoolOf(HandlerLine, k)
          /\ SlotOf(HandlerLine, k - 1)' = SlotOf(HandlerLine, k)
          /\ NumberOf(HandlerLine, k - 1)' = NumberOf(HandlerLine, k)
      BY <1>11, <3>1
    <3> QED
      BY <1>9, <2>2, <3>1, <3>2
  <2>3. CASE x # HandlerLine
    BY <1>10, <1>13, <1>16, <2>3
  <2> QED
    BY <2>1, <2>2, <2>3
<1> HIDE DEF lx, kx
<1>17. PlacesInv /\ NumbersInv /\ OpenNumbers(Pending)' = OpenNumbers(Pending) /\ unused' = unused /\ dropped' = dropped
  BY <1>1 DEF MetalInv, Pending
<1>18. \A x \in Lines, k \in Nat : (Reports(x, k) => Occupied(x, k)) /\ (Reports(x, k)' => Occupied(x, k)')
  BY DEF Reports
<1>19. PlacesInv'
  <2>1. ASSUME NEW x \in Lines, NEW u \in Lines, NEW k \in Nat, NEW l \in Nat,
               Occupied(x, k)', Occupied(u, l)', PoolOf(x, k)' = PoolOf(u, l)', SlotOf(x, k)' = SlotOf(u, l)'
        PROVE  x = u /\ k = l
    <3>1. lx(x, k) = lx(u, l) /\ kx(x, k) = kx(u, l)
      BY <1>14, <1>17, <2>1 DEF PlacesInv
    <3> QED
      BY <1>15, <2>1, <3>1
  <2>2. ASSUME NEW x \in Lines, NEW k \in Nat, Occupied(x, k)'
        PROVE  SlotOf(x, k)' \notin unused[PoolOf(x, k)'] /\ <<PoolOf(x, k)', SlotOf(x, k)'>> \notin dropped
    BY <1>14, <1>17, <2>2 DEF PlacesInv
  <2>3. ASSUME NEW p \in Actors, NEW s \in MetalSlots, s \notin unused[p], <<p, s>> \notin dropped
        PROVE  \E u \in Lines, l \in Nat : Occupied(u, l)' /\ PoolOf(u, l)' = p /\ SlotOf(u, l)' = s
    <3>1. PICK x \in Lines, k \in Nat : Occupied(x, k) /\ PoolOf(x, k) = p /\ SlotOf(x, k) = s
      BY <1>17, <2>3 DEF PlacesInv
    <3> QED
      BY <1>16, <3>1
  <2> QED
    BY <1>17, <2>1, <2>2, <2>3 DEF PlacesInv
<1>20. NumbersInv'
  <2>1. ASSUME NEW x \in Lines, NEW u \in Lines, NEW k \in Nat, NEW l \in Nat,
               Reports(x, k)', Reports(u, l)', NumberOf(x, k)' = NumberOf(u, l)'
        PROVE  x = u /\ k = l
    <3>1. Occupied(x, k)' /\ Occupied(u, l)'
      BY <1>18, <2>1
    <3>2. lx(x, k) = lx(u, l) /\ kx(x, k) = kx(u, l)
      BY <1>14, <1>17, <2>1, <3>1 DEF NumbersInv
    <3> QED
      BY <1>15, <3>1, <3>2
  <2>2. ASSUME NEW x \in Lines, NEW k \in Nat, Reports(x, k)'
        PROVE  NumberOf(x, k)' \in OpenNumbers(Pending)
    BY <1>14, <1>17, <1>18, <2>2 DEF NumbersInv
  <2>3. ASSUME dropped = {}, NEW n \in OpenNumbers(Pending)
        PROVE  \E u \in Lines, l \in Nat : Reports(u, l)' /\ NumberOf(u, l)' = n
    <3>1. PICK x \in Lines, k \in Nat : Reports(x, k) /\ NumberOf(x, k) = n
      BY <1>17, <2>3 DEF NumbersInv
    <3> QED
      BY <1>16, <1>18, <3>1
  <2> QED
    BY <1>17, <2>1, <2>2, <2>3 DEF NumbersInv
<1> QED
  BY <1>5, <1>6, <1>7, <1>8, <1>19, <1>20 DEF MetalInv

(* destroy() completes the submissions of the line itself; they do not     *)
(* report again.                                                           *)
LEMMA DestroyHandlerDrops ==
  ASSUME MetalInv, destroy_handler
  PROVE  MetalInv'
<1>0. PICK m \in Nat : m = Len(work_queue)
  BY MetalFields DEF MetalInv
<1>1. /\ dropped' = dropped \cup {Id(work_queue[k]) : k \in 1 .. m} /\ work_queue' = <<>>
      /\ metal_ctx' = "handler_gone"
      /\ UNCHANGED <<unused, completed, submission_counter, pending_submissions, step, held, call, stack,
                     on_device, last, finished, timed_out>>
  BY <1>0 DEF destroy_handler, metalNumbers, metalActors, metalFinish
<1>2. MetalTypeOK'
  BY <1>1 DEF MetalInv, MetalTypeOK
<1>3. \A a \in Actors : ActorInv(a)'
  BY <1>1 DEF MetalInv, ActorInv, Top
<1>4. CompletedInv' /\ DeviceInv' /\ RingInv'
  BY <1>1, SameRing DEF MetalInv, CompletedInv, DeviceInv, Id
<1>5. ASSUME NEW k \in Nat
      PROVE  /\ Occupied(HandlerLine, k) <=> k \in 1 .. m
             /\ ~Occupied(HandlerLine, k)' /\ ~Reports(HandlerLine, k)'
             /\ k \in 1 .. m => Id(work_queue[k]) = <<PoolOf(HandlerLine, k), SlotOf(HandlerLine, k)>>
  <2>1. Len(work_queue') = 0 /\ k \notin 1 .. 0
    BY <1>1
  <2> QED
    BY <1>0, <2>1 DEF Occupied, Reports, PoolOf, SlotOf, Id
<1>6. ASSUME NEW x \in Lines, NEW k \in Nat, x # HandlerLine
      PROVE  /\ Occupied(x, k)' <=> Occupied(x, k)
             /\ Reports(x, k)' <=> Reports(x, k)
             /\ PoolOf(x, k)' = PoolOf(x, k) /\ SlotOf(x, k)' = SlotOf(x, k)
             /\ NumberOf(x, k)' = NumberOf(x, k)
  BY <1>1, <1>6 DEF Occupied, Reports, PoolOf, SlotOf, NumberOf
<1>7. PlacesInv /\ NumbersInv /\ OpenNumbers(Pending)' = OpenNumbers(Pending) /\ unused' = unused
      /\ HandlerLine \in Lines
  BY <1>1 DEF MetalInv, Pending, Lines
<1>8. PlacesInv'
  <2>1. ASSUME NEW x \in Lines, NEW u \in Lines, NEW k \in Nat, NEW l \in Nat,
               Occupied(x, k)', Occupied(u, l)', PoolOf(x, k)' = PoolOf(u, l)', SlotOf(x, k)' = SlotOf(u, l)'
        PROVE  x = u /\ k = l
    <3>1. x # HandlerLine /\ u # HandlerLine
      BY <1>5, <2>1
    <3> QED
      BY <1>6, <1>7, <2>1, <3>1 DEF PlacesInv
  <2>2. ASSUME NEW x \in Lines, NEW k \in Nat, Occupied(x, k)'
        PROVE  SlotOf(x, k)' \notin unused'[PoolOf(x, k)'] /\ <<PoolOf(x, k)', SlotOf(x, k)'>> \notin dropped'
    <3>1. x # HandlerLine
      BY <1>5, <2>2
    <3>2. Occupied(x, k) /\ PoolOf(x, k)' = PoolOf(x, k) /\ SlotOf(x, k)' = SlotOf(x, k)
      BY <1>6, <2>2, <3>1
    <3>3. SlotOf(x, k) \notin unused[PoolOf(x, k)] /\ <<PoolOf(x, k), SlotOf(x, k)>> \notin dropped
      BY <1>7, <3>2 DEF PlacesInv
    <3>4. ASSUME NEW i \in 1 .. m PROVE Id(work_queue[i]) # <<PoolOf(x, k), SlotOf(x, k)>>
      <4>1. i \in Nat
        OBVIOUS
      <4>2. Occupied(HandlerLine, i) /\ Id(work_queue[i]) = <<PoolOf(HandlerLine, i), SlotOf(HandlerLine, i)>>
        BY <1>5, <3>4, <4>1
      <4> QED
        BY <1>7, <3>1, <3>2, <4>1, <4>2 DEF PlacesInv
    <3> QED
      BY <1>1, <1>7, <3>2, <3>3, <3>4
  <2>3. ASSUME NEW p \in Actors, NEW s \in MetalSlots, s \in unused'[p] PROVE <<p, s>> \notin dropped'
    <3>1. s \in unused[p] /\ <<p, s>> \notin dropped
      BY <1>7, <2>3 DEF PlacesInv
    <3>2. ASSUME NEW i \in 1 .. m PROVE Id(work_queue[i]) # <<p, s>>
      <4>1. i \in Nat
        OBVIOUS
      <4>2. Occupied(HandlerLine, i) /\ Id(work_queue[i]) = <<PoolOf(HandlerLine, i), SlotOf(HandlerLine, i)>>
        BY <1>5, <3>2, <4>1
      <4> QED
        BY <1>7, <3>1, <4>1, <4>2 DEF PlacesInv
    <3> QED
      BY <1>1, <3>1, <3>2
  <2>4. ASSUME NEW p \in Actors, NEW s \in MetalSlots, s \notin unused'[p], <<p, s>> \notin dropped'
        PROVE  \E u \in Lines, l \in Nat : Occupied(u, l)' /\ PoolOf(u, l)' = p /\ SlotOf(u, l)' = s
    <3>1. PICK x \in Lines, k \in Nat : Occupied(x, k) /\ PoolOf(x, k) = p /\ SlotOf(x, k) = s
      BY <1>1, <1>7, <2>4 DEF PlacesInv
    <3>2. x # HandlerLine
      BY <1>1, <1>5, <2>4, <3>1
    <3> QED
      BY <1>6, <3>1, <3>2
  <2> QED
    BY <2>1, <2>2, <2>3, <2>4 DEF PlacesInv
<1>9. NumbersInv'
  <2>1. \A x \in Lines, k \in Nat : Reports(x, k)' => /\ x # HandlerLine /\ Reports(x, k)
                                                     /\ NumberOf(x, k)' = NumberOf(x, k)
    BY <1>5, <1>6
  <2>2. ASSUME dropped' = {}, NEW n \in OpenNumbers(Pending)
        PROVE  \E x \in Lines, k \in Nat : Reports(x, k)' /\ NumberOf(x, k)' = n
    <3>1. dropped = {} /\ \A k \in 1 .. m : FALSE
      BY <1>1, <2>2
    <3>2. PICK x \in Lines, k \in Nat : Reports(x, k) /\ NumberOf(x, k) = n
      BY <1>7, <2>2, <3>1 DEF NumbersInv
    <3>3. x # HandlerLine
      BY <1>5, <3>1, <3>2 DEF Reports
    <3> QED
      BY <1>6, <3>2, <3>3
  <2> QED
    BY <1>7, <2>1, <2>2 DEF NumbersInv
<1> QED
  BY <1>2, <1>3, <1>4, <1>8, <1>9 DEF MetalInv

LEMMA MetalInitially == MetalInit => MetalInv
<1> SUFFICES ASSUME MetalInit PROVE MetalInv
  OBVIOUS
<1>1. /\ unused = [a \in Actors |-> MetalSlots]
      /\ completed = [a \in Actors |-> [s \in MetalSlots |-> TRUE]]
      /\ submission_counter = 1 /\ pending_submissions = empty_buffer
      /\ step = [a \in Actors |-> "idle"] /\ held = [a \in Actors |-> NoSlot]
      /\ call = [a \in Actors |-> NoCall] /\ stack = [a \in Actors |-> <<>>]
      /\ on_device = {} /\ work_queue = <<>> /\ last = [t \in MetalThreads |-> 0] /\ finished = 0
      /\ timed_out = {} /\ dropped = {} /\ metal_ctx = "up"
  BY DEF MetalInit
<1>2. pending_submissions \in SubmissionRings /\ Pending = <<>>
  BY <1>1, EmptyRing DEF Pending
<1>3. \A k \in 1 .. Len(Pending) : FALSE
  BY <1>2
<1>4. MetalTypeOK
  BY <1>1, <1>2 DEF MetalTypeOK, NoCall
<1>5. \A a \in Actors : ActorInv(a)
  BY <1>1 DEF ActorInv
<1>6. \A x \in Lines, k \in Nat : ~Occupied(x, k)
  <2> SUFFICES ASSUME NEW x \in Lines, NEW k \in Nat PROVE ~Occupied(x, k)
    OBVIOUS
  <2>1. Len(work_queue) = 0 /\ k \notin 1 .. 0 /\ \A a \in Actors : Len(stack[a]) = 0 /\ held[a] = NoSlot
    BY <1>1
  <2> QED
    BY <2>1 DEF Occupied, Lines
<1>7. PlacesInv
  BY <1>1, <1>6 DEF PlacesInv
<1>8. CompletedInv
  <2>1. \A a \in Actors : step[a] = "idle" /\ Len(stack[a]) = 0
    BY <1>1
  <2>2. \A k \in 1 .. 0 : FALSE
    OBVIOUS
  <2>3. \A p \in Actors, s \in MetalSlots : completed[p][s]
    BY <1>1
  <2> QED
    BY <2>1, <2>2, <2>3 DEF CompletedInv
<1>9. DeviceInv
  BY <1>1 DEF DeviceInv
<1>10. NumbersInv
  BY <1>3, <1>6 DEF NumbersInv, Reports, OpenNumbers
<1>11. RingInv
  <2>1. \A t \in MetalThreads : last[t] < submission_counter
    BY <1>1
  <2> QED
    BY <1>1, <1>2, <1>3, <2>1 DEF RingInv, InNumberOrder, FrontIsOpen, NumbersOf, OpenNumbers
<1> QED
  BY <1>4, <1>5, <1>7, <1>8, <1>9, <1>10, <1>11 DEF MetalInv

LEMMA MetalUnchanged == MetalInv /\ UNCHANGED metalVars => MetalInv'
<1> SUFFICES ASSUME MetalInv, UNCHANGED metalVars PROVE MetalInv'
  OBVIOUS
<1>1. UNCHANGED <<metal_ctx, unused, completed, submission_counter, pending_submissions, step, held, call,
                  stack, on_device, work_queue, last, finished, timed_out, dropped>>
  BY DEF metalVars, metalPool, metalNumbers, metalActors, metalFinish, metalHistory
<1>2. MetalTypeOK'
  BY <1>1 DEF MetalInv, MetalTypeOK
<1>3. \A a \in Actors : ActorInv(a)'
  BY <1>1 DEF MetalInv, ActorInv, Top
<1>4. PlacesInv' /\ NumbersInv' /\ RingInv'
  BY <1>1, SamePlaces, SameReports, SameRing DEF MetalInv
<1>5. CompletedInv' /\ DeviceInv'
  BY <1>1 DEF MetalInv, CompletedInv, DeviceInv, Id
<1> QED
  BY <1>2, <1>3, <1>4, <1>5 DEF MetalInv

(* Every step of the queue preserves the invariant, until undefined        *)
(* behaviour is met.                                                       *)
LEMMA MetalStepPreserves == MetalInductive /\ [MetalNext]_metalVars => MetalInductive'
<1> SUFFICES ASSUME MetalInductive, [MetalNext]_metalVars, undefined' = "no" PROVE MetalInv'
  BY DEF MetalInductive
<1>1. CASE UNCHANGED metalVars
  BY <1>1, MetalUnchanged DEF MetalInductive, metalVars
<1>2. CASE MetalNext
  <2>1. undefined = "no" /\ MetalInv
    BY <1>2 DEF MetalNext, MetalInductive
  <2>2. ASSUME NEW a \in Actors, MetalStep(a) PROVE MetalInv'
    BY <2>1, <2>2, GivingUpPreserves, EnqueueNumberPreserves, EnqueueAbortsPreserves, CommitPreserves,
       PickUpTakesTheFirst, WaitEndsPreserves, HandlersDonePreserves, ReleaseResourcePreserves DEF MetalStep
  <2>3. ASSUME NEW a \in Actors,
               \/ make_command_buffer(a) \/ wait_times_out(a)
               \/ \E blocking \in BOOLEAN, handler \in {"none", "submit"} : submit_command_buffer(a, blocking, handler)
        PROVE  MetalInv'
    BY <2>1, <2>3, MakePreserves, WaitTimesOutPreserves, SubmitCommandBufferPreserves
  <2>4. ASSUME NEW t \in MetalThreads,
               release_unsubmitted_command_buffer(t) \/ finish(t) \/ finish_returns(t) \/ thread_exit(t)
        PROVE  MetalInv'
    BY <2>1, <2>4, ReleaseUnsubmittedPreserves, FinishPreserves, FinishReturnsPreserves, ThreadExitsPreserves
  <2>5. ASSUME NEW b \in on_device, feedback(b) PROVE MetalInv'
    BY <2>1, <2>5, FeedbackPreserves
  <2>6. CASE use_of_destroyed_pool
    BY <2>6 DEF use_of_destroyed_pool
  <2>7. CASE destroy_handler \/ set_ctx_shutdown
    BY <2>1, <2>7, DestroyHandlerDrops, ShuttingDownPreserves
  <2> QED
    BY <1>2, <2>2, <2>3, <2>4, <2>5, <2>6, <2>7 DEF MetalNext
<1> QED
  BY <1>1, <1>2

(* What the invariant says of one command buffer: it has one releaser, or  *)
(* none when it is unused.                                                 *)
LEMMA ReleasersAreOne ==
  ASSUME MetalInv, NEW p \in Actors, NEW s \in MetalSlots
  PROVE  Cardinality(MetalReleasers(p, s)) = IF s \in unused[p] THEN 0 ELSE 1
<1> DEFINE H == {a \in Actors : a = p /\ held[a] = s}
           S == {e \in Actors \X (1..2) : e[2] <= Len(stack[e[1]]) /\ Id(stack[e[1]][e[2]]) = <<p, s>>}
           W == {k \in 1..Len(work_queue) : Id(work_queue[k]) = <<p, s>>}
           D == {x \in {"dropped"} : <<p, s>> \in dropped}
           At(x, k) == Occupied(x, k) /\ PoolOf(x, k) = p /\ SlotOf(x, k) = s
<1>1. MetalReleasers(p, s) = H \cup S \cup W \cup D
  BY DEF MetalReleasers
<1>2. p # HandlerLine /\ HandlerLine \notin Actors /\ Actors \subseteq Lines /\ HandlerLine \in Lines
  BY TheLineIsNoActor DEF Lines
<1>3. /\ \A x \in H : x = p /\ At(p, 0)
      /\ At(p, 0) => p \in H
  <2>1. s # NoSlot
    BY MetalAssumption
  <2> QED
    BY <1>2, <2>1 DEF Occupied, PoolOf, SlotOf
<1>4. ASSUME NEW a \in Actors, NEW k \in Nat
      PROVE  <<a, k>> \in S <=> k # 0 /\ At(a, k)
  <2>1. Len(stack[a]) \in {0, 1, 2}
    BY DEF MetalInv, ActorInv
  <2>2. k \in 1 .. Len(stack[a]) <=> (k \in 1 .. 2 /\ k <= Len(stack[a]))
    <3>1. PICK n \in {0, 1, 2} : n = Len(stack[a])
      BY <2>1
    <3>2. k \in 1 .. n <=> (k \in 1 .. 2 /\ k <= n)
      OBVIOUS
    <3> QED
      BY <3>1, <3>2
  <2>3. k \in 1 .. Len(stack[a]) => k # 0 /\ (Id(stack[a][k]) = <<p, s>> <=> PoolOf(a, k) = p /\ SlotOf(a, k) = s)
    BY <1>2 DEF PoolOf, SlotOf, Id
  <2>4. a # HandlerLine /\ (k # 0 => (Occupied(a, k) <=> k \in 1 .. Len(stack[a])))
    BY <1>2 DEF Occupied
  <2> QED
    BY <2>2, <2>3, <2>4
<1>5. ASSUME NEW k \in Nat PROVE k \in W <=> At(HandlerLine, k)
  BY DEF Occupied, PoolOf, SlotOf, Id
<1>6. W \subseteq Nat /\ \A e \in S : \E a \in Actors, k \in Nat : e = <<a, k>>
  <2>1. W \subseteq Nat
    OBVIOUS
  <2>2. \A e \in Actors \X (1..2) : e[1] \in Actors /\ e[2] \in Nat /\ e = <<e[1], e[2]>>
    OBVIOUS
  <2> QED
    BY <2>1, <2>2
<1>7. D = IF <<p, s>> \in dropped THEN {"dropped"} ELSE {}
  OBVIOUS
<1>8. /\ \A x, y \in Lines, k, l \in Nat : At(x, k) /\ At(y, l) => x = y /\ k = l
      /\ \A x \in Lines, k \in Nat : At(x, k) => s \notin unused[p] /\ <<p, s>> \notin dropped
      /\ s \in unused[p] => <<p, s>> \notin dropped
      /\ s \in unused[p] \/ <<p, s>> \in dropped \/ \E x \in Lines, k \in Nat : At(x, k)
  BY DEF MetalInv, PlacesInv
<1> HIDE DEF H, S, W, D, At
<1>9. ASSUME \A x \in Lines, k \in Nat : ~At(x, k) PROVE H = {} /\ S = {} /\ W = {}
  BY <1>2, <1>3, <1>4, <1>5, <1>6, <1>9
<1>10. CASE \A x \in Lines, k \in Nat : ~At(x, k)
  <2>1. MetalReleasers(p, s) = IF s \in unused[p] THEN {} ELSE {"dropped"}
    BY <1>1, <1>7, <1>8, <1>9, <1>10
  <2> QED
    BY <2>1, FS_EmptySet, FS_Singleton
<1>11. ASSUME NEW x \in Lines, NEW k \in Nat, At(x, k)
       PROVE  Cardinality(MetalReleasers(p, s)) = 1 /\ s \notin unused[p]
  <2>1. s \notin unused[p] /\ D = {}
    BY <1>7, <1>8, <1>11
  <2>2. \A y \in Lines, l \in Nat : At(y, l) => y = x /\ l = k
    BY <1>8, <1>11
  <2>3. \E r : MetalReleasers(p, s) = {r}
    <3>1. CASE x = HandlerLine
      <4>1. H = {}
        BY <1>2, <1>3, <2>2, <3>1
      <4>2. S = {}
        BY <1>2, <1>4, <1>6, <2>2, <3>1
      <4>3. W = {k}
        BY <1>2, <1>5, <1>6, <1>11, <2>2, <3>1
      <4> QED
        BY <1>1, <2>1, <4>1, <4>2, <4>3
    <3>2. CASE x # HandlerLine /\ k = 0
      <4>1. H \subseteq {p} /\ S = {} /\ W = {}
        BY <1>2, <1>3, <1>4, <1>5, <1>6, <2>2, <3>2
      <4>2. x = p
        BY <1>11, <3>2 DEF At, PoolOf
      <4>3. p \in H
        BY <1>3, <1>11, <3>2, <4>2
      <4> QED
        BY <1>1, <2>1, <4>1, <4>3
    <3>3. CASE x # HandlerLine /\ k # 0
      <4>1. x \in Actors /\ <<x, k>> \in S
        BY <1>4, <1>11, <3>3 DEF Lines
      <4>2. S = {<<x, k>>}
        BY <1>2, <1>4, <1>6, <2>2, <4>1
      <4>3. H = {} /\ W = {}
        BY <1>2, <1>3, <1>5, <1>6, <2>2, <3>3
      <4> QED
        BY <1>1, <2>1, <4>2, <4>3
    <3> QED
      BY <3>1, <3>2, <3>3
  <2> QED
    BY <2>1, <2>3, FS_Singleton
<1> QED
  BY <1>10, <1>11

(* The invariant implies what the run checks.                              *)
LEMMA InvariantIsSafe == MetalInv => MetalQueueIsSafe
<1> SUFFICES ASSUME MetalInv PROVE MetalQueueIsSafe
  OBVIOUS
<1>1. \A b \in on_device : Id(b) \notin timed_out => b.slot \notin unused[b.pool] /\ held[b.pool] # b.slot
  <2>1. \A b \in on_device : b.pool \in Actors /\ b.slot \in MetalSlots
    BY MetalFields DEF MetalInv, MetalTypeOK
  <2> QED
    BY <2>1 DEF MetalInv, DeviceInv, CompletedInv
<1>2. \A a \in Actors, s \in MetalSlots :
        /\ s \in unused[a] => completed[a][s]
        /\ Cardinality(MetalReleasers(a, s)) = IF s \in unused[a] THEN 0 ELSE 1
  BY ReleasersAreOne DEF MetalInv, CompletedInv
<1>3. indices_are_sound(pending_submissions)
  BY SubmissionRingIs DEF MetalInv, MetalTypeOK
<1>4. \A i, j \in 1..Len(Pending) : i < j => Pending[i].number < Pending[j].number
  BY DEF MetalInv, RingInv, InNumberOrder
<1>5. Pending # <<>> => ~Pending[1].complete
  BY DEF MetalInv, RingInv, FrontIsOpen
<1>6. Incomplete = OpenNumbers(Pending)
  BY DEF Incomplete, OpenNumbers
<1>7. \A n : n \in Outstanding4 <=> \E x \in Lines, k \in Nat : Reports(x, k) /\ NumberOf(x, k) = n
  <2> SUFFICES ASSUME NEW n
               PROVE  n \in Outstanding4 <=> \E x \in Lines, k \in Nat : Reports(x, k) /\ NumberOf(x, k) = n
    OBVIOUS
  <2>1. HandlerLine \notin Actors /\ Actors \subseteq Lines /\ HandlerLine \in Lines /\ Lines = Actors \cup {HandlerLine}
    BY TheLineIsNoActor DEF Lines
  <2>2. ASSUME NEW a \in Actors, NEW k \in Nat
        PROVE  Reports(a, k) <=> \/ k = 0 /\ step[a] = "commit"
                                 \/ k \in 1 .. Len(stack[a]) - IF step[a] = "release" THEN 1 ELSE 0
    <3>1. PICK j \in Nat : j = Len(stack[a])
      BY MetalFields DEF MetalInv
    <3>2. Reports(a, k) <=> /\ k \in 1 .. j \/ (k = 0 /\ held[a] # NoSlot)
                            /\ (k = 0 /\ step[a] = "commit") \/ (k # 0 /\ ~(step[a] = "release" /\ k = j))
      BY <2>1, <3>1 DEF Reports, Occupied
    <3>3. step[a] = "commit" => held[a] # NoSlot
      BY DEF MetalInv, ActorInv
    <3>4. k \in 1 .. j - (IF step[a] = "release" THEN 1 ELSE 0) <=> k \in 1 .. j /\ ~(step[a] = "release" /\ k = j)
      BY <3>1
    <3>5. k \in 1 .. j => k # 0
      OBVIOUS
    <3> QED
      BY <3>1, <3>2, <3>3, <3>4, <3>5
  <2>3. ASSUME NEW k \in Nat PROVE Reports(HandlerLine, k) <=> k \in 1 .. Len(work_queue)
    BY DEF Reports, Occupied
  <2>4. /\ \A a \in Actors : NumberOf(a, 0) = call[a].number
        /\ \A a \in Actors, k \in Nat : k # 0 => NumberOf(a, k) = stack[a][k].number
        /\ \A k \in Nat : NumberOf(HandlerLine, k) = work_queue[k].number
    BY <2>1 DEF NumberOf
  <2>5. n \in Outstanding4 <=>
          \/ \E a \in Actors : step[a] = "commit" /\ call[a].number = n
          \/ \E k \in 1 .. Len(work_queue) : work_queue[k].number = n
          \/ \E a \in Actors : \E k \in 1 .. Len(stack[a]) - (IF step[a] = "release" THEN 1 ELSE 0) :
               stack[a][k].number = n
    BY DEF Outstanding4
  <2>6. ASSUME n \in Outstanding4 PROVE \E x \in Lines, k \in Nat : Reports(x, k) /\ NumberOf(x, k) = n
    <3>1. ASSUME NEW a \in Actors, step[a] = "commit", call[a].number = n
          PROVE  \E x \in Lines, k \in Nat : Reports(x, k) /\ NumberOf(x, k) = n
      BY <2>1, <2>2, <2>4, <3>1
    <3>2. ASSUME NEW k \in 1 .. Len(work_queue), work_queue[k].number = n
          PROVE  \E x \in Lines, i \in Nat : Reports(x, i) /\ NumberOf(x, i) = n
      <4>1. k \in Nat
        BY <3>2
      <4> QED
        BY <2>1, <2>3, <2>4, <3>2, <4>1
    <3>3. ASSUME NEW a \in Actors, NEW k \in 1 .. Len(stack[a]) - (IF step[a] = "release" THEN 1 ELSE 0),
                 stack[a][k].number = n
          PROVE  \E x \in Lines, i \in Nat : Reports(x, i) /\ NumberOf(x, i) = n
      <4>1. k \in Nat /\ k # 0
        BY <3>3
      <4> QED
        BY <2>1, <2>2, <2>4, <3>3, <4>1
    <3> QED
      BY <2>5, <2>6, <3>1, <3>2, <3>3
  <2>7. ASSUME NEW x \in Lines, NEW k \in Nat, Reports(x, k), NumberOf(x, k) = n PROVE n \in Outstanding4
    <3>1. CASE x = HandlerLine
      BY <2>3, <2>4, <2>5, <2>7, <3>1
    <3>2. CASE x \in Actors /\ k = 0
      <4>1. step[x] = "commit"
        BY <2>7, <3>2, TheLineIsNoActor DEF Reports
      <4> QED
        BY <2>4, <2>5, <2>7, <3>2, <4>1
    <3>3. CASE x \in Actors /\ k # 0
      BY <2>2, <2>4, <2>5, <2>7, <3>3
    <3> QED
      BY <2>1, <3>1, <3>2, <3>3
  <2> QED
    BY <2>6, <2>7
<1>8. Outstanding4 \subseteq Incomplete /\ (dropped = {} => Incomplete \subseteq Outstanding4)
  BY <1>6, <1>7 DEF MetalInv, NumbersInv
<1>9. \A n \in Incomplete : n > finished
  BY <1>6 DEF MetalInv, RingInv
<1> QED
  BY <1>1, <1>2, <1>3, <1>4, <1>5, <1>8, <1>9 DEF MetalQueueIsSafe

(* Of the Metal 4 queue, until undefined behaviour is met: a command       *)
(* buffer that is used again is not on the device, has its completion      *)
(* reported once and is released by one actor, and the ring of pending     *)
(* submissions holds the numbers still to be reported, in order, with an   *)
(* open one in front (metal4_queue.mm). What a timeout gave up is          *)
(* excepted, as in MetalQueueIsSafe.                                       *)
THEOREM MetalCommandBuffersAreSafe == MetalSpec => []MetalQueueIsSafe
<1>1. MetalInit => MetalInductive
  BY MetalInitially DEF MetalInductive
<1>2. MetalInductive /\ [MetalNext]_metalVars => MetalInductive'
  BY MetalStepPreserves
<1>3. MetalInductive => MetalQueueIsSafe
  BY InvariantIsSafe DEF MetalInductive, MetalQueueIsSafe
<1> QED
  BY <1>1, <1>2, <1>3, PTL DEF MetalSpec
=============================================================================
