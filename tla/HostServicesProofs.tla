------------------------ MODULE HostServicesProofs ------------------------
(***************************************************************************)
(* Proofs about what runs on the host: the event system, for every number  *)
(* of clients, handlers and events; the logger, for every number of        *)
(* threads that log and every number of messages; and the execution of a   *)
(* function by fibers, for every number of threads, groups, work-items and *)
(* lanes and every program.                                                *)
(***************************************************************************)
EXTENDS EventSystem, Logger, HostExec, ThreadBaseProofs, Integers, FiniteSetTheorems, SequenceTheorems

-----------------------------------------------------------------------------
(* Sequences that are moved through queues                                 *)

LEMMA AppendMovesOut ==
  ASSUME NEW S, NEW a \in Seq(S), NEW b \in Seq(S), NEW e \in S
  PROVE  a \o Append(b, e) = Append(a \o b, e)
OBVIOUS

LEMMA HeadMovesOver ==
  ASSUME NEW S, NEW a \in Seq(S), NEW b \in Seq(S), b # <<>>
  PROVE  Append(a, Head(b)) \o Tail(b) = a \o b
OBVIOUS

LEMMA EmptyIsNeutral ==
  ASSUME NEW S, NEW a \in Seq(S)
  PROVE  a \o <<>> = a /\ <<>> \o a = a
BY ConcatEmptySeq

-----------------------------------------------------------------------------
(* Event system                                                            *)

(* Each of the two threads holds its lock while it is in these places.     *)
EventLocks ==
  /\ queued_lock <=> mpc \in {"queued", "clear"}
  /\ handler_lock <=> epc \in {"call", "add"}

(* What is still to be called was registered when handler_lock was taken.  *)
CalledHandlers ==
  /\ epc \in {"call", "add"} => todo \in SUBSET registered
  /\ calling # NoHandler => epc \in {"call", "add"} /\ calling \in registered

EventQueues ==
  /\ queued_events \in Seq(Event) /\ user_queue \in Seq(Event) /\ processing \in Seq(Event)
  /\ added \in Seq(Event) /\ handled \in Seq(Event) /\ dispatched \in Seq(Event)
  /\ queued_pos \in 0 .. Len(queued_events)
  /\ mpc = "clear" => queued_pos = Len(queued_events)
  /\ \A i \in 1 .. Len(queued_events) : queued_events[i][1] # Sdl
  /\ epc = "run" => processing = <<>>

EventInv == EventLocks /\ CalledHandlers /\ EventQueues /\ EventsInOrder

(* The ranks of handled events number them.                                *)
LEMMA RanksNumber ==
  ASSUME handled \in Seq(Event)
  PROVE  /\ IsFiniteSet(FromQueue) /\ Cardinality(FromQueue) \in Nat
         /\ \A i \in FromQueue : i \in 1 .. Len(handled) /\ Rank(i) \in 1 .. Cardinality(FromQueue)
<1>1. Len(handled) \in Nat /\ IsFiniteSet(1 .. Len(handled))
  BY FS_Interval
<1>2. FromQueue \in SUBSET (1 .. Len(handled))
  BY DEF FromQueue
<1>3. IsFiniteSet(FromQueue) /\ Cardinality(FromQueue) \in Nat
  BY <1>1, <1>2, FS_Subset, FS_CardinalityType
<1>4. ASSUME NEW i \in FromQueue PROVE Rank(i) \in 1 .. Cardinality(FromQueue)
  <2> DEFINE S == {j \in FromQueue : j <= i}
  <2>1. i \in S /\ S \in SUBSET FromQueue
    BY <1>2
  <2> HIDE DEF S
  <2>2. IsFiniteSet(S) /\ Cardinality(S) <= Cardinality(FromQueue) /\ Cardinality(S) \in Nat
    BY <1>3, <2>1, FS_Subset, FS_CardinalityType
  <2>3. Cardinality(S) # 0
    BY <2>1, <2>2, FS_EmptySet
  <2> QED
    BY <1>3, <2>2, <2>3 DEF S, Rank
<1> QED
  BY <1>2, <1>3, <1>4

(* The ranks of handled events do not change when another one is handled.  *)
LEMMA HandledGrows ==
  ASSUME handled \in Seq(Event), NEW e \in Event, handled' = Append(handled, e),
         NEW m \in Nat, m = Len(handled) + 1
  PROVE  /\ Cardinality(FromQueue) \in Nat
         /\ \A i \in FromQueue : Rank(i)' = Rank(i) /\ handled'[i] = handled[i]
         /\ e[1] = Sdl => FromQueue' = FromQueue
         /\ e[1] # Sdl => /\ FromQueue' = FromQueue \cup {m} /\ handled'[m] = e
                          /\ Cardinality(FromQueue') = Cardinality(FromQueue) + 1
                          /\ Rank(m)' = Cardinality(FromQueue) + 1
<1>1. /\ Len(handled) \in Nat /\ Len(handled') = m /\ handled'[m] = e
      /\ \A i \in 1 .. Len(handled) : handled'[i] = handled[i]
  OBVIOUS
<1>2. FromQueue' = FromQueue \cup {i \in {m} : e[1] # Sdl}
  BY <1>1 DEF FromQueue
<1>3. \A i \in FromQueue : i \in 1 .. Len(handled) /\ i <= Len(handled) /\ i # m
  BY <1>1 DEF FromQueue
<1>4. IsFiniteSet(FromQueue) /\ Cardinality(FromQueue) \in Nat
  BY RanksNumber
<1>5. ASSUME NEW i \in FromQueue PROVE Rank(i)' = Rank(i)
  <2>1. {j \in FromQueue' : j <= i} = {j \in FromQueue : j <= i}
    <3>1. i <= Len(handled) /\ i \in Nat
      BY <1>3
    <3>2. \A j \in FromQueue' : j \in FromQueue \/ j = m
      BY <1>2
    <3>3. \A j \in FromQueue : j \in FromQueue'
      BY <1>2
    <3>4. ~(m <= i)
      BY <1>1, <3>1
    <3> QED
      BY <3>2, <3>3, <3>4, Zenon
  <2> QED
    BY <2>1 DEF Rank
<1>6. ASSUME e[1] # Sdl
      PROVE  /\ FromQueue' = FromQueue \cup {m}
             /\ Cardinality(FromQueue') = Cardinality(FromQueue) + 1
             /\ Cardinality({j \in FromQueue' : j <= m}) = Cardinality(FromQueue) + 1
  <2>1. FromQueue' = FromQueue \cup {m}
    BY <1>2, <1>6
  <2>2. Cardinality(FromQueue \cup {m}) = Cardinality(FromQueue) + 1
    BY <1>3, <1>4, FS_AddElement
  <2>3. {j \in FromQueue' : j <= m} = FromQueue'
    BY <1>1, <1>3, <2>1
  <2> QED
    BY <2>1, <2>2, <2>3
<1>7. e[1] = Sdl => FromQueue' = FromQueue
  BY <1>2
<1> QED
  BY <1>1, <1>3, <1>4, <1>5, <1>6, <1>7 DEF Rank

LEMMA EventInitially ==
  ASSUME EventInit
  PROVE  EventInv
<1>1. EventLocks
  BY Zenon DEF EventInit, EventLocks
<1>2. CalledHandlers /\ EventQueues
  BY DEF EventInit, CalledHandlers, EventQueues
<1>3. EventsInOrder
  <2>1. FromQueue = {} /\ Len(added) = 0 /\ Len(queued_events) = 0 /\ queued_pos = 0
    BY DEF EventInit, FromQueue
  <2>2. Cardinality(FromQueue) = 0
    BY <2>1, FS_EmptySet
  <2>3. handled = dispatched \o processing \o user_queue
    BY DEF EventInit
  <2> QED
    BY <2>1, <2>2, <2>3 DEF EventsInOrder
<1> QED
  BY <1>1, <1>2, <1>3 DEF EventInv

(* add_event, by a client or by a handler that is being called.            *)
LEMMA EnqueuePreserves ==
  ASSUME EventInv, NEW s \in Clients \cup {HandlerAdds}, Enqueue(s),
         queued_pos' = queued_pos, mpc' = mpc, user_queue' = user_queue, processing' = processing,
         dispatched' = dispatched, handled' = handled, epc' = "run" => epc = "run"
  PROVE  EventQueues' /\ EventsInOrder'
<1>1. PICK e \in Event : /\ NewEvent(s, e) /\ queued_events' = Append(queued_events, e)
                         /\ added' = Append(added, e)
  BY Zenon DEF Enqueue
<1>2. e[1] # Sdl
  <2>1. e[1] = s
    BY <1>1 DEF NewEvent
  <2>2. s # Sdl
    BY EventAssumption DEF Sdl, HandlerAdds
  <2> QED
    BY <2>1, <2>2
<1>3. mpc # "clear"
  BY Zenon DEF Enqueue, EventInv, EventLocks
<1>4. queued_events \in Seq(Event) /\ added \in Seq(Event) /\ queued_pos \in 0 .. Len(queued_events)
  BY DEF EventInv, EventQueues
<1>5. /\ queued_events' \in Seq(Event) /\ Len(queued_events') = Len(queued_events) + 1
      /\ queued_events'[Len(queued_events) + 1] = e
      /\ \A i \in 1 .. Len(queued_events) : queued_events'[i] = queued_events[i]
      /\ added' \in Seq(Event) /\ Len(added') = Len(added) + 1 /\ added'[Len(added) + 1] = e
      /\ \A i \in 1 .. Len(added) : added'[i] = added[i]
      /\ Len(queued_events) \in Nat /\ Len(added) \in Nat
  BY <1>1, <1>4
<1>6. EventQueues'
  <2>1. \A i \in 1 .. Len(queued_events') : queued_events'[i][1] # Sdl
    <3>1. \A i \in 1 .. Len(queued_events) : queued_events[i][1] # Sdl
      BY DEF EventInv, EventQueues
    <3> QED
      BY <1>2, <1>5, <3>1
  <2> QED
    BY <1>3, <1>4, <1>5, <2>1 DEF EventInv, EventQueues
<1>7. PICK n \in Nat : n = Cardinality(FromQueue) /\ n = Len(added) - (Len(queued_events) - queued_pos)
  <2>1. Cardinality(FromQueue) \in Nat
    BY RanksNumber DEF EventInv, EventQueues
  <2>2. Cardinality(FromQueue) + (Len(queued_events) - queued_pos) = Len(added)
    BY DEF EventInv, EventsInOrder
  <2>3. queued_pos \in Nat /\ Len(queued_events) \in Nat /\ Len(added) \in Nat
    BY <1>4, <1>5
  <2>4. Cardinality(FromQueue) = Len(added) - (Len(queued_events) - queued_pos)
    BY <2>1, <2>2, <2>3
  <2> QED
    BY <2>1, <2>4
<1>8. FromQueue' = FromQueue /\ \A i \in FromQueue : Rank(i)' = Rank(i) /\ Rank(i) \in 1 .. n
  <2>1. FromQueue' = FromQueue
    BY DEF FromQueue
  <2>2. \A i \in FromQueue : Rank(i) \in 1 .. n
    BY <1>7, RanksNumber DEF EventInv, EventQueues
  <2> QED
    BY <2>1, <2>2 DEF Rank
<1>9. EventsInOrder'
  <2>1. \A i \in FromQueue : handled[i] = added[Rank(i)]
    BY DEF EventInv, EventsInOrder
  <2>2. ASSUME NEW i \in FromQueue' PROVE handled'[i] = added'[Rank(i)']
    <3>1. i \in FromQueue /\ Rank(i)' = Rank(i) /\ Rank(i) \in 1 .. n
      BY <1>8
    <3>2. Rank(i) \in 1 .. Len(added)
      BY <1>4, <1>5, <1>7, <3>1
    <3>3. added'[Rank(i)] = added[Rank(i)]
      BY <1>5, <3>2
    <3> QED
      BY <2>1, <3>1, <3>3
  <2>3. ASSUME NEW i \in queued_pos + 1 .. Len(queued_events')
        PROVE  added'[n + (i - queued_pos)] = queued_events'[i]
    <3>1. CASE i = Len(queued_events) + 1
      BY <1>4, <1>5, <1>7, <3>1
    <3>2. CASE i # Len(queued_events) + 1
      <4>1. i \in queued_pos + 1 .. Len(queued_events) /\ i \in 1 .. Len(queued_events)
        BY <1>4, <1>5, <3>2
      <4>2. n + (i - queued_pos) \in 1 .. Len(added)
        BY <1>4, <1>5, <1>7, <4>1
      <4>3. added[n + (i - queued_pos)] = queued_events[i]
        BY <1>7, <4>1 DEF EventInv, EventsInOrder
      <4> QED
        BY <1>5, <4>1, <4>2, <4>3
    <3> QED
      BY <3>1, <3>2
  <2>4. n + (Len(queued_events') - queued_pos) = Len(added')
    BY <1>4, <1>5, <1>7
  <2>5. Cardinality(FromQueue') = n
    BY <1>7, <1>8
  <2>6. handled' = dispatched' \o processing' \o user_queue'
    BY DEF EventInv, EventsInOrder
  <2> QED
    BY <2>2, <2>3, <2>4, <2>5, <2>6 DEF EventsInOrder
<1> QED
  BY <1>6, <1>9

(* handle_event, for a queued event or one polled from SDL.                *)
LEMMA HandleEventKeepsThread ==
  ASSUME EventQueues, EventsInOrder, NEW e \in Event, HandleEvent(e),
         dispatched' = dispatched, processing' = processing
  PROVE  /\ user_queue' \in Seq(Event) /\ handled' \in Seq(Event)
         /\ handled' = dispatched' \o processing' \o user_queue'
<1>1. /\ user_queue' = Append(user_queue, e) /\ handled' = Append(handled, e)
      /\ user_queue \in Seq(Event) /\ handled \in Seq(Event)
      /\ dispatched \o processing \in Seq(Event)
      /\ handled = (dispatched \o processing) \o user_queue
  BY ConcatProperties DEF HandleEvent, EventQueues, EventsInOrder
<1>2. (dispatched \o processing) \o Append(user_queue, e) = Append((dispatched \o processing) \o user_queue, e)
  BY <1>1, AppendMovesOut
<1>3. user_queue' \in Seq(Event) /\ handled' \in Seq(Event)
  BY <1>1
<1> QED
  BY <1>1, <1>2, <1>3

LEMMA HandleQueuedPreserves ==
  ASSUME EventInv, HandleQueued
  PROVE  EventQueues' /\ EventsInOrder'
<1>1. /\ mpc = "queued" /\ queued_pos < Len(queued_events) /\ queued_pos' = queued_pos + 1
      /\ HandleEvent(queued_events[queued_pos'])
      /\ queued_events' = queued_events /\ mpc' = mpc /\ added' = added /\ epc' = epc
      /\ processing' = processing /\ dispatched' = dispatched
  BY DEF HandleQueued, eventThreadVars
<1>2. /\ EventQueues /\ EventsInOrder /\ queued_events \in Seq(Event) /\ handled \in Seq(Event)
      /\ queued_pos \in Nat /\ Len(queued_events) \in Nat /\ queued_pos <= Len(queued_events)
  BY DEF EventInv, EventQueues
<1>3. PICK k \in 1 .. Len(queued_events) : k = queued_pos + 1 /\ queued_pos' = k
  BY <1>1, <1>2
<1>4. PICK e \in Event : e = queued_events[k] /\ HandleEvent(e) /\ e[1] # Sdl /\ handled' = Append(handled, e)
  BY <1>1, <1>2, <1>3 DEF EventQueues, HandleEvent
<1>5. /\ user_queue' \in Seq(Event) /\ handled' \in Seq(Event)
      /\ handled' = dispatched' \o processing' \o user_queue'
  BY <1>1, <1>2, <1>4, HandleEventKeepsThread
<1>6. EventQueues'
  BY <1>1, <1>2, <1>3, <1>5 DEF EventQueues
<1>7. PICK m \in Nat : m = Len(handled) + 1
  BY <1>2
<1>8. PICK n \in Nat : n = Cardinality(FromQueue)
  BY <1>2, RanksNumber
<1>9. /\ \A i \in FromQueue : Rank(i)' = Rank(i) /\ handled'[i] = handled[i]
      /\ FromQueue' = FromQueue \cup {m} /\ handled'[m] = e
      /\ Cardinality(FromQueue') = n + 1 /\ Rank(m)' = n + 1
  <2>1. /\ handled \in Seq(Event) /\ handled' = Append(handled, e) /\ e[1] # Sdl
    BY <1>2, <1>4
  <2>2. /\ \A i \in FromQueue : Rank(i)' = Rank(i) /\ handled'[i] = handled[i]
        /\ FromQueue' = FromQueue \cup {m} /\ handled'[m] = e
        /\ Cardinality(FromQueue') = Cardinality(FromQueue) + 1
        /\ Rank(m)' = Cardinality(FromQueue) + 1
    BY <1>7, <2>1, HandledGrows
  <2> QED
    BY <1>8, <2>2
<1>10. added[n + 1] = e
  <2>1. k \in queued_pos + 1 .. Len(queued_events) /\ k - queued_pos = 1
    BY <1>2, <1>3
  <2>2. added[Cardinality(FromQueue) + (k - queued_pos)] = queued_events[k]
    BY <1>2, <2>1 DEF EventsInOrder
  <2> QED
    BY <1>4, <1>8, <2>1, <2>2
<1>11. EventsInOrder'
  <2>1. ASSUME NEW i \in FromQueue' PROVE handled'[i] = added'[Rank(i)']
    <3>1. CASE i \in FromQueue
      <4>1. handled[i] = added[Rank(i)]
        BY <1>2, <3>1 DEF EventsInOrder
      <4> QED
        BY <1>1, <1>9, <3>1, <4>1
    <3>2. CASE i = m
      BY <1>1, <1>9, <1>10, <3>2
    <3> QED
      BY <1>9, <3>1, <3>2
  <2>2. n + 1 + (Len(queued_events) - k) = Len(added)
    <3>1. n + (Len(queued_events) - queued_pos) = Len(added)
      BY <1>2, <1>8 DEF EventsInOrder
    <3> QED
      BY <1>2, <1>3, <1>8, <3>1
  <2>3. ASSUME NEW i \in k + 1 .. Len(queued_events) PROVE added[n + 1 + (i - k)] = queued_events[i]
    <3>1. i \in queued_pos + 1 .. Len(queued_events) /\ n + 1 + (i - k) = n + (i - queued_pos)
      BY <1>2, <1>3
    <3> QED
      BY <1>2, <1>8, <3>1 DEF EventsInOrder
  <2> QED
    BY <1>1, <1>3, <1>5, <1>9, <2>1, <2>2, <2>3 DEF EventsInOrder
<1> QED
  BY <1>6, <1>11

LEMMA HandleSdlPreserves ==
  ASSUME EventInv, HandleSdl
  PROVE  EventQueues' /\ EventsInOrder'
<1>1. PICK e \in Event : NewEvent(Sdl, e) /\ HandleEvent(e)
  BY Zenon DEF HandleSdl
<1>2. /\ queued_events' = queued_events /\ queued_pos' = queued_pos /\ mpc' = mpc /\ added' = added
      /\ epc' = epc /\ processing' = processing /\ dispatched' = dispatched
  BY DEF HandleSdl, mainVars, eventThreadVars
<1>3. EventQueues /\ EventsInOrder /\ handled \in Seq(Event)
  BY DEF EventInv, EventQueues
<1>4. e[1] = Sdl /\ handled' = Append(handled, e)
  BY <1>1 DEF NewEvent, HandleEvent
<1>5. /\ user_queue' \in Seq(Event) /\ handled' \in Seq(Event)
      /\ handled' = dispatched' \o processing' \o user_queue'
  BY <1>1, <1>2, <1>3, HandleEventKeepsThread
<1>6. PICK m \in Nat : m = Len(handled) + 1
  BY <1>3
<1>7. /\ \A i \in FromQueue : Rank(i)' = Rank(i) /\ handled'[i] = handled[i]
      /\ FromQueue' = FromQueue
  BY <1>3, <1>4, <1>6, HandledGrows
<1>8. EventQueues'
  BY <1>2, <1>3, <1>5 DEF EventQueues
<1>9. \A i \in FromQueue' : handled'[i] = added'[Rank(i)']
  <2>1. ASSUME NEW i \in FromQueue' PROVE handled'[i] = added'[Rank(i)']
    <3>1. i \in FromQueue /\ handled[i] = added[Rank(i)]
      BY <1>3, <1>7 DEF EventsInOrder
    <3> QED
      BY <1>2, <1>7, <3>1
  <2> QED
    BY <2>1
<1>10. EventsInOrder'
  BY <1>2, <1>3, <1>5, <1>7, <1>9 DEF EventsInOrder
<1> QED
  BY <1>8, <1>10

(* The steps that only move events from one queue to another.              *)
LEMMA ClearQueuedPreserves ==
  ASSUME EventInv, ClearQueued
  PROVE  EventQueues' /\ EventsInOrder'
<1>1. /\ mpc = "clear" /\ queued_events' = <<>> /\ queued_pos' = 0 /\ mpc' = "poll" /\ epc' = epc
      /\ added' = added /\ handled' = handled /\ dispatched' = dispatched
      /\ processing' = processing /\ user_queue' = user_queue
  BY DEF ClearQueued, eventThreadVars
<1>2. /\ EventQueues /\ EventsInOrder /\ queued_pos = Len(queued_events) /\ Len(queued_events) \in Nat
      /\ Len(queued_events') = 0
  BY <1>1 DEF EventInv, EventQueues
<1>3. EventQueues'
  BY <1>1, <1>2 DEF EventQueues
<1>4. FromQueue' = FromQueue /\ \A i : Rank(i)' = Rank(i)
  BY <1>1 DEF FromQueue, Rank
<1>5. Cardinality(FromQueue) \in Nat
  BY <1>2, RanksNumber DEF EventQueues
<1>6. EventsInOrder'
  <2>1. Cardinality(FromQueue) = Len(added) /\ Len(added) \in Nat
    BY <1>2, <1>5 DEF EventsInOrder, EventQueues
  <2>2. /\ \A i \in FromQueue' : handled'[i] = added'[Rank(i)']
        /\ handled' = dispatched' \o processing' \o user_queue'
    BY <1>1, <1>2, <1>4 DEF EventsInOrder
  <2>3. \A i : i \notin queued_pos' + 1 .. Len(queued_events')
    BY <1>1, <1>2
  <2>4. Cardinality(FromQueue') + (Len(queued_events') - queued_pos') = Len(added')
    BY <1>1, <1>2, <1>4, <2>1
  <2> QED
    BY <2>2, <2>3, <2>4 DEF EventsInOrder
<1> QED
  BY <1>3, <1>6

LEMMA MovedInOrder ==
  ASSUME EventInv, queued_events' = queued_events, queued_pos' = queued_pos,
         added' = added, handled' = handled,
         handled = dispatched' \o processing' \o user_queue'
  PROVE  EventsInOrder'
<1>1. FromQueue' = FromQueue /\ \A i : Rank(i)' = Rank(i)
  BY DEF FromQueue, Rank
<1> QED
  BY <1>1 DEF EventInv, EventsInOrder

LEMMA SwapQueuesPreserves ==
  ASSUME EventInv, SwapQueues
  PROVE  EventQueues' /\ EventsInOrder'
<1>1. /\ epc = "run" /\ epc' = "pop" /\ processing' = user_queue /\ user_queue' = processing
      /\ queued_events' = queued_events /\ queued_pos' = queued_pos /\ mpc' = mpc /\ added' = added
      /\ handled' = handled /\ dispatched' = dispatched
  BY DEF SwapQueues, mainVars
<1>2. EventQueues /\ EventsInOrder /\ processing = <<>>
  BY <1>1 DEF EventInv, EventQueues
<1>3. EventQueues'
  BY <1>1, <1>2 DEF EventQueues
<1>4. /\ dispatched \in Seq(Event) /\ user_queue \in Seq(Event)
      /\ dispatched \o user_queue \in Seq(Event)
  BY <1>2, ConcatProperties DEF EventQueues
<1>5. handled = dispatched \o user_queue
  BY <1>2, <1>4, EmptyIsNeutral DEF EventsInOrder
<1>6. handled = (dispatched' \o processing') \o user_queue'
  BY <1>1, <1>2, <1>4, <1>5, EmptyIsNeutral
<1> QED
  BY <1>1, <1>3, <1>6, MovedInOrder

LEMMA PopPreserves ==
  ASSUME EventInv, Pop
  PROVE  EventQueues' /\ EventsInOrder'
<1>1. /\ processing # <<>> /\ epc' = "lock" /\ processing' = Tail(processing)
      /\ dispatched' = Append(dispatched, Head(processing))
      /\ queued_events' = queued_events /\ queued_pos' = queued_pos /\ mpc' = mpc /\ added' = added
      /\ handled' = handled /\ user_queue' = user_queue
  BY DEF Pop, mainVars
<1>2. /\ EventQueues /\ EventsInOrder /\ processing \in Seq(Event) /\ dispatched \in Seq(Event)
  BY <1>1 DEF EventInv, EventQueues
<1>3. processing' \in Seq(Event) /\ dispatched' \in Seq(Event)
  BY <1>1, <1>2
<1>4. EventQueues'
  BY <1>1, <1>2, <1>3 DEF EventQueues
<1>5. dispatched' \o processing' = dispatched \o processing
  BY <1>1, <1>2, HeadMovesOver
<1>6. handled = (dispatched' \o processing') \o user_queue'
  BY <1>1, <1>2, <1>5 DEF EventsInOrder
<1> QED
  BY <1>1, <1>4, <1>6, MovedInOrder

(* The other steps leave the events where they are.                        *)
LEMMA OtherStepsKeepEvents ==
  ASSUME EventInv,
         \/ \E h \in Handlers : AddHandler(h) \/ RemoveHandler(h)
         \/ LockQueued \/ QueuedEnds \/ PollEmpty \/ RunEnds \/ LockHandlers \/ CallHandler
         \/ UnlockHandlers \/ HandlerCallsAdd \/ Returns \/ UNCHANGED eventVars
  PROVE  EventQueues' /\ EventsInOrder'
<1>1. /\ queued_events' = queued_events /\ queued_pos' = queued_pos /\ user_queue' = user_queue
      /\ processing' = processing /\ added' = added /\ handled' = handled /\ dispatched' = dispatched
      /\ (mpc' = "clear" => mpc = "clear" \/ queued_pos = Len(queued_events))
      /\ (epc' = "run" => epc = "run" \/ processing = <<>>)
  BY DEF AddHandler, RemoveHandler, LockQueued, QueuedEnds, PollEmpty, RunEnds, LockHandlers,
     CallHandler, UnlockHandlers, HandlerCallsAdd, Returns, HandlerReturns, eventVars, mainVars,
     eventThreadVars
<1>2. EventQueues'
  BY <1>1 DEF EventInv, EventQueues
<1>3. EventsInOrder'
  BY <1>1, MovedInOrder DEF EventInv, EventsInOrder
<1> QED
  BY <1>2, <1>3

LEMMA QueuesPreserved ==
  ASSUME EventInv, [EventNext]_eventVars
  PROVE  EventQueues' /\ EventsInOrder'
<1>1. ASSUME NEW s \in Clients, AddEvent(s) PROVE EventQueues' /\ EventsInOrder'
  BY <1>1, EnqueuePreserves DEF AddEvent, mainVars, eventThreadVars
<1>2. ASSUME HandlerAdded PROVE EventQueues' /\ EventsInOrder'
  BY <1>2, EnqueuePreserves DEF HandlerAdded, mainVars
<1> QED
  BY <1>1, <1>2, HandleQueuedPreserves, HandleSdlPreserves, ClearQueuedPreserves,
     SwapQueuesPreserves, PopPreserves, OtherStepsKeepEvents
  DEF EventNext, HandleEventsStep, EventRunStep

(* Locks and the handlers that are called: each action on its own.         *)
LEMMA LocksPreserved ==
  ASSUME EventInv, [EventNext]_eventVars
  PROVE  EventLocks' /\ CalledHandlers'
<1> USE DEF EventInv, CalledHandlers, mainVars, eventThreadVars
<1>0. EventLocks
  OBVIOUS
<1>1. ASSUME NEW s \in Clients, AddEvent(s) PROVE EventLocks' /\ CalledHandlers'
  <2>1. /\ queued_lock' = queued_lock /\ mpc' = mpc /\ handler_lock' = handler_lock /\ epc' = epc
        /\ todo' = todo /\ calling' = calling /\ registered' = registered
    BY <1>1 DEF AddEvent
  <2> QED
    BY <1>0, <2>1, Zenon DEF EventLocks
<1>2. ASSUME NEW h \in Handlers, AddHandler(h) \/ RemoveHandler(h) PROVE EventLocks' /\ CalledHandlers'
  <2>1. /\ queued_lock' = queued_lock /\ mpc' = mpc /\ handler_lock' = handler_lock /\ epc' = epc
        /\ todo' = todo /\ calling' = calling
    BY <1>2 DEF AddHandler, RemoveHandler
  <2>2. ~(epc \in {"call", "add"})
    BY <1>0, <1>2, Zenon DEF AddHandler, RemoveHandler, EventLocks
  <2>3. EventLocks'
    BY <1>0, <2>1, Zenon DEF EventLocks
  <2>4. CalledHandlers'
    BY <2>1, <2>2
  <2> QED
    BY <2>3, <2>4
<1>3. ASSUME HandleEventsStep \/ HandleSdl PROVE EventLocks' /\ CalledHandlers'
  <2>1. /\ handler_lock' = handler_lock /\ epc' = epc
        /\ todo' = todo /\ calling' = calling /\ registered' = registered
    BY <1>3 DEF HandleEventsStep, HandleSdl, LockQueued, HandleQueued, QueuedEnds, ClearQueued, PollEmpty
  <2>2. CASE LockQueued
    <3>1. queued_lock' = TRUE /\ mpc' \in {"queued", "clear"}
      BY <2>2 DEF LockQueued
    <3> QED
      BY <1>0, <2>1, <3>1, Zenon DEF EventLocks
  <2>3. CASE HandleQueued \/ HandleSdl \/ QueuedEnds \/ PollEmpty
    <3>1. queued_lock' = queued_lock /\ (mpc' \in {"queued", "clear"} <=> mpc \in {"queued", "clear"})
      BY <2>3 DEF HandleQueued, HandleSdl, QueuedEnds, PollEmpty
    <3> QED
      BY <1>0, <2>1, <3>1, Zenon DEF EventLocks
  <2>4. CASE ClearQueued
    <3>1. queued_lock' = FALSE /\ mpc' \notin {"queued", "clear"}
      BY <2>4 DEF ClearQueued
    <3> QED
      BY <1>0, <2>1, <3>1, Zenon DEF EventLocks
  <2>5. EventLocks'
    BY <1>3, <2>2, <2>3, <2>4 DEF HandleEventsStep
  <2> QED
    BY <2>1, <2>5
<1>4. ASSUME \/ SwapQueues \/ RunEnds \/ Pop \/ HandlerAdded \/ HandlerCallsAdd
      PROVE  EventLocks' /\ CalledHandlers'
  <2>1. /\ queued_lock' = queued_lock /\ mpc' = mpc /\ handler_lock' = handler_lock
        /\ todo' = todo /\ calling' = calling /\ registered' = registered
        /\ \/ epc \in {"run", "pop"} /\ epc' \in {"pop", "run", "lock"}
           \/ epc \in {"call", "add"} /\ epc' \in {"call", "add"}
    BY <1>4 DEF SwapQueues, RunEnds, Pop, HandlerAdded, HandlerCallsAdd
  <2>2. EventLocks'
    BY <1>0, <2>1, Zenon DEF EventLocks
  <2> QED
    BY <2>1, <2>2
<1>5. ASSUME LockHandlers PROVE EventLocks' /\ CalledHandlers'
  <2>1. /\ queued_lock' = queued_lock /\ mpc' = mpc /\ handler_lock' = TRUE /\ epc = "lock" /\ epc' = "call"
        /\ todo' = registered /\ calling' = calling /\ registered' = registered
    BY <1>5 DEF LockHandlers
  <2>2. EventLocks'
    BY <1>0, <2>1, Zenon DEF EventLocks
  <2> QED
    BY <2>1, <2>2
<1>6. ASSUME CallHandler \/ Returns PROVE EventLocks' /\ CalledHandlers'
  <2>1. /\ queued_lock' = queued_lock /\ mpc' = mpc /\ handler_lock' = handler_lock
        /\ epc = "call" /\ epc' = epc /\ registered' = registered
    BY <1>6 DEF CallHandler, Returns, HandlerReturns
  <2>2. todo' \in SUBSET todo /\ (calling' = NoHandler \/ calling' \in todo)
    BY <1>6 DEF CallHandler, Returns, HandlerReturns
  <2>3. EventLocks'
    BY <1>0, <2>1, Zenon DEF EventLocks
  <2> QED
    BY <2>1, <2>2, <2>3
<1>7. ASSUME UnlockHandlers PROVE EventLocks' /\ CalledHandlers'
  <2>1. /\ queued_lock' = queued_lock /\ mpc' = mpc /\ handler_lock' = FALSE /\ epc' = "pop"
        /\ calling = NoHandler /\ calling' = calling
    BY <1>7 DEF UnlockHandlers
  <2>2. EventLocks'
    BY <1>0, <2>1, Zenon DEF EventLocks
  <2> QED
    BY <2>1, <2>2
<1>8. CASE UNCHANGED eventVars
  <2>1. /\ queued_lock' = queued_lock /\ mpc' = mpc /\ handler_lock' = handler_lock /\ epc' = epc
        /\ todo' = todo /\ calling' = calling /\ registered' = registered
    BY <1>8 DEF eventVars
  <2> QED
    BY <1>0, <2>1, Zenon DEF EventLocks
<1> HIDE DEF EventInv, CalledHandlers, mainVars, eventThreadVars
<1> QED
  BY <1>1, <1>2, <1>3, <1>4, <1>5, <1>6, <1>7, <1>8 DEF EventNext, EventRunStep

(* Added events are handled once and in the order of add_event, handled    *)
(* ones reach the user's handlers once and in that order (event.cpp:       *)
(* handle_events and run), whoever adds events meanwhile.                  *)
THEOREM EventsStayInOrder == EventSpec => []EventsInOrder
<1>1. EventInit => EventInv
  BY EventInitially
<1>2. EventInv /\ [EventNext]_eventVars => EventInv'
  BY QueuesPreserved, LocksPreserved DEF EventInv
<1>3. EventInv => EventsInOrder
  BY DEF EventInv
<1> QED
  BY <1>1, <1>2, <1>3, PTL DEF EventSpec

(* A handler that was removed is not called any more.                      *)
THEOREM RemovedHandlersAreNotCalled == EventSpec => []RemovedIsNotCalled
<1>1. EventInit => EventInv
  BY EventInitially
<1>2. EventInv /\ [EventNext]_eventVars => EventInv'
  BY QueuesPreserved, LocksPreserved DEF EventInv
<1>3. EventInv => RemovedIsNotCalled
  BY DEF EventInv, CalledHandlers, RemovedIsNotCalled
<1> QED
  BY <1>1, <1>2, <1>3, PTL DEF EventSpec

-----------------------------------------------------------------------------
(* Logger                                                                  *)

LogMessage == (Callers \cup {Dtor}) \X Nat

LogTypes ==
  /\ store \in Seq(LogMessage) /\ output_store \in Seq(LogMessage)
  /\ written \in Seq(LogMessage) /\ pushed \in Seq(LogMessage)
  /\ out_pos \in 0 .. Len(output_store)
  /\ rpc \in [Runners -> {"none", "cv", "swap", "write"}]
  /\ apc \in [Callers -> {"idle", "wait", "flush"}]
  /\ dpc \in {"up", "logged", "flag", "finish", "last_run", "gone"}
  /\ flush_taken \in [Callers -> Nat]

(* run() has two executors, one after the other: the destructor enters it  *)
(* only after the logger thread was joined.                                *)
OneRunner ==
  /\ rpc[LogThread] # "none" <=> tpc[LogThread] = "run"
  /\ rpc[Dtor] # "none" <=> dpc = "last_run"
  /\ dpc \in {"last_run", "gone"} => call[LogThread] = "gone"

(* Only a run that writes has taken messages over: what a swap puts back   *)
(* into the store is empty.                                                *)
OutputIsTransient ==
  (\A r \in Runners : rpc[r] # "write") => output_store = <<>> /\ out_pos = 0

(* Every message is in exactly one place, in the order of logging. *)
LogOrder ==
  pushed = written \o SubSeq(output_store, out_pos + 1, Len(output_store)) \o store

(* The last message of destroy() is logged before log_thread is reset, is  *)
(* taken over by the last run at the latest and written when that ends.    *)
LastMessage ==
  /\ dpc # "up" => \E k \in 1 .. Len(pushed) : pushed[k] = <<Dtor, 1>>
  /\ rpc[Dtor] = "write" =>
       \E k \in 1 .. Len(pushed) - Len(store) : pushed[k] = <<Dtor, 1>>
  /\ dpc = "gone" => \E k \in 1 .. Len(written) : written[k] = <<Dtor, 1>>

(* run_num changes only when all that was taken over is written. *)
FlushCounts ==
  \A c \in Callers : apc[c] = "flush" =>
    /\ flush_taken[c] <= Len(pushed) - Len(store)
    /\ c \notin same_run => flush_taken[c] <= Len(written)

MessagesInv ==
  LogTypes /\ OutputIsTransient /\ LogOrder /\ LastMessage /\ FlushCounts

LogInv == OneRunner /\ MessagesInv

LEMMA LogInitially == LogInit => IInv /\ LogInv
<1> SUFFICES ASSUME LogInit PROVE IInv /\ LogInv
  OBVIOUS
<1>1. IInv
  <2>1. ThreadTypeOK
    <3>1. terminated \in BOOLEAN
      BY Zenon DEF LogInit
    <3> QED
      BY <3>1 DEF LogInit, ThreadTypeOK, Status, ThreadPoints, CallPoints, MaxRuns
  <2>2. ASSUME NEW w \in Workers PROVE ObjectInv(w)
    BY DEF LogInit, ObjectInv, UnstartedInv, StatusInv, JoinedInv, FlagRunsInv,
           PauseRunsInv
  <2> QED
    BY <2>1, <2>2 DEF IInv
<1>2. LogTypes
  BY DEF LogInit, LogTypes
<1>3. OneRunner
  BY LoggerAssumption DEF LogInit, OneRunner, Runners
<1>4. LogOrder
  <2>1. SubSeq(<<>>, 1, 0) = <<>>
    OBVIOUS
  <2> QED
    BY <2>1 DEF LogInit, LogOrder
<1> QED
  BY <1>1, <1>2, <1>3, <1>4
     DEF LogInit, LogInv, MessagesInv, OutputIsTransient, LastMessage, FlushCounts, Runners

(* The logger thread is a thread object: each step of the logger is a step *)
(* of ThreadBase or leaves its state alone.                                *)
LEMMA LoggerIsAThread ==
  ASSUME IInv, [LogNext]_loggerVars
  PROVE  IInv'
<1>1. LogThread \in Workers
  BY LoggerAssumption
<1>2. ThreadNext \/ UNCHANGED threadVars \/ (RunReturn(LogThread) \/ RunBegin(LogThread))
  <2>1. CASE UNCHANGED loggerVars
    BY <2>1 DEF loggerVars
  <2>2. CASE LogThreadStep
    BY <1>1, <2>2 DEF LogThreadStep, Outside, EnterRun, LogRunStep, WaitOver,
         Swap, WriteEntry, FinishRun, ReturnFromRun, ThreadNext, ThreadStep
  <2>3. CASE DestroyLog \/ DestroyStep
    BY <1>1, <2>3, LoggerAssumption DEF DestroyLog, DestroyStep, DestroyReset,
         DtorFlag, DtorFinish, DtorLastRun, LogRunStep, WaitOver, Swap,
         WriteEntry, FinishRun, ReturnFromRun, ThreadNext
  <2>4. CASE \E c \in Callers : Log(c) \/ Flush(c) \/ WaitEnds(c)
    BY <2>4 DEF Log, Flush, WaitEnds
  <2> QED
    BY <2>1, <2>2, <2>3, <2>4 DEF LogNext
<1>3. ThreadNext \/ UNCHANGED threadVars => IInv'
  BY NextIInv
<1>4. RunReturn(LogThread) \/ RunBegin(LogThread) => IInv'
  BY <1>1, ActionIInv DEF ThreadStep
<1> QED
  BY <1>2, <1>3, <1>4

LEMMA OneRunnerPreserved ==
  ASSUME IInv, LogInv, LogNext
  PROVE  OneRunner'
<1> USE LoggerAssumption DEF Runners
<1>1. LogThread \in Workers /\ LogThread # Dtor
  OBVIOUS
<1>2. /\ tpc \in [Workers -> ThreadPoints] /\ call \in [Workers -> CallPoints]
      /\ rpc \in [Runners -> {"none", "cv", "swap", "write"}]
      /\ call[LogThread] = "gone" => tpc[LogThread] = "exited"
  BY <1>1 DEF IInv, ThreadTypeOK, ObjectInv, JoinedInv, LogInv, MessagesInv, LogTypes
<1>3. OneRunner
  BY DEF LogInv
<1>4. CASE LogThreadStep
  <2>1. CASE Outside
    <3>1. UNCHANGED <<rpc, dpc, call>>
      BY <2>1 DEF Outside, logVars, LeaveInit, LoopCheck, PauseCheck, AfterRun, Leave
    <3>2. tpc[LogThread] # "run" /\ tpc'[LogThread] # "run"
      BY <1>1, <1>2, <2>1 DEF Outside, LeaveInit, LoopCheck, PauseCheck, AfterRun,
           Leave, ThreadAt, ThreadGoto
    <3> QED
      BY <1>3, <3>1, <3>2 DEF OneRunner
  <2>2. CASE EnterRun
    BY <1>1, <1>2, <1>3, <2>2 DEF EnterRun, RunBegin, ThreadAt, ThreadGoto, RunGoto,
         OneRunner
  <2>3. CASE LogRunStep(LogThread)
    BY <1>1, <1>2, <1>3, <2>3 DEF LogRunStep, WaitOver, Swap, WriteEntry, FinishRun,
         ReturnFromRun, RunReturn, ThreadAt, ThreadGoto, RunGoto, OneRunner, threadVars
  <2> QED
    BY <1>4, <2>1, <2>2, <2>3 DEF LogThreadStep
<1>5. CASE DestroyLog \/ DestroyReset
  BY <1>3, <1>5 DEF DestroyLog, DestroyReset, threadVars, OneRunner
<1>6. CASE DtorFlag
  BY <1>3, <1>6 DEF DtorFlag, SetShouldFinish, SetShouldFinishNotify, OneRunner
<1>7. CASE DtorFinish
  BY <1>1, <1>2, <1>3, <1>7 DEF DtorFinish, logVars, FinishEnter, FinishStep,
       FinishFlag, FinishNotify, FinishUnpause, FinishJoin, FinishUnstarted, OneRunner
<1>8. CASE DtorLastRun
  BY <1>1, <1>2, <1>3, <1>8 DEF DtorLastRun, threadVars, RunGoto, OneRunner
<1>9. CASE LogRunStep(Dtor)
  BY <1>1, <1>2, <1>3, <1>9 DEF LogRunStep, WaitOver, Swap, WriteEntry, FinishRun,
       ReturnFromRun, RunGoto, OneRunner, threadVars
<1>10. CASE \E c \in Callers : Log(c) \/ Flush(c) \/ WaitEnds(c)
  <2>1. UNCHANGED <<rpc, dpc, tpc, call>>
    BY <1>10 DEF Log, Flush, WaitEnds, threadVars
  <2> QED
    BY <1>3, <2>1 DEF OneRunner
<1> QED
  BY <1>4, <1>5, <1>6, <1>7, <1>8, <1>9, <1>10 DEF LogNext, DestroyStep

(* While one executor of run() writes, the other is outside. *)
LEMMA TheOtherIsOutside ==
  ASSUME IInv, LogInv, NEW r \in Runners, NEW q \in Runners, r # q, rpc[r] # "none"
  PROVE  rpc[q] = "none"
<1>1. LogThread \in Workers /\ {r, q} = {LogThread, Dtor}
  BY LoggerAssumption DEF Runners
<1>2. call[LogThread] = "gone" => tpc[LogThread] = "exited"
  BY <1>1 DEF IInv, ObjectInv, JoinedInv
<1> QED
  BY <1>1, <1>2 DEF LogInv, OneRunner

LEMMA WrittenMovesOver ==
  ASSUME NEW a \in Seq(LogMessage), NEW o \in Seq(LogMessage), NEW b \in Seq(LogMessage),
         NEW p \in 0 .. Len(o), p < Len(o)
  PROVE  Append(a, o[p + 1]) \o SubSeq(o, p + 2, Len(o)) \o b
           = a \o SubSeq(o, p + 1, Len(o)) \o b
<1>1. SubSeq(o, p + 1, Len(o)) = <<o[p + 1]>> \o SubSeq(o, p + 2, Len(o))
  BY SubSeqRecursiveFirst, (p + 1) + 1 = p + 2
<1>2. o[p + 1] \in LogMessage /\ SubSeq(o, p + 2, Len(o)) \in Seq(LogMessage)
  OBVIOUS
<1>3. ASSUME NEW e \in LogMessage, NEW t \in Seq(LogMessage)
      PROVE  Append(a, e) \o t = a \o (<<e>> \o t)
  OBVIOUS
<1> QED
  BY <1>1, <1>2, <1>3

LEMMA NothingToWrite ==
  ASSUME NEW S, NEW a \in Seq(S), NEW o \in Seq(S), NEW b \in Seq(S)
  PROVE  /\ a \o SubSeq(o, Len(o) + 1, Len(o)) \o b = a \o b
         /\ a \o SubSeq(<<>>, 1, 0) \o b = a \o b
<1>1. SubSeq(o, Len(o) + 1, Len(o)) = <<>> /\ SubSeq(<<>>, 1, 0) = <<>>
  OBVIOUS
<1>2. a \o <<>> = a
  BY ConcatEmptySeq
<1> QED
  BY <1>1, <1>2

(* Len(pushed) - Len(store) messages have been taken over by a run. *)
LEMMA TakenOver ==
  ASSUME MessagesInv
  PROVE  /\ Len(pushed) \in Nat /\ Len(store) \in Nat /\ Len(written) \in Nat
         /\ Len(written) <= Len(pushed) - Len(store)
         /\ out_pos = Len(output_store) =>
              /\ Len(written) = Len(pushed) - Len(store)
              /\ \A k \in 1 .. Len(written) : written[k] = pushed[k]
<1> DEFINE taken == SubSeq(output_store, out_pos + 1, Len(output_store))
<1>1. /\ store \in Seq(LogMessage) /\ written \in Seq(LogMessage)
      /\ output_store \in Seq(LogMessage) /\ out_pos \in 0 .. Len(output_store)
  BY DEF MessagesInv, LogTypes
<1>2. taken \in Seq(LogMessage) /\ (out_pos = Len(output_store) => taken = <<>>)
  BY <1>1
<1>3. pushed = written \o taken \o store
  BY DEF MessagesInv, LogOrder
<1> HIDE DEF taken
<1>4. /\ Len(pushed) = Len(written) + Len(taken) + Len(store)
      /\ \A k \in 1 .. Len(written) : pushed[k] = written[k]
  BY <1>1, <1>2, <1>3
<1> QED
  BY <1>1, <1>2, <1>4

LEMMA PushPreserves ==
  ASSUME MessagesInv, NEW m \in LogMessage, Push(m),
         UNCHANGED <<output_store, out_pos, written, rpc, flush_taken>>
  PROVE  /\ store' \in Seq(LogMessage) /\ pushed' \in Seq(LogMessage)
         /\ OutputIsTransient' /\ LogOrder'
         /\ Len(pushed') - Len(store') = Len(pushed) - Len(store)
         /\ \A k \in 1 .. Len(pushed) : k \in 1 .. Len(pushed') /\ pushed'[k] = pushed[k]
         /\ Len(pushed') \in 1 .. Len(pushed') /\ pushed'[Len(pushed')] = m
<1> DEFINE ahead == written \o SubSeq(output_store, out_pos + 1, Len(output_store))
<1>1. /\ store \in Seq(LogMessage) /\ pushed \in Seq(LogMessage)
      /\ written \in Seq(LogMessage) /\ output_store \in Seq(LogMessage)
      /\ out_pos \in 0 .. Len(output_store)
  BY DEF MessagesInv, LogTypes
<1>2. store' = Append(store, m) /\ pushed' = Append(pushed, m)
  BY DEF Push
<1>3. /\ store' \in Seq(LogMessage) /\ pushed' \in Seq(LogMessage)
      /\ Len(pushed') = Len(pushed) + 1 /\ Len(store') = Len(store) + 1
      /\ \A k \in 1 .. Len(pushed) : pushed'[k] = pushed[k]
      /\ pushed'[Len(pushed) + 1] = m
  BY <1>1, <1>2
<1>4. OutputIsTransient'
  BY DEF MessagesInv, OutputIsTransient
<1>5. LogOrder'
  <2>1. ahead \in Seq(LogMessage)
    <3>1. SubSeq(output_store, out_pos + 1, Len(output_store)) \in Seq(LogMessage)
      BY <1>1
    <3> QED
      BY <1>1, <3>1
  <2>2. pushed = ahead \o store
    BY DEF MessagesInv, LogOrder
  <2>3. ahead' = ahead
    OBVIOUS
  <2> HIDE DEF ahead
  <2>4. pushed' = ahead \o store'
    <3>1. m \in LogMessage /\ store \in Seq(LogMessage)
      BY <1>1
    <3>2. ahead \o Append(store, m) = Append(ahead \o store, m)
      BY <2>1, <3>1, AppendMovesOut
    <3> QED
      BY <1>2, <2>2, <3>2, Zenon
  <2> QED
    BY <2>3, <2>4 DEF LogOrder, ahead
<1> QED
  BY <1>1, <1>3, <1>4, <1>5

LEMMA LastMessageKept ==
  ASSUME MessagesInv, UNCHANGED <<written, rpc>>,
         Len(pushed') - Len(store') = Len(pushed) - Len(store),
         \A k \in 1 .. Len(pushed) : k \in 1 .. Len(pushed') /\ pushed'[k] = pushed[k],
         dpc' # "up" =>
           dpc # "up" \/ \E k \in 1 .. Len(pushed') : pushed'[k] = <<Dtor, 1>>,
         dpc' = "gone" => dpc = "gone"
  PROVE  LastMessage'
<1>1. LastMessage
  BY DEF MessagesInv
<1>2. dpc' # "up" => \E k \in 1 .. Len(pushed') : pushed'[k] = <<Dtor, 1>>
  <2>1. CASE dpc # "up"
    <3>1. PICK k \in 1 .. Len(pushed) : pushed[k] = <<Dtor, 1>>
      BY <1>1, <2>1 DEF LastMessage
    <3>2. k \in 1 .. Len(pushed') /\ pushed'[k] = <<Dtor, 1>>
      BY <3>1
    <3> QED
      BY <3>2
  <2> QED
    BY <2>1
<1>3. ASSUME rpc'[Dtor] = "write"
      PROVE  \E k \in 1 .. Len(pushed') - Len(store') : pushed'[k] = <<Dtor, 1>>
  <2>1. PICK k \in 1 .. Len(pushed) - Len(store) : pushed[k] = <<Dtor, 1>>
    BY <1>1, <1>3 DEF LastMessage
  <2>2. Len(pushed) \in Nat /\ Len(store) \in Nat
    BY TakenOver
  <2>3. k \in 1 .. Len(pushed)
    BY <2>1, <2>2
  <2>4. pushed'[k] = <<Dtor, 1>>
    BY <2>1, <2>3
  <2> QED
    BY <2>1, <2>4
<1>4. dpc' = "gone" => \E k \in 1 .. Len(written') : written'[k] = <<Dtor, 1>>
  BY <1>1 DEF LastMessage
<1> QED
  BY <1>2, <1>3, <1>4 DEF LastMessage

LEMMA LogPreserves ==
  ASSUME MessagesInv, NEW c \in Callers, Log(c)
  PROVE  MessagesInv'
<1> DEFINE m == <<c, Cardinality(LoggedBy(c)) + 1>>
<1>1. m \in LogMessage
  <2>1. pushed \in Seq(LogMessage)
    BY DEF MessagesInv, LogTypes
  <2>2. IsFiniteSet(1 .. Len(pushed)) /\ LoggedBy(c) \subseteq 1 .. Len(pushed)
    BY <2>1, FS_Interval DEF LoggedBy
  <2>3. Cardinality(LoggedBy(c)) \in Nat
    BY <2>2, FS_Subset, FS_CardinalityType
  <2> QED
    BY <2>3 DEF LogMessage
<1>2. Push(m) /\ apc[c] = "idle"
  BY DEF Log
<1>3. UNCHANGED <<output_store, out_pos, written, rpc, dpc, flush_taken>>
  BY DEF Log
<1> HIDE DEF m
<1>4. /\ store' \in Seq(LogMessage) /\ pushed' \in Seq(LogMessage)
      /\ OutputIsTransient' /\ LogOrder'
      /\ Len(pushed') - Len(store') = Len(pushed) - Len(store)
      /\ \A k \in 1 .. Len(pushed) : k \in 1 .. Len(pushed') /\ pushed'[k] = pushed[k]
  BY <1>1, <1>2, <1>3, PushPreserves
<1>5. /\ apc' \in [Callers -> {"idle", "wait", "flush"}]
      /\ \A d \in Callers : apc'[d] = "flush" => apc[d] = "flush" /\ d # c
      /\ \A d \in Callers : d # c /\ d \notin same_run' => d \notin same_run
  <2>0. apc \in [Callers -> {"idle", "wait", "flush"}]
    BY DEF MessagesInv, LogTypes
  <2>1. CASE synchronous /\ log_thread
    <3>1. same_run' = same_run \cup {c} /\ CallerGoto(c, "wait")
      BY <2>1, Zenon DEF Log
    <3> QED
      BY <2>0, <3>1 DEF CallerGoto
  <2>2. CASE ~(synchronous /\ log_thread)
    <3>1. UNCHANGED <<same_run, apc>>
      BY <2>2, Zenon DEF Log
    <3> QED
      BY <1>2, <2>0, <3>1
  <2> QED
    BY <2>1, <2>2
<1>6. LogTypes'
  BY <1>3, <1>4, <1>5 DEF MessagesInv, LogTypes
<1>7. LastMessage'
  BY <1>3, <1>4, LastMessageKept
<1>8. FlushCounts'
  BY <1>3, <1>4, <1>5 DEF MessagesInv, FlushCounts
<1> QED
  BY <1>4, <1>6, <1>7, <1>8 DEF MessagesInv

LEMMA DestroyLogPreserves ==
  ASSUME MessagesInv, DestroyLog
  PROVE  MessagesInv'
<1>1. <<Dtor, 1>> \in LogMessage
  BY DEF LogMessage
<1>2. Push(<<Dtor, 1>>)
  BY DEF DestroyLog
<1>3. /\ UNCHANGED <<output_store, out_pos, written, rpc, flush_taken, apc, same_run>>
      /\ dpc' = "logged"
  BY DEF DestroyLog
<1>4. /\ store' \in Seq(LogMessage) /\ pushed' \in Seq(LogMessage)
      /\ OutputIsTransient' /\ LogOrder'
      /\ Len(pushed') - Len(store') = Len(pushed) - Len(store)
      /\ \A k \in 1 .. Len(pushed) : k \in 1 .. Len(pushed') /\ pushed'[k] = pushed[k]
      /\ Len(pushed') \in 1 .. Len(pushed') /\ pushed'[Len(pushed')] = <<Dtor, 1>>
  BY <1>1, <1>2, <1>3, PushPreserves
<1>5. LogTypes'
  BY <1>3, <1>4 DEF MessagesInv, LogTypes
<1>6. LastMessage'
  BY <1>3, <1>4, LastMessageKept
<1>7. FlushCounts'
  BY <1>3, <1>4 DEF MessagesInv, FlushCounts
<1> QED
  BY <1>4, <1>5, <1>6, <1>7 DEF MessagesInv

LEMMA FlushPreserves ==
  ASSUME MessagesInv, NEW c \in Callers, Flush(c) \/ WaitEnds(c)
  PROVE  MessagesInv'
<1>1. UNCHANGED <<store, output_store, out_pos, written, rpc, dpc, pushed>>
  BY DEF Flush, WaitEnds, storeVars
<1>2. /\ apc \in [Callers -> {"idle", "wait", "flush"}]
      /\ flush_taken \in [Callers -> Nat] /\ FlushCounts
  BY DEF MessagesInv, LogTypes
<1>3. apc' \in [Callers -> {"idle", "wait", "flush"}]
  BY <1>2 DEF Flush, WaitEnds, CallerGoto
<1>4. flush_taken' \in [Callers -> Nat] /\ FlushCounts'
  <2>1. /\ Len(pushed) \in Nat /\ Len(store) \in Nat
        /\ Len(pushed) - Len(store) \in Nat
    BY TakenOver
  <2>2. CASE Flush(c)
    BY <1>1, <1>2, <2>1, <2>2 DEF Flush, CallerGoto, FlushCounts
  <2>3. CASE WaitEnds(c)
    BY <1>1, <1>2, <2>1, <2>3 DEF WaitEnds, CallerGoto, FlushCounts
  <2> QED
    BY <2>2, <2>3
<1>5. LogTypes'
  BY <1>1, <1>3, <1>4 DEF MessagesInv, LogTypes
<1> QED
  BY <1>1, <1>4, <1>5 DEF MessagesInv, OutputIsTransient, LogOrder, LastMessage

LEMMA QuietLogStep ==
  ASSUME MessagesInv,
         UNCHANGED <<storeVars, pushed, same_run, apc, flush_taken>>,
         rpc' \in [Runners -> {"none", "cv", "swap", "write"}],
         \A r \in Runners : rpc'[r] = "write" <=> rpc[r] = "write",
         dpc' \in {"up", "logged", "flag", "finish", "last_run", "gone"},
         dpc' # "up" => dpc # "up", dpc' = "gone" => dpc = "gone"
  PROVE  MessagesInv'
<1> USE DEF storeVars
<1>1. LogTypes' /\ OutputIsTransient' /\ LogOrder' /\ FlushCounts'
  BY DEF MessagesInv, LogTypes, OutputIsTransient, LogOrder, FlushCounts
<1>2. Dtor \in Runners
  BY DEF Runners
<1>3. LastMessage'
  BY <1>2 DEF MessagesInv, LastMessage
<1> QED
  BY <1>1, <1>3 DEF MessagesInv

LEMMA SwapPreserves ==
  ASSUME IInv, LogInv, NEW r \in Runners, Swap(r)
  PROVE  MessagesInv'
<1>0. MessagesInv
  BY DEF LogInv
<1>1. /\ store \in Seq(LogMessage) /\ pushed \in Seq(LogMessage)
      /\ written \in Seq(LogMessage)
      /\ rpc \in [Runners -> {"none", "cv", "swap", "write"}]
  BY <1>0 DEF MessagesInv, LogTypes
<1>2. output_store = <<>> /\ out_pos = 0
  <2>1. rpc[r] = "swap"
    BY DEF Swap
  <2>2. \A q \in Runners : rpc[q] # "write"
    BY <2>1, TheOtherIsOutside
  <2> QED
    BY <1>0, <2>2 DEF MessagesInv, OutputIsTransient
<1>3. /\ store' = <<>> /\ output_store' = store /\ rpc' = [rpc EXCEPT ![r] = "write"]
      /\ UNCHANGED <<out_pos, written, same_run, apc, dpc, pushed, flush_taken>>
  BY <1>2 DEF Swap, RunGoto
<1>4. LogTypes'
  BY <1>0, <1>1, <1>2, <1>3 DEF MessagesInv, LogTypes
<1>5. OutputIsTransient'
  BY <1>1, <1>3 DEF OutputIsTransient
<1>6. pushed = written \o store
  <2>1. pushed = written \o SubSeq(<<>>, 1, 0) \o store
    BY <1>0, <1>2 DEF MessagesInv, LogOrder
  <2> QED
    BY <1>1, <2>1, NothingToWrite
<1>7. LogOrder'
  <2>1. SubSeq(store, 1, Len(store)) = store
    BY <1>1
  <2>2. (written \o store) \o <<>> = written \o store
    BY <1>1, ConcatEmptySeq, ConcatProperties
  <2> QED
    BY <1>2, <1>3, <1>6, <2>1, <2>2 DEF LogOrder
<1>8. Len(pushed') - Len(store') = Len(pushed) /\ Len(pushed) \in Nat
      /\ Len(store) \in Nat
  BY <1>1, <1>3
<1>9. LastMessage'
  <2>1. rpc'[Dtor] = "write" => dpc # "up"
    <3>1. Dtor \in Runners /\ (rpc[Dtor] # "none" => dpc = "last_run")
      BY DEF Runners, LogInv, OneRunner
    <3>2. rpc'[Dtor] = "write" => rpc[Dtor] # "none"
      BY <1>1, <1>3, <3>1 DEF Swap
    <3> QED
      BY <3>1, <3>2
  <2> QED
    BY <1>0, <1>3, <1>8, <2>1 DEF MessagesInv, LastMessage
<1>10. FlushCounts'
  <2> SUFFICES ASSUME NEW c \in Callers, apc'[c] = "flush"
               PROVE  /\ flush_taken'[c] <= Len(pushed') - Len(store')
                      /\ c \notin same_run' => flush_taken'[c] <= Len(written')
    BY DEF FlushCounts
  <2>1. /\ flush_taken[c] <= Len(pushed) - Len(store) /\ flush_taken[c] \in Nat
        /\ c \notin same_run => flush_taken[c] <= Len(written)
    BY <1>0, <1>3 DEF MessagesInv, LogTypes, FlushCounts
  <2> QED
    BY <1>3, <1>8, <2>1
<1> QED
  BY <1>4, <1>5, <1>7, <1>9, <1>10 DEF MessagesInv

LEMMA WriteEntryPreserves ==
  ASSUME MessagesInv, NEW r \in Runners, WriteEntry(r)
  PROVE  MessagesInv'
<1>1. /\ store \in Seq(LogMessage) /\ output_store \in Seq(LogMessage)
      /\ written \in Seq(LogMessage) /\ out_pos \in 0 .. Len(output_store)
      /\ out_pos < Len(output_store) /\ rpc[r] = "write"
  BY DEF MessagesInv, LogTypes, WriteEntry
<1>2. /\ out_pos' = out_pos + 1
      /\ written' = Append(written, output_store[out_pos + 1])
      /\ UNCHANGED <<store, output_store, rpc, same_run, apc, dpc, pushed, flush_taken>>
  BY DEF WriteEntry
<1>3. /\ written' \in Seq(LogMessage) /\ Len(written') = Len(written) + 1
      /\ \A k \in 1 .. Len(written) : k \in 1 .. Len(written') /\ written'[k] = written[k]
      /\ out_pos' \in 0 .. Len(output_store')
  <2>1. output_store[out_pos + 1] \in LogMessage
    BY <1>1
  <2> QED
    BY <1>1, <1>2, <2>1
<1>4. LogTypes'
  BY <1>2, <1>3 DEF MessagesInv, LogTypes
<1>5. OutputIsTransient'
  BY <1>1, <1>2 DEF OutputIsTransient
<1>6. LogOrder'
  <2>1. Append(written, output_store[out_pos + 1])
          \o SubSeq(output_store, out_pos + 2, Len(output_store)) \o store
        = written \o SubSeq(output_store, out_pos + 1, Len(output_store)) \o store
    <3>1. out_pos \in 0 .. Len(output_store) /\ out_pos < Len(output_store)
      BY <1>1
    <3>2. written \in Seq(LogMessage) /\ output_store \in Seq(LogMessage)
          /\ store \in Seq(LogMessage)
      BY <1>1
    <3> QED
      BY <3>1, <3>2, WrittenMovesOver, Zenon
  <2>2. out_pos' + 1 = out_pos + 2
    BY <1>1, <1>2
  <2> QED
    BY <1>2, <2>1, <2>2 DEF MessagesInv, LogOrder
<1>7. LastMessage'
  <2>1. ASSUME dpc' = "gone" PROVE \E k \in 1 .. Len(written') : written'[k] = <<Dtor, 1>>
    <3>1. PICK k \in 1 .. Len(written) : written[k] = <<Dtor, 1>>
      BY <1>2, <2>1 DEF MessagesInv, LastMessage
    <3> QED
      BY <1>3, <3>1
  <2> QED
    BY <1>2, <2>1 DEF MessagesInv, LastMessage
<1>8. FlushCounts'
  <2> SUFFICES ASSUME NEW c \in Callers, apc'[c] = "flush"
               PROVE  /\ flush_taken'[c] <= Len(pushed') - Len(store')
                      /\ c \notin same_run' => flush_taken'[c] <= Len(written')
    BY DEF FlushCounts
  <2>1. /\ flush_taken[c] <= Len(pushed) - Len(store) /\ flush_taken[c] \in Nat
        /\ c \notin same_run => flush_taken[c] <= Len(written)
    BY <1>2 DEF MessagesInv, LogTypes, FlushCounts
  <2>2. Len(written) \in Nat
    BY <1>1
  <2> QED
    BY <1>2, <1>3, <2>1, <2>2
<1> QED
  BY <1>4, <1>5, <1>6, <1>7, <1>8 DEF MessagesInv

LEMMA FinishRunPreserves ==
  ASSUME IInv, LogInv, NEW r \in Runners, FinishRun(r)
  PROVE  MessagesInv'
<1>0. MessagesInv
  BY DEF LogInv
<1>1. /\ store \in Seq(LogMessage) /\ output_store \in Seq(LogMessage)
      /\ written \in Seq(LogMessage) /\ pushed \in Seq(LogMessage)
      /\ rpc \in [Runners -> {"none", "cv", "swap", "write"}]
      /\ rpc[r] = "write" /\ out_pos = Len(output_store)
  BY <1>0 DEF MessagesInv, LogTypes, FinishRun
<1>2. /\ output_store' = <<>> /\ out_pos' = 0 /\ same_run' = {}
      /\ rpc' = [rpc EXCEPT ![r] = "none"]
      /\ UNCHANGED <<store, written, apc, pushed, flush_taken>>
  BY DEF FinishRun, ReturnFromRun, RunGoto
<1>3. /\ r = LogThread => dpc' = dpc
      /\ r = Dtor => dpc' = "gone" /\ dpc = "last_run"
  <2>1. rpc[Dtor] # "none" <=> dpc = "last_run"
    BY DEF LogInv, OneRunner
  <2> QED
    BY <1>1, <2>1, LoggerAssumption DEF FinishRun, ReturnFromRun
<1>4. r \in {LogThread, Dtor}
  BY DEF Runners
<1>5. /\ Len(written) = Len(pushed) - Len(store)
      /\ \A k \in 1 .. Len(written) : written[k] = pushed[k]
  BY <1>0, <1>1, TakenOver
<1>6. LogTypes'
  <2>1. dpc' \in {"up", "logged", "flag", "finish", "last_run", "gone"}
    BY <1>0, <1>3, <1>4 DEF MessagesInv, LogTypes
  <2>2. <<>> \in Seq(LogMessage) /\ 0 \in 0 .. Len(<<>>)
    OBVIOUS
  <2> QED
    BY <1>0, <1>1, <1>2, <2>1, <2>2 DEF MessagesInv, LogTypes
<1>7. LogOrder'
  <2>1. pushed = written \o store
    BY <1>0, <1>1, NothingToWrite DEF MessagesInv, LogOrder
  <2>2. pushed = written \o SubSeq(<<>>, 1, 0) \o store
    BY <1>1, <2>1, NothingToWrite
  <2> QED
    BY <1>2, <2>2 DEF LogOrder
<1>8. LastMessage'
  <2>1. ASSUME dpc' = "gone" PROVE \E k \in 1 .. Len(written') : written'[k] = <<Dtor, 1>>
    <3>1. CASE r = LogThread
      BY <1>0, <1>2, <1>3, <2>1, <3>1 DEF MessagesInv, LastMessage
    <3>2. CASE r = Dtor
      <4>1. PICK k \in 1 .. Len(pushed) - Len(store) : pushed[k] = <<Dtor, 1>>
        BY <1>0, <1>1, <3>2 DEF MessagesInv, LastMessage
      <4>2. k \in 1 .. Len(written) /\ written[k] = <<Dtor, 1>>
        BY <1>5, <4>1
      <4> QED
        BY <1>2, <4>2
    <3> QED
      BY <1>4, <3>1, <3>2
  <2>2. dpc' # "up" => dpc # "up"
    BY <1>3, <1>4
  <2>3. rpc'[Dtor] = "write" => rpc[Dtor] = "write"
    BY <1>1, <1>2 DEF Runners
  <2> QED
    BY <1>0, <1>2, <2>1, <2>2, <2>3 DEF MessagesInv, LastMessage
<1>9. FlushCounts'
  BY <1>0, <1>2, <1>5 DEF MessagesInv, FlushCounts
<1> QED
  BY <1>2, <1>6, <1>7, <1>8, <1>9 DEF MessagesInv, OutputIsTransient

LEMMA MessagesPreserved ==
  ASSUME IInv, LogInv, LogNext
  PROVE  MessagesInv'
<1>0. MessagesInv
  BY DEF LogInv
<1>1. /\ rpc \in [Runners -> {"none", "cv", "swap", "write"}]
      /\ dpc \in {"up", "logged", "flag", "finish", "last_run", "gone"}
      /\ Dtor \in Runners /\ LogThread \in Runners /\ Dtor # LogThread
  BY <1>0, LoggerAssumption DEF MessagesInv, LogTypes, Runners
<1>2. ASSUME NEW r \in Runners, LogRunStep(r) PROVE MessagesInv'
  <2>1. CASE WaitOver(r)
    <3>1. UNCHANGED <<storeVars, pushed, same_run, apc, flush_taken, dpc>>
      BY <2>1 DEF WaitOver
    <3>2. rpc' \in [Runners -> {"none", "cv", "swap", "write"}]
      BY <1>1, <2>1 DEF WaitOver, RunGoto
    <3>3. \A q \in Runners : rpc'[q] = "write" <=> rpc[q] = "write"
      BY <1>1, <2>1 DEF WaitOver, RunGoto
    <3> QED
      BY <1>0, <1>1, <3>1, <3>2, <3>3, QuietLogStep
  <2> QED
    BY <1>0, <1>2, <2>1, SwapPreserves, WriteEntryPreserves, FinishRunPreserves
       DEF LogRunStep
<1>3. CASE Outside \/ EnterRun \/ DestroyReset \/ DtorFlag \/ DtorFinish \/ DtorLastRun
  <2>1. UNCHANGED <<storeVars, pushed, same_run, apc, flush_taken>>
    BY <1>3 DEF Outside, EnterRun, DestroyReset, DtorFlag, DtorFinish, DtorLastRun,
         logVars
  <2>2. rpc' \in [Runners -> {"none", "cv", "swap", "write"}]
    BY <1>1, <1>3 DEF Outside, EnterRun, DestroyReset, DtorFlag, DtorFinish,
         DtorLastRun, logVars, RunGoto
  <2>3. \A q \in Runners : rpc'[q] = "write" <=> rpc[q] = "write"
    <3>1. EnterRun => rpc[LogThread] = "none"
      BY LoggerAssumption DEF LogInv, OneRunner, EnterRun, RunBegin, ThreadAt
    <3>2. DtorLastRun => rpc[Dtor] = "none"
      BY DEF LogInv, OneRunner, DtorLastRun
    <3>3. CASE EnterRun \/ DtorLastRun
      BY <1>1, <3>1, <3>2, <3>3 DEF EnterRun, DtorLastRun, RunGoto
    <3>4. CASE Outside \/ DestroyReset \/ DtorFlag \/ DtorFinish
      BY <3>4 DEF Outside, DestroyReset, DtorFlag, DtorFinish, logVars
    <3> QED
      BY <1>3, <3>3, <3>4
  <2>4. /\ dpc' \in {"up", "logged", "flag", "finish", "last_run", "gone"}
        /\ (dpc' # "up" => dpc # "up") /\ (dpc' = "gone" => dpc = "gone")
    BY <1>1, <1>3 DEF Outside, EnterRun, DestroyReset, DtorFlag, DtorFinish,
         DtorLastRun, logVars
  <2> QED
    BY <1>0, <2>1, <2>2, <2>3, <2>4, QuietLogStep
<1>4. CASE DestroyLog
  BY <1>0, <1>4, DestroyLogPreserves
<1>5. CASE \E c \in Callers : Log(c) \/ Flush(c) \/ WaitEnds(c)
  BY <1>0, <1>5, LogPreserves, FlushPreserves
<1> QED
  BY <1>1, <1>2, <1>3, <1>4, <1>5 DEF LogNext, LogThreadStep, DestroyStep

LEMMA LogInvPreserved == IInv /\ LogInv /\ [LogNext]_loggerVars => IInv' /\ LogInv'
<1> SUFFICES ASSUME IInv, LogInv, [LogNext]_loggerVars PROVE IInv' /\ LogInv'
  OBVIOUS
<1>1. CASE LogNext
  BY <1>1, LoggerIsAThread, OneRunnerPreserved, MessagesPreserved DEF LogInv
<1>2. CASE UNCHANGED loggerVars
  <2>1. LogInv'
    BY <1>2 DEF loggerVars, logVars, storeVars, threadVars, LogInv, OneRunner,
         MessagesInv, LogTypes, OutputIsTransient, LogOrder, LastMessage, FlushCounts
  <2> QED
    BY <2>1, LoggerIsAThread
<1> QED
  BY <1>1, <1>2

(* Every message is output once and in the order of logging, whatever is   *)
(* logged between the swap and the end of a run and however destroy()      *)
(* overtakes the logger thread; what destroy() logs itself is written when *)
(* it returns (logger.cpp: run, log_internal, destroy).                    *)
THEOREM NoMessageIsLost == LogSpec => []NothingLost
<1>1. IInv /\ LogInv => NothingLost
  BY DEF LogInv, MessagesInv, LogOrder, LastMessage, NothingLost
<1> QED
  BY <1>1, LogInitially, LogInvPreserved, PTL DEF LogSpec

(* flush() does not return before what was taken over when it was called   *)
(* is written: run_num is counted after the last entry of a run.           *)
THEOREM FlushWaitsForWriting == LogSpec => FlushWritesTaken
<1>1. IInv /\ LogInv /\ [LogNext]_loggerVars =>
        [\A c \in Callers : apc[c] = "flush" /\ apc'[c] = "idle" =>
           Len(written) >= flush_taken[c]]_loggerVars
  <2> SUFFICES ASSUME IInv, LogInv, [LogNext]_loggerVars, NEW c \in Callers,
                      apc[c] = "flush", apc'[c] = "idle"
               PROVE  Len(written) >= flush_taken[c]
    OBVIOUS
  <2>1. apc \in [Callers -> {"idle", "wait", "flush"}] /\ Len(written) \in Nat
        /\ flush_taken[c] \in Nat
    BY TakenOver DEF LogInv, MessagesInv, LogTypes
  <2>2. PICK d \in Callers : WaitEnds(d)
    <3>1. apc' # apc
      OBVIOUS
    <3>2. ~(\E d \in Callers : WaitEnds(d)) =>
            \E d \in Callers : apc' = [apc EXCEPT ![d] = "wait"]
                               \/ apc' = [apc EXCEPT ![d] = "flush"]
      <4> SUFFICES ASSUME ~(\E d \in Callers : WaitEnds(d))
                   PROVE  \E d \in Callers : apc' = [apc EXCEPT ![d] = "wait"]
                                      \/ apc' = [apc EXCEPT ![d] = "flush"]
        OBVIOUS
      <4>1. LogNext
        BY <3>1 DEF loggerVars, logVars
      <4>2. ~LogThreadStep /\ ~DestroyLog /\ ~DestroyStep
        BY <3>1 DEF LogThreadStep, DestroyLog, DestroyStep, Outside, EnterRun,
             LogRunStep, WaitOver, Swap, WriteEntry, FinishRun, DestroyReset,
             DtorFlag, DtorFinish, DtorLastRun, logVars
      <4>3. PICK d \in Callers : Log(d) \/ Flush(d)
        BY <4>1, <4>2 DEF LogNext
      <4>4. CASE Log(d)
        <5>1. apc' = apc \/ CallerGoto(d, "wait")
          BY <4>4, Zenon DEF Log
        <5> QED
          BY <3>1, <5>1 DEF CallerGoto
      <4> QED
        BY <4>3, <4>4 DEF Flush, CallerGoto
    <3> QED
      BY <2>1, <3>2
  <2>3. c = d /\ c \notin same_run
    BY <2>1, <2>2 DEF WaitEnds, CallerGoto
  <2>4. flush_taken[c] <= Len(written)
    BY <2>3 DEF LogInv, MessagesInv, FlushCounts
  <2> QED
    BY <2>1, <2>4
<1> QED
  BY <1>1, LogInitially, LogInvPreserved, PTL DEF LogSpec, FlushWritesTaken

-----------------------------------------------------------------------------
(* Execution on the CPU                                                    *)

(* Positions of a work-item in program p: before its first operation,      *)
(* about to begin one (as the running item only), suspended in one, done.  *)
Done == <<0, "done">>
Resumable(p) ==
  {Fresh} \cup {<<k, "begin">> : k \in 1 .. Len(p) + 1} \cup {<<k, "swapped">> : k \in 1 .. Len(p)}
  \cup {<<k, "read">> : k \in {n \in 1 .. Len(p) : p[n] = "shuffle"}}
Gates(p) == {Fresh, Done} \cup {<<k, "swapped">> : k \in {n \in 1 .. Len(p) : p[n] = "barrier"}}

(* Where an item that is about to begin operation k was resumed, and where *)
(* it is suspended next.                                                   *)
Before(p, k) ==
  IF k = 1 THEN Fresh
  ELSE IF p[k - 1] = "shuffle" THEN <<k - 1, "read">> ELSE <<k - 1, "swapped">>
After(p, k) == IF k \in 1 .. Len(p) THEN <<k, "swapped">> ELSE Done
Suspended(p, a) == IF a[2] = "begin" THEN Before(p, a[1]) ELSE a
Coming(p, a) ==
  IF a[2] = "begin" THEN After(p, a[1])
  ELSE IF a[2] = "swapped" /\ p[a[1]] = "shuffle" THEN <<a[1], "read">>
  ELSE After(p, a[1] + 1)
Reached(a) == IF a[2] = "begin" THEN a[1] - 1 ELSE a[1]
GateNo(p, a) == IF a = Done THEN Len(p) + 1 ELSE a[1]
NoBarrier(p, m, n) == \A k \in m .. n : p[k] # "barrier"

(* Items run in turn: of the sub-group of the running item x, those before *)
(* x have left its place already and those behind it not yet; the          *)
(* sub-groups before wait at the next barrier, those behind at the last.   *)
InTurn(p, x, f) ==
  /\ f[x] \in Resumable(p)
  /\ \A j \in SubGroup(x) :
       (j < x => f[j] = Coming(p, f[x])) /\ (j > x => f[j] = Suspended(p, f[x]))
  /\ \A j \in Items \ SubGroup(x) :
       /\ f[j] \in Gates(p)
       /\ j < x => /\ f[j] # Fresh /\ GateNo(p, f[j]) > Reached(f[x])
                   /\ NoBarrier(p, Reached(f[x]) + 1, GateNo(p, f[j]) - 1)
       /\ j > x => /\ f[j] # Done /\ f[j][1] <= Reached(f[x])
                   /\ NoBarrier(p, f[j][1] + 1, Reached(f[x]))

Phases == {"fresh", "begin", "swapped", "read", "done"}
Places == Nat \X Phases

LEMMA Products ==
  ASSUME NEW w \in Nat, NEW a \in Nat, NEW b \in Nat, a <= b
  PROVE  w * a \in Nat /\ w * b \in Nat /\ w * a <= w * b
OBVIOUS

LEMMA Division ==
  ASSUME NEW w \in Nat \ {0}, NEW i \in Nat
  PROVE  i \div w \in Nat /\ i % w \in 0 .. w - 1 /\ i = w * (i \div w) + (i % w)
OBVIOUS

LEMMA DivisionIsUnique ==
  ASSUME NEW w \in Nat \ {0}, NEW q \in Nat, NEW r \in 0 .. w - 1
  PROVE  (w * q + r) \div w = q /\ (w * q + r) % w = r
OBVIOUS

LEMMA DivisionIsMonotonic ==
  ASSUME NEW w \in Nat \ {0}, NEW a \in Nat, NEW b \in Nat, a <= b
  PROVE  a \div w <= b \div w
<1> DEFINE qa == a \div w
           qb == b \div w
<1>1. /\ qa \in Nat /\ qb \in Nat
      /\ a = w * qa + (a % w) /\ b = w * qb + (b % w)
      /\ a % w \in 0 .. w - 1 /\ b % w \in 0 .. w - 1
  BY Division
<1> HIDE DEF qa, qb
<1>2. CASE qa > qb
  <2>1. w * (qb + 1) <= w * qa
    BY <1>1, <1>2, Products
  <2>2. w * (qb + 1) = w * qb + w
    BY <1>1
  <2> QED
    BY <1>1, <2>1, <2>2
<1> QED
  BY <1>1, <1>2 DEF qa, qb

(* Sub-groups are intervals.                                               *)
LEMMA SubGroupHasItem ==
  ASSUME NEW i \in Items
  PROVE  /\ i \in SubGroup(i) /\ SubGroup(i) \subseteq Items
         /\ \A j \in SubGroup(i) : SubGroup(j) = SubGroup(i)
BY DEF SubGroup

LEMMA SubGroupsAreIntervals ==
  ASSUME NEW i \in Items, NEW j \in SubGroup(i), NEW m \in Items,
         (i <= m /\ m <= j) \/ (j <= m /\ m <= i)
  PROVE  m \in SubGroup(i)
<1>1. j \in Items /\ j \div SimdWidth = i \div SimdWidth
  BY DEF SubGroup
<1>2. SimdWidth \in Nat \ {0} /\ LocalSize \in Nat
  BY LaunchAssumption
<1>3. i \in Nat /\ j \in Nat /\ m \in Nat
  BY <1>1, <1>2 DEF Items
<1>4. i \div SimdWidth \in Nat /\ m \div SimdWidth \in Nat
  BY <1>2, <1>3, Division
<1>5. m \div SimdWidth = i \div SimdWidth
  <2>1. CASE i <= m /\ m <= j
    <3>1. i \div SimdWidth <= m \div SimdWidth /\ m \div SimdWidth <= j \div SimdWidth
      BY <1>2, <1>3, <2>1, DivisionIsMonotonic
    <3> QED
      BY <1>1, <1>4, <3>1
  <2>2. CASE j <= m /\ m <= i
    <3>1. j \div SimdWidth <= m \div SimdWidth /\ m \div SimdWidth <= i \div SimdWidth
      BY <1>2, <1>3, <2>2, DivisionIsMonotonic
    <3> QED
      BY <1>1, <1>4, <3>1
  <2> QED
    BY <2>1, <2>2
<1> QED
  BY <1>5 DEF SubGroup

LEMMA LaneZeroIsFirst ==
  ASSUME NEW i \in Items, Lane(i) = 0, NEW j \in SubGroup(i)
  PROVE  i <= j
<1> DEFINE q == i \div SimdWidth
<1>1. SimdWidth \in Nat \ {0} /\ i \in Nat /\ j \in Nat
  BY LaunchAssumption DEF Items, SubGroup
<1>2. /\ q \in Nat /\ i = SimdWidth * q + (i % SimdWidth)
      /\ j = SimdWidth * q + (j % SimdWidth) /\ j % SimdWidth \in 0 .. SimdWidth - 1
  BY <1>1, Division DEF SubGroup
<1>3. SimdWidth * q \in Nat
  BY <1>1, <1>2, Products
<1> HIDE DEF q
<1> QED
  BY <1>1, <1>2, <1>3 DEF Lane

(* A switch within the sub-group goes to the next item, from the last lane *)
(* to the first.                                                           *)
LEMMA NextInSubGroup ==
  ASSUME NEW i \in Items
  PROVE  \/ NextSimd(i) = i + 1 /\ i + 1 \in SubGroup(i)
         \/ /\ NextSimd(i) \in SubGroup(i) /\ Lane(NextSimd(i)) = 0
            /\ \A j \in SubGroup(i) : NextSimd(i) <= j /\ j <= i
<1> DEFINE w == SimdWidth
           q == i \div w
           l == i % w
           n == LocalSize \div w
<1>1. w \in Nat \ {0} /\ LocalSize \in Nat /\ i \in Nat /\ i < LocalSize
  BY LaunchAssumption DEF Items
<1>2. q \in Nat /\ l \in 0 .. w - 1 /\ i = w * q + l
  BY <1>1, Division
<1>3. n \in Nat /\ LocalSize = w * n
  <2>1. LocalSize % w = 0
    BY LaunchAssumption
  <2>2. n \in Nat /\ LocalSize = w * n + (LocalSize % w)
    BY <1>1, Division
  <2>3. w * n \in Nat
    BY <1>1, <2>2, Products
  <2> HIDE DEF n, w
  <2> QED
    BY <2>1, <2>2, <2>3
<1>4. w * q + w <= LocalSize
  <2>1. w * q \in Nat
    BY <1>1, <1>2, Products
  <2>2. q < n
    <3>1. CASE n <= q
      <4>1. w * n <= w * q
        BY <1>1, <1>2, <1>3, <3>1, Products
      <4> HIDE DEF w, q, l, n
      <4> QED
        BY <1>1, <1>2, <1>3, <2>1, <4>1
    <3> HIDE DEF w, q, l, n
    <3> QED
      BY <1>2, <1>3, <3>1
  <2>3. q + 1 <= n
    BY <1>2, <1>3, <2>2
  <2>4. w * (q + 1) <= w * n
    BY <1>1, <1>2, <1>3, <2>3, Products
  <2> HIDE DEF w, q, l, n
  <2>5. w * (q + 1) = w * q + w
    BY <1>1, <1>2
  <2> QED
    BY <1>3, <2>4, <2>5
<1>5. NextSimd(i) = q * w + ((l + 1) % w)
  BY DEF NextSimd, Lane
<1>6. q * w = w * q /\ w * q \in Nat
  BY <1>1, <1>2, Products
<1>7. CASE l + 1 < w
  <2>1. (l + 1) % w = l + 1
    BY <1>1, <1>2, <1>7
  <2> HIDE DEF w, q, l, n
  <2>2. NextSimd(i) = i + 1 /\ i + 1 = w * q + (l + 1) /\ i + 1 < LocalSize
    BY <1>1, <1>2, <1>4, <1>5, <1>6, <1>7, <2>1
  <2>3. (i + 1) \div w = q
    BY <1>1, <1>2, <1>7, <2>2, DivisionIsUnique
  <2> QED
    BY <1>1, <2>2, <2>3 DEF SubGroup, Items, q, w
<1>8. CASE l + 1 = w
  <2>1. (l + 1) % w = 0
    BY <1>1, <1>8
  <2>2. NextSimd(i) = w * q + 0 /\ NextSimd(i) <= i /\ NextSimd(i) \in Items
    <3> HIDE DEF w, q, l, n
    <3> QED
      BY <1>1, <1>2, <1>5, <1>6, <2>1 DEF Items
  <2>3. NextSimd(i) \div w = q /\ NextSimd(i) % w = 0
    <3>1. 0 \in 0 .. w - 1
      BY <1>1
    <3> HIDE DEF q, l, n
    <3>2. (w * q + 0) \div w = q /\ (w * q + 0) % w = 0
      BY <1>1, <1>2, <3>1, DivisionIsUnique
    <3> QED
      BY <2>2, <3>2
  <2>4. NextSimd(i) \in SubGroup(i) /\ Lane(NextSimd(i)) = 0
    BY <2>2, <2>3 DEF SubGroup, Lane
  <2>5. ASSUME NEW j \in SubGroup(i)
        PROVE  NextSimd(i) <= j /\ j <= i
    <3>1. j \in Nat /\ j \div w = q
      BY <1>1 DEF SubGroup, Items
    <3>2. j = w * q + (j % w) /\ j % w \in 0 .. w - 1
      BY <1>1, <3>1, Division
    <3> HIDE DEF w, q, l, n
    <3> QED
      BY <1>1, <1>2, <1>6, <1>8, <2>2, <3>1, <3>2
  <2> QED
    BY <2>4, <2>5
<1> QED
  BY <1>1, <1>2, <1>7, <1>8

(* A switch within the group goes to the next item, from the last to the   *)
(* first.                                                                  *)
LEMMA NextInGroup ==
  ASSUME NEW i \in Items
  PROVE  \/ NextLinear(i) = i + 1 /\ i + 1 \in Items
         \/ NextLinear(i) = 0 /\ i + 1 = LocalSize
<1>1. LocalSize \in Nat \ {0} /\ i \in Nat /\ i < LocalSize
  BY LaunchAssumption DEF Items
<1>2. CASE i + 1 < LocalSize
  <2>1. (i + 1) % LocalSize = i + 1
    BY <1>1, <1>2
  <2> QED
    BY <1>1, <1>2, <2>1 DEF NextLinear, Items
<1>3. CASE i + 1 = LocalSize
  <2>1. (i + 1) % LocalSize = 0
    BY <1>1, <1>3
  <2> QED
    BY <1>3, <2>1 DEF NextLinear
<1> QED
  BY <1>1, <1>2, <1>3

LEMMA PositionFacts ==
  ASSUME NEW p \in Seq(Ops), NEW a \in Resumable(p)
  PROVE  /\ a \in Places /\ Reached(a) \in Nat
         /\ Coming(p, a) \in Places
         /\ Suspended(p, a) \in Resumable(p) /\ Suspended(p, a)[2] # "begin"
         /\ Coming(p, Suspended(p, a)) = Coming(p, a)
         /\ Reached(Suspended(p, a)) = Reached(a)
<1>1. Len(p) \in Nat
  OBVIOUS
<1>2. CASE a = Fresh
  BY <1>1, <1>2 DEF Fresh, Resumable, Places, Phases, Coming, Suspended, Reached, After, Done
<1>3. ASSUME NEW k \in 1 .. Len(p) + 1, a = <<k, "begin">>
      PROVE  /\ a \in Places /\ Reached(a) \in Nat
             /\ Coming(p, a) \in Places
             /\ Suspended(p, a) \in Resumable(p) /\ Suspended(p, a)[2] # "begin"
             /\ Coming(p, Suspended(p, a)) = Coming(p, a)
             /\ Reached(Suspended(p, a)) = Reached(a)
  <2>1. /\ a \in Places /\ Reached(a) = k - 1 /\ Coming(p, a) = After(p, k)
        /\ Suspended(p, a) = Before(p, k)
    BY <1>1, <1>3 DEF Places, Phases, Reached, Coming, Suspended
  <2>2. After(p, k) \in Places
    BY <1>1 DEF After, Places, Phases, Done
  <2>3. CASE k = 1
    <3>1. Before(p, k) = Fresh
      BY <2>3 DEF Before
    <3>2. Coming(p, Fresh) = After(p, 1) /\ Reached(Fresh) = 0 /\ Fresh[2] # "begin"
      BY DEF Fresh, Coming, Reached
    <3> QED
      BY <2>1, <2>2, <2>3, <3>1, <3>2 DEF Resumable
  <2>4. CASE k # 1 /\ p[k - 1] = "shuffle"
    <3>1. Before(p, k) = <<k - 1, "read">> /\ k - 1 \in 1 .. Len(p)
      BY <1>1, <2>4 DEF Before
    <3>2. Coming(p, <<k - 1, "read">>) = After(p, k) /\ Reached(<<k - 1, "read">>) = k - 1
      BY <1>1 DEF Coming, Reached
    <3> QED
      BY <1>1, <2>1, <2>2, <2>4, <3>1, <3>2 DEF Resumable
  <2>5. CASE k # 1 /\ p[k - 1] # "shuffle"
    <3>1. Before(p, k) = <<k - 1, "swapped">> /\ k - 1 \in 1 .. Len(p)
      BY <1>1, <2>5 DEF Before
    <3>2. Coming(p, <<k - 1, "swapped">>) = After(p, k) /\ Reached(<<k - 1, "swapped">>) = k - 1
      BY <1>1, <2>5 DEF Coming, Reached
    <3> QED
      BY <1>1, <2>1, <2>2, <2>5, <3>1, <3>2 DEF Resumable
  <2> QED
    BY <2>3, <2>4, <2>5
<1>4. ASSUME NEW k \in 1 .. Len(p), a = <<k, "swapped">> \/ (a = <<k, "read">> /\ p[k] = "shuffle")
      PROVE  /\ a \in Places /\ Reached(a) \in Nat
             /\ Coming(p, a) \in Places /\ Suspended(p, a) = a /\ a[2] # "begin"
  BY <1>1, <1>4 DEF Places, Phases, Reached, Coming, Suspended, After, Done
<1> QED
  BY <1>2, <1>3, <1>4 DEF Resumable

(* The running item goes on, without a switch. *)
LEMMA ItemGoesOn ==
  ASSUME NEW p \in Seq(Ops), NEW x \in Items, NEW f \in [Items -> Places], InTurn(p, x, f),
         NEW b \in Resumable(p), Suspended(p, b) = Suspended(p, f[x]),
         Coming(p, b) = Coming(p, f[x]), Reached(b) = Reached(f[x])
  PROVE  InTurn(p, x, [f EXCEPT ![x] = b])
<1> DEFINE g == [f EXCEPT ![x] = b]
<1>1. g[x] = b /\ \A j \in Items : j # x => g[j] = f[j]
  OBVIOUS
<1>2. x \in SubGroup(x) /\ SubGroup(x) \subseteq Items
  BY SubGroupHasItem
<1>3. x \in Nat
  BY LaunchAssumption DEF Items
<1>4. \A j \in SubGroup(x) : (j < x => g[j] = Coming(p, b)) /\ (j > x => g[j] = Suspended(p, b))
  BY <1>1, <1>2, <1>3 DEF InTurn
<1>5. \A j \in Items \ SubGroup(x) : g[j] = f[j]
  BY <1>1, <1>2
<1> HIDE DEF g
<1>6. InTurn(p, x, g)
  BY <1>1, <1>4, <1>5 DEF InTurn
<1> QED
  BY <1>6 DEF g

(* A switch to the next lane. *)
LEMMA SwitchWithin ==
  ASSUME NEW p \in Seq(Ops), NEW x \in Items, NEW f \in [Items -> Places], InTurn(p, x, f),
         x + 1 \in SubGroup(x)
  PROVE  InTurn(p, x + 1, [f EXCEPT ![x] = Coming(p, f[x])])
<1> DEFINE g == [f EXCEPT ![x] = Coming(p, f[x])]
           y == x + 1
           a == f[x]
<1>1. x \in Nat /\ Items \subseteq Nat
  BY LaunchAssumption DEF Items
<1>2. /\ x \in SubGroup(x) /\ SubGroup(x) \subseteq Items /\ SubGroup(y) = SubGroup(x)
      /\ y \in Items /\ x < y
  BY <1>1, SubGroupHasItem
<1>3. g[x] = Coming(p, a) /\ \A j \in Items : j # x => g[j] = f[j]
  BY DEF Places
<1>4. /\ Suspended(p, a) \in Resumable(p) /\ Suspended(p, a)[2] # "begin"
      /\ Coming(p, Suspended(p, a)) = Coming(p, a) /\ Reached(Suspended(p, a)) = Reached(a)
  BY PositionFacts DEF InTurn
<1>5. f[y] = Suspended(p, a) /\ g[y] = Suspended(p, a)
  BY <1>1, <1>2, <1>3 DEF InTurn
<1>6. Suspended(p, g[y]) = g[y]
  BY <1>4, <1>5 DEF Suspended
<1>7. \A j \in SubGroup(x) : (j < y => g[j] = Coming(p, a)) /\ (j > y => g[j] = Suspended(p, a))
  <2>1. \A j \in SubGroup(x) : j \in Nat /\ j \in Items
    BY <1>1, <1>2
  <2>2. \A j \in SubGroup(x) : j < y => j < x \/ j = x
    BY <1>1, <2>1
  <2>3. \A j \in SubGroup(x) : j > y => j > x /\ j # x
    BY <1>1, <2>1
  <2> QED
    BY <1>3, <2>1, <2>2, <2>3 DEF InTurn
<1>8. \A j \in Items \ SubGroup(x) : g[j] = f[j] /\ (j < y <=> j < x) /\ (j > y <=> j > x)
  <2>1. \A j \in Items \ SubGroup(x) : j \in Nat /\ j # x /\ j # y
    BY <1>1, <1>2
  <2> QED
    BY <1>1, <1>3, <2>1
<1> HIDE DEF g, y
<1>9. InTurn(p, y, g)
  <2>1. g[y] \in Resumable(p)
    BY <1>4, <1>5
  <2>2. \A j \in SubGroup(y) :
          (j < y => g[j] = Coming(p, g[y])) /\ (j > y => g[j] = Suspended(p, g[y]))
    BY <1>2, <1>4, <1>5, <1>6, <1>7
  <2>3. \A j \in Items \ SubGroup(y) :
          /\ g[j] \in Gates(p)
          /\ j < y => /\ g[j] # Fresh /\ GateNo(p, g[j]) > Reached(g[y])
                      /\ NoBarrier(p, Reached(g[y]) + 1, GateNo(p, g[j]) - 1)
          /\ j > y => /\ g[j] # Done /\ g[j][1] <= Reached(g[y])
                      /\ NoBarrier(p, g[j][1] + 1, Reached(g[y]))
    BY <1>2, <1>4, <1>5, <1>8 DEF InTurn
  <2> QED
    BY <2>1, <2>2, <2>3 DEF InTurn
<1> QED
  BY <1>9 DEF g, y

LEMMA GateFacts ==
  ASSUME NEW p \in Seq(Ops), NEW a \in Gates(p)
  PROVE  /\ a[1] \in 0 .. Len(p) /\ GateNo(p, a) \in 0 .. Len(p) + 1
         /\ a # Done => GateNo(p, a) = a[1] /\ a \in Resumable(p) /\ Suspended(p, a) = a
                        /\ Reached(a) = a[1] /\ a[2] # "begin"
         /\ a # Done /\ a[1] # 0 => a = <<a[1], "swapped">> /\ p[a[1]] = "barrier"
         /\ a # Done /\ a[1] = 0 => a = Fresh
         /\ a = Done => GateNo(p, a) = Len(p) + 1
<1>1. Len(p) \in Nat
  OBVIOUS
<1>2. CASE a = Fresh
  BY <1>1, <1>2 DEF Fresh, Done, GateNo, Resumable, Suspended, Reached
<1>3. CASE a = Done
  BY <1>1, <1>3 DEF Fresh, Done, GateNo
<1>4. ASSUME NEW k \in 1 .. Len(p), p[k] = "barrier", a = <<k, "swapped">>
      PROVE  /\ a[1] \in 0 .. Len(p) /\ GateNo(p, a) = a[1] /\ a \in Resumable(p)
             /\ Suspended(p, a) = a /\ Reached(a) = a[1] /\ a[2] # "begin" /\ a[1] # 0 /\ a # Done
             /\ a = <<a[1], "swapped">> /\ p[a[1]] = "barrier" /\ a[1] \in 0 .. Len(p) + 1
  BY <1>1, <1>4 DEF Done, GateNo, Resumable, Suspended, Reached
<1> QED
  BY <1>2, <1>3, <1>4 DEF Gates

(* A switch from the last lane back to the first, in a SIMD operation. *)
LEMMA SwitchToFirst ==
  ASSUME NEW p \in Seq(Ops), NEW x \in Items, NEW f \in [Items -> Places], InTurn(p, x, f),
         NEW y \in SubGroup(x), \A j \in SubGroup(x) : y <= j /\ j <= x,
         NEW k \in 1 .. Len(p), p[k] # "barrier",
         f[x] = <<k, "begin">> \/ (f[x] = <<k, "swapped">> /\ p[k] = "shuffle")
  PROVE  InTurn(p, y, [f EXCEPT ![x] = Coming(p, f[x])])
<1> DEFINE g == [f EXCEPT ![x] = Coming(p, f[x])]
           a == f[x]
           b == Coming(p, a)
<1>1. x \in Nat /\ Items \subseteq Nat /\ Len(p) \in Nat
  BY LaunchAssumption DEF Items
<1>2. /\ x \in SubGroup(x) /\ SubGroup(x) \subseteq Items /\ SubGroup(y) = SubGroup(x)
      /\ y \in Items
  BY SubGroupHasItem
<1>3. g[x] = b /\ \A j \in Items : j # x => g[j] = f[j]
  BY DEF Places
<1>4. b \in Resumable(p) /\ Suspended(p, b) = b /\ Reached(b) = k /\ Reached(a) \in {k - 1, k}
  <2>1. CASE a = <<k, "begin">>
    <3>1. b = <<k, "swapped">> /\ Reached(a) = k - 1
      BY <1>1, <2>1 DEF Coming, After, Reached
    <3> HIDE DEF b
    <3> QED
      BY <1>1, <3>1 DEF Resumable, Suspended, Reached
  <2>2. CASE a = <<k, "swapped">> /\ p[k] = "shuffle"
    <3>1. b = <<k, "read">> /\ Reached(a) = k
      BY <1>1, <2>2 DEF Coming, Reached
    <3> HIDE DEF b
    <3> QED
      BY <1>1, <2>2, <3>1 DEF Resumable, Suspended, Reached
  <2> QED
    BY <2>1, <2>2
<1>5. \A j \in SubGroup(x) : g[j] = b /\ ~(j < y)
  <2>1. \A j \in SubGroup(x) : j \in Nat /\ j \in Items /\ y \in Nat /\ (j < x \/ j = x)
    BY <1>1, <1>2
  <2> QED
    BY <1>3, <2>1 DEF InTurn
<1>6. ASSUME NEW j \in Items \ SubGroup(x)
      PROVE  g[j] = f[j] /\ (j < y => j < x) /\ (j > y => j > x)
  <2>1. j \in Nat /\ y \in Nat /\ y <= x /\ j # x
    BY <1>1, <1>2
  <2>2. ~(y <= j /\ j <= x)
    BY <1>2, SubGroupsAreIntervals
  <2> QED
    BY <1>1, <1>3, <2>1, <2>2
<1> HIDE DEF g, b
<1>7. ASSUME NEW j \in Items \ SubGroup(x)
      PROVE  /\ g[j] \in Gates(p)
             /\ j < y => /\ g[j] # Fresh /\ GateNo(p, g[j]) > k
                         /\ NoBarrier(p, k + 1, GateNo(p, g[j]) - 1)
             /\ j > y => /\ g[j] # Done /\ g[j][1] <= k
                         /\ NoBarrier(p, g[j][1] + 1, k)
  <2>1. g[j] = f[j] /\ f[j] \in Gates(p)
    BY <1>6 DEF InTurn
  <2>2. /\ f[j][1] \in 0 .. Len(p) /\ GateNo(p, f[j]) \in 0 .. Len(p) + 1
        /\ f[j] # Done => GateNo(p, f[j]) = f[j][1]
        /\ f[j] # Done /\ f[j][1] # 0 => p[f[j][1]] = "barrier"
        /\ f[j] = Done => GateNo(p, f[j]) = Len(p) + 1
    BY <2>1, GateFacts
  <2>3. ASSUME j < y
        PROVE  /\ f[j] # Fresh /\ GateNo(p, f[j]) > k
               /\ NoBarrier(p, k + 1, GateNo(p, f[j]) - 1)
    <3>1. /\ f[j] # Fresh /\ GateNo(p, f[j]) > Reached(a)
          /\ NoBarrier(p, Reached(a) + 1, GateNo(p, f[j]) - 1)
      BY <1>6, <2>3 DEF InTurn
    <3>2. GateNo(p, f[j]) # k
      BY <1>1, <2>2
    <3>3. GateNo(p, f[j]) > k
      BY <1>1, <1>4, <2>2, <3>1, <3>2
    <3> QED
      BY <1>1, <1>4, <2>2, <3>1, <3>3 DEF NoBarrier
  <2>4. ASSUME j > y
        PROVE  f[j] # Done /\ f[j][1] <= k /\ NoBarrier(p, f[j][1] + 1, k)
    <3>1. /\ f[j] # Done /\ f[j][1] <= Reached(a) /\ NoBarrier(p, f[j][1] + 1, Reached(a))
      BY <1>6, <2>4 DEF InTurn
    <3> QED
      BY <1>1, <1>4, <2>2, <3>1 DEF NoBarrier
  <2> QED
    BY <2>1, <2>3, <2>4
<1>8. InTurn(p, y, g)
  BY <1>2, <1>4, <1>5, <1>7 DEF InTurn
<1> QED
  BY <1>8 DEF g, b

(* At a barrier or at the end the last item of the sub-group hands over to *)
(* the next sub-group, or to the first item, or to the main context.       *)
LEMMA AtTheGate ==
  ASSUME NEW p \in Seq(Ops), NEW x \in Items, NEW f \in [Items -> Places], InTurn(p, x, f),
         NEW k \in 1 .. Len(p) + 1, f[x] = <<k, "begin">>,
         k = Len(p) + 1 \/ p[k] = "barrier",
         \A j \in SubGroup(x) : j <= x
  PROVE  \A j \in Items : j <= x => [f EXCEPT ![x] = Coming(p, f[x])][j] = After(p, k)
<1> SUFFICES ASSUME NEW j \in Items, j <= x
             PROVE  [f EXCEPT ![x] = Coming(p, f[x])][j] = After(p, k)
  OBVIOUS
<1>1. x \in Nat /\ Items \subseteq Nat /\ Len(p) \in Nat
  BY LaunchAssumption DEF Items
<1>2. Coming(p, f[x]) = After(p, k) /\ Reached(f[x]) = k - 1
  BY <1>1 DEF Coming, Reached
<1>3. CASE j = x
  BY <1>2, <1>3
<1>4. CASE j # x /\ j \in SubGroup(x)
  BY <1>1, <1>2, <1>4 DEF InTurn
<1>5. CASE j # x /\ j \notin SubGroup(x)
  <2>1. j < x
    BY <1>1, <1>5
  <2>2. /\ f[j] \in Gates(p) /\ f[j] # Fresh /\ GateNo(p, f[j]) > k - 1
        /\ NoBarrier(p, k, GateNo(p, f[j]) - 1)
    BY <1>1, <1>2, <1>5, <2>1 DEF InTurn
  <2>3. f[j] = After(p, k)
    <3>1. CASE f[j] = Done
      <4>1. GateNo(p, f[j]) = Len(p) + 1
        BY <3>1 DEF GateNo
      <4>2. k = Len(p) + 1
        BY <1>1, <2>2, <4>1 DEF NoBarrier
      <4> QED
        BY <1>1, <3>1, <4>2 DEF After
    <3>2. CASE f[j] # Done
      <4>1. /\ GateNo(p, f[j]) = f[j][1] /\ f[j][1] \in 1 .. Len(p)
            /\ f[j] = <<f[j][1], "swapped">>
        BY <2>2, <3>2, GateFacts
      <4>2. f[j][1] = k
        BY <1>1, <2>2, <4>1 DEF NoBarrier
      <4> QED
        BY <1>1, <4>1, <4>2 DEF After
    <3> QED
      BY <3>1, <3>2
  <2> QED
    BY <1>5, <2>3
<1> QED
  BY <1>3, <1>4, <1>5

LEMMA SwitchToNextSubGroup ==
  ASSUME NEW p \in Seq(Ops), NEW x \in Items, NEW f \in [Items -> Places], InTurn(p, x, f),
         NEW k \in 1 .. Len(p) + 1, f[x] = <<k, "begin">>,
         k = Len(p) + 1 \/ p[k] = "barrier",
         x + 1 \in Items \ SubGroup(x)
  PROVE  InTurn(p, x + 1, [f EXCEPT ![x] = Coming(p, f[x])])
<1> DEFINE g == [f EXCEPT ![x] = Coming(p, f[x])]
           y == x + 1
<1>1. x \in Nat /\ Items \subseteq Nat /\ Len(p) \in Nat /\ y \in Items /\ y \in Nat
  BY LaunchAssumption DEF Items
<1>2. \A j \in SubGroup(x) : j <= x
  <2>1. SUFFICES ASSUME NEW j \in SubGroup(x), y <= j PROVE FALSE
    BY <1>1, SubGroupHasItem
  <2> QED
    BY <1>1, <2>1, SubGroupsAreIntervals
<1>3. \A j \in Items : j < y => g[j] = After(p, k)
  BY <1>1, <1>2, AtTheGate
<1>4. Reached(f[x]) = k - 1
  BY <1>1 DEF Reached
<1>5. \A j \in Items : j >= y =>
        /\ g[j] = f[j] /\ f[j] \in Gates(p) /\ f[j] # Done
        /\ f[j][1] <= k - 1 /\ NoBarrier(p, f[j][1] + 1, k - 1)
  <2>1. \A j \in Items : j >= y => j > x /\ j # x /\ j \notin SubGroup(x)
    BY <1>1, <1>2
  <2> QED
    BY <1>4, <2>1 DEF InTurn
<1>6. /\ f[y] \in Gates(p) /\ g[y] = f[y] /\ f[y] # Done
      /\ f[y][1] \in 0 .. Len(p) /\ f[y] \in Resumable(p) /\ Suspended(p, f[y]) = f[y]
      /\ Reached(f[y]) = f[y][1] /\ f[y][1] <= k - 1 /\ NoBarrier(p, f[y][1] + 1, k - 1)
      /\ f[y][1] # 0 => f[y] = <<f[y][1], "swapped">> /\ p[f[y][1]] = "barrier"
      /\ f[y][1] = 0 => f[y] = Fresh
  BY <1>1, <1>5, GateFacts
<1>7. ASSUME NEW j \in Items, j >= y
      PROVE  f[j] = f[y]
  <2>1. /\ f[j] # Done /\ f[j] \in Gates(p)
        /\ f[j][1] <= k - 1 /\ NoBarrier(p, f[j][1] + 1, k - 1)
    BY <1>5, <1>7
  <2>2. /\ f[j][1] \in 0 .. Len(p)
        /\ f[j][1] # 0 => f[j] = <<f[j][1], "swapped">> /\ p[f[j][1]] = "barrier"
        /\ f[j][1] = 0 => f[j] = Fresh
    BY <2>1, GateFacts
  <2>3. f[j][1] = f[y][1]
    <3>1. ~(f[j][1] < f[y][1])
      BY <1>1, <1>6, <2>1, <2>2 DEF NoBarrier
    <3>2. ~(f[j][1] > f[y][1])
      BY <1>1, <1>6, <2>1, <2>2 DEF NoBarrier
    <3> QED
      BY <1>6, <2>2, <3>1, <3>2
  <2> QED
    BY <1>6, <2>2, <2>3
<1>8. /\ After(p, k) \in Gates(p) /\ After(p, k) # Fresh /\ GateNo(p, After(p, k)) = k
  BY <1>1 DEF After, Gates, GateNo, Fresh, Done
<1>9. \A j \in SubGroup(y) : j >= y
  <2>1. SUFFICES ASSUME NEW j \in SubGroup(y), j <= x PROVE FALSE
    BY <1>1, SubGroupHasItem
  <2>2. x \in SubGroup(y)
    BY <1>1, <2>1, SubGroupsAreIntervals
  <2> QED
    BY <1>1, <2>2, SubGroupHasItem
<1>10. \A j \in Items : j < y \/ j >= y
  BY <1>1
<1> HIDE DEF g, y
<1>11. \A j \in SubGroup(y) :
         (j < y => g[j] = Coming(p, g[y])) /\ (j > y => g[j] = Suspended(p, g[y]))
  <2>1. \A j \in SubGroup(y) : j \in Items /\ ~(j < y)
    <3>1. SubGroup(y) \subseteq Items
      BY <1>1, SubGroupHasItem
    <3>2. \A j \in SubGroup(y) : j \in Nat /\ j >= y
      BY <1>1, <1>9, <3>1
    <3> QED
      BY <1>1, <3>1, <3>2
  <2> QED
    BY <1>5, <1>6, <1>7, <1>9, <2>1
<1>12. ASSUME NEW j \in Items
       PROVE  /\ g[j] \in Gates(p)
              /\ j < y => /\ g[j] # Fresh /\ GateNo(p, g[j]) > Reached(g[y])
                          /\ NoBarrier(p, Reached(g[y]) + 1, GateNo(p, g[j]) - 1)
              /\ j > y => /\ g[j] # Done /\ g[j][1] <= Reached(g[y])
                          /\ NoBarrier(p, g[j][1] + 1, Reached(g[y]))
  <2>1. CASE j < y
    <3>1. g[j] = After(p, k) /\ ~(j > y)
      BY <1>1, <1>3, <2>1
    <3> QED
      BY <1>1, <1>6, <1>8, <3>1
  <2>2. CASE j >= y
    <3>1. g[j] = g[y] /\ ~(j < y)
      BY <1>1, <1>5, <1>6, <1>7, <2>2
    <3> QED
      BY <1>6, <3>1 DEF NoBarrier
  <2> QED
    BY <1>10, <2>1, <2>2
<1>13. InTurn(p, y, g)
  BY <1>6, <1>11, <1>12 DEF InTurn
<1> QED
  BY <1>13 DEF g, y

LEMMA SwitchToFirstItem ==
  ASSUME NEW p \in Seq(Ops), NEW x \in Items, NEW f \in [Items -> Places], InTurn(p, x, f),
         NEW k \in 1 .. Len(p), f[x] = <<k, "begin">>, p[k] = "barrier", x + 1 = LocalSize
  PROVE  InTurn(p, 0, [f EXCEPT ![x] = Coming(p, f[x])])
<1> DEFINE g == [f EXCEPT ![x] = Coming(p, f[x])]
<1>1. /\ x \in Nat /\ Len(p) \in Nat /\ 0 \in Items
      /\ \A j \in Items : j \in Nat /\ j <= x /\ ~(j < 0)
  BY LaunchAssumption DEF Items
<1>2. \A j \in SubGroup(x) : j <= x
  BY <1>1, SubGroupHasItem
<1>3. \A j \in Items : g[j] = <<k, "swapped">>
  <2>1. After(p, k) = <<k, "swapped">>
    BY <1>1 DEF After
  <2>2. k \in 1 .. Len(p) + 1
    BY <1>1
  <2>3. \A j \in Items : j <= x => g[j] = After(p, k)
    BY <1>2, <2>2, AtTheGate
  <2> QED
    BY <1>1, <2>1, <2>3
<1> HIDE DEF g
<1>4. /\ <<k, "swapped">> \in Resumable(p) /\ <<k, "swapped">> \in Gates(p)
      /\ Suspended(p, <<k, "swapped">>) = <<k, "swapped">> /\ Reached(<<k, "swapped">>) = k
      /\ <<k, "swapped">> # Done
  BY <1>1 DEF Resumable, Gates, Suspended, Reached, Done
<1>5. NoBarrier(p, k + 1, k)
  BY DEF NoBarrier
<1>6. InTurn(p, 0, g)
  <2>1. 0 \in SubGroup(0) /\ SubGroup(0) \subseteq Items
    BY <1>1, SubGroupHasItem
  <2>2. \A j \in SubGroup(0) :
          (j < 0 => g[j] = Coming(p, g[0])) /\ (j > 0 => g[j] = Suspended(p, g[0]))
    BY <1>1, <1>3, <1>4, <2>1
  <2>3. ASSUME NEW j \in Items \ SubGroup(0)
        PROVE  /\ g[j] \in Gates(p) /\ ~(j < 0)
               /\ g[j] # Done /\ g[j][1] <= Reached(g[0])
               /\ NoBarrier(p, g[j][1] + 1, Reached(g[0]))
    <3>1. g[j] = <<k, "swapped">> /\ g[0] = <<k, "swapped">> /\ ~(j < 0)
      BY <1>1, <1>3
    <3> QED
      BY <1>4, <1>5, <3>1
  <2> QED
    BY <1>1, <1>3, <1>4, <2>2, <2>3 DEF InTurn
<1> QED
  BY <1>6 DEF g

LEMMA GroupEnds ==
  ASSUME NEW p \in Seq(Ops), NEW x \in Items, NEW f \in [Items -> Places], InTurn(p, x, f),
         f[x] = <<Len(p) + 1, "begin">>, x + 1 = LocalSize
  PROVE  \A j \in Items : [f EXCEPT ![x] = Coming(p, f[x])][j] = Done
<1>1. /\ x \in Nat /\ Len(p) \in Nat /\ \A j \in Items : j \in Nat /\ j <= x
  BY LaunchAssumption DEF Items
<1>2. \A j \in SubGroup(x) : j <= x
  BY <1>1, SubGroupHasItem
<1>3. After(p, Len(p) + 1) = Done /\ Len(p) + 1 \in 1 .. Len(p) + 1
  BY <1>1 DEF After
<1> DEFINE k == Len(p) + 1
<1>4. f[x] = <<k, "begin">> /\ k \in 1 .. Len(p) + 1 /\ k = Len(p) + 1
  BY <1>3
<1> HIDE DEF k
<1>5. \A j \in Items : j <= x => [f EXCEPT ![x] = Coming(p, f[x])][j] = After(p, k)
  BY <1>2, <1>4, AtTheGate, SMTT(20)
<1> QED
  BY <1>1, <1>3, <1>5 DEF k

LEMMA ResumableFacts ==
  ASSUME NEW p \in Seq(Ops), NEW a \in Resumable(p)
  PROVE  /\ a # Done
         /\ a[2] = "begin" => a = <<a[1], "begin">> /\ a[1] \in 1 .. Len(p) + 1
         /\ a[2] = "swapped" => a = <<a[1], "swapped">> /\ a[1] \in 1 .. Len(p)
         /\ a[2] = "read" => /\ a = <<a[1], "read">> /\ a[1] \in 1 .. Len(p)
                             /\ p[a[1]] = "shuffle"
BY DEF Resumable, Fresh, Done

LaunchTypes ==
  /\ program \in Seq(Ops) /\ group_idx \in Nat
  /\ thread \in [Cpus -> {"start", "work", "done"}]
  /\ group \in [Cpus -> Groups \cup {NoGroup}]
  /\ ctx \in [Cpus -> {Main} \cup Items]
  /\ at \in [Cpus -> [Items -> Places]]
  /\ runs \in [Groups \X Items -> Nat]

FibersInTurn ==
  \A c \in Cpus :
    IF Running(c)
    THEN thread[c] = "work" /\ group[c] \in Groups /\ InTurn(program, ctx[c], at[c])
    ELSE \A i \in Items : at[c][i] = IF group[c] = NoGroup THEN Fresh ELSE Done

(* Each ticket went to one thread, which has run the items of its group or *)
(* is about to.                                                            *)
Tickets ==
  /\ \A c \in Cpus : group[c] # NoGroup => group[c] < group_idx
  /\ \A c, d \in Cpus : group[c] = group[d] /\ group[c] # NoGroup => c = d
  /\ \A c \in Cpus : thread[c] = "done" => ~Running(c) /\ (success => group_idx >= GroupCount)
  /\ \A g \in Groups, i \in Items :
       /\ g >= group_idx => runs[<<g, i>>] = 0
       /\ g < group_idx /\ (\A c \in Cpus : Running(c) => group[c] # g) => runs[<<g, i>>] = 1
  /\ \A c \in Cpus : Running(c) =>
       \A i \in Items : runs[<<group[c], i>>] = IF at[c][i] = Done THEN 1 ELSE 0

TurnInv == LaunchTypes /\ FibersInTurn /\ Tickets

LEMMA LaunchConstants ==
  /\ NoGroup \notin Groups /\ Groups \subseteq Nat /\ 0 \in Items /\ Items \subseteq Nat
  /\ Main \notin Items /\ \A g : g \in Groups <=> g \in Nat /\ g < GroupCount
  /\ GroupCount \in Nat /\ LocalSize \in Nat \ {0}
BY LaunchAssumption, MainAssumption DEF NoGroup, Groups, Items

LEMMA TurnInitially == LaunchInit => TurnInv
<1> SUFFICES ASSUME LaunchInit PROVE TurnInv
  OBVIOUS
<1>1. /\ group_idx = 0 /\ thread = [c \in Cpus |-> "start"] /\ group = [c \in Cpus |-> NoGroup]
      /\ ctx = [c \in Cpus |-> Main] /\ at = [c \in Cpus |-> [i \in Items |-> Fresh]]
      /\ runs = [x \in Groups \X Items |-> 0]
  BY DEF LaunchInit
<1>2. program \in Seq(Ops)
  <2>1. PICK n \in 0 .. MaxOps : program \in [1 .. n -> Ops]
    BY DEF LaunchInit
  <2>2. n \in Nat
    BY LaunchAssumption
  <2> QED
    BY <2>1, <2>2
<1>3. LaunchTypes
  BY <1>1, <1>2 DEF LaunchTypes, Places, Phases, Fresh
<1>4. FibersInTurn
  BY <1>1 DEF FibersInTurn, Running
<1>5. Tickets
  BY <1>1, LaunchConstants DEF Tickets, Running
<1> QED
  BY <1>3, <1>4, <1>5 DEF TurnInv

(* A step of a fiber that finishes no item. *)
LEMMA FiberStep ==
  ASSUME TurnInv, NEW c \in Cpus, Running(c), NEW y \in Items, NEW g \in [Items -> Places],
         ctx' = [ctx EXCEPT ![c] = y], at' = [at EXCEPT ![c] = g],
         UNCHANGED <<program, group_idx, success, thread, group, runs>>,
         InTurn(program, y, g), \A i \in Items : g[i] = Done <=> at[c][i] = Done
  PROVE  TurnInv'
<1>1. LaunchTypes /\ FibersInTurn /\ Tickets
  BY DEF TurnInv
<1>2. /\ ctx'[c] = y /\ at'[c] = g
      /\ \A d \in Cpus : d # c => ctx'[d] = ctx[d] /\ at'[d] = at[d]
  BY <1>1 DEF LaunchTypes
<1>3. \A d \in Cpus : Running(d)' <=> Running(d)
  BY <1>2, LaunchConstants DEF Running
<1>4. LaunchTypes'
  BY <1>1 DEF LaunchTypes
<1>5. FibersInTurn'
  <2>1. ASSUME NEW d \in Cpus, d # c
        PROVE  IF Running(d)'
               THEN thread'[d] = "work" /\ group'[d] \in Groups /\ InTurn(program', ctx'[d], at'[d])
               ELSE \A i \in Items : at'[d][i] = IF group'[d] = NoGroup THEN Fresh ELSE Done
    BY <1>1, <1>2, <1>3, <2>1 DEF FibersInTurn
  <2>2. /\ Running(c)' /\ thread'[c] = "work" /\ group'[c] \in Groups
        /\ InTurn(program', ctx'[c], at'[c])
    BY <1>1, <1>2, <1>3 DEF FibersInTurn
  <2> QED
    BY <2>1, <2>2 DEF FibersInTurn
<1>6. Tickets'
  <2>1. \A d \in Cpus, i \in Items : at'[d][i] = Done <=> at[d][i] = Done
    BY <1>2
  <2> QED
    BY <1>1, <1>3, <2>1 DEF Tickets
<1> QED
  BY <1>4, <1>5, <1>6 DEF TurnInv

LEMMA RunningItem ==
  ASSUME TurnInv, NEW c \in Cpus, Running(c)
  PROVE  /\ program \in Seq(Ops) /\ ctx[c] \in Items /\ at[c] \in [Items -> Places]
         /\ InTurn(program, ctx[c], at[c]) /\ at[c][ctx[c]] \in Resumable(program)
         /\ Here(c) = at[c][ctx[c]]
BY DEF TurnInv, LaunchTypes, FibersInTurn, InTurn, Running, Here

(* The steps without a switch. *)
LEMMA GoesOnPreserves ==
  ASSUME TurnInv, NEW c \in Cpus, Running(c), NEW b \in Resumable(program),
         UNCHANGED <<program, group_idx, success, thread, group, ctx, runs>>,
         at' = [at EXCEPT ![c][ctx[c]] = b],
         Suspended(program, b) = Suspended(program, Here(c)),
         Coming(program, b) = Coming(program, Here(c)), Reached(b) = Reached(Here(c))
  PROVE  TurnInv'
<1> DEFINE g == [at[c] EXCEPT ![ctx[c]] = b]
<1>1. /\ program \in Seq(Ops) /\ ctx[c] \in Items /\ at[c] \in [Items -> Places]
      /\ InTurn(program, ctx[c], at[c]) /\ at[c][ctx[c]] \in Resumable(program)
      /\ Here(c) = at[c][ctx[c]]
  BY RunningItem
<1>2. at' = [at EXCEPT ![c] = g] /\ ctx' = [ctx EXCEPT ![c] = ctx[c]]
  BY DEF TurnInv, LaunchTypes
<1>3. b \in Places /\ b # Done /\ Here(c) # Done
  BY <1>1, PositionFacts, ResumableFacts
<1>4. g \in [Items -> Places] /\ \A i \in Items : g[i] = Done <=> at[c][i] = Done
  BY <1>1, <1>3
<1>5. InTurn(program, ctx[c], g)
  BY <1>1, ItemGoesOn
<1> HIDE DEF g
<1> QED
  BY <1>1, <1>2, <1>4, <1>5, FiberStep

LEMMA EnterItemTurns ==
  ASSUME TurnInv, NEW c \in Cpus, EnterItem(c)
  PROVE  TurnInv'
<1> DEFINE b == <<1, "begin">>
<1>1. /\ Running(c) /\ Here(c) = Fresh /\ at' = [at EXCEPT ![c][ctx[c]] = b]
      /\ UNCHANGED <<program, group_idx, success, thread, group, ctx, runs>>
  BY DEF EnterItem, MoveTo
<1>2. program \in Seq(Ops)
  BY <1>1, RunningItem
<1>3. /\ b \in Resumable(program)
      /\ Suspended(program, b) = Suspended(program, Fresh)
      /\ Coming(program, b) = Coming(program, Fresh) /\ Reached(b) = Reached(Fresh)
  BY <1>2 DEF Resumable, Suspended, Coming, Reached, Before, Fresh
<1> HIDE DEF b
<1> QED
  BY <1>1, <1>3, GoesOnPreserves

(* An operation that takes no further switch is left. *)
LEMMA ResumedPosition ==
  ASSUME NEW p \in Seq(Ops), NEW a \in Resumable(p),
         (a[2] = "swapped" /\ p[a[1]] # "shuffle") \/ a[2] = "read"
  PROVE  /\ <<a[1] + 1, "begin">> \in Resumable(p)
         /\ Suspended(p, <<a[1] + 1, "begin">>) = Suspended(p, a)
         /\ Coming(p, <<a[1] + 1, "begin">>) = Coming(p, a)
         /\ Reached(<<a[1] + 1, "begin">>) = Reached(a)
<1> DEFINE k == a[1]
<1>1. \/ a = <<k, "swapped">> /\ k \in 1 .. Len(p) /\ p[k] # "shuffle"
      \/ a = <<k, "read">> /\ k \in 1 .. Len(p) /\ p[k] = "shuffle"
  BY ResumableFacts
<1> HIDE DEF k
<1>2. Len(p) \in Nat /\ k + 1 # 1 /\ k + 1 - 1 = k /\ k \in Nat
  BY <1>1
<1>3. CASE a = <<k, "swapped">> /\ k \in 1 .. Len(p) /\ p[k] # "shuffle"
  BY <1>2, <1>3 DEF Resumable, Suspended, Coming, Reached, Before
<1>4. CASE a = <<k, "read">> /\ k \in 1 .. Len(p) /\ p[k] = "shuffle"
  BY <1>2, <1>4 DEF Resumable, Suspended, Coming, Reached, Before
<1> QED
  BY <1>1, <1>3, <1>4

(* A resumed item, after an operation that takes no further switch. *)
LEMMA ResumeTurns ==
  ASSUME TurnInv, NEW c \in Cpus, Running(c),
         \/ Here(c)[2] = "swapped" /\ Op(c) # "shuffle"
         \/ Here(c)[2] = "read",
         MoveTo(c, Here(c)[1] + 1, "begin"),
         UNCHANGED <<program, group_idx, success, thread, group, ctx, runs>>
  PROVE  TurnInv'
<1> DEFINE a == Here(c)
           k == a[1]
           b == <<k + 1, "begin">>
<1>1. program \in Seq(Ops) /\ a \in Resumable(program)
  BY RunningItem
<1>2. /\ b \in Resumable(program)
      /\ Suspended(program, b) = Suspended(program, a)
      /\ Coming(program, b) = Coming(program, a) /\ Reached(b) = Reached(a)
  BY <1>1, ResumedPosition DEF Op
<1>3. at' = [at EXCEPT ![c][ctx[c]] = b]
  BY DEF MoveTo
<1> HIDE DEF b
<1> QED
  BY <1>2, <1>3, GoesOnPreserves

(* The steps with a switch. *)
LEMMA SwitchPreserves ==
  ASSUME TurnInv, NEW c \in Cpus, Running(c), NEW y \in Items,
         UNCHANGED <<program, group_idx, success, thread, group, runs>>,
         at' = [at EXCEPT ![c][ctx[c]] = Coming(program, Here(c))],
         ctx' = [ctx EXCEPT ![c] = y], Coming(program, Here(c)) # Done,
         InTurn(program, y, [at[c] EXCEPT ![ctx[c]] = Coming(program, Here(c))])
  PROVE  TurnInv'
<1> DEFINE g == [at[c] EXCEPT ![ctx[c]] = Coming(program, Here(c))]
<1>1. /\ program \in Seq(Ops) /\ ctx[c] \in Items /\ at[c] \in [Items -> Places]
      /\ at[c][ctx[c]] \in Resumable(program) /\ Here(c) = at[c][ctx[c]]
  BY RunningItem
<1>2. at' = [at EXCEPT ![c] = g]
  BY DEF TurnInv, LaunchTypes
<1>3. Coming(program, Here(c)) \in Places /\ Here(c) # Done
  BY <1>1, PositionFacts, ResumableFacts
<1>4. g \in [Items -> Places] /\ \A i \in Items : g[i] = Done <=> at[c][i] = Done
  BY <1>1, <1>3
<1> HIDE DEF g
<1>5. InTurn(program, y, g)
  BY DEF g
<1> QED
  BY <1>2, <1>4, <1>5, FiberStep

LEMMA SwitchAwayTurns ==
  ASSUME TurnInv, NEW c \in Cpus, SwitchAway(c)
  PROVE  TurnInv'
<1> DEFINE x == ctx[c]
           k == Here(c)[1]
           y == IF Op(c) = "barrier" THEN NextLinear(x) ELSE NextSimd(x)
           g == [at[c] EXCEPT ![ctx[c]] = Coming(program, Here(c))]
<1>1. /\ Running(c) /\ Here(c)[2] = "begin" /\ k \in 1 .. Len(program)
      /\ at' = [at EXCEPT ![c][ctx[c]] = <<k, "swapped">>] /\ ctx' = [ctx EXCEPT ![c] = y]
      /\ UNCHANGED <<program, group_idx, success, thread, group, runs>>
  BY DEF SwitchAway, InProgram, MoveTo, SwitchTo
<1>2. /\ program \in Seq(Ops) /\ x \in Items /\ at[c] \in [Items -> Places]
      /\ InTurn(program, x, at[c]) /\ at[c][x] = Here(c) /\ Here(c) = <<k, "begin">>
      /\ Op(c) = program[k]
  BY <1>1, RunningItem, ResumableFacts DEF Op
<1>3. Coming(program, Here(c)) = <<k, "swapped">> /\ <<k, "swapped">> # Done
  BY <1>1, <1>2 DEF Coming, After, Done
<1>4. k \in 1 .. Len(program) + 1
  BY <1>1, <1>2
<1>5. y \in Items /\ InTurn(program, y, g)
  <2>1. CASE program[k] = "barrier"
    <3>1. y = NextLinear(x)
      BY <1>2, <2>1
    <3>2. \/ y = x + 1 /\ x + 1 \in Items
          \/ y = 0 /\ x + 1 = LocalSize
      BY <1>2, <3>1, NextInGroup
    <3> HIDE DEF y, k, x
    <3>3. CASE y = x + 1 /\ x + 1 \in Items /\ x + 1 \in SubGroup(x)
      BY <1>2, <3>3, SwitchWithin DEF x
    <3>4. CASE y = x + 1 /\ x + 1 \in Items /\ x + 1 \notin SubGroup(x)
      BY <1>2, <1>4, <2>1, <3>4, SwitchToNextSubGroup DEF x
    <3>5. CASE y = 0 /\ x + 1 = LocalSize
      BY <1>1, <1>2, <2>1, <3>5, SwitchToFirstItem, LaunchConstants DEF x
    <3> QED
      BY <3>2, <3>3, <3>4, <3>5
  <2>2. CASE program[k] # "barrier"
    <3>1. y = NextSimd(x)
      BY <1>2, <2>2
    <3> HIDE DEF y, k, x
    <3>2. CASE y = x + 1 /\ x + 1 \in SubGroup(x)
      <4>1. y \in Items
        BY <1>2, <3>2, SubGroupHasItem
      <4> QED
        BY <1>2, <3>2, <4>1, SwitchWithin DEF x
    <3>3. CASE y \in SubGroup(x) /\ \A j \in SubGroup(x) : y <= j /\ j <= x
      <4>1. y \in Items
        BY <1>2, <3>3, SubGroupHasItem
      <4> QED
        BY <1>1, <1>2, <2>2, <3>3, <4>1, SwitchToFirst DEF x
    <3> QED
      BY <1>2, <3>1, <3>2, <3>3, NextInSubGroup
  <2> QED
    BY <2>1, <2>2
<1> HIDE DEF y
<1> QED
  BY <1>1, <1>3, <1>5, SwitchPreserves

LEMMA ResumeShuffleTurns ==
  ASSUME TurnInv, NEW c \in Cpus, ResumeShuffle(c)
  PROVE  TurnInv'
<1> DEFINE x == ctx[c]
           k == Here(c)[1]
           y == NextSimd(x)
           g == [at[c] EXCEPT ![ctx[c]] = Coming(program, Here(c))]
<1>1. /\ Running(c) /\ Here(c)[2] = "swapped" /\ program[k] = "shuffle"
      /\ at' = [at EXCEPT ![c][ctx[c]] = <<k, "read">>] /\ ctx' = [ctx EXCEPT ![c] = y]
      /\ UNCHANGED <<program, group_idx, success, thread, group, runs>>
  BY DEF ResumeShuffle, Op, MoveTo, SwitchTo
<1>2. /\ program \in Seq(Ops) /\ x \in Items /\ at[c] \in [Items -> Places]
      /\ InTurn(program, x, at[c]) /\ at[c][x] = Here(c) /\ Here(c) = <<k, "swapped">>
      /\ k \in 1 .. Len(program)
  BY <1>1, RunningItem, ResumableFacts
<1>3. Coming(program, Here(c)) = <<k, "read">> /\ <<k, "read">> # Done
  BY <1>1, <1>2 DEF Coming, Done
<1>4. y \in Items /\ InTurn(program, y, g)
  <2> HIDE DEF y, k, x
  <2>1. CASE y = x + 1 /\ x + 1 \in SubGroup(x)
    <3>1. y \in Items
      BY <1>2, <2>1, SubGroupHasItem
    <3> QED
      BY <1>2, <2>1, <3>1, SwitchWithin DEF x
  <2>2. CASE y \in SubGroup(x) /\ \A j \in SubGroup(x) : y <= j /\ j <= x
    <3>1. y \in Items
      BY <1>2, <2>2, SubGroupHasItem
    <3>2. program[k] # "barrier"
      BY <1>1
    <3> QED
      BY <1>1, <1>2, <2>2, <3>1, <3>2, SwitchToFirst DEF x
  <2> QED
    BY <1>2, <2>1, <2>2, NextInSubGroup DEF y
<1> HIDE DEF y
<1> QED
  BY <1>1, <1>3, <1>4, SwitchPreserves

LEMMA ExitItemTurns ==
  ASSUME TurnInv, NEW c \in Cpus, ExitItem(c)
  PROVE  TurnInv'
<1> DEFINE x == ctx[c]
           f == at[c]
           e == group[c]
           n == Len(program)
           g == [f EXCEPT ![x] = Coming(program, f[x])]
<1>1. LaunchTypes /\ FibersInTurn /\ Tickets
  BY DEF TurnInv
<1>2. /\ Running(c) /\ Here(c)[2] = "begin" /\ Here(c)[1] \notin 1 .. n
      /\ runs' = [runs EXCEPT ![<<e, x>>] = IF @ < 2 THEN @ + 1 ELSE @]
      /\ at' = [at EXCEPT ![c][x] = Done] /\ ctx' = [ctx EXCEPT ![c] = ExitCtx(x)]
      /\ UNCHANGED <<program, group_idx, success, thread, group>>
  BY DEF ExitItem, InProgram, MoveTo, SwitchTo, Done
<1>3. /\ program \in Seq(Ops) /\ x \in Items /\ f \in [Items -> Places] /\ n \in Nat
      /\ InTurn(program, x, f) /\ f[x] = Here(c) /\ f[x] = <<n + 1, "begin">>
  <2>1. /\ program \in Seq(Ops) /\ x \in Items /\ f \in [Items -> Places]
        /\ InTurn(program, x, f) /\ f[x] = Here(c) /\ f[x] \in Resumable(program)
    BY <1>2, RunningItem
  <2>2. f[x] = <<f[x][1], "begin">> /\ f[x][1] \in 1 .. n + 1 /\ n \in Nat
    BY <1>2, <2>1, ResumableFacts
  <2> HIDE DEF f, x, n
  <2>3. f[x][1] = n + 1
    BY <1>2, <2>1, <2>2
  <2> QED
    BY <2>1, <2>2, <2>3
<1>4. thread[c] = "work" /\ e \in Groups
  BY <1>1, <1>2 DEF FibersInTurn
<1>5. Coming(program, f[x]) = Done /\ Done \in Places /\ f[x] # Done
  BY <1>3 DEF Coming, After, Done, Places, Phases
<1>6. /\ at' = [at EXCEPT ![c] = g] /\ g \in [Items -> Places]
      /\ g[x] = Done /\ \A i \in Items : i # x => g[i] = f[i]
  BY <1>1, <1>2, <1>3, <1>5 DEF LaunchTypes
<1>7. \/ /\ x + 1 \in Items /\ ExitCtx(x) = x + 1 /\ InTurn(program, x + 1, g)
      \/ /\ ExitCtx(x) = Main /\ \A i \in Items : g[i] = Done
  <2>1. x \in Nat /\ x < LocalSize /\ LocalSize \in Nat
    BY <1>3, LaunchAssumption DEF Items
  <2>2. n + 1 \in 1 .. n + 1
    BY <1>3
  <2> HIDE DEF x, f, n
  <2>3. CASE x + 1 < LocalSize
    <3>1. x + 1 \in Items /\ ExitCtx(x) = x + 1
      BY <2>1, <2>3 DEF Items, ExitCtx
    <3>2. CASE x + 1 \in SubGroup(x)
      BY <1>3, <3>1, <3>2, SwitchWithin
    <3>3. CASE x + 1 \notin SubGroup(x)
      BY <1>3, <2>2, <3>1, <3>3, SwitchToNextSubGroup DEF n
    <3> QED
      BY <3>1, <3>2, <3>3
  <2>4. CASE x + 1 = LocalSize
    <3>1. ExitCtx(x) = Main
      BY <2>1, <2>4 DEF ExitCtx
    <3>2. f[x] = <<Len(program) + 1, "begin">>
      BY <1>3 DEF n
    <3>3. \A j \in Items : [f EXCEPT ![x] = Coming(program, f[x])][j] = Done
      <4> HIDE DEF g
      <4> QED
        BY <1>3, <2>4, <3>2, GroupEnds
    <3> QED
      BY <3>1, <3>3
  <2> QED
    BY <2>1, <2>3, <2>4
<1>8. /\ \A i \in Items : runs'[<<e, i>>] = IF g[i] = Done THEN 1 ELSE 0
      /\ \A h \in Groups, i \in Items : h # e => runs'[<<h, i>>] = runs[<<h, i>>]
      /\ runs' \in [Groups \X Items -> Nat]
  <2>1. \A i \in Items : runs[<<e, i>>] = IF f[i] = Done THEN 1 ELSE 0
    BY <1>1, <1>2 DEF Tickets
  <2>2. /\ runs'[<<e, x>>] = 1 /\ \A i \in Items : i # x => runs'[<<e, i>>] = runs[<<e, i>>]
        /\ \A h \in Groups, i \in Items : h # e => runs'[<<h, i>>] = runs[<<h, i>>]
        /\ runs' \in [Groups \X Items -> Nat]
    <3>1. runs[<<e, x>>] = 0
      BY <1>3, <1>5, <2>1
    <3>2. <<e, x>> \in Groups \X Items /\ runs \in [Groups \X Items -> Nat]
      BY <1>1, <1>3, <1>4 DEF LaunchTypes
    <3>3. runs' = [runs EXCEPT ![<<e, x>>] = 1]
      BY <1>2, <3>1, <3>2
    <3> QED
      BY <3>2, <3>3
  <2> QED
    BY <1>6, <2>1, <2>2
<1> HIDE DEF g
<1>9. /\ at'[c] = g /\ ctx'[c] = ExitCtx(x)
      /\ \A d \in Cpus : d # c => ctx'[d] = ctx[d] /\ at'[d] = at[d]
  BY <1>1, <1>2, <1>6 DEF LaunchTypes
<1>10. \A d \in Cpus : d # c => (Running(d)' <=> Running(d))
  BY <1>9 DEF Running
<1>11. /\ Running(c)' => ctx'[c] \in Items /\ InTurn(program, ctx'[c], g)
       /\ ~Running(c)' => \A i \in Items : g[i] = Done
       /\ ctx'[c] \in {Main} \cup Items
  BY <1>7, <1>9, LaunchConstants DEF Running
<1>12. LaunchTypes'
  BY <1>1, <1>2, <1>6, <1>8, <1>9, <1>11 DEF LaunchTypes
<1>13. FibersInTurn'
  <2>1. ASSUME NEW d \in Cpus, d # c
        PROVE  IF Running(d)'
               THEN thread'[d] = "work" /\ group'[d] \in Groups /\ InTurn(program', ctx'[d], at'[d])
               ELSE \A i \in Items : at'[d][i] = IF group'[d] = NoGroup THEN Fresh ELSE Done
    BY <1>1, <1>2, <1>9, <1>10, <2>1 DEF FibersInTurn
  <2>2. IF Running(c)'
        THEN thread'[c] = "work" /\ group'[c] \in Groups /\ InTurn(program', ctx'[c], at'[c])
        ELSE \A i \in Items : at'[c][i] = IF group'[c] = NoGroup THEN Fresh ELSE Done
    <3>1. group'[c] = e /\ e # NoGroup /\ thread'[c] = "work" /\ program' = program
      BY <1>2, <1>4, LaunchConstants
    <3> QED
      BY <1>4, <1>9, <1>11, <3>1
  <2> QED
    BY <2>1, <2>2 DEF FibersInTurn
<1>14. Tickets'
  <2>1. \A d \in Cpus : group'[d] # NoGroup => group'[d] < group_idx'
    BY <1>1, <1>2 DEF Tickets
  <2>2. \A d, h \in Cpus : group'[d] = group'[h] /\ group'[d] # NoGroup => d = h
    BY <1>1, <1>2 DEF Tickets
  <2>3. \A d \in Cpus :
          thread'[d] = "done" => ~Running(d)' /\ (success' => group_idx' >= GroupCount)
    BY <1>1, <1>2, <1>4, <1>10 DEF Tickets
  <2>4. ASSUME NEW h \in Groups, NEW i \in Items
        PROVE  /\ h >= group_idx' => runs'[<<h, i>>] = 0
               /\ h < group_idx' /\ (\A d \in Cpus : Running(d)' => group'[d] # h)
                    => runs'[<<h, i>>] = 1
    <3>1. e # NoGroup /\ e < group_idx /\ e \in Nat /\ group_idx \in Nat /\ h \in Nat
      BY <1>1, <1>4, LaunchConstants DEF Tickets, LaunchTypes
    <3>2. CASE h = e
      <4>1. ~(h >= group_idx')
        BY <1>2, <3>1, <3>2
      <4>2. (\A d \in Cpus : Running(d)' => group'[d] # h) => g[i] = Done
        BY <1>2, <1>11, <3>2
      <4> QED
        BY <1>8, <3>2, <4>1, <4>2
    <3>3. CASE h # e
      <4>1. (\A d \in Cpus : Running(d)' => group'[d] # h)
              => (\A d \in Cpus : Running(d) => group[d] # h)
        BY <1>2, <1>10, <3>3
      <4> QED
        BY <1>1, <1>2, <1>8, <3>3, <4>1 DEF Tickets
    <3> QED
      BY <3>2, <3>3
  <2>5. ASSUME NEW d \in Cpus, Running(d)', NEW i \in Items
        PROVE  runs'[<<group'[d], i>>] = IF at'[d][i] = Done THEN 1 ELSE 0
    <3>1. CASE d = c
      <4>1. group'[d] = e /\ at'[d] = g
        BY <1>2, <1>9, <3>1
      <4> QED
        BY <1>8, <4>1
    <3>2. CASE d # c
      <4>1. Running(d) /\ group[d] \in Groups /\ group[d] # e /\ at'[d] = at[d]
        BY <1>1, <1>4, <1>9, <1>10, <2>5, <3>2, LaunchConstants DEF FibersInTurn, Tickets
      <4> QED
        BY <1>1, <1>2, <1>8, <4>1 DEF Tickets
    <3> QED
      BY <3>1, <3>2
  <2> QED
    BY <2>1, <2>2, <2>3, <2>4, <2>5 DEF Tickets
<1> QED
  BY <1>12, <1>13, <1>14 DEF TurnInv

LEMMA TakeGroupTurns ==
  ASSUME TurnInv, NEW c \in Cpus, TakeGroup(c)
  PROVE  TurnInv'
<1> DEFINE g == [i \in Items |-> Fresh]
           e == group_idx
<1>1. LaunchTypes /\ FibersInTurn /\ Tickets
  BY DEF TurnInv
<1>2. /\ thread[c] = "work" /\ ~Running(c) /\ e < GroupCount
      /\ group_idx' = e + 1 /\ group' = [group EXCEPT ![c] = e] /\ at' = [at EXCEPT ![c] = g]
      /\ ctx' = [ctx EXCEPT ![c] = 0]
      /\ UNCHANGED <<program, success, thread, runs>>
  BY DEF TakeGroup, Ticket, SwitchTo
<1>3. e \in Groups /\ e \in Nat /\ e # NoGroup
  BY <1>1, <1>2, LaunchConstants DEF LaunchTypes
<1>4. Fresh \in Places /\ Fresh # Done
  BY DEF Fresh, Places, Phases, Done
<1>5. /\ group'[c] = e /\ at'[c] = g /\ ctx'[c] = 0
      /\ \A d \in Cpus : d # c => group'[d] = group[d] /\ ctx'[d] = ctx[d] /\ at'[d] = at[d]
  BY <1>1, <1>2 DEF LaunchTypes
<1>6. Running(c)' /\ \A d \in Cpus : d # c => (Running(d)' <=> Running(d))
  BY <1>5, LaunchConstants DEF Running
<1>7. InTurn(program, 0, g)
  <2>1. /\ Fresh \in Resumable(program) /\ Fresh \in Gates(program)
        /\ Suspended(program, Fresh) = Fresh /\ Reached(Fresh) = 0 /\ Fresh[1] = 0
    BY DEF Resumable, Gates, Suspended, Reached, Fresh
  <2>2. NoBarrier(program, 0 + 1, 0)
    BY DEF NoBarrier
  <2>3. \A j \in Items : g[j] = Fresh /\ ~(j < 0)
    BY LaunchConstants
  <2>4. 0 \in SubGroup(0) /\ SubGroup(0) \subseteq Items
    BY SubGroupHasItem, LaunchConstants
  <2> HIDE DEF g
  <2>5. \A j \in SubGroup(0) :
          (j < 0 => g[j] = Coming(program, g[0])) /\ (j > 0 => g[j] = Suspended(program, g[0]))
    BY <2>1, <2>3, <2>4
  <2>6. \A j \in Items \ SubGroup(0) :
          /\ g[j] \in Gates(program) /\ ~(j < 0)
          /\ g[j] # Done /\ g[j][1] <= Reached(g[0])
          /\ NoBarrier(program, g[j][1] + 1, Reached(g[0]))
    BY <1>4, <2>1, <2>2, <2>3, <2>4
  <2> QED
    BY <2>1, <2>3, <2>4, <2>5, <2>6 DEF InTurn
<1>8. g \in [Items -> Places] /\ \A i \in Items : g[i] # Done
  BY <1>4
<1> HIDE DEF g
<1>9. LaunchTypes'
  BY <1>1, <1>2, <1>3, <1>8, LaunchConstants DEF LaunchTypes
<1>10. FibersInTurn'
  <2>1. ASSUME NEW d \in Cpus, d # c
        PROVE  IF Running(d)'
               THEN thread'[d] = "work" /\ group'[d] \in Groups /\ InTurn(program', ctx'[d], at'[d])
               ELSE \A i \in Items : at'[d][i] = IF group'[d] = NoGroup THEN Fresh ELSE Done
    BY <1>1, <1>2, <1>5, <1>6, <2>1 DEF FibersInTurn
  <2>2. /\ thread'[c] = "work" /\ group'[c] \in Groups /\ InTurn(program', ctx'[c], at'[c])
    BY <1>2, <1>3, <1>5, <1>7
  <2> QED
    BY <1>6, <2>1, <2>2 DEF FibersInTurn
<1>11. \A d \in Cpus : d # c /\ group[d] # NoGroup => group'[d] < e /\ group'[d] \in Nat
  BY <1>1, <1>5, LaunchConstants DEF Tickets, LaunchTypes
<1>12. Tickets'
  <2>1. \A d \in Cpus : group'[d] # NoGroup => group'[d] < group_idx'
    BY <1>2, <1>3, <1>5, <1>11
  <2>2. \A d, h \in Cpus : group'[d] = group'[h] /\ group'[d] # NoGroup => d = h
    BY <1>1, <1>3, <1>5, <1>11 DEF Tickets
  <2>3. \A d \in Cpus :
          thread'[d] = "done" => ~Running(d)' /\ (success' => group_idx' >= GroupCount)
    BY <1>1, <1>2, <1>3, <1>6, LaunchConstants DEF Tickets
  <2>4. ASSUME NEW h \in Groups, NEW i \in Items
        PROVE  /\ h >= group_idx' => runs'[<<h, i>>] = 0
               /\ h < group_idx' /\ (\A d \in Cpus : Running(d)' => group'[d] # h)
                    => runs'[<<h, i>>] = 1
    <3>1. h \in Nat /\ (h >= e + 1 => h >= e)
      BY <1>3, LaunchConstants
    <3>2. ASSUME h < group_idx', \A d \in Cpus : Running(d)' => group'[d] # h
          PROVE  h < e /\ \A d \in Cpus : Running(d) => group[d] # h
      BY <1>2, <1>3, <1>5, <1>6, <3>1, <3>2
    <3> QED
      BY <1>1, <1>2, <3>1, <3>2 DEF Tickets
  <2>5. ASSUME NEW d \in Cpus, Running(d)', NEW i \in Items
        PROVE  runs'[<<group'[d], i>>] = IF at'[d][i] = Done THEN 1 ELSE 0
    <3>1. CASE d = c
      <4>1. runs[<<e, i>>] = 0
        BY <1>1, <1>3 DEF Tickets
      <4> QED
        BY <1>2, <1>5, <1>8, <3>1, <4>1
    <3>2. CASE d # c
      BY <1>1, <1>2, <1>5, <1>6, <2>5, <3>2 DEF Tickets
    <3> QED
      BY <3>1, <3>2
  <2> QED
    BY <2>1, <2>2, <2>3, <2>4, <2>5 DEF Tickets
<1> QED
  BY <1>9, <1>10, <1>12 DEF TurnInv

(* Threads begin and end; no fiber runs in them then. *)
LEMMA ThreadStepTurns ==
  ASSUME TurnInv, NEW c \in Cpus, StartWorker(c) \/ StartFails(c) \/ WorkerDone(c)
  PROVE  TurnInv'
<1>1. LaunchTypes /\ FibersInTurn /\ Tickets
  BY DEF TurnInv
<1>2. /\ ~Running(c) /\ UNCHANGED <<program, group, ctx, at, runs>>
      /\ group_idx' \in Nat /\ group_idx <= group_idx'
  <2>1. ~Running(c)
    BY <1>1 DEF StartWorker, StartFails, WorkerDone, FibersInTurn
  <2>2. group_idx' = group_idx \/ group_idx' = group_idx + 1
    BY DEF StartWorker, StartFails, WorkerDone
  <2> QED
    BY <1>1, <2>1, <2>2 DEF StartWorker, StartFails, WorkerDone, fiberVars, LaunchTypes
<1>3. PICK to \in {"work", "done"} : thread' = [thread EXCEPT ![c] = to]
  BY DEF StartWorker, StartFails, WorkerDone
<1>4. /\ group_idx' = group_idx \/ group_idx >= GroupCount
      /\ success' => success
      /\ to = "done" => ~success' \/ group_idx' >= GroupCount
  <2>1. CASE StartWorker(c)
    <3>1. thread'[c] = to /\ thread'[c] = "work"
      BY <1>1, <1>3, <2>1 DEF StartWorker, LaunchTypes
    <3> QED
      BY <2>1, <3>1 DEF StartWorker
  <2>2. CASE StartFails(c)
    BY <2>2 DEF StartFails
  <2>3. CASE WorkerDone(c)
    BY <1>1, <2>3, LaunchConstants DEF WorkerDone, Ticket, LaunchTypes
  <2> QED
    BY <2>1, <2>2, <2>3
<1>5. \A d \in Cpus : d # c => thread'[d] = thread[d]
  BY <1>1, <1>3 DEF LaunchTypes
<1>6. \A d \in Cpus : Running(d)' <=> Running(d)
  BY <1>2 DEF Running
<1>7. LaunchTypes'
  BY <1>1, <1>2, <1>3 DEF LaunchTypes
<1>8. FibersInTurn'
  BY <1>1, <1>2, <1>5, <1>6 DEF FibersInTurn
<1>9. Tickets'
  <2>1. \A d \in Cpus : group[d] # NoGroup => group[d] \in Nat
    BY <1>1, LaunchConstants DEF LaunchTypes
  <2>2. \A h \in Groups : (h >= group_idx' => h >= group_idx) /\ (h < group_idx' => h < group_idx)
    BY <1>1, <1>2, <1>4, LaunchConstants DEF LaunchTypes
  <2>3. \A d \in Cpus :
          thread'[d] = "done" => ~Running(d)' /\ (success' => group_idx' >= GroupCount)
    <3>1. ASSUME NEW d \in Cpus, thread'[d] = "done", d # c
          PROVE  ~Running(d)' /\ (success' => group_idx' >= GroupCount)
      BY <1>1, <1>2, <1>4, <1>5, <1>6, <3>1, LaunchConstants DEF Tickets, LaunchTypes
    <3>2. thread'[c] = to
      BY <1>1, <1>3 DEF LaunchTypes
    <3> QED
      BY <1>2, <1>4, <1>6, <3>1, <3>2
  <2>4. \A d \in Cpus : group'[d] # NoGroup => group'[d] < group_idx'
    BY <1>1, <1>2, <2>1 DEF Tickets, LaunchTypes
  <2> QED
    BY <1>1, <1>2, <1>6, <2>2, <2>3, <2>4 DEF Tickets
<1> QED
  BY <1>7, <1>8, <1>9 DEF TurnInv

LEMMA TurnPreserved == TurnInv /\ [LaunchNext]_launchVars => TurnInv'
<1> SUFFICES ASSUME TurnInv, [LaunchNext]_launchVars PROVE TurnInv'
  OBVIOUS
<1>1. ASSUME NEW c \in Cpus, ResumeBarrier(c)
      PROVE  TurnInv'
  BY <1>1, ResumeTurns DEF ResumeBarrier, SimdOps
<1>2. ASSUME NEW c \in Cpus, ResumeBallot(c)
      PROVE  TurnInv'
  BY <1>2, ResumeTurns DEF ResumeBallot
<1>3. ASSUME NEW c \in Cpus, FinishShuffle(c)
      PROVE  TurnInv'
  BY <1>3, ResumeTurns DEF FinishShuffle
<1>4. ASSUME UNCHANGED launchVars
      PROVE  TurnInv'
  BY <1>4 DEF launchVars, fiberVars, TurnInv, LaunchTypes, FibersInTurn, Tickets, Running
<1> QED
  BY <1>1, <1>2, <1>3, <1>4, ThreadStepTurns, TakeGroupTurns, EnterItemTurns, SwitchAwayTurns,
     ResumeShuffleTurns, ExitItemTurns DEF LaunchNext, CpuStep

(* TurnInv is an invariant of every launch. *)
THEOREM FibersTakeTurns == LaunchSpec => []TurnInv
<1>1. LaunchInit => TurnInv
  BY TurnInitially
<1>2. TurnInv /\ [LaunchNext]_launchVars => TurnInv'
  BY TurnPreserved
<1> QED
  BY <1>1, <1>2, PTL DEF LaunchSpec

(* The item at b has arrived at operation k. *)
Arrived(b, k) == b[1] > k \/ b[2] = "done" \/ (b[1] = k /\ b[2] \in {"swapped", "read"})

(* In the running sub-group, which is about to leave a or has just done so, *)
(* an item is behind operation k only when all have arrived at k.           *)
LEMMA ArrivalFacts ==
  ASSUME NEW p \in Seq(Ops), NEW a \in Resumable(p), NEW b \in {a, Suspended(p, a), Coming(p, a)},
         NEW k \in 1 .. Len(p)
  PROVE  (b[1] > k => Reached(a) >= k) /\ (Reached(a) >= k => Arrived(b, k))
<1>1. Len(p) \in Nat /\ k \in Nat /\ k > 0
  OBVIOUS
<1>2. CASE a = Fresh
  <2>1. b \in {<<0, "fresh">>, <<1, "swapped">>, <<0, "done">>} /\ Reached(a) = 0
    BY <1>1, <1>2 DEF Fresh, Coming, Suspended, Reached, After, Done
  <2> QED
    BY <1>1, <2>1
<1>3. ASSUME NEW n \in 1 .. Len(p) + 1, a = <<n, "begin">>
      PROVE  (b[1] > k => Reached(a) >= k) /\ (Reached(a) >= k => Arrived(b, k))
  <2>1. Reached(a) = n - 1 /\ Coming(p, a) = After(p, n) /\ Suspended(p, a) = Before(p, n)
    BY <1>1, <1>3 DEF Reached, Coming, Suspended
  <2>2. /\ Before(p, n) \in {<<n - 1, "swapped">>, <<n - 1, "read">>} \/ (n = 1 /\ Before(p, n) = <<0, "fresh">>)
        /\ After(p, n) \in {<<n, "swapped">>, <<0, "done">>}
    BY DEF Before, After, Done, Fresh
  <2>3. CASE b = a
    BY <1>1, <1>3, <2>1, <2>3 DEF Arrived
  <2>4. CASE b = After(p, n)
    BY <1>1, <2>1, <2>2, <2>4 DEF Arrived
  <2>5. CASE b = Before(p, n)
    BY <1>1, <2>1, <2>2, <2>5 DEF Arrived
  <2> QED
    BY <2>1, <2>3, <2>4, <2>5
<1>4. ASSUME NEW n \in 1 .. Len(p), a = <<n, "swapped">> \/ (a = <<n, "read">> /\ p[n] = "shuffle")
      PROVE  (b[1] > k => Reached(a) >= k) /\ (Reached(a) >= k => Arrived(b, k))
  <2>1. Reached(a) = n /\ Suspended(p, a) = a
    BY <1>4 DEF Reached, Suspended
  <2>2. Coming(p, a) \in {<<n, "read">>, <<n + 1, "swapped">>, <<0, "done">>}
    BY <1>4 DEF Coming, After, Done
  <2>3. b \in {<<n, "swapped">>, <<n, "read">>, <<n + 1, "swapped">>, <<0, "done">>}
    BY <1>4, <2>1, <2>2
  <2> QED
    BY <1>1, <2>1, <2>3 DEF Arrived
<1> QED
  BY <1>2, <1>3, <1>4 DEF Resumable

LEMMA BarriersInTurn ==
  ASSUME NEW p \in Seq(Ops), NEW x \in Items, NEW f \in [Items -> Places], InTurn(p, x, f),
         NEW i \in Items, NEW j \in Items, NEW k \in 1 .. Len(p),
         f[i][1] > k, p[k] = "barrier" \/ j \in SubGroup(i)
  PROVE  Arrived(f[j], k)
<1> DEFINE a == f[x]
           r == Reached(a)
<1>1. Len(p) \in Nat /\ k \in Nat /\ k > 0 /\ a \in Resumable(p) /\ x \in Nat /\ i \in Nat /\ j \in Nat
  BY LaunchConstants DEF InTurn
<1>2. r \in Nat
  BY <1>1, PositionFacts
<1>3. \A h \in SubGroup(x) : f[h] \in {a, Suspended(p, a), Coming(p, a)}
  <2>1. ASSUME NEW h \in SubGroup(x)
        PROVE  f[h] \in {a, Suspended(p, a), Coming(p, a)}
    <3>1. h \in Nat
      BY SubGroupHasItem, LaunchConstants
    <3>2. h < x \/ h = x \/ h > x
      BY <1>1, <3>1
    <3> QED
      BY <3>2 DEF InTurn
  <2> QED
    BY <2>1
<1>4. \A h \in SubGroup(x) : (f[h][1] > k => r >= k) /\ (r >= k => Arrived(f[h], k))
  BY <1>1, <1>3, ArrivalFacts
<1>5. \A h \in Items \ SubGroup(x) :
        /\ f[h] \in Gates(p)
        /\ h < x => f[h] # Fresh /\ GateNo(p, f[h]) > r /\ NoBarrier(p, r + 1, GateNo(p, f[h]) - 1)
        /\ h > x => f[h] # Done /\ f[h][1] <= r /\ NoBarrier(p, f[h][1] + 1, r)
        /\ h < x \/ h > x
  <2>1. \A h \in Items \ SubGroup(x) : h \in Nat /\ h # x
    BY SubGroupHasItem, LaunchConstants
  <2>2. \A h \in Items \ SubGroup(x) : h < x \/ h > x
    BY <1>1, <2>1
  <2> QED
    BY <2>2 DEF InTurn
<1>6. \A h \in Items \ SubGroup(x) :
        /\ f[h][1] \in 0 .. Len(p) /\ GateNo(p, f[h]) \in 0 .. Len(p) + 1
        /\ f[h] # Done => GateNo(p, f[h]) = f[h][1]
        /\ f[h] # Done /\ f[h][1] # 0 => f[h] = <<f[h][1], "swapped">> /\ p[f[h][1]] = "barrier"
        /\ f[h] = Done => GateNo(p, f[h]) = Len(p) + 1 /\ f[h][1] = 0 /\ f[h][2] = "done"
  BY <1>5, GateFacts DEF Done
<1> HIDE DEF a, r
<1>7. ASSUME i \notin SubGroup(x)
      PROVE  /\ f[i] # Done /\ GateNo(p, f[i]) = f[i][1] /\ f[i][1] \in 0 .. Len(p)
             /\ p[f[i][1]] = "barrier"
  BY <1>1, <1>6, <1>7
<1>8. CASE j \in SubGroup(x) /\ i \in SubGroup(x)
  BY <1>4, <1>8
<1>9. CASE p[k] = "barrier"
  <2>1. r >= k
    <3>1. CASE i \in SubGroup(x)
      BY <1>4, <3>1
    <3>2. CASE i \notin SubGroup(x) /\ i < x
      <4>1. NoBarrier(p, r + 1, f[i][1] - 1) /\ f[i][1] \in Nat
        BY <1>5, <1>7, <3>2
      <4> QED
        BY <1>1, <1>2, <1>9, <4>1 DEF NoBarrier
    <3>3. CASE i \notin SubGroup(x) /\ i > x
      <4>1. f[i][1] <= r /\ f[i][1] \in Nat
        BY <1>5, <1>7, <3>3
      <4> QED
        BY <1>1, <1>2, <4>1
    <3> QED
      BY <1>5, <3>1, <3>2, <3>3
  <2>2. CASE j \in SubGroup(x)
    BY <1>4, <2>1, <2>2
  <2>3. CASE j \notin SubGroup(x) /\ j < x
    <3>1. GateNo(p, f[j]) > r /\ f[j] # Done => f[j][1] > k
      BY <1>1, <1>2, <1>6, <2>1, <2>3
    <3> QED
      BY <1>5, <1>6, <2>3, <3>1 DEF Arrived
  <2>4. CASE j \notin SubGroup(x) /\ j > x
    <3>1. f[j] # Done /\ f[j][1] \in Nat /\ NoBarrier(p, f[j][1] + 1, r)
      BY <1>5, <1>6, <2>4
    <3>2. k <= f[j][1]
      BY <1>1, <1>2, <1>9, <2>1, <3>1 DEF NoBarrier
    <3>3. f[j] = <<f[j][1], "swapped">>
      BY <1>1, <1>6, <2>4, <3>1, <3>2
    <3>4. f[j][2] = "swapped"
      BY <3>3
    <3> QED
      BY <1>1, <3>1, <3>2, <3>4 DEF Arrived
  <2> QED
    BY <1>5, <2>2, <2>3, <2>4
<1>10. CASE j \in SubGroup(i) /\ i \notin SubGroup(x)
  <2>1. j \notin SubGroup(x)
    <3>1. SubGroup(j) = SubGroup(i)
      BY <1>10, SubGroupHasItem
    <3>2. j \in SubGroup(x) => SubGroup(j) = SubGroup(x)
      BY SubGroupHasItem
    <3> QED
      BY <1>10, <3>1, <3>2, SubGroupHasItem
  <2>2. x \notin SubGroup(i)
    BY <1>10, SubGroupHasItem
  <2>3. (i < x /\ j < x) \/ (i > x /\ j > x)
    <3>1. ~(i <= x /\ x <= j) /\ ~(j <= x /\ x <= i)
      BY <1>10, <2>2, SubGroupsAreIntervals
    <3> QED
      BY <1>1, <1>5, <1>10, <2>1, <3>1
  <2>4. CASE i < x /\ j < x
    <3>1. /\ GateNo(p, f[j]) > r /\ NoBarrier(p, r + 1, GateNo(p, f[j]) - 1)
          /\ GateNo(p, f[i]) > r /\ NoBarrier(p, r + 1, GateNo(p, f[i]) - 1)
      BY <1>5, <1>10, <2>1, <2>4
    <3>2. f[i][1] > r /\ f[i][1] \in 1 .. Len(p) /\ p[f[i][1]] = "barrier"
      BY <1>1, <1>7, <1>10, <3>1
    <3>3. GateNo(p, f[j]) \in 0 .. Len(p) + 1 /\ GateNo(p, f[j]) <= f[i][1]
      <4>1. GateNo(p, f[j]) \in 0 .. Len(p) + 1
        BY <1>6, <2>1
      <4> QED
        BY <1>1, <1>2, <3>1, <3>2, <4>1 DEF NoBarrier
    <3>4. f[j] # Done /\ GateNo(p, f[j]) = f[j][1]
      BY <1>1, <1>6, <2>1, <3>2, <3>3
    <3>5. p[f[j][1]] = "barrier"
      BY <1>1, <1>2, <1>6, <2>1, <3>1, <3>3, <3>4
    <3>6. f[j][1] >= f[i][1]
      <4>1. f[j][1] \in Nat /\ f[j][1] > r /\ \A m \in r + 1 .. f[i][1] - 1 : p[m] # "barrier"
        BY <3>1, <3>3, <3>4, <1>7, <1>10 DEF NoBarrier
      <4> QED
        BY <1>2, <3>2, <3>5, <4>1
    <3> QED
      BY <1>1, <3>2, <3>3, <3>4, <3>6 DEF Arrived
  <2>5. CASE i > x /\ j > x
    <3>1. /\ f[j] # Done /\ f[j][1] \in Nat /\ NoBarrier(p, f[j][1] + 1, r)
          /\ f[i][1] <= r /\ f[i][1] \in Nat /\ p[f[i][1]] = "barrier"
      BY <1>5, <1>6, <1>7, <1>10, <2>1, <2>5
    <3>2. f[j][1] >= f[i][1]
      BY <1>2, <3>1 DEF NoBarrier
    <3> QED
      BY <1>1, <3>1, <3>2 DEF Arrived
  <2> QED
    BY <2>3, <2>4, <2>5
<1>11. CASE j \in SubGroup(i) /\ i \in SubGroup(x)
  BY <1>8, <1>11, SubGroupHasItem
<1> QED
  BY <1>9, <1>10, <1>11

(* A work-item passes a barrier only when every item of the group has      *)
(* arrived at it, and a SIMD operation only when its sub-group has.        *)
THEOREM BarriersHold == LaunchSpec => []BarrierHolds
<1>1. TurnInv => BarrierHolds
  <2> SUFFICES ASSUME TurnInv, NEW c \in Cpus, NEW i \in Items, NEW j \in Items,
                      NEW k \in 1 .. Len(program), at[c][i][1] > k,
                      program[k] = "barrier" \/ j \in SubGroup(i)
               PROVE  Arrived(at[c][j], k)
    BY DEF BarrierHolds, Arrived
  <2>1. CASE Running(c)
    <3> DEFINE f == at[c]
               x == ctx[c]
               p == program
    <3>1. /\ p \in Seq(Ops) /\ x \in Items /\ f \in [Items -> Places]
          /\ InTurn(p, x, f)
      BY <2>1, RunningItem
    <3>2. /\ k \in 1 .. Len(p) /\ f[i][1] > k /\ (p[k] = "barrier" \/ j \in SubGroup(i))
      OBVIOUS
    <3> HIDE DEF f, x, p
    <3>3. Arrived(f[j], k)
      BY <3>1, <3>2, BarriersInTurn
    <3> QED
      BY <3>3 DEF f
  <2>2. CASE ~Running(c)
    <3>1. at[c][i] \in {Fresh, Done}
      BY <2>2 DEF TurnInv, FibersInTurn
    <3>2. at[c][i][1] = 0 /\ k \in Nat /\ k > 0
      BY <3>1 DEF Fresh, Done, TurnInv, LaunchTypes
    <3> QED
      BY <3>2
  <2> QED
    BY <2>1, <2>2
<1> QED
  BY <1>1, FibersTakeTurns, PTL

(* Every work-item of every group is executed once, unless a thread could  *)
(* not be set up.                                                          *)
THEOREM ItemsRunOnce == LaunchSpec => []EveryItemOnce
<1>1. TurnInv => EveryItemOnce
  <2> SUFFICES ASSUME TurnInv PROVE EveryItemOnce
    OBVIOUS
  <2>1. LaunchTypes /\ FibersInTurn /\ Tickets
    BY DEF TurnInv
  <2>2. ASSUME NEW c \in Cpus, ~Running(c), group[c] # NoGroup, NEW i \in Items
        PROVE  at[c][i][2] = "done"
    <3>1. at[c][i] = Done
      BY <2>1, <2>2 DEF FibersInTurn
    <3> QED
      BY <3>1 DEF Done
  <2>3. ASSUME NEW g \in Groups, NEW i \in Items
        PROVE  runs[<<g, i>>] \in {0, 1}
    <3>1. CASE \E c \in Cpus : Running(c) /\ group[c] = g
      BY <2>1, <3>1 DEF Tickets
    <3>2. CASE g >= group_idx
      BY <2>1, <3>2 DEF Tickets
    <3>3. CASE g < group_idx /\ \A c \in Cpus : Running(c) => group[c] # g
      BY <2>1, <3>3 DEF Tickets
    <3>4. g \in Nat /\ group_idx \in Nat
      BY <2>1, LaunchConstants DEF LaunchTypes
    <3> QED
      BY <3>1, <3>2, <3>3, <3>4
  <2>4. ASSUME success, \A c \in Cpus : thread[c] = "done", NEW g \in Groups, NEW i \in Items
        PROVE  runs[<<g, i>>] = 1
    <3>1. PICK c \in Cpus : TRUE
      BY LaunchAssumption
    <3>2. group_idx >= GroupCount /\ \A d \in Cpus : ~Running(d)
      BY <2>1, <2>4 DEF Tickets
    <3>3. g < group_idx
      BY <2>1, <3>2, LaunchConstants DEF LaunchTypes
    <3> QED
      BY <2>1, <3>2, <3>3 DEF Tickets
  <2>5. \A y \in Groups \X Items : \E g \in Groups, i \in Items : y = <<g, i>>
    OBVIOUS
  <2>6. \A y \in Groups \X Items : runs[y] <= 1
    <3>1. \A y \in Groups \X Items : runs[y] \in {0, 1}
      BY <2>3, <2>5
    <3> QED
      BY <3>1
  <2>7. success /\ (\A c \in Cpus : thread[c] = "done") => \A y \in Groups \X Items : runs[y] = 1
    BY <2>4, <2>5
  <2> QED
    BY <2>2, <2>6, <2>7 DEF EveryItemOnce
<1> QED
  BY <1>1, FibersTakeTurns, PTL

-----------------------------------------------------------------------------
(* SIMD functions                                                          *)

Kinds == {"none", "value", "mask", "garbage"}
AnyIds == [global : Nat \X Nat, linear : Nat, sub : Nat, lane : Nat]

SimdTypes ==
  /\ ids \in [Cpus -> AnyIds] /\ saved \in [Cpus -> [Items -> AnyIds]]
  /\ storage \in [Cpus -> [Items -> Nat \X Kinds]]
  /\ result \in [Cpus -> [Items -> Nat \X (Nat \X Kinds)]]

(* An item that has begun has kept its ids; the function's code sees them. *)
IdsKept ==
  \A c \in Cpus : Running(c) =>
    /\ \A i \in Items : at[c][i] \notin {Fresh, Done} => saved[c][i] = IdsOf(group[c], i)
    /\ Here(c)[2] = "begin" => ids[c] = IdsOf(group[c], ctx[c])

(* What the lanes of the running sub-group find in the storage: the lanes  *)
(* before the running one may have stored their value for the next         *)
(* operation; all values are there while a shuffle is read; and those who  *)
(* have not left a ballot find its mask, once the first lane has resumed.  *)
StorageOf(p, x, f, s) ==
  LET a == f[x]
      b == Coming(p, a)
      e == Suspended(p, a)
  IN  /\ b[2] = "swapped" /\ p[b[1]] \in SimdOps =>
           \A j \in SubGroup(x) : j < x => s[j] = <<b[1], "value">>
      /\ a[2] = "swapped" /\ p[a[1]] = "shuffle" =>
           \A j \in SubGroup(x) : s[j] = <<a[1], "value">>
      /\ e[2] = "swapped" /\ p[e[1]] = "ballot" =>
           \A j \in SubGroup(x) : j >= x =>
             s[j] = <<e[1], IF Lane(x) = 0 /\ a[2] # "begin" THEN "value" ELSE "mask">>

StorageHolds == \A c \in Cpus : Running(c) => StorageOf(program, ctx[c], at[c], storage[c])

SimdInv == SimdTypes /\ IdsKept /\ StorageHolds /\ SimdResultsCorrect

LEMMA NextPositions ==
  ASSUME NEW p \in Seq(Ops), NEW a \in Resumable(p)
  PROVE  /\ Coming(p, a)[2] \in {"swapped", "read", "done"}
         /\ a[2] # "begin" => Suspended(p, a) = a
         /\ a[2] = "begin" /\ Suspended(p, a)[2] = "swapped" => p[Suspended(p, a)[1]] # "shuffle"
         /\ a[2] = "swapped" /\ p[a[1]] = "shuffle" => Coming(p, a)[2] = "read"
<1>1. Coming(p, a)[2] \in {"swapped", "read", "done"}
  BY DEF Coming, After, Done
<1>2. a[2] # "begin" => Suspended(p, a) = a
  BY DEF Suspended
<1>3. ASSUME a[2] = "begin", Suspended(p, a)[2] = "swapped"
      PROVE  p[Suspended(p, a)[1]] # "shuffle"
  <2>1. Suspended(p, a) = Before(p, a[1])
    BY <1>3 DEF Suspended
  <2>2. CASE a[1] = 1
    BY <1>3, <2>1, <2>2 DEF Before, Fresh
  <2>3. CASE a[1] # 1 /\ p[a[1] - 1] = "shuffle"
    <3>1. Before(p, a[1]) = <<a[1] - 1, "read">>
      BY <2>3 DEF Before
    <3> QED
      BY <1>3, <2>1, <3>1
  <2>4. CASE a[1] # 1 /\ p[a[1] - 1] # "shuffle"
    <3>1. Before(p, a[1]) = <<a[1] - 1, "swapped">>
      BY <2>4 DEF Before
    <3> QED
      BY <2>1, <2>4, <3>1
  <2> QED
    BY <2>2, <2>3, <2>4
<1>4. a[2] = "swapped" /\ p[a[1]] = "shuffle" => Coming(p, a)[2] = "read"
  BY DEF Coming
<1> QED
  BY <1>1, <1>2, <1>3, <1>4

(* Only the running item is about to begin an operation. *)
LEMMA OthersAreSuspended ==
  ASSUME NEW p \in Seq(Ops), NEW x \in Items, NEW f \in [Items -> Places], InTurn(p, x, f),
         NEW j \in Items, j # x
  PROVE  f[j][2] # "begin"
<1>1. f[x] \in Resumable(p)
  BY DEF InTurn
<1>2. CASE j \in SubGroup(x)
  <2>1. f[j] = Coming(p, f[x]) \/ f[j] = Suspended(p, f[x])
    <3>1. j < x \/ j > x
      BY LaunchConstants
    <3> QED
      BY <1>2, <3>1 DEF InTurn
  <2>2. Coming(p, f[x])[2] # "begin" /\ Suspended(p, f[x])[2] # "begin"
    BY <1>1, NextPositions, PositionFacts
  <2> QED
    BY <2>1, <2>2
<1>3. CASE j \notin SubGroup(x)
  <2>1. f[j] \in Gates(p)
    BY <1>3 DEF InTurn
  <2> QED
    BY <2>1, GateFacts DEF Done
<1> QED
  BY <1>2, <1>3

(* A switch to the next lane, from an operation's begin or a shuffle. *)
LEMMA StorageWithin ==
  ASSUME NEW p \in Seq(Ops), NEW x \in Items, NEW f \in [Items -> Places], InTurn(p, x, f),
         NEW s, NEW t, StorageOf(p, x, f, s), x + 1 \in SubGroup(x),
         f[x][2] = "begin" \/ (f[x][2] = "swapped" /\ p[f[x][1]] = "shuffle"),
         \A j \in Items : j # x => t[j] = s[j],
         Coming(p, f[x])[2] = "swapped" /\ p[Coming(p, f[x])[1]] \in SimdOps
           => t[x] = <<Coming(p, f[x])[1], "value">>,
         f[x][2] = "swapped" => t[x] = s[x]
  PROVE  StorageOf(p, x + 1, [f EXCEPT ![x] = Coming(p, f[x])], t)
<1> DEFINE g == [f EXCEPT ![x] = Coming(p, f[x])]
           y == x + 1
           a == f[x]
           b == Coming(p, a)
           e == Suspended(p, a)
<1>1. /\ a \in Resumable(p) /\ y \in Items /\ x \in Nat /\ x \in SubGroup(x)
      /\ SubGroup(y) = SubGroup(x) /\ SubGroup(x) \subseteq Items /\ Items \subseteq Nat
  BY SubGroupHasItem, LaunchConstants DEF InTurn
<1>2. g[y] = e
  BY <1>1 DEF InTurn
<1>3. Coming(p, e) = b /\ e[2] # "begin" /\ e \in Resumable(p)
  BY <1>1, PositionFacts
<1>4. Suspended(p, e) = e
  BY <1>3, NextPositions
<1>5. \A j \in SubGroup(x) : j < y <=> j < x \/ j = x
  BY <1>1
<1>6. Lane(y) # 0
  <2>1. Lane(y) = 0 => y <= x
    BY <1>1, LaneZeroIsFirst
  <2> QED
    BY <1>1, <2>1
<1>7. /\ a[2] = "begin" /\ e[2] = "swapped" => p[e[1]] # "shuffle"
      /\ a[2] # "begin" => e = a
  BY <1>1, NextPositions
<1>8. /\ b[2] = "swapped" /\ p[b[1]] \in SimdOps =>
           \A j \in SubGroup(x) : j < x => s[j] = <<b[1], "value">>
      /\ a[2] = "swapped" /\ p[a[1]] = "shuffle" =>
           \A j \in SubGroup(x) : s[j] = <<a[1], "value">>
      /\ e[2] = "swapped" /\ p[e[1]] = "ballot" /\ a[2] = "begin" =>
           \A j \in SubGroup(x) : j >= x => s[j] = <<e[1], "mask">>
  BY DEF StorageOf
<1> HIDE DEF g, y, b, e
<1>9. ASSUME b[2] = "swapped", p[b[1]] \in SimdOps, NEW j \in SubGroup(x), j < y
      PROVE  t[j] = <<b[1], "value">>
  <2>1. CASE j = x
    BY <1>9, <2>1 DEF b
  <2>2. CASE j < x
    <3>1. j \in Items /\ j # x
      BY <1>1, <2>2
    <3>2. t[j] = s[j]
      BY <3>1
    <3> QED
      BY <1>8, <1>9, <2>2, <3>2
  <2> QED
    BY <1>5, <1>9, <2>1, <2>2
<1>10. ASSUME e[2] = "swapped", p[e[1]] = "shuffle", NEW j \in SubGroup(x)
       PROVE  t[j] = <<e[1], "value">>
  <2>1. a[2] = "swapped" /\ e = a
    BY <1>7, <1>10
  <2>2. t[j] = s[j]
    BY <1>1, <2>1
  <2> QED
    BY <1>8, <1>10, <2>1, <2>2
<1>11. ASSUME e[2] = "swapped", p[e[1]] = "ballot", NEW j \in SubGroup(x), j >= y
       PROVE  t[j] = <<e[1], "mask">>
  <2>1. a[2] = "begin"
    BY <1>7, <1>11
  <2>2. j \in Items /\ j \in Nat
    BY <1>1
  <2>3. j # x /\ j >= x
    BY <1>1, <1>11, <2>2 DEF y
  <2>4. t[j] = s[j]
    BY <2>2, <2>3
  <2> QED
    BY <1>8, <1>11, <2>1, <2>3, <2>4
<1>12. StorageOf(p, y, g, t)
  <2>1. /\ Coming(p, g[y]) = b /\ Suspended(p, g[y]) = e /\ g[y] = e
    BY <1>2, <1>3, <1>4
  <2> HIDE DEF a
  <2> QED
    BY <1>1, <1>6, <1>9, <1>10, <1>11, <2>1 DEF StorageOf
<1> QED
  BY <1>12 DEF g, y

(* A switch from the last lane to the first. *)
LEMMA StorageAtFirst ==
  ASSUME NEW p \in Seq(Ops), NEW x \in Items, NEW f \in [Items -> Places], InTurn(p, x, f),
         NEW s, NEW t, StorageOf(p, x, f, s), NEW y \in SubGroup(x), Lane(y) = 0,
         \A j \in SubGroup(x) : y <= j /\ j <= x,
         \A j \in Items : j # x => t[j] = s[j],
         Coming(p, f[x])[2] = "swapped" /\ p[Coming(p, f[x])[1]] \in SimdOps
           => t[x] = <<Coming(p, f[x])[1], "value">>
  PROVE  StorageOf(p, y, [f EXCEPT ![x] = Coming(p, f[x])], t)
<1> DEFINE g == [f EXCEPT ![x] = Coming(p, f[x])]
           a == f[x]
           b == Coming(p, a)
<1>1. /\ a \in Resumable(p) /\ y \in Items /\ x \in Nat /\ x \in SubGroup(x) /\ y \in Nat
      /\ SubGroup(y) = SubGroup(x) /\ SubGroup(x) \subseteq Items /\ Items \subseteq Nat
  BY SubGroupHasItem, LaunchConstants DEF InTurn
<1>2. g[y] = b
  <2>1. y < x \/ y = x
    BY <1>1
  <2> QED
    BY <1>1, <2>1 DEF InTurn
<1>3. b[2] # "begin"
  BY <1>1, NextPositions
<1>4. Suspended(p, b) = b
  BY <1>3 DEF Suspended
<1> HIDE DEF g
<1>5. ASSUME b[2] = "swapped", p[b[1]] \in SimdOps, NEW j \in SubGroup(x)
      PROVE  t[j] = <<b[1], "value">>
  <2>1. CASE j = x
    BY <1>5, <2>1
  <2>2. CASE j # x
    <3>1. j \in Items /\ j \in Nat
      BY <1>1
    <3>2. j < x
      BY <1>1, <2>2, <3>1
    <3>3. t[j] = s[j]
      BY <2>2, <3>1
    <3>4. s[j] = <<b[1], "value">>
      BY <1>5, <3>2 DEF StorageOf
    <3> QED
      BY <3>3, <3>4
  <2> QED
    BY <2>1, <2>2
<1>6. \A j \in SubGroup(x) : ~(j < y)
  BY <1>1
<1> HIDE DEF a, b
<1>7. StorageOf(p, y, g, t)
  BY <1>1, <1>2, <1>3, <1>4, <1>5, <1>6 DEF StorageOf, SimdOps
<1> QED
  BY <1>7 DEF g, a, b

(* A switch to an item that waits at a gate, the first of its sub-group. *)
LEMMA StorageAtGate ==
  ASSUME NEW p \in Seq(Ops), NEW y \in Items, NEW g \in [Items -> Places], g[y] \in Gates(p), NEW t,
         \A j \in SubGroup(y) : y <= j
  PROVE  StorageOf(p, y, g, t)
<1>1. /\ Suspended(p, g[y]) = g[y]
      /\ g[y][2] = "swapped" => p[g[y][1]] = "barrier"
  BY GateFacts DEF Gates, Fresh, Done, Suspended
<1>2. \A j \in SubGroup(y) : ~(j < y)
  BY SubGroupHasItem, LaunchConstants
<1> QED
  BY <1>1, <1>2 DEF StorageOf

(* The running item goes on; the storage may be left. *)
LEMMA StorageStays ==
  ASSUME NEW p \in Seq(Ops), NEW x \in Items, NEW f \in [Items -> Places], InTurn(p, x, f),
         NEW s, StorageOf(p, x, f, s), NEW g, g[x][2] = "begin",
         Suspended(p, g[x]) = Suspended(p, f[x]), Coming(p, g[x]) = Coming(p, f[x]),
         f[x][2] = "swapped" /\ p[f[x][1]] = "ballot" => Lane(x) # 0
  PROVE  StorageOf(p, x, g, s)
<1> DEFINE a == f[x]
           e == Suspended(p, a)
<1>1. a \in Resumable(p)
  BY DEF InTurn
<1>2. a[2] # "begin" => e = a
  BY <1>1, NextPositions
<1>3. e[2] = "swapped" /\ p[e[1]] = "ballot" => Lane(x) # 0 \/ a[2] = "begin"
  BY <1>2
<1> HIDE DEF e
<1>4. e[2] = "swapped" /\ p[e[1]] = "ballot" =>
        \A j \in SubGroup(x) : j >= x => s[j] = <<e[1], "mask">>
  BY <1>3 DEF StorageOf, e
<1>5. Coming(p, a)[2] = "swapped" /\ p[Coming(p, a)[1]] \in SimdOps =>
        \A j \in SubGroup(x) : j < x => s[j] = <<Coming(p, a)[1], "value">>
  BY DEF StorageOf
<1> QED
  BY <1>4, <1>5 DEF StorageOf, e

LEMMA SimdInitially == LaunchInit => SimdInv
<1> SUFFICES ASSUME LaunchInit PROVE SimdInv
  OBVIOUS
<1>1. /\ ctx = [c \in Cpus |-> Main] /\ ids = [c \in Cpus |-> Zero]
      /\ saved = [c \in Cpus |-> [i \in Items |-> [Zero EXCEPT !.linear = i]]]
      /\ storage = [c \in Cpus |-> [i \in Items |-> Empty]]
      /\ result = [c \in Cpus |-> [i \in Items |-> <<0, Empty>>]]
  BY DEF LaunchInit
<1>2. \A c \in Cpus : ~Running(c)
  BY <1>1 DEF Running
<1>3. SimdTypes
  <2>1. Zero \in AnyIds /\ \A i \in Items : [Zero EXCEPT !.linear = i] \in AnyIds
    BY LaunchConstants DEF Zero, AnyIds
  <2>2. Empty \in Nat \X Kinds /\ <<0, Empty>> \in Nat \X (Nat \X Kinds)
    BY DEF Empty, Kinds
  <2> QED
    BY <1>1, <2>1, <2>2 DEF SimdTypes
<1>4. SimdResultsCorrect
  BY <1>1 DEF SimdResultsCorrect
<1> QED
  BY <1>2, <1>3, <1>4 DEF SimdInv, IdsKept, StorageHolds

(* A step of one CPU: nothing another CPU's fibers use is changed. *)
LEMMA SimdStep ==
  ASSUME SimdInv, NEW c \in Cpus, program' = program,
         \A d \in Cpus : d # c => /\ at'[d] = at[d] /\ ctx'[d] = ctx[d] /\ group'[d] = group[d]
                                  /\ ids'[d] = ids[d] /\ saved'[d] = saved[d]
                                  /\ storage'[d] = storage[d],
         Running(c)' =>
           /\ StorageOf(program, ctx'[c], at'[c], storage'[c])
           /\ \A i \in Items : at'[c][i] \notin {Fresh, Done} => saved'[c][i] = IdsOf(group'[c], i)
           /\ at'[c][ctx'[c]][2] = "begin" => ids'[c] = IdsOf(group'[c], ctx'[c])
  PROVE  StorageHolds' /\ IdsKept'
<1>1. \A d \in Cpus : d # c => (Running(d)' => Running(d))
  BY DEF Running
<1>2. StorageHolds'
  <2>1. ASSUME NEW d \in Cpus, Running(d)'
        PROVE  StorageOf(program', ctx'[d], at'[d], storage'[d])
    <3>1. CASE d = c
      BY <2>1, <3>1
    <3>2. CASE d # c
      BY <1>1, <2>1, <3>2 DEF SimdInv, StorageHolds
    <3> QED
      BY <3>1, <3>2
  <2> QED
    BY <2>1 DEF StorageHolds
<1>3. IdsKept'
  <2>1. ASSUME NEW d \in Cpus, Running(d)'
        PROVE  /\ \A i \in Items : at'[d][i] \notin {Fresh, Done} => saved'[d][i] = IdsOf(group'[d], i)
               /\ at'[d][ctx'[d]][2] = "begin" => ids'[d] = IdsOf(group'[d], ctx'[d])
    <3>1. CASE d = c
      BY <2>1, <3>1
    <3>2. CASE d # c
      <4>1. /\ \A i \in Items : at[d][i] \notin {Fresh, Done} => saved[d][i] = IdsOf(group[d], i)
            /\ at[d][ctx[d]][2] = "begin" => ids[d] = IdsOf(group[d], ctx[d])
        BY <1>1, <2>1, <3>2 DEF SimdInv, IdsKept, Here
      <4> QED
        BY <3>2, <4>1
    <3> QED
      BY <3>1, <3>2
  <2> QED
    BY <2>1 DEF IdsKept, Here
<1> QED
  BY <1>2, <1>3

LEMMA IdsAreTyped ==
  ASSUME NEW g \in Groups, NEW i \in Items
  PROVE  IdsOf(g, i) \in AnyIds
<1>1. g \in Nat /\ i \in Nat
  BY LaunchConstants
<1>2. i \div SimdWidth \in Nat /\ i % SimdWidth \in 0 .. SimdWidth - 1 /\ SimdWidth \in Nat
  BY <1>1, Division, LaunchAssumption
<1>3. i % SimdWidth \in Nat
  BY <1>2
<1> QED
  BY <1>1, <1>2, <1>3 DEF IdsOf, AnyIds, Lane

(* What the lemmas about a running item use of the invariants. *)
LEMMA RunningLane ==
  ASSUME TurnInv, SimdInv, NEW c \in Cpus, Running(c)
  PROVE  /\ group[c] \in Groups /\ StorageOf(program, ctx[c], at[c], storage[c])
         /\ \A i \in Items : at[c][i] \notin {Fresh, Done} => saved[c][i] = IdsOf(group[c], i)
         /\ Here(c)[2] \in {"swapped", "read"} =>
              /\ saved[c][ctx[c]] = IdsOf(group[c], ctx[c]) /\ Lanes(c) = SubGroup(ctx[c])
              /\ saved[c][ctx[c]].lane = Lane(ctx[c])
<1>1. /\ group[c] \in Groups /\ StorageOf(program, ctx[c], at[c], storage[c]) /\ ctx[c] \in Items
      /\ \A i \in Items : at[c][i] \notin {Fresh, Done} => saved[c][i] = IdsOf(group[c], i)
  BY RunningItem DEF TurnInv, FibersInTurn, SimdInv, StorageHolds, IdsKept
<1>2. ASSUME Here(c)[2] \in {"swapped", "read"}
      PROVE  saved[c][ctx[c]] = IdsOf(group[c], ctx[c])
  <2>1. at[c][ctx[c]] \notin {Fresh, Done}
    BY <1>2 DEF Here, Fresh, Done
  <2> QED
    BY <1>1, <2>1
<1>3. /\ IdsOf(group[c], ctx[c]).sub = ctx[c] \div SimdWidth
      /\ IdsOf(group[c], ctx[c]).lane = Lane(ctx[c])
  BY DEF IdsOf
<1> QED
  BY <1>1, <1>2, <1>3 DEF Lanes, SubGroup

LEMMA TakeGroupSimd ==
  ASSUME TurnInv, SimdInv, NEW c \in Cpus, TakeGroup(c)
  PROVE  SimdInv'
<1>1. /\ at' = [at EXCEPT ![c] = [i \in Items |-> Fresh]] /\ ctx' = [ctx EXCEPT ![c] = 0]
      /\ group' = [group EXCEPT ![c] = Ticket]
      /\ UNCHANGED <<program, ids, saved, storage, result>>
  BY DEF TakeGroup, SwitchTo
<1>2. /\ at'[c] = [i \in Items |-> Fresh] /\ ctx'[c] = 0
      /\ \A d \in Cpus : d # c => at'[d] = at[d] /\ ctx'[d] = ctx[d] /\ group'[d] = group[d]
  BY <1>1 DEF TurnInv, LaunchTypes
<1>3. StorageOf(program, 0, at'[c], storage'[c])
  <2>1. 0 \in Items /\ at'[c] \in [Items -> Places] /\ at'[c][0] \in Gates(program)
        /\ \A j \in SubGroup(0) : 0 <= j
    <3>1. 0 \in Items /\ \A j \in SubGroup(0) : j \in Nat
      BY SubGroupHasItem, LaunchConstants
    <3>2. Fresh \in Gates(program) /\ Fresh \in Places
      BY DEF Gates, Fresh, Places, Phases
    <3> QED
      BY <1>2, <3>1, <3>2
  <2>2. program \in Seq(Ops)
    BY DEF TurnInv, LaunchTypes
  <2> QED
    BY <2>1, <2>2, StorageAtGate
<1>4. \A i \in Items : at'[c][i] = Fresh
  BY <1>2
<1>5. at'[c][ctx'[c]][2] # "begin"
  BY <1>2, <1>4, LaunchConstants DEF Fresh
<1>6. StorageHolds' /\ IdsKept'
  BY <1>1, <1>2, <1>3, <1>4, <1>5, SimdStep
<1> QED
  BY <1>1, <1>6 DEF SimdInv, SimdTypes, SimdResultsCorrect

LEMMA EnterItemSimd ==
  ASSUME DeviceExecution, TurnInv, SimdInv, NEW c \in Cpus, EnterItem(c)
  PROVE  SimdInv'
<1> DEFINE x == ctx[c]
           b == <<1, "begin">>
           v == IdsOf(group[c], x)
<1>1. /\ Running(c) /\ Here(c) = Fresh /\ at' = [at EXCEPT ![c][x] = b]
      /\ ids' = [ids EXCEPT ![c] = v] /\ saved' = [saved EXCEPT ![c][x] = ids'[c]]
      /\ UNCHANGED <<program, group, ctx, storage, result>>
  BY DEF EnterItem, MoveTo
<1>2. /\ program \in Seq(Ops) /\ x \in Items /\ at[c] \in [Items -> Places]
      /\ InTurn(program, x, at[c]) /\ at[c][x] = Fresh /\ at \in [Cpus -> [Items -> Places]]
  BY <1>1, RunningItem DEF TurnInv, LaunchTypes
<1>3. /\ group[c] \in Groups /\ StorageOf(program, x, at[c], storage[c])
      /\ \A i \in Items : at[c][i] \notin {Fresh, Done} => saved[c][i] = IdsOf(group[c], i)
  BY <1>1, RunningLane
<1>4. v \in AnyIds
  BY <1>2, <1>3, IdsAreTyped
<1>5. /\ ids \in [Cpus -> AnyIds] /\ saved \in [Cpus -> [Items -> AnyIds]]
  BY DEF SimdInv, SimdTypes
<1> HIDE DEF v
<1>6. /\ ids'[c] = v /\ saved' = [saved EXCEPT ![c][x] = v]
  BY <1>1, <1>5
<1>7. /\ at'[c][x] = b /\ \A i \in Items : i # x => at'[c][i] = at[c][i]
      /\ saved'[c][x] = v /\ \A i \in Items : i # x => saved'[c][i] = saved[c][i]
      /\ \A d \in Cpus : d # c => at'[d] = at[d] /\ ids'[d] = ids[d] /\ saved'[d] = saved[d]
  BY <1>1, <1>2, <1>5, <1>6
<1>8. StorageOf(program, x, at'[c], storage[c])
  <2>1. /\ b[2] = "begin" /\ Fresh[2] # "swapped"
        /\ Suspended(program, b) = Suspended(program, Fresh)
        /\ Coming(program, b) = Coming(program, Fresh)
    BY <1>2 DEF Suspended, Coming, Before, Fresh
  <2> HIDE DEF b
  <2> QED
    BY <1>2, <1>3, <1>7, <2>1, StorageStays
<1>9. \A i \in Items : at'[c][i] \notin {Fresh, Done} => saved'[c][i] = IdsOf(group[c], i)
  BY <1>3, <1>7 DEF v
<1>10. StorageHolds' /\ IdsKept'
  BY <1>1, <1>6, <1>7, <1>8, <1>9, SimdStep DEF v
<1>11. SimdTypes'
  <2>1. ids' \in [Cpus -> AnyIds]
    BY <1>1, <1>4, <1>5
  <2>2. saved' \in [Cpus -> [Items -> AnyIds]]
    <3>1. [saved[c] EXCEPT ![x] = v] \in [Items -> AnyIds]
      BY <1>4, <1>5
    <3> QED
      BY <1>5, <1>6, <3>1
  <2>3. SimdTypes
    BY DEF SimdInv
  <2> QED
    BY <1>1, <2>1, <2>2, <2>3 DEF SimdTypes
<1> QED
  BY <1>1, <1>10, <1>11 DEF SimdInv, SimdResultsCorrect

(* A resumed item that leaves the operation it was suspended in. *)
LEMMA ResumeSimd ==
  ASSUME TurnInv, SimdInv, NEW c \in Cpus, Running(c),
         \/ Here(c)[2] = "swapped" /\ Op(c) # "shuffle"
         \/ Here(c)[2] = "read",
         MoveTo(c, Here(c)[1] + 1, "begin"), RestoreIds(c),
         UNCHANGED <<program, group, ctx, saved>>,
         NEW s, storage' = [storage EXCEPT ![c] = s],
         \/ s = storage[c] /\ (Op(c) = "ballot" /\ Here(c)[2] = "swapped" => Lane(ctx[c]) # 0)
         \/ /\ Op(c) = "ballot" /\ Lane(ctx[c]) = 0 /\ Here(c)[2] = "swapped"
            /\ \A j \in SubGroup(ctx[c]) : s[j] = <<Here(c)[1], "mask">>
  PROVE  StorageHolds' /\ IdsKept'
<1> DEFINE x == ctx[c]
           a == Here(c)
           b == <<a[1] + 1, "begin">>
<1>1. /\ program \in Seq(Ops) /\ x \in Items /\ at[c] \in [Items -> Places]
      /\ InTurn(program, x, at[c]) /\ at[c][x] = a /\ a \in Resumable(program)
      /\ at \in [Cpus -> [Items -> Places]] /\ at' = [at EXCEPT ![c][x] = b]
      /\ ids' = [ids EXCEPT ![c] = saved[c][x]]
  BY RunningItem DEF TurnInv, LaunchTypes, MoveTo, RestoreIds
<1>2. /\ StorageOf(program, x, at[c], storage[c])
      /\ \A i \in Items : at[c][i] \notin {Fresh, Done} => saved[c][i] = IdsOf(group[c], i)
      /\ saved[c][x] = IdsOf(group[c], x)
  BY RunningLane
<1>3. /\ ids \in [Cpus -> AnyIds] /\ storage \in [Cpus -> [Items -> Nat \X Kinds]]
  BY DEF SimdInv, SimdTypes
<1>4. /\ Suspended(program, b) = Suspended(program, a) /\ Coming(program, b) = Coming(program, a)
      /\ b[2] = "begin"
  BY <1>1, ResumedPosition DEF Op
<1>5. a \notin {Fresh, Done}
  BY DEF Fresh, Done
<1>6. Op(c) = program[a[1]]
  BY DEF Op
<1> HIDE DEF a, b
<1>7. /\ at'[c][x] = b /\ \A i \in Items : i # x => at'[c][i] = at[c][i]
      /\ ids'[c] = IdsOf(group[c], x) /\ storage'[c] = s
      /\ \A d \in Cpus : d # c => at'[d] = at[d] /\ ids'[d] = ids[d] /\ storage'[d] = storage[d]
  BY <1>1, <1>2, <1>3
<1>8. StorageOf(program, x, at'[c], s)
  <2>1. CASE s = storage[c] /\ (Op(c) = "ballot" /\ a[2] = "swapped" => Lane(x) # 0)
    <3> DEFINE f == at[c]
               h == at'[c]
               p == program
    <3>1. /\ h[x][2] = "begin" /\ Suspended(p, h[x]) = Suspended(p, f[x])
          /\ Coming(p, h[x]) = Coming(p, f[x])
      BY <1>1, <1>4, <1>7
    <3>2. f[x][2] = "swapped" /\ p[f[x][1]] = "ballot" => Lane(x) # 0
      BY <1>1, <1>6, <2>1
    <3>3. /\ p \in Seq(Ops) /\ x \in Items /\ f \in [Items -> Places] /\ InTurn(p, x, f)
          /\ StorageOf(p, x, f, s)
      BY <1>1, <1>2, <2>1
    <3> HIDE DEF f, h, p, x
    <3>4. StorageOf(p, x, h, s)
      BY <3>1, <3>2, <3>3, StorageStays
    <3> QED
      BY <3>4 DEF h, p
  <2>2. CASE /\ Op(c) = "ballot" /\ Lane(x) = 0 /\ a[2] = "swapped"
             /\ \A j \in SubGroup(x) : s[j] = <<a[1], "mask">>
    <3>1. Suspended(program, b) = a
      BY <1>4, <2>2 DEF Suspended
    <3>2. \A j \in SubGroup(x) : ~(j < x)
      <4>1. \A j \in SubGroup(x) : x <= j /\ j \in Nat /\ x \in Nat
        BY <1>1, <2>2, LaneZeroIsFirst, SubGroupHasItem, LaunchConstants
      <4> QED
        BY <4>1
    <3> QED
      BY <1>4, <1>7, <2>2, <3>1, <3>2 DEF StorageOf
  <2> QED
    BY <2>1, <2>2 DEF a
<1>9. \A i \in Items : at'[c][i] \notin {Fresh, Done} => saved'[c][i] = IdsOf(group'[c], i)
  BY <1>1, <1>2, <1>5, <1>7
<1> QED
  BY <1>7, <1>8, <1>9, SimdStep

LEMMA RestoredIdsAreTyped ==
  ASSUME TurnInv, SimdInv, NEW c \in Cpus, Running(c), RestoreIds(c)
  PROVE  ids' \in [Cpus -> AnyIds]
<1>1. ctx[c] \in Items /\ ids \in [Cpus -> AnyIds] /\ saved \in [Cpus -> [Items -> AnyIds]]
  BY RunningItem DEF SimdInv, SimdTypes
<1>2. saved[c][ctx[c]] \in AnyIds
  BY <1>1
<1> QED
  BY <1>1, <1>2 DEF RestoreIds

LEMMA BarrierSimd ==
  ASSUME TurnInv, SimdInv, NEW c \in Cpus, ResumeBarrier(c) \/ FinishShuffle(c)
  PROVE  SimdInv'
<1>1. /\ Running(c) /\ MoveTo(c, Here(c)[1] + 1, "begin") /\ RestoreIds(c)
      /\ UNCHANGED <<program, group, ctx, saved, storage, result>>
  BY DEF ResumeBarrier, FinishShuffle
<1>2. \/ Here(c)[2] = "swapped" /\ Op(c) # "shuffle"
      \/ Here(c)[2] = "read"
  BY DEF ResumeBarrier, FinishShuffle, SimdOps
<1>3. ~(Op(c) = "ballot" /\ Here(c)[2] = "swapped")
  BY DEF ResumeBarrier, FinishShuffle, SimdOps
<1>4. SimdTypes
  BY DEF SimdInv
<1>5. storage' = [storage EXCEPT ![c] = storage[c]]
  BY <1>1, <1>4 DEF SimdTypes
<1>6. StorageHolds' /\ IdsKept'
  BY <1>1, <1>2, <1>3, <1>5, ResumeSimd
<1>7. ids' \in [Cpus -> AnyIds]
  BY <1>1, RestoredIdsAreTyped
<1> QED
  BY <1>1, <1>4, <1>6, <1>7 DEF SimdInv, SimdTypes, SimdResultsCorrect

LEMMA BallotSimd ==
  ASSUME TurnInv, SimdInv, NEW c \in Cpus, ResumeBallot(c)
  PROVE  SimdInv'
<1> DEFINE x == ctx[c]
           a == Here(c)
           k == a[1]
           s == BallotStore(c)
<1>1. /\ Running(c) /\ a[2] = "swapped" /\ Op(c) = "ballot" /\ MoveTo(c, k + 1, "begin")
      /\ RestoreIds(c) /\ storage' = [storage EXCEPT ![c] = s]
      /\ result' = [result EXCEPT ![c][x] = <<k, storage'[c][x]>>]
      /\ UNCHANGED <<program, group, ctx, saved>>
  BY DEF ResumeBallot
<1>2. /\ program \in Seq(Ops) /\ x \in Items /\ at[c][x] = a /\ a \in Resumable(program)
      /\ program[k] = "ballot" /\ x \in SubGroup(x) /\ SubGroup(x) \subseteq Items
      /\ k \in Nat
  <2>1. /\ program \in Seq(Ops) /\ x \in Items /\ at[c][x] = a /\ a \in Resumable(program)
        /\ program[k] = "ballot"
    BY <1>1, RunningItem DEF Op
  <2>2. k \in 1 .. Len(program)
    BY <1>1, <2>1, ResumableFacts
  <2> HIDE DEF x, a, k
  <2> QED
    BY <2>1, <2>2, SubGroupHasItem
<1>3. /\ StorageOf(program, x, at[c], storage[c]) /\ Lanes(c) = SubGroup(x)
      /\ saved[c][x].lane = Lane(x)
  BY <1>1, RunningLane
<1>4. SimdTypes /\ SimdResultsCorrect
  BY DEF SimdInv
<1>5. Suspended(program, a) = a /\ a = <<k, "swapped">>
  BY <1>1, <1>2, ResumableFacts DEF Suspended
<1>6. \A j \in SubGroup(x) : j >= x =>
        storage[c][j] = <<k, IF Lane(x) = 0 THEN "value" ELSE "mask">>
  BY <1>1, <1>2, <1>3, <1>5 DEF StorageOf
<1>7. ASSUME Lane(x) = 0
      PROVE  /\ s = [j \in Items |-> IF j \in SubGroup(x) THEN <<k, "mask">> ELSE storage[c][j]]
             /\ \A j \in SubGroup(x) : s[j] = <<k, "mask">>
  <2>1. \A j \in SubGroup(x) : j >= x
    BY <1>2, <1>7, LaneZeroIsFirst, LaunchConstants
  <2>2. \A j \in SubGroup(x) : storage[c][j] = <<k, "value">>
    BY <1>6, <1>7, <2>1
  <2>3. BallotMask(c) = <<k, "mask">>
    BY <1>3, <2>2 DEF BallotMask
  <2>4. s = [j \in Items |-> IF j \in SubGroup(x) THEN <<k, "mask">> ELSE storage[c][j]]
    BY <1>3, <1>7, <2>3 DEF BallotStore
  <2> HIDE DEF s
  <2> QED
    BY <1>2, <2>4
<1>8. Lane(x) # 0 => s = storage[c]
  BY <1>3 DEF BallotStore
<1>9. s[x] = <<k, "mask">> /\ s \in [Items -> Nat \X Kinds]
  <2>1. storage[c] \in [Items -> Nat \X Kinds] /\ <<k, "mask">> \in Nat \X Kinds
    BY <1>2, <1>4 DEF SimdTypes, Kinds
  <2>2. CASE Lane(x) = 0
    <3> HIDE DEF s
    <3> QED
      BY <1>2, <1>7, <2>1, <2>2
  <2>3. CASE Lane(x) # 0
    <3>1. x >= x
      <4>1. x \in Nat
        BY <1>2, LaunchConstants
      <4> QED
        BY <4>1
    <3>2. storage[c][x] = <<k, "mask">>
      BY <1>2, <1>6, <2>3, <3>1
    <3> QED
      BY <1>8, <2>1, <2>3, <3>2
  <2> QED
    BY <2>2, <2>3
<1> HIDE DEF s
<1>10. StorageHolds' /\ IdsKept'
  BY <1>1, <1>7, <1>8, ResumeSimd
<1>11. storage'[c] = s /\ storage' \in [Cpus -> [Items -> Nat \X Kinds]]
  BY <1>1, <1>4, <1>9 DEF SimdTypes
<1>12. result' = [result EXCEPT ![c][x] = <<k, <<k, "mask">>>>]
  BY <1>1, <1>9, <1>11
<1>13. SimdTypes'
  <2>1. ids' \in [Cpus -> AnyIds]
    BY <1>1, RestoredIdsAreTyped
  <2>2. <<k, <<k, "mask">>>> \in Nat \X (Nat \X Kinds)
    BY <1>2 DEF Kinds
  <2>3. [result[c] EXCEPT ![x] = <<k, <<k, "mask">>>>] \in [Items -> Nat \X (Nat \X Kinds)]
    BY <1>4, <2>2 DEF SimdTypes
  <2>4. result' \in [Cpus -> [Items -> Nat \X (Nat \X Kinds)]]
    BY <1>4, <1>12, <2>3 DEF SimdTypes
  <2> QED
    BY <1>1, <1>4, <1>11, <2>1, <2>4 DEF SimdTypes
<1>14. SimdResultsCorrect'
  <2>1. ASSUME NEW d \in Cpus, NEW i \in Items, result'[d][i][1] > 0
        PROVE  result'[d][i][2] = <<result'[d][i][1],
                 IF program[result'[d][i][1]] = "ballot" THEN "mask" ELSE "value">>
    <3>1. CASE d = c /\ i = x
      <4>1. result'[d][i] = <<k, <<k, "mask">>>>
        BY <1>2, <1>4, <1>12, <3>1 DEF SimdTypes
      <4> QED
        BY <1>2, <4>1
    <3>2. CASE ~(d = c /\ i = x)
      <4>1. result'[d][i] = result[d][i]
        BY <1>4, <1>12, <3>2 DEF SimdTypes
      <4> QED
        BY <1>4, <2>1, <4>1 DEF SimdResultsCorrect
    <3> QED
      BY <3>1, <3>2
  <2> QED
    BY <1>1, <2>1 DEF SimdResultsCorrect
<1> QED
  BY <1>10, <1>13, <1>14 DEF SimdInv

LEMMA FirstOfNextSubGroup ==
  ASSUME NEW x \in Items, x + 1 \in Items, x + 1 \notin SubGroup(x)
  PROVE  \A j \in SubGroup(x + 1) : x + 1 <= j
<1> DEFINE y == x + 1
<1>1. x \in Nat /\ SubGroup(y) \subseteq Items /\ Items \subseteq Nat
  BY SubGroupHasItem, LaunchConstants
<1>2. x \notin SubGroup(y)
  <2>1. x \in SubGroup(y) => SubGroup(x) = SubGroup(y)
    BY SubGroupHasItem
  <2> QED
    BY <2>1, SubGroupHasItem
<1>3. ASSUME NEW j \in SubGroup(y), ~(y <= j)
      PROVE  FALSE
  <2>1. j <= x /\ x <= y
    <3>1. j \in Nat
      BY <1>1
    <3> QED
      BY <1>1, <1>3, <3>1
  <2> HIDE DEF y
  <2>2. x \in SubGroup(y)
    BY <1>3, <2>1, SubGroupsAreIntervals DEF y
  <2> QED
    BY <1>2, <2>2
<1> QED
  BY <1>3

(* A step of the running item that switches to another one. *)
LEMMA SwitchSimd ==
  ASSUME TurnInv, SimdInv, NEW c \in Cpus, Running(c), NEW y \in Items, NEW t,
         UNCHANGED <<program, group, ids, saved>>, Here(c) # Fresh,
         at' = [at EXCEPT ![c][ctx[c]] = Coming(program, Here(c))],
         ctx' = [ctx EXCEPT ![c] = y], storage' = [storage EXCEPT ![c] = t],
         StorageOf(program, y, [at[c] EXCEPT ![ctx[c]] = Coming(program, Here(c))], t)
  PROVE  StorageHolds' /\ IdsKept'
<1> DEFINE x == ctx[c]
           f == at[c]
           g == [f EXCEPT ![x] = Coming(program, Here(c))]
<1>1. /\ program \in Seq(Ops) /\ x \in Items /\ f \in [Items -> Places]
      /\ InTurn(program, x, f) /\ f[x] = Here(c) /\ f[x] \in Resumable(program)
      /\ at \in [Cpus -> [Items -> Places]] /\ ctx \in [Cpus -> {Main} \cup Items]
  BY RunningItem DEF TurnInv, LaunchTypes
<1>2. \A i \in Items : f[i] \notin {Fresh, Done} => saved[c][i] = IdsOf(group[c], i)
  BY RunningLane
<1>3. f[x] \notin {Fresh, Done}
  BY <1>1, ResumableFacts
<1>4. storage \in [Cpus -> [Items -> Nat \X Kinds]]
  BY DEF SimdInv, SimdTypes
<1>5. g[x][2] # "begin" /\ \A i \in Items : i # x => g[i] = f[i]
  BY <1>1, NextPositions
<1>6. at' = [at EXCEPT ![c] = g]
  BY <1>1
<1> HIDE DEF g
<1>7. /\ at'[c] = g /\ ctx'[c] = y /\ storage'[c] = t
      /\ \A d \in Cpus : d # c => at'[d] = at[d] /\ ctx'[d] = ctx[d] /\ storage'[d] = storage[d]
  BY <1>1, <1>4, <1>6
<1>8. g[y][2] # "begin"
  <2>1. CASE y = x
    BY <1>5, <2>1
  <2>2. CASE y # x
    <3> HIDE DEF x, f
    <3>1. f[y][2] # "begin"
      BY <1>1, <2>2, OthersAreSuspended
    <3> QED
      BY <1>5, <2>2, <3>1
  <2> QED
    BY <2>1, <2>2
<1>9. \A i \in Items : g[i] \notin {Fresh, Done} => saved'[c][i] = IdsOf(group'[c], i)
  BY <1>2, <1>3, <1>5
<1>10. StorageOf(program, ctx'[c], at'[c], storage'[c])
  BY <1>7 DEF g
<1>11. at'[c][ctx'[c]][2] # "begin"
  BY <1>7, <1>8
<1>12. \A d \in Cpus : d # c => /\ at'[d] = at[d] /\ ctx'[d] = ctx[d] /\ group'[d] = group[d]
                                /\ ids'[d] = ids[d] /\ saved'[d] = saved[d]
                                /\ storage'[d] = storage[d]
  BY <1>7
<1>13. \A i \in Items : at'[c][i] \notin {Fresh, Done} => saved'[c][i] = IdsOf(group'[c], i)
  BY <1>7, <1>9
<1> QED
  BY <1>10, <1>11, <1>12, <1>13, SimdStep

LEMMA SwitchAwaySimd ==
  ASSUME TurnInv, SimdInv, NEW c \in Cpus, SwitchAway(c)
  PROVE  SimdInv'
<1> DEFINE x == ctx[c]
           k == Here(c)[1]
           p == program
           f == at[c]
           y == IF Op(c) = "barrier" THEN NextLinear(x) ELSE NextSimd(x)
           g == [f EXCEPT ![x] = Coming(p, f[x])]
           t == [storage[c] EXCEPT ![x] = IF Op(c) \in SimdOps THEN <<k, "value">> ELSE @]
<1>1. /\ Running(c) /\ Here(c)[2] = "begin" /\ k \in 1 .. Len(p)
      /\ at' = [at EXCEPT ![c][x] = <<k, "swapped">>] /\ ctx' = [ctx EXCEPT ![c] = y]
      /\ storage' = [storage EXCEPT ![c][x] = IF Op(c) \in SimdOps THEN <<k, "value">> ELSE @]
      /\ UNCHANGED <<program, group, ids, saved, result>>
  BY DEF SwitchAway, InProgram, MoveTo, SwitchTo
<1>2. /\ p \in Seq(Ops) /\ x \in Items /\ f \in [Items -> Places]
      /\ InTurn(p, x, f) /\ f[x] = Here(c) /\ Here(c) = <<k, "begin">>
      /\ Op(c) = p[k]
  BY <1>1, RunningItem, ResumableFacts DEF Op
<1>3. StorageOf(p, x, f, storage[c])
  BY <1>1, RunningLane
<1>4. SimdTypes /\ SimdResultsCorrect
  BY DEF SimdInv
<1>5. Coming(p, f[x]) = <<k, "swapped">> /\ f[x][2] = "begin" /\ k \in Nat /\ Here(c) # Fresh
  BY <1>1, <1>2 DEF Coming, After, Fresh
<1>6. storage' = [storage EXCEPT ![c] = t]
  BY <1>1, <1>4 DEF SimdTypes
<1>7. /\ \A j \in Items : j # x => t[j] = storage[c][j]
      /\ p[k] \in SimdOps => t[x] = <<k, "value">>
      /\ t \in [Items -> Nat \X Kinds]
  <2>1. storage[c] \in [Items -> Nat \X Kinds] /\ <<k, "value">> \in Nat \X Kinds
    BY <1>4, <1>5 DEF SimdTypes, Kinds
  <2> HIDE DEF x, k, p
  <2> QED
    BY <1>2, <2>1
<1> HIDE DEF t
<1>12. /\ Coming(p, f[x])[2] = "swapped" /\ p[Coming(p, f[x])[1]] \in SimdOps
            => t[x] = <<Coming(p, f[x])[1], "value">>
       /\ f[x][2] = "swapped" => t[x] = storage[c][x]
  BY <1>5, <1>7
<1>8. y \in Items /\ StorageOf(p, y, g, t)
  <2>1. ASSUME y = x + 1, x + 1 \in SubGroup(x)
        PROVE  y \in Items /\ StorageOf(p, y, g, t)
    <3> HIDE DEF x, f, p, k, y
    <3>1. y \in Items
      BY <1>2, <2>1, SubGroupHasItem
    <3> DEFINE s == storage[c]
    <3>2. /\ p \in Seq(Ops) /\ x \in Items /\ f \in [Items -> Places] /\ InTurn(p, x, f)
          /\ StorageOf(p, x, f, s) /\ x + 1 \in SubGroup(x) /\ f[x][2] = "begin"
          /\ \A j \in Items : j # x => t[j] = s[j]
          /\ Coming(p, f[x])[2] = "swapped" /\ p[Coming(p, f[x])[1]] \in SimdOps
               => t[x] = <<Coming(p, f[x])[1], "value">>
          /\ f[x][2] = "swapped" => t[x] = s[x]
      BY <1>2, <1>3, <1>5, <1>7, <1>12, <2>1
    <3> HIDE DEF s
    <3>3. StorageOf(p, x + 1, g, t)
      BY <3>2, StorageWithin
    <3> QED
      BY <2>1, <3>1, <3>3
  <2>2. CASE p[k] = "barrier"
    <3>1. y = NextLinear(x)
      BY <1>2, <2>2
    <3>2. \/ y = x + 1 /\ x + 1 \in Items
          \/ y = 0 /\ x + 1 = LocalSize
      BY <1>2, <3>1, NextInGroup
    <3>3. g \in [Items -> Places]
      BY <1>2, <1>5 DEF Places, Phases
    <3> HIDE DEF y, k, x, p, f
    <3>4. CASE y = x + 1 /\ x + 1 \in Items /\ x + 1 \notin SubGroup(x)
      <4>1. g[y] = f[y] /\ f[y] \in Gates(p)
        <5>1. y # x
          BY <1>2, <3>4, LaunchConstants
        <5> QED
          BY <1>2, <3>4, <5>1 DEF InTurn
      <4>2. \A j \in SubGroup(y) : y <= j
        BY <1>2, <3>4, FirstOfNextSubGroup
      <4> HIDE DEF g
      <4> QED
        BY <1>2, <3>3, <3>4, <4>1, <4>2, StorageAtGate
    <3>5. CASE y = 0 /\ x + 1 = LocalSize
      <4>1. 0 \in Items /\ \A j \in SubGroup(0) : 0 <= j
        <5>1. 0 \in Items /\ \A j \in SubGroup(0) : j \in Nat
          BY SubGroupHasItem, LaunchConstants
        <5> QED
          BY <5>1
      <4>2. <<k, "swapped">> \in Gates(p)
        BY <1>1, <2>2 DEF Gates, k, p
      <4>3. g[0] \in Gates(p)
        <5>1. CASE x = 0
          BY <1>2, <1>5, <4>2, <5>1
        <5>2. CASE x # 0 /\ 0 \in SubGroup(x)
          <6>1. 0 < x
            BY <1>2, <5>2, LaunchConstants
          <6>2. f[0] = Coming(p, f[x])
            BY <5>2, <6>1, <1>2 DEF InTurn
          <6> QED
            BY <1>5, <4>1, <4>2, <5>2, <6>2, <1>2
        <5>3. CASE x # 0 /\ 0 \notin SubGroup(x)
          <6>1. f[0] \in Gates(p)
            BY <1>2, <4>1, <5>3 DEF InTurn
          <6> QED
            BY <1>2, <4>1, <5>3, <6>1
        <5> QED
          BY <5>1, <5>2, <5>3
      <4> HIDE DEF g
      <4> QED
        BY <1>2, <3>3, <3>5, <4>1, <4>3, StorageAtGate
    <3> QED
      BY <2>1, <3>2, <3>4, <3>5
  <2>3. CASE p[k] # "barrier"
    <3>1. y = NextSimd(x)
      BY <1>2, <2>3
    <3> HIDE DEF y, k, x, p, f
    <3>2. CASE y \in SubGroup(x) /\ Lane(y) = 0 /\ \A j \in SubGroup(x) : y <= j /\ j <= x
      <4>1. y \in Items
        BY <1>2, <3>2, SubGroupHasItem
      <4> DEFINE s == storage[c]
      <4>2. /\ StorageOf(p, x, f, s) /\ \A j \in Items : j # x => t[j] = s[j]
        BY <1>3, <1>7
      <4> HIDE DEF s
      <4>3. StorageOf(p, y, g, t)
        BY <1>2, <1>12, <3>2, <4>2, StorageAtFirst
      <4> QED
        BY <4>1, <4>3
    <3> QED
      BY <1>2, <2>1, <3>1, <3>2, NextInSubGroup
  <2> QED
    BY <2>2, <2>3
<1>9. StorageHolds' /\ IdsKept'
  <2> HIDE DEF y
  <2>1. g = [at[c] EXCEPT ![ctx[c]] = Coming(program, Here(c))]
    BY <1>2
  <2>2. at' = [at EXCEPT ![c][ctx[c]] = Coming(program, Here(c))]
    BY <1>1, <1>2, <1>5
  <2> QED
    BY <1>1, <1>5, <1>6, <1>8, <2>1, <2>2, SwitchSimd
<1>10. SimdTypes'
  <2>1. storage' \in [Cpus -> [Items -> Nat \X Kinds]]
    BY <1>4, <1>6, <1>7 DEF SimdTypes
  <2> QED
    BY <1>1, <1>4, <2>1 DEF SimdTypes
<1> QED
  BY <1>1, <1>4, <1>9, <1>10 DEF SimdInv, SimdResultsCorrect

LEMMA ResumeShuffleSimd ==
  ASSUME TurnInv, SimdInv, NEW c \in Cpus, ResumeShuffle(c)
  PROVE  SimdInv'
<1> DEFINE x == ctx[c]
           k == Here(c)[1]
           p == program
           f == at[c]
           y == NextSimd(x)
           g == [f EXCEPT ![x] = Coming(p, f[x])]
           s == storage[c]
<1>1. /\ Running(c) /\ Here(c)[2] = "swapped" /\ p[k] = "shuffle"
      /\ at' = [at EXCEPT ![c][x] = <<k, "read">>] /\ ctx' = [ctx EXCEPT ![c] = y]
      /\ ids' = [ids EXCEPT ![c] = saved[c][x]]
      /\ UNCHANGED <<program, group, saved, storage>>
  BY DEF ResumeShuffle, Op, MoveTo, SwitchTo, RestoreIds
<1>2. /\ p \in Seq(Ops) /\ x \in Items /\ f \in [Items -> Places]
      /\ InTurn(p, x, f) /\ f[x] = Here(c) /\ Here(c) = <<k, "swapped">>
      /\ k \in 1 .. Len(p) /\ at \in [Cpus -> [Items -> Places]] /\ ctx \in [Cpus -> {Main} \cup Items]
  BY <1>1, RunningItem, ResumableFacts DEF TurnInv, LaunchTypes
<1>3. /\ StorageOf(p, x, f, s) /\ Lanes(c) = SubGroup(x)
      /\ \A i \in Items : f[i] \notin {Fresh, Done} => saved[c][i] = IdsOf(group[c], i)
  BY <1>1, RunningLane
<1>4. SimdTypes /\ SimdResultsCorrect
  BY DEF SimdInv
<1>5. Coming(p, f[x]) = <<k, "read">> /\ f[x] = <<k, "swapped">> /\ k \in Nat /\ k > 0
  BY <1>1, <1>2 DEF Coming
<1>6. \A j \in SubGroup(x) : s[j] = <<k, "value">>
  BY <1>1, <1>3, <1>5 DEF StorageOf
<1>7. y \in Items /\ StorageOf(p, y, g, s)
  <2> HIDE DEF x, k, p, f, y, s
  <2>1. CASE y = x + 1 /\ x + 1 \in SubGroup(x)
    <3>1. /\ y \in Items /\ f[x][2] = "swapped" /\ p[f[x][1]] = "shuffle"
          /\ Coming(p, f[x])[2] # "swapped"
      BY <1>1, <1>2, <1>5, <2>1, SubGroupHasItem
    <3>2. StorageOf(p, x + 1, g, s)
      BY <1>2, <1>3, <2>1, <3>1, StorageWithin
    <3> QED
      BY <2>1, <3>1, <3>2
  <2>2. CASE y \in SubGroup(x) /\ Lane(y) = 0 /\ \A j \in SubGroup(x) : y <= j /\ j <= x
    <3>1. y \in Items /\ Coming(p, f[x])[2] # "swapped"
      BY <1>2, <1>5, <2>2, SubGroupHasItem
    <3>2. StorageOf(p, y, g, s)
      BY <1>2, <1>3, <2>2, <3>1, StorageAtFirst
    <3> QED
      BY <3>1, <3>2
  <2> QED
    BY <1>2, <2>1, <2>2, NextInSubGroup DEF y
<1>8. g[x] = <<k, "read">> /\ \A i \in Items : i # x => g[i] = f[i]
  BY <1>2, <1>5
<1>9. g[y][2] # "begin"
  <2>1. CASE y = x
    BY <1>8, <2>1
  <2>2. CASE y # x
    <3> HIDE DEF x, f, p, y, g
    <3>1. f[y][2] # "begin"
      BY <1>2, <1>7, <2>2, OthersAreSuspended
    <3> QED
      BY <1>7, <1>8, <2>2, <3>1
  <2> QED
    BY <2>1, <2>2
<1>10. at' = [at EXCEPT ![c] = g]
  BY <1>1, <1>2, <1>5
<1>11. f[x] \notin {Fresh, Done}
  BY <1>5 DEF Fresh, Done
<1> HIDE DEF g, y
<1>12. /\ at'[c] = g /\ ctx'[c] = y /\ storage'[c] = s
       /\ \A d \in Cpus : d # c => /\ at'[d] = at[d] /\ ctx'[d] = ctx[d] /\ group'[d] = group[d]
                                   /\ ids'[d] = ids[d] /\ saved'[d] = saved[d]
                                   /\ storage'[d] = storage[d]
  BY <1>1, <1>2, <1>4, <1>10 DEF SimdTypes
<1>13. StorageHolds' /\ IdsKept'
  <2>1. StorageOf(program, ctx'[c], at'[c], storage'[c])
    BY <1>7, <1>12
  <2>2. at'[c][ctx'[c]][2] # "begin"
    BY <1>9, <1>12
  <2>3. \A i \in Items : at'[c][i] \notin {Fresh, Done} => saved'[c][i] = IdsOf(group'[c], i)
    BY <1>1, <1>3, <1>8, <1>11, <1>12
  <2>4. program' = program
    BY <1>1
  <2> HIDE DEF x, k, p, f, s
  <2> QED
    BY <1>12, <2>1, <2>2, <2>3, <2>4, SimdStep
<1>14. result' = [result EXCEPT ![c][x] = <<k, <<k, "value">>>>]
  <2>1. PICK j \in Lanes(c) : result' = [result EXCEPT ![c][x] = <<k, s[j]>>]
    BY DEF ResumeShuffle
  <2> QED
    BY <1>3, <1>6, <2>1
<1>15. SimdTypes'
  <2>1. ids' \in [Cpus -> AnyIds]
    <3>1. RestoreIds(c)
      BY DEF ResumeShuffle
    <3> QED
      BY <1>1, <3>1, RestoredIdsAreTyped
  <2>2. <<k, <<k, "value">>>> \in Nat \X (Nat \X Kinds)
    BY <1>5 DEF Kinds
  <2>3. [result[c] EXCEPT ![x] = <<k, <<k, "value">>>>] \in [Items -> Nat \X (Nat \X Kinds)]
    BY <1>4, <2>2 DEF SimdTypes
  <2>4. result' \in [Cpus -> [Items -> Nat \X (Nat \X Kinds)]]
    BY <1>4, <1>14, <2>3 DEF SimdTypes
  <2> QED
    BY <1>1, <1>4, <2>1, <2>4 DEF SimdTypes
<1>16. SimdResultsCorrect'
  <2>1. ASSUME NEW d \in Cpus, NEW i \in Items, result'[d][i][1] > 0
        PROVE  result'[d][i][2] = <<result'[d][i][1],
                 IF program[result'[d][i][1]] = "ballot" THEN "mask" ELSE "value">>
    <3>1. CASE d = c /\ i = x
      <4>1. result'[d][i] = <<k, <<k, "value">>>>
        BY <1>2, <1>4, <1>14, <3>1 DEF SimdTypes
      <4> QED
        BY <1>1, <4>1
    <3>2. CASE ~(d = c /\ i = x)
      <4>1. result'[d][i] = result[d][i]
        BY <1>4, <1>14, <3>2 DEF SimdTypes
      <4> QED
        BY <1>4, <2>1, <4>1 DEF SimdResultsCorrect
    <3> QED
      BY <3>1, <3>2
  <2> QED
    BY <1>1, <2>1 DEF SimdResultsCorrect
<1> QED
  BY <1>13, <1>15, <1>16 DEF SimdInv

LEMMA ExitItemSimd ==
  ASSUME TurnInv, SimdInv, NEW c \in Cpus, ExitItem(c)
  PROVE  SimdInv'
<1> DEFINE x == ctx[c]
           p == program
           f == at[c]
           n == Len(p)
           y == ExitCtx(x)
           g == [f EXCEPT ![x] = Coming(p, f[x])]
           s == storage[c]
<1>1. /\ Running(c) /\ Here(c)[2] = "begin" /\ Here(c)[1] \notin 1 .. n
      /\ at' = [at EXCEPT ![c][x] = Done] /\ ctx' = [ctx EXCEPT ![c] = y]
      /\ UNCHANGED <<program, group, ids, saved, storage, result>>
  BY DEF ExitItem, InProgram, MoveTo, SwitchTo, Done
<1>2. /\ p \in Seq(Ops) /\ x \in Items /\ f \in [Items -> Places]
      /\ InTurn(p, x, f) /\ f[x] = Here(c) /\ f[x] \in Resumable(p) /\ f[x][2] = "begin"
      /\ at \in [Cpus -> [Items -> Places]] /\ ctx \in [Cpus -> {Main} \cup Items]
  BY <1>1, RunningItem DEF TurnInv, LaunchTypes
<1>3. StorageOf(p, x, f, s)
  BY <1>1, RunningLane
<1>4. SimdTypes /\ SimdResultsCorrect
  BY DEF SimdInv
<1>5. Coming(p, f[x]) = Done
  BY <1>1, <1>2 DEF Coming, After
<1>6. storage' = [storage EXCEPT ![c] = s]
  BY <1>1, <1>4 DEF SimdTypes
<1>7. g \in [Items -> Places] /\ Done[2] = "done" /\ Here(c) # Fresh
  <2>1. Done \in Places /\ Done[2] = "done" /\ Fresh[2] # "begin"
    BY DEF Done, Fresh, Places, Phases
  <2> QED
    BY <1>1, <1>2, <1>5, <2>1
<1>8. y = Main \/ (y \in Items /\ StorageOf(p, y, g, s))
  <2> HIDE DEF x, p, f, n, s
  <2>1. CASE y = x + 1 /\ x + 1 \in SubGroup(x)
    <3>1. y \in Items /\ Coming(p, f[x])[2] # "swapped" /\ f[x][2] # "swapped"
      BY <1>2, <1>5, <1>7, <2>1, SubGroupHasItem
    <3> HIDE DEF y
    <3>2. StorageOf(p, x + 1, g, s)
      BY <1>2, <1>3, <2>1, <3>1, StorageWithin
    <3> QED
      BY <2>1, <3>1, <3>2
  <2>2. CASE y = x + 1 /\ x + 1 \in Items /\ x + 1 \notin SubGroup(x)
    <3> HIDE DEF y
    <3>1. g[y] = f[y] /\ f[y] \in Gates(p)
      <4>1. y # x
        BY <1>2, <2>2, LaunchConstants
      <4> QED
        BY <1>2, <2>2, <4>1 DEF InTurn
    <3>2. \A j \in SubGroup(y) : y <= j
      BY <1>2, <2>2, FirstOfNextSubGroup
    <3> HIDE DEF g
    <3> QED
      BY <1>2, <1>7, <2>2, <3>1, <3>2, StorageAtGate
  <2>3. y = Main \/ (y = x + 1 /\ x + 1 \in Items)
    <3>1. x \in Nat /\ LocalSize \in Nat
      BY <1>2, LaunchConstants
    <3>2. CASE x + 1 < LocalSize
      <4>1. y = x + 1
        BY <3>2 DEF ExitCtx
      <4>2. x + 1 \in Items
        BY <3>1, <3>2 DEF Items
      <4> QED
        BY <4>1, <4>2
    <3>3. CASE ~(x + 1 < LocalSize)
      BY <3>3 DEF ExitCtx
    <3> QED
      BY <3>2, <3>3
  <2> QED
    BY <2>1, <2>2, <2>3
<1>9. at' = [at EXCEPT ![c][ctx[c]] = Coming(program, Here(c))]
  BY <1>1, <1>2, <1>5
<1>10. StorageHolds' /\ IdsKept'
  <2>1. CASE y \in Items /\ StorageOf(p, y, g, s)
    <3>1. g = [at[c] EXCEPT ![ctx[c]] = Coming(program, Here(c))]
      BY <1>2
    <3> HIDE DEF y, s
    <3> QED
      BY <1>1, <1>6, <1>7, <1>9, <2>1, <3>1, SwitchSimd
  <2>2. CASE y = Main
    <3> HIDE DEF y
    <3>1. ~Running(c)'
      BY <1>1, <1>2, <2>2 DEF Running
    <3>2. \A d \in Cpus : d # c => /\ at'[d] = at[d] /\ ctx'[d] = ctx[d] /\ group'[d] = group[d]
                                   /\ ids'[d] = ids[d] /\ saved'[d] = saved[d]
                                   /\ storage'[d] = storage[d]
      BY <1>1, <1>2
    <3>3. program' = program
      BY <1>1
    <3> QED
      BY <3>1, <3>2, <3>3, SimdStep
  <2> QED
    BY <1>8, <2>1, <2>2
<1> QED
  BY <1>1, <1>4, <1>10 DEF SimdInv, SimdTypes, SimdResultsCorrect

LEMMA SimdPreserved ==
  ASSUME DeviceExecution, TurnInv, SimdInv, [LaunchNext]_launchVars
  PROVE  SimdInv'
<1>1. ASSUME UNCHANGED <<program, group, ctx, fiberVars>>
      PROVE  SimdInv'
  BY <1>1 DEF fiberVars, SimdInv, SimdTypes, IdsKept, StorageHolds, SimdResultsCorrect, Running, Here
<1>2. ASSUME NEW c \in Cpus, StartWorker(c) \/ StartFails(c) \/ WorkerDone(c)
      PROVE  SimdInv'
  BY <1>1, <1>2 DEF StartWorker, StartFails, WorkerDone
<1>3. ASSUME UNCHANGED launchVars
      PROVE  SimdInv'
  BY <1>1, <1>3 DEF launchVars
<1> QED
  BY <1>2, <1>3, TakeGroupSimd, EnterItemSimd, SwitchAwaySimd, BarrierSimd, BallotSimd,
     ResumeShuffleSimd, ExitItemSimd DEF LaunchNext, CpuStep

(* The storage the lanes of a sub-group share is reused from one SIMD      *)
(* function to the next, but never while a lane still needs what is in it. *)
THEOREM LanesTakeTurns ==
  ASSUME DeviceExecution
  PROVE  LaunchSpec => []SimdInv
<1>1. LaunchInit => SimdInv
  BY SimdInitially
<1>2. TurnInv /\ SimdInv /\ [LaunchNext]_launchVars => SimdInv'
  BY SimdPreserved
<1> QED
  BY <1>1, <1>2, FibersTakeTurns, PTL DEF LaunchSpec

(* Whenever the code of a function that was loaded for the device runs, it *)
(* sees the ids of its own work-item, also after a switch (functions       *)
(* compiled into the program do not: see MCHostExecIds).                   *)
THEOREM IdsAreRestored ==
  ASSUME DeviceExecution
  PROVE  LaunchSpec => []IdsMatchItem
<1>1. SimdInv => IdsMatchItem
  BY DEF SimdInv, IdsKept, IdsMatchItem
<1> QED
  BY <1>1, LanesTakeTurns, PTL

(* A SIMD function returns what the lanes contributed to this call of it.  *)
THEOREM SimdResultsAreRight ==
  ASSUME DeviceExecution
  PROVE  LaunchSpec => []SimdResultsCorrect
<1>1. SimdInv => SimdResultsCorrect
  BY DEF SimdInv
<1> QED
  BY <1>1, LanesTakeTurns, PTL
=============================================================================
