------------------------ MODULE ResourceSlotsProofs ------------------------
(***************************************************************************)
(* Proofs about ResourceSlots: for every number of handles and slots and   *)
(* every word size, the handler leases each slot at most once, loses none  *)
(* but those of overwritten handles, counts them exactly and implements    *)
(* the abstract pool.                                                      *)
(***************************************************************************)
EXTENDS ResourceSlots, FiniteSetTheorems, TLAPS

(* The inductive invariant: the mask is the complement of the leased and   *)
(* the lost slots, leases are exclusive, no handle holds a lost slot, and  *)
(* a handle that is acquiring is empty while one that is releasing is not. *)
IInv ==
  /\ TypeOK
  /\ MaskIsComplement
  /\ Exclusive
  /\ \A h \in Handles :
       /\ slot_idx[h] \notin lost
       /\ pc[h] \in {"try_cas", "acquire"} => IsEmpty(h)
       /\ pc[h] = "release" => ~IsEmpty(h)

-----------------------------------------------------------------------------
(* Counting trailing zeros finds the lowest element of a non-empty mask. *)
LEMMA CtzLowest ==
  ASSUME NEW word, word \subseteq Nat, word # {}
  PROVE  ctz(word) \in word /\ \A j \in word : ctz(word) <= j
<1>1. PICK i \in word : \A j \in word : ~(<<j, i>> \in OpToRel(<, Nat))
  BY NatLessThanWellFounded, WFMin, Zenon
<1>2. \A j \in word : i <= j
  <2> SUFFICES ASSUME NEW j \in word PROVE i <= j
    OBVIOUS
  <2>1. ~(j < i)
    BY <1>1 DEF OpToRel
  <2> QED BY <2>1
<1> QED BY <1>2 DEF ctz

(* compute_free_slot_idx returns the lowest free slot on both of its paths. *)
LEMMA FreeSlotLowest ==
  ASSUME NEW mask, mask \subseteq Slots, mask # {}
  PROVE  /\ compute_free_slot_idx(mask) \in mask
         /\ \A j \in mask : compute_free_slot_idx(mask) <= j
<1> DEFINE lower == {i \in mask : i < WordBits}
           upper == {i \in 0 .. WordBits - 1 : i + WordBits \in mask}
<1>0. mask \subseteq Nat /\ WordBits \in Nat \ {0} /\ ResourceCount \in Nat
  BY SizeAssumption DEF Slots
<1>1. CASE ResourceCount <= WordBits
  BY <1>0, <1>1, CtzLowest DEF compute_free_slot_idx
<1>2. CASE ~(ResourceCount <= WordBits) /\ lower # {}
  <2>1. ctz(lower) \in lower /\ \A j \in lower : ctz(lower) <= j
    BY <1>0, <1>2, CtzLowest
  <2>2. compute_free_slot_idx(mask) = ctz(lower)
    BY <1>2, <2>1 DEF compute_free_slot_idx
  <2>3. ctz(lower) \in mask /\ ctz(lower) < WordBits
    BY <2>1
  <2>4. ASSUME NEW j \in mask PROVE ctz(lower) <= j
    <3>1. CASE j < WordBits
      BY <2>1, <3>1
    <3>2. CASE ~(j < WordBits)
      <4>1. ctz(lower) \in Nat /\ j \in Nat
        BY <1>0, <2>3
      <4> QED BY <1>0, <2>3, <3>2, <4>1
    <3> QED BY <3>1, <3>2
  <2> QED BY <2>2, <2>3, <2>4
<1>3. CASE ~(ResourceCount <= WordBits) /\ lower = {}
  <2>1. \A j \in mask : j - WordBits \in upper
    BY <1>0, <1>3, SizeAssumption DEF Slots
  <2>2. upper # {} /\ upper \subseteq Nat
    <3>1. PICK j \in mask : TRUE
      OBVIOUS
    <3>2. j - WordBits \in upper
      BY <2>1, <3>1
    <3>3. upper \subseteq Nat
      BY <1>0
    <3> QED BY <3>2, <3>3
  <2>3. ctz(upper) \in upper /\ \A j \in upper : ctz(upper) <= j
    BY <2>2, CtzLowest
  <2>4. compute_free_slot_idx(mask) = ctz(upper) + WordBits
    BY <1>0, <1>3 DEF compute_free_slot_idx
  <2>5. ctz(upper) + WordBits \in mask
    BY <2>3
  <2>6. \A j \in mask : ctz(upper) + WordBits <= j
    BY <1>0, <2>1, <2>2, <2>3
  <2> QED BY <2>4, <2>5, <2>6
<1> QED BY <1>1, <1>2, <1>3
-----------------------------------------------------------------------------
(* invalid_slot_idx is no slot. *)
LEMMA InvalidIsNoSlot == invalid_slot_idx \notin Slots /\ Slots \subseteq Bits
BY SizeAssumption DEF invalid_slot_idx, Slots, Bits

LEMMA InitIInv == Init => IInv
BY InvalidIsNoSlot
   DEF Init, IInv, TypeOK, MaskIsComplement, Exclusive, IsEmpty

(* A compare-exchange that succeeds takes a slot nobody holds. *)
LEMMA TakeIInv ==
  ASSUME IInv, NEW h \in Handles, IsEmpty(h), TakeLowest(h)
  PROVE  IInv'
<1> DEFINE idx == compute_free_slot_idx(cur_slots[h])
<1>1. slots \subseteq Slots /\ slots # {} /\ slots = cur_slots[h]
  BY DEF IInv, MaskIsComplement, TakeLowest
<1>2. idx \in slots /\ idx \in Slots
  BY <1>1, FreeSlotLowest
<1>3. idx \notin lost /\ \A g \in Handles : slot_idx[g] # idx
  BY <1>1, <1>2 DEF IInv, MaskIsComplement
<1>4. slots' = slots \ {idx}
  BY <1>1, <1>2 DEF TakeLowest, Xor
<1>5. slot_idx' = [slot_idx EXCEPT ![h] = idx] /\ UNCHANGED lost
  BY DEF TakeLowest
<1>6. TypeOK'
  BY <1>1, <1>2, <1>4, <1>5 DEF IInv, TypeOK, TakeLowest, Drop, Goto
<1> HIDE DEF idx
<1>7. MaskIsComplement'
  BY <1>2, <1>3, <1>4, <1>5, InvalidIsNoSlot
     DEF IInv, TypeOK, MaskIsComplement, IsEmpty
<1>8. Exclusive'
  BY <1>2, <1>3, <1>5, InvalidIsNoSlot DEF IInv, TypeOK, Exclusive, IsEmpty
<1>9. \A g \in Handles :
        /\ slot_idx'[g] \notin lost'
        /\ pc'[g] \in {"try_cas", "acquire"} => IsEmpty(g)'
        /\ pc'[g] = "release" => ~IsEmpty(g)'
  BY <1>3, <1>5 DEF IInv, TypeOK, TakeLowest, Goto, IsEmpty, invalid_slot_idx
<1> QED BY <1>6, <1>7, <1>8, <1>9 DEF IInv

(* A release toggles a bit that is 0: it frees the slot. *)
LEMMA ReleaseIInv ==
  ASSUME IInv, NEW h \in Handles, ReleaseCas(h)
  PROVE  IInv'
<1>1. slot_idx[h] \in Slots /\ slot_idx[h] \notin slots /\ pc[h] = "release"
  BY DEF IInv, TypeOK, MaskIsComplement, ReleaseCas, IsEmpty
<1>2. slots' = slots \cup {slot_idx[h]}
  BY <1>1 DEF ReleaseCas, Xor
<1>3. slot_idx' = [slot_idx EXCEPT ![h] = invalid_slot_idx] /\ UNCHANGED lost
  BY DEF ReleaseCas
<1>4. \A g \in Handles : g # h => slot_idx[g] # slot_idx[h]
  BY <1>1, InvalidIsNoSlot DEF IInv, Exclusive, IsEmpty
<1>5. TypeOK'
  BY <1>1, <1>2, <1>3, InvalidIsNoSlot
     DEF IInv, TypeOK, ReleaseCas, Drop, Goto
<1>6. MaskIsComplement'
  BY <1>1, <1>2, <1>3, <1>4, InvalidIsNoSlot DEF IInv, TypeOK, MaskIsComplement
<1>7. Exclusive'
  BY <1>3, InvalidIsNoSlot DEF IInv, TypeOK, Exclusive, IsEmpty, invalid_slot_idx
<1>8. \A g \in Handles :
        /\ slot_idx'[g] \notin lost'
        /\ pc'[g] \in {"try_cas", "acquire"} => IsEmpty(g)'
        /\ pc'[g] = "release" => ~IsEmpty(g)'
  BY <1>3, InvalidIsNoSlot
     DEF IInv, TypeOK, ReleaseCas, Goto, IsEmpty, invalid_slot_idx
<1> QED BY <1>5, <1>6, <1>7, <1>8 DEF IInv

(* A move renames the holder of a slot and loses what it overwrites. *)
LEMMA MoveIInv ==
  ASSUME IInv, NEW g \in Handles, NEW h \in Handles, MoveHandle(g, h)
  PROVE  IInv'
<1>1. /\ \A k \in Handles :
           slot_idx'[k] = IF k = g THEN invalid_slot_idx
                          ELSE IF k = h THEN slot_idx[g] ELSE slot_idx[k]
      /\ lost' = lost \cup ({slot_idx[h]} \ {invalid_slot_idx})
      /\ UNCHANGED <<slots, cur_slots, pc>>
      /\ pc[g] = "idle" /\ pc[h] = "idle"
  BY DEF MoveHandle, IInv, TypeOK
<1>2. TypeOK'
  BY DEF MoveHandle, IInv, TypeOK
<1>3. ASSUME NEW s \in Slots
      PROVE  (s \in lost' \/ \E k \in Handles : slot_idx'[k] = s)
               <=> (s \in lost \/ \E k \in Handles : slot_idx[k] = s)
  <2>1. s # invalid_slot_idx
    BY InvalidIsNoSlot
  <2>2. s \in lost' <=> s \in lost \/ slot_idx[h] = s
    BY <1>1, <2>1
  <2>3. ASSUME NEW k \in Handles, slot_idx[k] = s
        PROVE  s \in lost' \/ \E j \in Handles : slot_idx'[j] = s
    <3>1. CASE k = h
      BY <2>2, <2>3, <3>1
    <3>2. CASE k # h /\ k = g
      <4>1. slot_idx'[h] = s
        BY <1>1, <2>3, <3>2
      <4> QED BY <4>1
    <3>3. CASE k # h /\ k # g
      <4>1. slot_idx'[k] = s
        BY <1>1, <2>3, <3>3
      <4> QED BY <4>1
    <3> QED BY <3>1, <3>2, <3>3
  <2>4. ASSUME NEW k \in Handles, slot_idx'[k] = s
        PROVE  \E j \in Handles : slot_idx[j] = s
    BY <1>1, <2>1, <2>4
  <2> QED BY <2>2, <2>3, <2>4
<1>4. MaskIsComplement'
  BY <1>1, <1>3 DEF IInv, MaskIsComplement
<1>5. Exclusive'
  BY <1>1 DEF IInv, Exclusive, IsEmpty, invalid_slot_idx
<1>6. \A k \in Handles : slot_idx'[k] \notin lost'
  <2> SUFFICES ASSUME NEW k \in Handles PROVE slot_idx'[k] \notin lost'
    OBVIOUS
  <2>1. invalid_slot_idx \notin lost'
    BY <1>2, InvalidIsNoSlot DEF TypeOK
  <2>2. CASE k = g
    BY <1>1, <2>1, <2>2
  <2>3. CASE k # g /\ k = h
    <3>1. slot_idx'[k] = slot_idx[g] /\ g # h
      BY <1>1, <2>3
    <3>2. slot_idx[g] # invalid_slot_idx => slot_idx[g] # slot_idx[h]
      BY <3>1 DEF IInv, Exclusive, IsEmpty
    <3> QED BY <1>1, <2>1, <3>1, <3>2 DEF IInv
  <2>4. CASE k # g /\ k # h
    <3>1. slot_idx'[k] = slot_idx[k]
      BY <1>1, <2>4
    <3>2. slot_idx[k] # invalid_slot_idx => slot_idx[k] # slot_idx[h]
      BY <2>4 DEF IInv, Exclusive, IsEmpty
    <3> QED BY <1>1, <2>1, <3>1, <3>2 DEF IInv
  <2> QED BY <2>2, <2>3, <2>4
<1>7. \A k \in Handles : pc'[k] = pc[k] /\ (pc[k] # "idle" => k # g /\ k # h)
  BY <1>1
<1>8. \A k \in Handles :
        /\ pc'[k] \in {"try_cas", "acquire"} => IsEmpty(k)'
        /\ pc'[k] = "release" => ~IsEmpty(k)'
  BY <1>1, <1>7 DEF IInv, IsEmpty, invalid_slot_idx
<1> QED BY <1>2, <1>4, <1>5, <1>6, <1>8 DEF IInv

(* Every other step changes only the local mask and the program counter. *)
LEMMA LocalIInv ==
  ASSUME IInv, NEW h \in Handles,
         UNCHANGED <<slots, slot_idx, lost>>,
         NEW label \in {"idle", "try_cas", "acquire", "release"},
         pc' = [pc EXCEPT ![h] = label],
         label \in {"try_cas", "acquire"} => IsEmpty(h),
         label = "release" => ~IsEmpty(h),
         Load(h) \/ Drop(h)
  PROVE  IInv'
<1>1. TypeOK'
  BY DEF IInv, TypeOK, Load, Drop
<1>2. MaskIsComplement' /\ Exclusive'
  BY DEF IInv, MaskIsComplement, Exclusive, IsEmpty, invalid_slot_idx
<1>3. \A k \in Handles :
        /\ slot_idx'[k] \notin lost'
        /\ pc'[k] \in {"try_cas", "acquire"} => IsEmpty(k)'
        /\ pc'[k] = "release" => ~IsEmpty(k)'
  BY DEF IInv, TypeOK, IsEmpty, invalid_slot_idx
<1> QED BY <1>1, <1>2, <1>3 DEF IInv

LEMMA NextIInv == IInv /\ [Next]_vars => IInv'
<1> SUFFICES ASSUME IInv, [Next]_vars PROVE IInv'
  OBVIOUS
<1>1. ASSUME NEW h \in Handles, TryAcquireLoad(h) PROVE IInv'
  BY <1>1, LocalIInv DEF TryAcquireLoad, Goto
<1>2. ASSUME NEW h \in Handles, AcquireLoad(h) PROVE IInv'
  BY <1>2, LocalIInv DEF AcquireLoad, Goto
<1>3. ASSUME NEW h \in Handles, ReleaseLoad(h) PROVE IInv'
  BY <1>3, LocalIInv DEF ReleaseLoad, Goto
<1>4. ASSUME NEW h \in Handles, TryAcquireCas(h) \/ AcquireCas(h) PROVE IInv'
  <2>1. IsEmpty(h) /\ TakeLowest(h)
    BY <1>4 DEF IInv, TryAcquireCas, AcquireCas
  <2> QED BY <2>1, TakeIInv
<1>5. ASSUME NEW h \in Handles, TryAcquireFail(h) PROVE IInv'
  BY <1>5, LocalIInv DEF TryAcquireFail, Goto
<1>6. ASSUME NEW h \in Handles, AcquireWait(h) \/ CasRetry(h) PROVE IInv'
  <2>1. /\ UNCHANGED <<slots, slot_idx, lost>> /\ Load(h)
        /\ pc[h] \in {"idle", "try_cas", "acquire", "release"}
        /\ pc' = [pc EXCEPT ![h] = pc[h]]
    BY <1>6 DEF IInv, TypeOK, AcquireWait, CasRetry
  <2>2. /\ pc[h] \in {"try_cas", "acquire"} => IsEmpty(h)
        /\ pc[h] = "release" => ~IsEmpty(h)
    BY DEF IInv
  <2> QED BY <2>1, <2>2, LocalIInv
<1>7. ASSUME NEW h \in Handles, ReleaseCas(h) PROVE IInv'
  BY <1>7, ReleaseIInv
<1>8. ASSUME NEW g \in Handles, NEW h \in Handles, MoveHandle(g, h) PROVE IInv'
  BY <1>8, MoveIInv
<1>9. CASE UNCHANGED vars
  BY <1>9 DEF vars, IInv, TypeOK, MaskIsComplement, Exclusive, IsEmpty,
              invalid_slot_idx
<1> QED BY <1>1, <1>2, <1>3, <1>4, <1>5, <1>6, <1>7, <1>8, <1>9 DEF Next, Step

(* The inductive invariant holds in every reachable state. *)
THEOREM InvariantHolds == Spec => []IInv
<1> QED BY InitIInv, NextIInv, PTL DEF Spec

(* No two handles ever hold the same slot. *)
THEOREM SlotsAreExclusive == Spec => []Exclusive
<1>1. IInv => Exclusive
  BY DEF IInv
<1> QED BY <1>1, InvariantHolds, PTL

(* No slot is lost but those of overwritten handles, and none is free      *)
(* while a handle holds it.                                                *)
THEOREM MaskIsExact == Spec => [](TypeOK /\ MaskIsComplement)
<1>1. IInv => TypeOK /\ MaskIsComplement
  BY DEF IInv
<1> QED BY <1>1, InvariantHolds, PTL

-----------------------------------------------------------------------------
(* The invariant fixes the number of 0-bits of the mask: it is the number  *)
(* of handles that hold a slot, of the lost slots and of the padding bits. *)
LEMMA CountOfInvariant == IInv => UsedCountExact
<1> SUFFICES ASSUME IInv PROVE UsedCountExact
  OBVIOUS
<1> DEFINE Held == {h \in Handles : ~IsEmpty(h)}
           Leased == {slot_idx[h] : h \in Held}
           f == [h \in Held |-> slot_idx[h]]
           Used == Leased \cup lost
<1>1. /\ Leased \subseteq Slots /\ lost \subseteq Slots /\ slots = Slots \ Used
      /\ Leased \cap lost = {}
  BY InvalidIsNoSlot DEF IInv, TypeOK, MaskIsComplement, IsEmpty
<1>2. /\ IsFiniteSet(Bits) /\ Cardinality(Bits) = BitWidth
      /\ IsFiniteSet(Slots) /\ Cardinality(Slots) = ResourceCount
  BY FS_Interval, SizeAssumption DEF Bits, Slots
<1>3. /\ IsFiniteSet(Leased) /\ Cardinality(Leased) \in Nat
      /\ IsFiniteSet(lost) /\ Cardinality(lost) \in Nat
  BY <1>1, <1>2, FS_Subset, FS_CardinalityType
<1>4. Cardinality(Held) = Cardinality(Leased)
  <2>1. f \in Injection(Held, Leased) /\ f \in Surjection(Held, Leased)
    BY DEF Injection, IsInjective, Surjection, IInv, Exclusive
  <2> QED BY <2>1, <1>3, FS_Injection, Zenon
<1>5. Cardinality(Used) = Cardinality(Leased) + Cardinality(lost)
  <2>1. /\ Cardinality(Leased \cap lost) = 0
        /\ Cardinality(Used) = Cardinality(Leased) + Cardinality(lost)
                                 - Cardinality(Leased \cap lost)
    BY <1>1, <1>3, FS_Union, FS_EmptySet
  <2> QED BY <1>3, <2>1
<1>6. Cardinality(slots) = ResourceCount - Cardinality(Used)
  <2>1. Slots \cap Used = Used
    BY <1>1
  <2>2. Cardinality(Slots \ Used) = Cardinality(Slots) - Cardinality(Slots \cap Used)
    BY <1>2, FS_Difference
  <2> QED BY <1>1, <1>2, <2>1, <2>2
<1>7. Cardinality(Bits \ slots) = BitWidth - Cardinality(slots)
  <2>1. Bits \cap slots = slots
    BY <1>1, InvalidIsNoSlot
  <2> QED BY <1>2, <2>1, FS_Difference
<1>8. get_used_slot_count = Cardinality(Leased) + Cardinality(lost)
  BY <1>3, <1>5, <1>6, <1>7, SizeAssumption DEF get_used_slot_count
<1> QED BY <1>4, <1>8 DEF UsedCountExact

(* get_used_slot_count() is exact in every reachable state. *)
THEOREM UsedCountIsExact == Spec => []UsedCountExact
BY CountOfInvariant, InvariantHolds, PTL

-----------------------------------------------------------------------------
(* A step of the handler is a step of the abstract pool or a stutter. *)
LEMMA StepRefines == IInv /\ [Next]_vars => [Pool!PoolNext]_(Pool!poolVars)
<1> SUFFICES ASSUME IInv, [Next]_vars PROVE [Pool!PoolNext]_(Pool!poolVars)
  OBVIOUS
<1>1. ASSUME NEW h \in Handles, TryAcquireCas(h) \/ AcquireCas(h)
      PROVE  Pool!Acquire(h)
  <2>1. TakeLowest(h) /\ IsEmpty(h)
    BY <1>1 DEF IInv, TryAcquireCas, AcquireCas
  <2> DEFINE idx == compute_free_slot_idx(cur_slots[h])
  <2>2. slots \subseteq Slots /\ slots # {} /\ slots = cur_slots[h]
    BY <2>1 DEF IInv, MaskIsComplement, TakeLowest
  <2>3. idx \in slots
    BY <2>2, FreeSlotLowest
  <2>4. slots' = slots \ {idx} /\ slot_idx' = [slot_idx EXCEPT ![h] = idx]
    BY <2>1, <2>2, <2>3 DEF TakeLowest, Xor
  <2> HIDE DEF idx
  <2> QED BY <2>1, <2>3, <2>4 DEF Pool!Acquire, IsEmpty
<1>2. ASSUME NEW h \in Handles, ReleaseCas(h) PROVE Pool!Release(h)
  <2>1. ~IsEmpty(h) /\ slot_idx[h] \notin slots
    BY <1>2 DEF IInv, MaskIsComplement, ReleaseCas
  <2>2. slots' = slots \cup {slot_idx[h]}
    BY <1>2, <2>1 DEF ReleaseCas, Xor
  <2> QED BY <1>2, <2>1, <2>2 DEF Pool!Release, ReleaseCas, IsEmpty
<1>3. ASSUME NEW g \in Handles, NEW h \in Handles, MoveHandle(g, h)
      PROVE  Pool!Move(g, h)
  BY <1>3 DEF MoveHandle, Pool!Move
<1>4. ASSUME NEW h \in Handles,
             \/ TryAcquireLoad(h) \/ AcquireLoad(h) \/ ReleaseLoad(h)
             \/ TryAcquireFail(h) \/ AcquireWait(h) \/ CasRetry(h)
      PROVE  UNCHANGED Pool!poolVars
  BY <1>4 DEF TryAcquireLoad, AcquireLoad, ReleaseLoad, TryAcquireFail,
              AcquireWait, CasRetry, Pool!poolVars
<1>5. CASE UNCHANGED vars
  BY <1>5 DEF vars, Pool!poolVars
<1> QED BY <1>1, <1>2, <1>3, <1>4, <1>5 DEF Next, Step, Pool!PoolNext

(* The lock-free handler implements the abstract pool. *)
THEOREM HandlerImplementsPool == Spec => ImplementsSlotPool
<1>1. Init => Pool!PoolInit
  BY DEF Init, Pool!PoolInit
<1> QED BY <1>1, StepRefines, InvariantHolds, PTL
        DEF Spec, ImplementsSlotPool, Pool!PoolSpec
=============================================================================
