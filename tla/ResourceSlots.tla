--------------------------- MODULE ResourceSlots ---------------------------
(***************************************************************************)
(* resource_slot_handler and resource_slot_container_small                 *)
(* (include/floor/threading/resource_slot_handler.hpp): a lock-free slot   *)
(* allocator over one atomic bitmask.  Every load and every compare-       *)
(* exchange of the mask is a step of its own.  A handle (resource_t) is    *)
(* used by one thread at a time, so the handle is the process; pc[h] is    *)
(* where the member function that is running on it stands.                 *)
(*                                                                         *)
(* The mask is the set of its 1-bits (1: slot is unused), XOR is the       *)
(* symmetric difference.                                                   *)
(***************************************************************************)
EXTENDS Integers, FiniteSets

CONSTANTS
  Handles,        \* the resource_t objects
  ResourceCount,  \* number of slots (template parameter resource_count)
  WordBits,       \* bits of the widest machine word ctz works on (64)
  BitWidth        \* bits of slot_bitset_t

ASSUME SizeAssumption ==
  /\ ResourceCount \in Nat \ {0}
  /\ WordBits \in Nat \ {0}
  /\ BitWidth \in Nat
  /\ ResourceCount <= BitWidth
  /\ BitWidth <= 2 * WordBits

VARIABLES
  slots,      \* the atomic mask: set of the bits that are 1
  slot_idx,   \* slot each handle holds (invalid_slot_idx: container == nullptr)
  lost,       \* history: slots whose handle was overwritten by an assignment
  cur_slots,  \* the local copy of the mask in the running member function
  pc          \* where the handle's running member function stands

vars == <<slots, slot_idx, lost, cur_slots, pc>>

Bits == 0 .. BitWidth - 1
Slots == 0 .. ResourceCount - 1
invalid_slot_idx == BitWidth    \* any value that is no bit index

Xor(a, b) == (a \ b) \cup (b \ a)

(* Number of trailing zeros of a non-zero word. *)
ctz(word) == CHOOSE i \in word : \A j \in word : i <= j

(* The lowest free slot.  A mask wider than a machine word is searched as  *)
(* a lower and an upper word.  (The code counts the zeros of both words    *)
(* first; what it gets for an upper word of zero is not used.)             *)
compute_free_slot_idx(mask) ==
  IF ResourceCount <= WordBits
  THEN ctz(mask)
  ELSE LET lower == {i \in mask : i < WordBits}
           upper == {i \in 0 .. WordBits - 1 : i + WordBits \in mask}
           ctz_lower == IF lower # {} THEN ctz(lower) ELSE WordBits
       IN  IF ctz_lower < WordBits THEN ctz_lower ELSE ctz(upper) + ctz_lower

\* Mutation: the padding bits are counted as used slots.
get_used_slot_count_padded == Cardinality(Bits \ slots)

(* get_used_slot_count: population count of the inverted mask, less the    *)
(* always-used padding bits.                                               *)
get_used_slot_count ==
  Cardinality(Bits \ slots) - (BitWidth - ResourceCount)

TypeOK ==
  /\ slots \subseteq Bits
  /\ slot_idx \in [Handles -> Slots \cup {invalid_slot_idx}]
  /\ lost \subseteq Slots
  /\ cur_slots \in [Handles -> SUBSET Bits]
  /\ pc \in [Handles -> {"idle", "try_cas", "acquire", "release"}]

Init ==
  /\ slots = Slots
  /\ slot_idx = [h \in Handles |-> invalid_slot_idx]
  /\ lost = {}
  /\ cur_slots = [h \in Handles |-> {}]
  /\ pc = [h \in Handles |-> "idle"]

IsEmpty(h) == slot_idx[h] = invalid_slot_idx

(* compare_exchange_strong: on failure the expected value is overwritten   *)
(* with the current one.  A member function that is done drops its local.  *)
Load(h) == cur_slots' = [cur_slots EXCEPT ![h] = slots]
Drop(h) == cur_slots' = [cur_slots EXCEPT ![h] = {}]
Goto(h, label) == pc' = [pc EXCEPT ![h] = label]

(* try_acquire_slot: load the mask, give up at once when it is zero. *)
TryAcquireLoad(h) ==
  /\ pc[h] = "idle" /\ IsEmpty(h)
  /\ slots # {}
  /\ Load(h) /\ Goto(h, "try_cas")
  /\ UNCHANGED <<slots, slot_idx, lost>>

\* Mutation: a plain store in place of the compare-exchange.
TakeLowest_store(h) ==
  LET idx == compute_free_slot_idx(cur_slots[h])
  IN  /\ cur_slots[h] # {}
      /\ slots' = Xor(cur_slots[h], {idx})
      /\ slot_idx' = [slot_idx EXCEPT ![h] = idx]
      /\ Drop(h) /\ Goto(h, "idle")
      /\ UNCHANGED lost

(* The compare-exchange that takes the lowest slot of the loaded mask. *)
TakeLowest(h) ==
  LET idx == compute_free_slot_idx(cur_slots[h])
  IN  /\ cur_slots[h] # {}
      /\ slots = cur_slots[h]
      /\ slots' = Xor(cur_slots[h], {idx})
      /\ slot_idx' = [slot_idx EXCEPT ![h] = idx]
      /\ Drop(h) /\ Goto(h, "idle")
      /\ UNCHANGED lost

TryAcquireCas(h) == pc[h] = "try_cas" /\ TakeLowest(h)

(* try_acquire_slot makes one attempt: it also fails when any other handle *)
(* changed the mask since the load, whether or not slots are free.         *)
TryAcquireFail(h) ==
  /\ pc[h] = "try_cas"
  /\ slots # cur_slots[h]
  /\ Drop(h) /\ Goto(h, "idle")
  /\ UNCHANGED <<slots, slot_idx, lost>>

(* acquire_slot: load the mask before the loop. *)
AcquireLoad(h) ==
  /\ pc[h] = "idle" /\ IsEmpty(h)
  /\ Load(h) /\ Goto(h, "acquire")
  /\ UNCHANGED <<slots, slot_idx, lost>>

\* Mutation: the waiting loop does not load the mask again.
AcquireWait_stale(h) ==
  /\ pc[h] = "acquire"
  /\ cur_slots[h] = {}
  /\ UNCHANGED vars

(* No free slot: spin or yield, load again, continue. *)
AcquireWait(h) ==
  /\ pc[h] = "acquire"
  /\ cur_slots[h] = {}
  /\ Load(h)
  /\ UNCHANGED <<slots, slot_idx, lost, pc>>

AcquireCas(h) == pc[h] = "acquire" /\ TakeLowest(h)

(* A failed compare-exchange of acquire_slot or release_slot: the local    *)
(* mask now holds the current value and the loop retries with it.          *)
CasRetry(h) ==
  /\ \/ pc[h] = "acquire" /\ cur_slots[h] # {}
     \/ pc[h] = "release"
  /\ slots # cur_slots[h]
  /\ Load(h)
  /\ UNCHANGED <<slots, slot_idx, lost, pc>>

(* ~resource_t, release() and release_resource(): load the mask, ... *)
ReleaseLoad(h) ==
  /\ pc[h] = "idle" /\ ~IsEmpty(h)
  /\ Load(h) /\ Goto(h, "release")
  /\ UNCHANGED <<slots, slot_idx, lost>>

(* ... then toggle the bit once the compare-exchange succeeds. *)
ReleaseCas(h) ==
  /\ pc[h] = "release"
  /\ slots = cur_slots[h]
  /\ slots' = Xor(cur_slots[h], {slot_idx[h]})
  /\ slot_idx' = [slot_idx EXCEPT ![h] = invalid_slot_idx]
  /\ Drop(h) /\ Goto(h, "idle")
  /\ UNCHANGED lost

\* Mutation: the moved-from handle keeps its container.
MoveHandle_copy(g, h) ==
  /\ pc[g] = "idle"
  /\ pc[h] = "idle"
  /\ slot_idx' = [slot_idx EXCEPT ![h] = slot_idx[g]]
  /\ lost' = lost \cup ({slot_idx[h]} \ {invalid_slot_idx})
  /\ UNCHANGED <<slots, cur_slots, pc>>

(* Move construction (of an empty h) and move assignment (to any h): h     *)
(* takes what g has, then g's container becomes nullptr.  The assignment   *)
(* does not release what h held: that slot stays used and no handle names  *)
(* it any more.  So does the slot of a handle assigned to itself.          *)
MoveHandle(g, h) ==
  /\ pc[g] = "idle"
  /\ pc[h] = "idle"
  /\ slot_idx' = [slot_idx EXCEPT ![h] = slot_idx[g], ![g] = invalid_slot_idx]
  /\ lost' = lost \cup ({slot_idx[h]} \ {invalid_slot_idx})
  /\ UNCHANGED <<slots, cur_slots, pc>>

(* The steps inside a running member function. *)
Step(h) ==
  \/ TryAcquireCas(h) \/ TryAcquireFail(h)
  \/ AcquireWait(h) \/ AcquireCas(h)
  \/ CasRetry(h) \/ ReleaseCas(h)

Next ==
  \E h \in Handles :
    \/ TryAcquireLoad(h) \/ AcquireLoad(h) \/ ReleaseLoad(h)
    \/ Step(h)
    \/ \E g \in Handles : MoveHandle(g, h)

(* A running member function keeps being scheduled, and every lease ends:  *)
(* resource_t releases in its destructor, however often it is moved before *)
(* (what an assignment overwrote is no lease any more).                    *)
Fairness ==
  /\ \A h \in Handles : WF_vars(Step(h))
  /\ \A s \in Slots : WF_vars(\E h \in Handles : slot_idx[h] = s /\ ReleaseLoad(h))

Spec == Init /\ [][Next]_vars
FairSpec == Spec /\ Fairness
-----------------------------------------------------------------------------
(* Two handles never hold the same slot: two command buffers are never     *)
(* recorded into the same resource (resource_t::slot_idx, container set).  *)
Exclusive ==
  \A g, h \in Handles : g # h /\ ~IsEmpty(g) => slot_idx[g] # slot_idx[h]

(* A bit is 1 exactly when no handle holds its slot and no assignment      *)
(* lost it: release_slot's XOR never takes a slot instead of freeing it,   *)
(* nothing but an overwriting assignment loses one, and the padding bits   *)
(* above resource_count stay 0.                                            *)
MaskIsComplement == slots = Slots \ ({slot_idx[h] : h \in Handles} \cup lost)

(* get_used_slot_count() is the number of handles that hold a slot, and of *)
(* the slots lost by overwriting a handle, at every moment, for every      *)
(* padding of the bitset.                                                  *)
UsedCountExact ==
  get_used_slot_count =
    Cardinality({h \in Handles : ~IsEmpty(h)}) + Cardinality(lost)

(* The compare-exchange loop of acquire_slot is lock-free: unless there    *)
(* are moments with nobody inside acquire_slot again and again, handles    *)
(* keep obtaining slots, until every slot is lost to overwritten handles.  *)
AcquireLockFree ==
  \/ <>(lost = Slots)
  \/ []<>(\A h \in Handles : pc[h] # "acquire")
  \/ []<><<\E h \in Handles : AcquireCas(h) \/ TryAcquireCas(h)>>_vars

(* The compare-exchange steps are the linearization points: the handler    *)
(* implements the abstract pool.                                           *)
Pool == INSTANCE SlotPool
          WITH Slots <- Slots, Handles <- Handles, NoSlot <- invalid_slot_idx,
               free <- slots, lease <- slot_idx
ImplementsSlotPool == Pool!PoolSpec
=============================================================================
