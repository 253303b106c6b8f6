------------------------------ MODULE SlotPool ------------------------------
(***************************************************************************)
(* What a fixed-size resource container promises its users: a bounded set  *)
(* of slots, each leased to at most one resource handle at a time.  A      *)
(* handle acquires any free slot in one indivisible step, gives it back    *)
(* with release, or passes it on by a move.  Moving to a handle that holds *)
(* a slot forgets that slot: it is never free again.                       *)
(* resource_slot_handler and resource_slot_container_small implement this  *)
(* pool (module ResourceSlots); the users of a container are modelled      *)
(* against this interface only.                                            *)
(***************************************************************************)
CONSTANTS
  Slots,     \* the slot indices
  Handles,   \* the resource handles (resource_t objects)
  NoSlot     \* what an empty handle holds (not a slot)

VARIABLES
  free,      \* slots that can be acquired
  lease      \* the slot each handle holds, or NoSlot

poolVars == <<free, lease>>

PoolTypeOK ==
  /\ free \subseteq Slots
  /\ lease \in [Handles -> Slots \cup {NoSlot}]

PoolInit ==
  /\ free = Slots
  /\ lease = [h \in Handles |-> NoSlot]

Acquire(h) ==
  /\ lease[h] = NoSlot
  /\ \E s \in free :
       /\ free' = free \ {s}
       /\ lease' = [lease EXCEPT ![h] = s]

Release(h) ==
  /\ lease[h] # NoSlot
  /\ free' = free \cup {lease[h]}
  /\ lease' = [lease EXCEPT ![h] = NoSlot]

Move(g, h) ==
  /\ lease' = [lease EXCEPT ![h] = lease[g], ![g] = NoSlot]
  /\ UNCHANGED free

PoolNext ==
  \E h \in Handles :
    \/ Acquire(h)
    \/ Release(h)
    \/ \E g \in Handles : Move(g, h)

PoolSpec == PoolInit /\ [][PoolNext]_poolVars
=============================================================================
