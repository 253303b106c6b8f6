--------------------------- MODULE SmallRingBuffer ---------------------------
(***************************************************************************)
(* small_ring_buffer (include/floor/core/small_ring_buffer.hpp), as        *)
(* functions of a buffer: only reading makes the two indices wrap, so that *)
(* the write index is never behind the read index.                         *)
(***************************************************************************)
EXTENDS Naturals, Sequences

CONSTANTS Capacity, NoElement

ASSUME CapacityAssumption == Capacity \in Nat \ {0}

empty_buffer ==
  [data |-> [i \in 0..Capacity - 1 |-> NoElement], write_idx |-> 0, read_idx |-> 0]

readable_elements(rb) == rb.write_idx - rb.read_idx
writable_elements(rb) == Capacity - readable_elements(rb)
write_offset(rb) == rb.write_idx % Capacity
read_offset(rb) == rb.read_idx % Capacity

\* Only if there is room
enqueue(rb, value) ==
  [rb EXCEPT !.data[write_offset(rb)] = value, !.write_idx = @ + 1]

advance_read_index(rb, n) ==
  IF rb.read_idx + n < Capacity THEN [rb EXCEPT !.read_idx = @ + n]
  ELSE [rb EXCEPT !.read_idx = (@ + n) % Capacity, !.write_idx = @ % Capacity]

\* Only if there is something to read
peek(rb) == rb.data[read_offset(rb)]
peek_back(rb) == rb.data[IF write_offset(rb) = 0 THEN Capacity - 1 ELSE write_offset(rb) - 1]
dequeue(rb) == advance_read_index(rb, 1)
clear(rb) == advance_read_index(rb, readable_elements(rb))

\* The places whose elements peek_iterate visits: those that can be read
peek_iterate(rb) == {(read_offset(rb) + k) % Capacity : k \in 0..readable_elements(rb) - 1}

-----------------------------------------------------------------------------
\* The queue a buffer stands for, and what its indices promise (the assertions)
contents(rb) == [k \in 1..readable_elements(rb) |-> rb.data[(rb.read_idx + k - 1) % Capacity]]
indices_are_sound(rb) ==
  /\ rb.read_idx < Capacity
  /\ rb.read_idx <= rb.write_idx /\ rb.write_idx - rb.read_idx <= Capacity
=============================================================================
