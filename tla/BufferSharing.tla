--------------------------- MODULE BufferSharing ---------------------------
(***************************************************************************)
(* A Host-Compute buffer that is shared with Vulkan or Metal: the contents *)
(* exist twice and host_buffer (src/device/host/host_buffer.cpp) copies    *)
(* them when the other side uses the buffer, as the SHARING flags of       *)
(* device_memory say. A content is the number of the write that made it.   *)
(***************************************************************************)
EXTENDS Naturals

CONSTANT MaxWrites  \* bound: writes to the buffer

ASSUME SharingAssumption == MaxWrites \in Nat

ReadWrite == {"read", "write"}

VARIABLES
  flags,                \* [mode, render, compute] after handle_memory_flags
  shared_object_state,  \* FALSE: compute use, TRUE: render use
  buffer,               \* content of the host memory
  shared_buffer,        \* content of the Vulkan or Metal buffer
  latest,               \* number of the last write
  seen,                 \* the last read: who, what, and what was the latest then
  unwritten,            \* a side that may not read used the buffer and left it unwritten
  stray                 \* a write from the host that no release will copy

sharingVars == <<flags, shared_object_state, buffer, shared_buffer, latest, seen, unwritten, stray>>

\* handle_memory_flags: SHARING_SYNC without or with useless access flags
handle_memory_flags(mode, render, compute) ==
  LET r == IF render = {} THEN ReadWrite ELSE render
      c == IF compute = {} THEN ReadWrite ELSE compute
  IN CASE mode # "sync" -> [mode |-> mode, render |-> render, compute |-> compute]
       [] mode = "sync" /\ r = c /\ r # ReadWrite -> [mode |-> mode, render |-> ReadWrite, compute |-> ReadWrite]
       [] OTHER -> [mode |-> mode, render |-> r, compute |-> c]

needs_sync_to_host == flags.mode # "sync" \/ ("read" \in flags.compute /\ "write" \in flags.render)
\* Mutation: copied in the wrong direction's case.
needs_sync_from_host_swapped == flags.mode # "sync" \/ ("read" \in flags.compute /\ "write" \in flags.render)
needs_sync_from_host == flags.mode # "sync" \/ ("write" \in flags.compute /\ "read" \in flags.render)

\* create_internal: the initial data goes to the shared buffer, then the host
\* acquires the buffer. shared_object_state begins as TRUE.
SharingInit ==
  /\ \E mode \in {"manual", "sync_shared", "sync"}, r \in SUBSET ReadWrite, c \in SUBSET ReadWrite :
       /\ mode # "sync" => r = {} /\ c = {}
       /\ flags = handle_memory_flags(mode, r, c)
  /\ latest \in {0, 1}
  /\ shared_buffer = latest
  /\ buffer = IF needs_sync_to_host THEN shared_buffer ELSE 0
  /\ shared_object_state = FALSE
  /\ seen = [by |-> "nobody", content |-> 0, latest |-> 0]
  /\ unwritten = FALSE /\ stray = FALSE

-----------------------------------------------------------------------------
\* acquire_sync_buffer, release_sync_buffer, sync_shared_buffer: the new contents

AcquiredBuffer ==
  IF shared_object_state /\ needs_sync_to_host THEN shared_buffer ELSE buffer
ReleasedBuffer ==
  IF ~shared_object_state /\ needs_sync_from_host THEN buffer ELSE shared_buffer

\* Data of the other side is then not copied, or overwritten by the next copy.
Leaves(side, writes) ==
  unwritten' = (unwritten \/ (flags.mode = "sync" /\ "read" \notin side /\ ~writes))

acquire_buffer ==
  /\ shared_object_state
  /\ buffer' = AcquiredBuffer
  /\ shared_object_state' = FALSE
  /\ Leaves(flags.compute, FALSE)
  /\ UNCHANGED <<flags, shared_buffer, latest, seen, stray>>

release_buffer ==
  /\ ~shared_object_state
  /\ shared_buffer' = ReleasedBuffer
  /\ shared_object_state' = TRUE
  /\ Leaves(flags.render, FALSE)
  /\ UNCHANGED <<flags, buffer, latest, seen, stray>>

\* A use reads and writes what the flags of its side allow.
Allows(side, use) == flags.mode = "sync" => use \in side
SideWrites(side) == {FALSE} \cup {w \in {TRUE} : latest < MaxWrites /\ Allows(side, "write")}
See(who, side, content) ==
  seen' = IF Allows(side, "read") THEN [by |-> who, content |-> content, latest |-> latest] ELSE seen

\* A Host-Compute function uses the buffer: get_host_buffer_ptr_with_sync acquires
\* it with SHARING_SYNC, otherwise the user must have acquired it.
ComputeUse ==
  /\ flags.mode = "sync" \/ ~shared_object_state
  /\ See("compute", flags.compute, AcquiredBuffer)
  /\ \E w \in SideWrites(flags.compute) :
       /\ latest' = IF w THEN latest + 1 ELSE latest
       /\ buffer' = IF w THEN latest + 1 ELSE AcquiredBuffer
       /\ Leaves(flags.compute, w)
  /\ shared_object_state' = FALSE
  /\ UNCHANGED <<flags, shared_buffer, stray>>

\* A Vulkan or Metal function uses it: get_underlying_..._buffer_safe releases it,
\* or copies it for reading only (SYNC_SHARED).
RenderUse ==
  /\ flags.mode = "manual" => shared_object_state
  /\ See("render", flags.render, ReleasedBuffer)
  /\ \E w \in SideWrites(flags.render) :
       /\ w => flags.mode = "sync" \/ shared_object_state
       /\ latest' = IF w THEN latest + 1 ELSE latest
       /\ shared_buffer' = IF w THEN latest + 1 ELSE ReleasedBuffer
       /\ Leaves(flags.render, w)
  /\ shared_object_state' = (flags.mode = "sync" \/ shared_object_state)
  /\ UNCHANGED <<flags, buffer, stray>>

\* host_buffer::write, fill, zero: the host memory, whoever uses the buffer and
\* also where compute only reads
HostWrite ==
  /\ latest < MaxWrites
  /\ latest' = latest + 1
  /\ buffer' = latest + 1
  /\ stray' = (stray \/ shared_object_state \/ ~Allows(flags.compute, "write"))
  /\ UNCHANGED <<flags, shared_object_state, shared_buffer, seen, unwritten>>

\* host_buffer::read, a copy from the buffer, map: the host memory too. None of them
\* acquires the buffer: what the render side writes meanwhile is not in it.
HostRead ==
  /\ seen' = [by |-> IF shared_object_state /\ Allows(flags.render, "write") THEN "host_unacquired"
                    ELSE "host",
              content |-> buffer, latest |-> latest]
  /\ UNCHANGED <<flags, shared_object_state, buffer, shared_buffer, latest, unwritten, stray>>

SharingNext ==
  acquire_buffer \/ release_buffer \/ ComputeUse \/ RenderUse \/ HostWrite \/ HostRead

SharingSpec == SharingInit /\ [][SharingNext]_sharingVars

-----------------------------------------------------------------------------
\* Properties

\* Where compute may not read or render not write, the buffer is not copied to the
\* host memory, the initial data neither.
InitialDataMissing == ~needs_sync_to_host /\ seen.content = 0 /\ seen.latest = 1

\* The host read the buffer while the render side had it and may have written it.
StaleHostRead == seen.by = "host_unacquired"

\* A function of either side, and the host while the compute side has the buffer or
\* the render side only reads it, find the latest write of either side, whatever
\* flags the buffer has; unless a write-only side used it and left it unwritten, and
\* but for initial data and stray writes from the host. A read of the host while the
\* render side has the buffer to write is a StaleHostRead and may find anything.
SharedIsCoherent ==
  seen.content = seen.latest \/ stray \/ unwritten \/ InitialDataMissing \/ StaleHostRead
=============================================================================
