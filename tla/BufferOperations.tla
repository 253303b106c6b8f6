-------------------------- MODULE BufferOperations --------------------------
(***************************************************************************)
(* What read, write, copy, fill, zero, map and unmap of a device buffer do *)
(* to its contents (include/floor/device/device_buffer.hpp), for each kind *)
(* of memory the backends use:                                             *)
(*   cuda      a mapping is a copy in host memory                          *)
(*   local     Vulkan, memory of the device: the same, with a staging      *)
(*             buffer that the device copies from and to                   *)
(*   coherent, coherent_heap  Vulkan, memory the host sees, from the       *)
(*             driver or from the heap: a mapping points into the buffer   *)
(*   direct    OpenCL and Host-Compute: the same                           *)
(*   shared    Metal, memory both see: the same                            *)
(*   managed   Metal, memory of the host on a device with its own memory:  *)
(*             a copy for the CPU and one for the device                   *)
(*   staged    Metal, private memory and a managed staging buffer          *)
(*   private   Metal, no access by the host                                *)
(* One thread uses the buffer, on one queue; calls block, except maps.     *)
(* promised follows what the interface says, whatever the kind.            *)
(***************************************************************************)
EXTENDS Naturals, FiniteSets

CONSTANTS
  BufferCases,  \* kind of memory, and what the host may do with it: [kind, host]
  Size,         \* of the buffer in bytes
  Regions,      \* arguments [size, offset]; size 0 is the whole buffer
  PatternSizes,
  MaxCalls      \* bound: calls other than unmap

ASSUME BufferAssumption ==
  /\ Size \in Nat \ {0} /\ MaxCalls \in Nat
  /\ Regions \subseteq [size : Nat, offset : Nat] /\ PatternSizes \subseteq Nat \ {0}

VARIABLES
  this,      \* the buffer: a member of BufferCases
  contents,    \* device: the contents; staging: the device's copy of the staging buffer;
             \* cpu: the CPU's copy of managed memory
  mappings,  \* open mappings
  promised,  \* the contents the calls should have led to (history)
  answer,    \* what the last read or map returned, and should have (history)
  calls,     \* number of calls so far; names the data of each
  deviated   \* a call was made for which the code is known to do something else

bufferVars == <<this, contents, mappings, promised, answer, calls, deviated>>

Bytes == 0..Size - 1
Overwritten(mem, offset, data) ==
  [i \in Bytes |-> IF i >= offset /\ i - offset \in DOMAIN data THEN data[i - offset] ELSE mem[i]]
Part(mem, offset, n) == [k \in 0..n - 1 |-> mem[offset + k]]
Length(data) == Cardinality(DOMAIN data)
\* Bytes: which data (the number of the call it comes with), and which byte of it
HostData(n) == [k \in 0..n - 1 |-> <<calls + 1, k>>]
PatternData(n, pattern_size) == [k \in 0..n - 1 |-> <<calls + 1, k % pattern_size>>]
\* What src.buffer holds in a copy
CopySource == [i \in Bytes |-> <<MaxCalls + 1, i>>]
Undefined(n) == [k \in 0..n - 1 |-> <<MaxCalls + 2, k>>]

SizeOf(region) == IF region.size = 0 THEN Size ELSE region.size

Metal == this.kind \in {"shared", "managed", "staged", "private"}
Vulkan == this.kind \in {"local", "coherent", "coherent_heap"}
Coherent == this.kind \in {"coherent", "coherent_heap"}
Copied == this.kind \in {"cuda", "local"}

\* Initial contents are those of host_data, unless it is not copied.
BuffersInit ==
  /\ this \in BufferCases
  /\ LET data == [i \in Bytes |-> <<0, i>>]
     IN \E other_copies \in {data, Undefined(Size)} :
          contents = [device |-> data, staging |-> other_copies, cpu |-> other_copies]
  /\ this.kind = "managed" => contents.cpu = contents.device
  /\ this.kind \notin {"managed", "staged"} => contents.cpu = contents.device
  /\ mappings = {} /\ promised = contents.device
  /\ answer = [got |-> <<>>, expected |-> <<>>]
  /\ calls = 0 /\ deviated = FALSE

-----------------------------------------------------------------------------
\* The checks of a debug build, without those of the host's access for HOST_NONE

InBuffer(n, offset) == offset < Size /\ offset + n <= Size
read_check(n, offset) == InBuffer(n, offset) /\ "read" \in this.host
write_check(n, offset) == InBuffer(n, offset) /\ "write" \in this.host
copy_check(n, dst_offset, src_offset) == InBuffer(n, dst_offset) /\ InBuffer(n, src_offset)
fill_check(n, pattern_size, offset) ==
  InBuffer(n, offset) /\ offset % pattern_size = 0 /\ n % pattern_size = 0
MapFlags == {{"read"}, {"write"}, {"read", "write"}, {"invalidate"}}
map_check(n, flags, offset) ==
  /\ InBuffer(n, offset) /\ this.host # {}
  /\ "write" \notin this.host => flags = {"read"}
  /\ "read" \notin this.host => "read" \notin flags

-----------------------------------------------------------------------------
\* Managed memory

\* didModifyRange: the second part of an NSRange is its length.
DidModify(device, cpu, offset, n) ==
  [i \in Bytes |-> IF i >= offset /\ i < offset + (offset + n) THEN cpu[i] ELSE device[i]]

\* memcpy to the CPU's copy, then didModifyRange; of the buffer, or of the staging buffer
StoreManaged(m, offset, data) ==
  LET cpu == Overwritten(m.cpu, offset, data) IN
  [m EXCEPT !.cpu = cpu, !.device = DidModify(@, cpu, offset, Length(data))]
StoreStaging(m, offset, data) ==
  LET cpu == Overwritten(m.cpu, offset, data) IN
  [m EXCEPT !.cpu = cpu, !.staging = DidModify(@, cpu, offset, Length(data))]

-----------------------------------------------------------------------------
\* The operations, as functions of the memory

\* read, write and a pattern fill of coherent memory map it, which fails if it is mapped.
MapsTwice == this.kind = "coherent" /\ mappings # {}

\* The bytes the host can see are those at the same offsets of SeenBy.
read_buffer(m, offset, n) ==
  CASE this.kind = "managed" -> [m EXCEPT !.cpu = m.device]
    [] this.kind = "staged" ->
         LET staging == Overwritten(m.staging, offset, Part(m.device, offset, n)) IN
         [m EXCEPT !.staging = staging, !.cpu = staging]
    [] OTHER -> m
SeenBy(m) == IF this.kind \in {"managed", "staged"} THEN m.cpu ELSE m.device

write_buffer(m, offset, data) ==
  CASE this.kind = "managed" -> StoreManaged(m, offset, data)
    [] this.kind = "staged" ->
         LET stored == StoreStaging(m, offset, data) IN
         [stored EXCEPT !.device = Overwritten(@, offset, Part(stored.staging, offset, Length(data)))]
    [] MapsTwice -> m
    [] OTHER -> [m EXCEPT !.device = Overwritten(@, offset, data)]

copy_buffer(m, dst_offset, src_offset, n) ==
  [m EXCEPT !.device = Overwritten(@, dst_offset, Part(CopySource, src_offset, n))]

WriteChecked(m, offset, data) ==
  IF write_check(Length(data), offset) THEN write_buffer(m, offset, data) ELSE m

\* The length of the NSRange of fillBuffer is offset + n, too.
fill_single_byte(m, offset, n) ==
  [m EXCEPT !.device = Overwritten(@, offset, PatternData(offset + n, 1))]
metal_fill(m, offset, n, pattern_size) ==
  LET data == PatternData(n, pattern_size) IN
  CASE this.kind \in {"private", "staged"} ->
         IF pattern_size = 1 THEN fill_single_byte(m, offset, n) ELSE WriteChecked(m, offset, data)
    [] this.kind = "managed" ->
         IF pattern_size = 1
         THEN LET filled == fill_single_byte(m, offset, n) IN
              [filled EXCEPT !.device = DidModify(@, m.cpu, offset, n)]
         ELSE StoreManaged(m, offset, data)
    [] OTHER -> IF pattern_size = 1 THEN fill_single_byte(m, offset, n) ELSE write_buffer(m, offset, data)

\* vkCmdFillBuffer
CanFill32(n, pattern_size) == pattern_size \in {1, 2, 4} /\ (n % 4 = 0 \/ n = Size)
vulkan_fill(m, offset, n, pattern_size) ==
  LET data == PatternData(n, pattern_size) IN
  CASE CanFill32(n, pattern_size) ->  \* the offset has to be a multiple of 4
         [m EXCEPT !.device = Overwritten(@, offset, IF offset % 4 = 0 THEN data ELSE Undefined(n))]
    [] ~CanFill32(n, pattern_size) /\ Coherent ->
         IF MapsTwice THEN m ELSE [m EXCEPT !.device = Overwritten(@, 0, data)]
    [] OTHER -> WriteChecked(m, offset, data)

fill_buffer(m, offset, n, pattern_size) ==
  CASE Metal -> metal_fill(m, offset, n, pattern_size)
    [] Vulkan -> vulkan_fill(m, offset, n, pattern_size)
    [] OTHER -> [m EXCEPT !.device = Overwritten(@, offset, PatternData(n, pattern_size))]

-----------------------------------------------------------------------------
\* Mappings

IsRead(flags) == "read" \in flags
IsChanged(flags) == flags # {"read"}

\* Where the pointer of a new mapping points: to memory of its own, or into the buffer
Place(flags) ==
  CASE Copied -> "own"
    [] this.kind \in {"managed", "staged"} -> IF IsRead(flags) THEN "cpu" ELSE "own"
    [] OTHER -> "device"

\* The memory once it is mapped. The staging buffer gets the region at its start.
map_buffer(m, flags, offset, n) ==
  CASE this.kind = "managed" /\ IsRead(flags) -> [m EXCEPT !.cpu = m.device]
    [] this.kind = "staged" /\ IsRead(flags) ->
         LET staging == Overwritten(m.staging, 0, Part(m.device, offset, n)) IN
         [m EXCEPT !.staging = staging, !.cpu = staging]
    [] OTHER -> m

\* Mutation: a copy is written back to the start of the buffer.
unmap_buffer_at_start(m, mapping) ==
  IF mapping.place = "own" THEN write_buffer(m, 0, mapping.data) ELSE m
\* A mapping that is changed and not discarded goes back to the buffer.
unmap_buffer(m, mapping) ==
  LET data == IF mapping.place = "cpu" THEN Part(m.cpu, mapping.offset, mapping.size) ELSE mapping.data IN
  CASE Copied ->  \* an unfinished copy is from memory that is freed
         [m EXCEPT !.device =
            Overwritten(@, mapping.offset, IF mapping.block THEN data ELSE Undefined(mapping.size))]
    [] this.kind = "managed" -> StoreManaged(m, mapping.offset, data)
    [] this.kind = "staged" ->
         LET stored == StoreStaging(m, mapping.offset, data) IN
         [stored EXCEPT !.device = Overwritten(@, 0, Part(stored.staging, mapping.offset, mapping.size))]
    [] OTHER -> m

-----------------------------------------------------------------------------
\* Calls for which the code is known to do something else

\* A single-byte fill goes on for offset bytes more, and didModifyRange
\* transfers as many; the latter also undoes the fill.
FillDeviates(offset, n, pattern_size) ==
  \/ Metal /\ pattern_size = 1 /\ offset > 0
  \/ this.kind = "managed" /\ (pattern_size = 1 \/ offset > 0)
  \/ MapsTwice /\ ~CanFill32(n, pattern_size)
  \/ Coherent /\ ~CanFill32(n, pattern_size) /\ offset > 0
  \/ Vulkan /\ CanFill32(n, pattern_size) /\ offset % 4 # 0
  \* write() is refused, and fill() returns true.
  \/ "write" \notin this.host /\ this.kind \in {"private", "staged"} /\ pattern_size # 1
  \/ "write" \notin this.host /\ this.kind = "local" /\ ~CanFill32(n, pattern_size)
\* All of the CPU's copy is overwritten, with what a mapping points to.
SyncDeviates == \E mapping \in mappings : mapping.place = "cpu" /\ mapping.written
ReadDeviates == SyncDeviates \/ MapsTwice
WriteDeviates(offset) == MapsTwice \/ (this.kind = "managed" /\ offset > 0)
MapDeviates(flags, offset) ==
  \/ IsRead(flags) /\ SyncDeviates
  \/ this.kind = "staged" /\ offset > 0
UnmapDeviates(mapping, discard) ==
  \/ this.kind = "managed" /\ mapping.offset > 0 /\ IsChanged(mapping.flags) /\ ~discard
  \* The staging buffer is destroyed while the device may copy from it.
  \/ this.kind = "local" /\ ~mapping.block /\ IsChanged(mapping.flags) /\ ~discard

-----------------------------------------------------------------------------
\* Calls. While a region is mapped, its user makes no other call that conflicts with it.

Overlap(offset, n, mapping) == offset < mapping.offset + mapping.size /\ mapping.offset < offset + n
MayRead(offset, n) == \A mapping \in mappings : Overlap(offset, n, mapping) => ~IsChanged(mapping.flags)
MayWrite(offset, n) == \A mapping \in mappings : ~Overlap(offset, n, mapping)

NextCall(deviates) == calls < MaxCalls /\ ~deviated /\ calls' = calls + 1 /\ deviated' = deviates

Read(region) ==
  LET n == SizeOf(region) IN
  /\ NextCall(ReadDeviates) /\ MayRead(region.offset, n)
  /\ read_check(n, region.offset)
  /\ contents' = read_buffer(contents, region.offset, n)
  /\ answer' = [got |-> IF MapsTwice THEN <<>> ELSE Part(SeenBy(contents'), region.offset, n),
                expected |-> Part(promised, region.offset, n)]
  /\ UNCHANGED <<this, mappings, promised>>

Write(region) ==
  LET n == SizeOf(region) IN
  /\ NextCall(WriteDeviates(region.offset)) /\ MayWrite(region.offset, n)
  /\ write_check(n, region.offset)
  /\ contents' = write_buffer(contents, region.offset, HostData(n))
  /\ promised' = Overwritten(promised, region.offset, HostData(n))
  /\ UNCHANGED <<this, mappings, answer>>

Copy(region, src_offset) ==
  LET n == SizeOf(region) IN
  /\ NextCall(FALSE) /\ MayWrite(region.offset, n)
  /\ copy_check(n, region.offset, src_offset)
  /\ contents' = copy_buffer(contents, region.offset, src_offset, n)
  /\ promised' = Overwritten(promised, region.offset, Part(CopySource, src_offset, n))
  /\ UNCHANGED <<this, mappings, answer>>

\* zero() fills all of the buffer, on some backends with a wider pattern.
Fill(region, pattern_size) ==
  LET n == SizeOf(region) IN
  /\ NextCall(FillDeviates(region.offset, n, pattern_size)) /\ MayWrite(region.offset, n)
  /\ fill_check(n, pattern_size, region.offset)
  /\ contents' = fill_buffer(contents, region.offset, n, pattern_size)
  /\ promised' = Overwritten(promised, region.offset, PatternData(n, pattern_size))
  /\ UNCHANGED <<this, mappings, answer>>

Map(region, flags, block) ==
  LET n == SizeOf(region) IN
  /\ block \/ this.kind = "local"  \* elsewhere only the blocking form is modelled
  /\ NextCall(MapDeviates(flags, region.offset)) /\ ~MapsTwice  \* else it fails
  /\ IF IsChanged(flags) THEN MayWrite(region.offset, n) ELSE MayRead(region.offset, n)
  /\ map_check(n, flags, region.offset)
  /\ contents' = map_buffer(contents, flags, region.offset, n)
  /\ LET shown == Part(SeenBy(contents'), region.offset, n) IN
     /\ mappings' = mappings \cup
          {[id |-> calls + 1, flags |-> flags, block |-> block, offset |-> region.offset, size |-> n,
            place |-> Place(flags), data |-> IF IsRead(flags) THEN shown ELSE Undefined(n),
            written |-> FALSE]}
     /\ answer' = IF IsRead(flags) THEN [got |-> shown, expected |-> Part(promised, region.offset, n)]
                  ELSE answer
  /\ UNCHANGED <<this, promised>>

\* The host stores the first byte if it could read the region, else all of it.
HostStored(mapping, data) ==
  [k \in DOMAIN data |-> IF IsRead(mapping.flags) /\ k > 0 THEN data[k] ELSE <<mapping.id, k>>]
HostWrites(mapping) ==
  /\ ~deviated /\ IsChanged(mapping.flags) /\ ~mapping.written
  /\ mappings' = (mappings \ {mapping}) \cup
                   {[mapping EXCEPT !.written = TRUE, !.data = HostStored(mapping, mapping.data)]}
  /\ LET stored(mem) ==
           Overwritten(mem, mapping.offset, HostStored(mapping, Part(mem, mapping.offset, mapping.size)))
     IN
     contents' = CASE mapping.place = "device" -> [contents EXCEPT !.device = stored(@)]
                 [] mapping.place = "cpu" -> [contents EXCEPT !.cpu = stored(@)]
                 [] OTHER -> contents
  /\ UNCHANGED <<this, promised, answer, calls, deviated>>

\* Discarded changes are not copied; those that need no copy may stay.
Unmap(mapping, discard) ==
  LET old == Part(promised, mapping.offset, mapping.size)
      new == IF mapping.written THEN HostStored(mapping, old) ELSE old
  IN
  /\ ~deviated /\ deviated' = UnmapDeviates(mapping, discard)
  /\ IsChanged(mapping.flags) /\ ~IsRead(mapping.flags) /\ ~discard => mapping.written
  /\ mappings' = mappings \ {mapping}
  /\ contents' = IF discard \/ ~IsChanged(mapping.flags) THEN contents ELSE unmap_buffer(contents, mapping)
  /\ promised' = IF ~discard \/ Part(contents'.device, mapping.offset, mapping.size) = new
                 THEN Overwritten(promised, mapping.offset, new) ELSE promised
  /\ UNCHANGED <<this, answer, calls>>

SourceOffsets == {0, Size \div 4}
BuffersNext ==
  \/ \E region \in Regions :
       \/ Read(region) \/ Write(region)
       \/ \E src_offset \in SourceOffsets : Copy(region, src_offset)
       \/ \E pattern_size \in PatternSizes : Fill(region, pattern_size)
       \/ \E flags \in MapFlags, block \in BOOLEAN : Map(region, flags, block)
  \/ \E mapping \in mappings :
       \/ HostWrites(mapping)
       \/ \E discard \in BOOLEAN : Unmap(mapping, discard)

BuffersSpec == BuffersInit /\ [][BuffersNext]_bufferVars

-----------------------------------------------------------------------------
\* Whatever the memory, and whatever calls came before, the buffer holds what the
\* calls should have stored, outside of the regions the host is changing; and a read
\* or a mapping shows it. The only exceptions are the calls that deviate.
ContentsAsPromised ==
  ~deviated =>
    /\ \A i \in Bytes :
         (\A mapping \in mappings : ~(Overlap(i, 1, mapping) /\ IsChanged(mapping.flags)))
           => contents.device[i] = promised[i]
    /\ answer.got = answer.expected
=============================================================================
