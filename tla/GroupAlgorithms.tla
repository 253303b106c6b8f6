-------------------------- MODULE GroupAlgorithms --------------------------
(***************************************************************************)
(* The work-group algorithms of include/floor/device/backend/algorithm.hpp *)
(* (reduce, inclusive and exclusive scan) as the work-items of one group   *)
(* execute them. Between two barriers the items run in any order; what     *)
(* they read and write of the local memory in that time is recorded, so    *)
(* that a missing barrier shows as a race. On Host-Compute the items are   *)
(* fibers of one thread that run one after the other (see HostExec).       *)
(*                                                                         *)
(* The binary function is concatenation: a value is the sequence of inputs *)
(* it was made from, so a result names each input it contains, how often   *)
(* and in which order. The neutral element (init_val) is <<>>.             *)
(***************************************************************************)
EXTENDS Naturals, FiniteSets, Sequences

CONSTANTS
  Cases,   \* the calls to check, see CaseType
  Calls    \* how often each item calls the function with the same memory

\* A call: function, size of the group, width of a sub-group, its minimum on
\* this device, and what the device supports.
CaseType ==
  [ fn : {"reduce", "inclusive", "exclusive"}, size : Nat \ {0}, simd : Nat \ {0},
    simd_min : Nat \ {0},
    supported : BOOLEAN,   \* supports_v<SUB_GROUP_..., op, data_type>
    supported32 : BOOLEAN, \* ... with uint32_t as data_type
    shuffle : BOOLEAN,     \* has_sub_group_scan()
    host : BOOLEAN,        \* FLOOR_DEVICE_HOST_COMPUTE
    apple : BOOLEAN ]      \* FLOOR_DEVICE_INFO_VENDOR_APPLE

\* pot_simd: every divisor but 1 is even
IsPowerOf2(n) == \A d \in 2..n : n % d = 0 => d % 2 = 0
\* The sizes the functions with sub-groups are made for: whole sub-groups, not more
\* of them than a sub-group has lanes, and as many lanes as the butterfly needs.
RegularSize(c) == IsPowerOf2(c.simd) /\ c.size % c.simd = 0 /\ c.size \div c.simd <= c.simd

ASSUME CasesAssumption ==
  /\ Cases \subseteq CaseType /\ Calls \in Nat \ {0}
  /\ \A c \in Cases : /\ c.simd_min <= c.simd
                      /\ c.supported \/ (c.fn # "reduce" /\ c.shuffle) => RegularSize(c)
                      /\ c.apple => IsPowerOf2(c.simd)

VARIABLES
  case,      \* the call being checked
  call,      \* call[i]: which of its calls item i executes
  pc,        \* pc[i]: the segment item i executes next
  waiting,   \* the items that wait at the barrier before that segment
  offset,    \* offset[i]: loop variable (i of reduce, offset of scan)
  side_idx,  \* side_idx[i]: the half of the memory scan reads
  value,     \* value[i]: value of the item
  group_val, \* group_val[i]: value of a lane in the second pass
  lmem,      \* local memory
  accesses,  \* <<item, cell, write>> since the last local_barrier()
  result     \* result[i]: what the last finished call returned

groupVars == <<case, call, pc, waiting, offset, side_idx, value, group_val, lmem, accesses, result>>

Items == 0..case.size - 1
Group(i) == i \div case.simd
Lane(i) == i % case.simd
Lanes(g) == {i \in Items : Group(i) = g}
GroupCount == case.size \div case.simd
Input(i, k) == <<<<k, i>>>>
\* what local memory holds before the first store
Garbage == <<<<0, 0>>>>

\* Which implementation reduce_$op, inclusive_scan_op and exclusive_scan_op choose.
Algorithm ==
  CASE case.fn = "reduce" /\ case.supported -> "sub_group_reduce"
    [] case.fn = "reduce" /\ ~case.supported -> IF case.host THEN "host_reduce" ELSE "reduce"
    [] case.fn # "reduce" /\ case.supported -> "scan_op"
    [] case.fn # "reduce" /\ ~case.supported /\ case.shuffle -> "sub_group_scan"
    [] OTHER -> IF case.host THEN "host_scan" ELSE "scan"

\* reduce_local_memory_elements
ReduceElements == IF case.supported THEN case.size \div case.simd_min ELSE case.size
\* Mutation: room for one half only.
ScanElementsOneHalf == IF case.supported32 THEN case.size \div case.simd_min ELSE case.size
\* scan_local_memory_elements: the support of uint32_t counts, for every data type
ScanElements ==
  CASE case.supported32 -> case.size \div case.simd_min
    [] ~case.supported32 /\ case.shuffle /\ ~case.host ->
         IF case.simd > GroupCount THEN case.simd ELSE GroupCount
    [] OTHER -> 2 * case.size
LocalElements == IF case.fn = "reduce" THEN ReduceElements ELSE ScanElements

GroupsInit ==
  /\ case \in Cases
  /\ call = [i \in Items |-> 1]
  /\ pc = [i \in Items |-> "begin"]
  /\ waiting = {}
  /\ offset = [i \in Items |-> 0]
  /\ side_idx = [i \in Items |-> 0]
  /\ value = [i \in Items |-> Input(i, 1)]
  /\ group_val = [i \in Items |-> <<>>]
  /\ lmem = [a \in 0..2 * case.size - 1 |-> Garbage]
  /\ accesses = {}
  /\ result = [i \in Items |-> <<>>]

-----------------------------------------------------------------------------
\* Sub-group functions: all lanes take part in each exchange.

\* lane ^ d for a power of two d
LaneXor(l, d) == IF (l \div d) % 2 = 0 THEN l + d ELSE l - d

\* host_compute_sub_group_reduce, cuda_sub_group_reduce: butterfly over the lanes
ReducePass(u, d) == [l \in DOMAIN u |-> u[l] \o u[LaneXor(l, d)]]

\* simd_shuffle_up(v, d); lanes below d keep their own value
ShuffleUp(v, d) == [l \in DOMAIN v |-> IF l >= d THEN v[l - d] ELSE v[l]]

\* host_compute_sub_group_scan, cuda_sub_group_scan: op(lane_var, shfled_var)
ScanPass(u, d) == [l \in DOMAIN u |-> IF l >= d THEN u[l] \o ShuffleUp(u, d)[l] ELSE u[l]]

\* the loop in scan(): op(shfled_var, scan_value)
OrderedPass(u, d) == [l \in DOMAIN u |-> IF l >= d THEN ShuffleUp(u, d)[l] \o u[l] ELSE u[l]]

\* The pass after which 2, 4, ..., n lanes have been combined: reduce halves the stride,
\* the scans double it.
Pass(u, n) ==
  CASE Algorithm = "sub_group_reduce" -> ReducePass(u, case.simd \div n)
    [] Algorithm = "scan_op" -> ScanPass(u, n \div 2)
    [] OTHER -> OrderedPass(u, n \div 2)
\* The loop over the strides in a sub-group with the values v
SubGroupLoop(v) ==
  LET u[n \in 1..case.simd] == IF n = 1 THEN v ELSE Pass(u[n \div 2], n)
  IN u[case.simd]

\* f[i], with the lanes of sub-group g numbered from 0, and back
LaneValues(f, g) == [l \in 0..case.simd - 1 |-> f[g * case.simd + l]]
WithLanes(f, g, v) == [i \in Items |-> IF Group(i) = g THEN v[Lane(i)] ELSE f[i]]

-----------------------------------------------------------------------------
\* Control

\* A fiber runs until its next barrier; the order is that of the items.
FiberOrder(i) == case.host => \A j \in Items : j < i => (j \in waiting \/ call[j] > Calls)

At(i, label) == pc[i] = label /\ i \notin waiting /\ call[i] <= Calls /\ FiberOrder(i)
Go(i, label) == pc' = [pc EXCEPT ![i] = label] /\ waiting' = waiting
BarrierThen(i, label) == pc' = [pc EXCEPT ![i] = label] /\ waiting' = waiting \cup {i}

Reads(i, cells) == {<<i, a, FALSE>> : a \in cells}
Writes(i, cells) == {<<i, a, TRUE>> : a \in cells}
Access(s) == accesses' = accesses \cup s

\* On Apple reduce begins the rounds within the width of a sub-group without a barrier:
\* its lanes are in lock step. They are those of the first sub-group; the items of the
\* others, which have nothing to read or write in these rounds, here go along with them.
SkipsBarrier(i) == case.apple /\ pc[i] = "fold" /\ offset[i] < case.simd

\* local_barrier(): all items have arrived. Where there is none, but the items go on to
\* the next round, what they accessed before stays in accesses.
Barrier ==
  /\ waiting = Items
  /\ waiting' = {}
  /\ accesses' = IF \E i \in Items : SkipsBarrier(i) THEN accesses ELSE {}
  /\ UNCHANGED <<case, call, pc, offset, side_idx, value, group_val, lmem, result>>

\* The item returns v and calls again. reduce() ends without a barrier, so its
\* caller needs one before the memory is used again.
Return(i, v) ==
  /\ result' = [result EXCEPT ![i] = v]
  /\ call' = [call EXCEPT ![i] = @ + 1]
  /\ value' = [value EXCEPT ![i] = Input(i, call[i] + 1)]
  /\ IF Algorithm \in {"reduce", "host_reduce"} /\ call[i] < Calls
     THEN BarrierThen(i, "begin") ELSE Go(i, "begin")

-----------------------------------------------------------------------------
\* reduce and the stores that begin scan

\* lmem[lid] = value
Store(i) ==
  /\ At(i, "begin") /\ Algorithm \in {"reduce", "host_reduce", "scan", "host_scan"}
  /\ lmem' = [lmem EXCEPT ![i] = value[i]]
  /\ Access(Writes(i, {i}))
  /\ offset' = [offset EXCEPT ![i] = IF Algorithm = "reduce" THEN case.size \div 2 ELSE 1]
  /\ side_idx' = [side_idx EXCEPT ![i] = 0]
  /\ BarrierThen(i, CASE Algorithm = "reduce" -> "fold"
                      [] Algorithm = "scan" -> IF 1 < case.size THEN "step" ELSE "last"
                      [] OTHER -> "first_item")
  /\ UNCHANGED <<case, call, value, group_val, result>>

\* One round of the butterfly: the lower half adds the upper half.
Folded(i) == IF i < offset[i] THEN value[i] \o lmem[i + offset[i]] ELSE value[i]
Fold(i) ==
  /\ At(i, "fold")
  /\ LET stores == i < offset[i] /\ offset[i] > 1 IN
       /\ lmem' = IF stores THEN [lmem EXCEPT ![i] = Folded(i)] ELSE lmem
       /\ Access((IF i < offset[i] THEN Reads(i, {i + offset[i]}) ELSE {})
                 \cup (IF stores THEN Writes(i, {i}) ELSE {}))
  /\ offset' = [offset EXCEPT ![i] = @ \div 2]
  /\ IF offset[i] \div 2 > 0
     THEN /\ value' = [value EXCEPT ![i] = Folded(i)]
          /\ BarrierThen(i, "fold")
          /\ UNCHANGED <<call, result>>
     ELSE Return(i, Folded(i))
  /\ UNCHANGED <<case, side_idx, group_val>>

\* Host-Compute: the first item reduces or scans, the others read.
\* arr[k] = op(arr[k - 1], arr[k])
HostPrefix(k) ==
  LET folded[n \in Items] == IF n = 0 THEN lmem[0] ELSE folded[n - 1] \o lmem[n]
  IN folded[k]
HostFold == HostPrefix(case.size - 1)
HostReduce(i) ==
  /\ At(i, "first_item") /\ Algorithm = "host_reduce"
  /\ lmem' = IF i = 0 THEN [lmem EXCEPT ![0] = HostFold] ELSE lmem
  /\ Return(i, lmem'[0])
  /\ UNCHANGED <<case, offset, side_idx, group_val, accesses>>

HostScan(i) ==
  /\ At(i, "first_item") /\ Algorithm = "host_scan"
  /\ lmem' = IF i = 0 THEN [a \in DOMAIN lmem |-> IF a \in Items THEN HostPrefix(a) ELSE lmem[a]]
             ELSE lmem
  /\ value' = [value EXCEPT ![i] = CASE case.fn = "inclusive" -> lmem'[i]
                                     [] case.fn # "inclusive" /\ i = 0 -> <<>>
                                     [] OTHER -> lmem'[i - 1]]
  /\ BarrierThen(i, "return")
  /\ UNCHANGED <<case, call, offset, side_idx, group_val, accesses, result>>

-----------------------------------------------------------------------------
\* scan without sub-groups: two halves of the memory, read one, write the other

Scanned(i) == IF i >= offset[i] THEN lmem[side_idx[i] + i - offset[i]] \o value[i] ELSE value[i]
ScanStep(i) ==
  /\ At(i, "step")
  /\ LET side == case.size - side_idx[i] IN
       /\ lmem' = [lmem EXCEPT ![side + i] = Scanned(i)]
       /\ side_idx' = [side_idx EXCEPT ![i] = side]
       /\ Access(Writes(i, {side + i})
                 \cup (IF i >= offset[i] THEN Reads(i, {side_idx[i] + i - offset[i]}) ELSE {}))
  /\ value' = [value EXCEPT ![i] = Scanned(i)]
  /\ offset' = [offset EXCEPT ![i] = 2 * @]
  /\ BarrierThen(i, IF 2 * offset[i] < case.size THEN "step" ELSE "last")
  /\ UNCHANGED <<case, call, group_val, result>>

\* inclusive: the value; exclusive: the neighbour's, and a barrier
ScanLast(i) ==
  /\ At(i, "last")
  /\ IF case.fn = "inclusive"
     THEN Return(i, value[i]) /\ accesses' = accesses
     ELSE /\ value' = [value EXCEPT ![i] = IF i = 0 THEN <<>> ELSE lmem[side_idx[i] + i - 1]]
          /\ Access(IF i = 0 THEN {} ELSE Reads(i, {side_idx[i] + i - 1}))
          /\ BarrierThen(i, "return")
          /\ UNCHANGED <<call, result>>
  /\ UNCHANGED <<case, offset, side_idx, group_val, lmem>>

ReturnValue(i) ==
  /\ At(i, "return")
  /\ Return(i, value[i])
  /\ UNCHANGED <<case, offset, side_idx, group_val, lmem, accesses>>

-----------------------------------------------------------------------------
\* The implementations with sub-groups: a pass in each sub-group, a pass over
\* their results in the first one, and for scan the offset of the sub-group.

SubGroupAt(g, label) == \A i \in Lanes(g) : pc[i] = label /\ i \notin waiting /\ call[i] <= Calls

FirstPass(g) ==
  /\ Algorithm \in {"sub_group_reduce", "scan_op", "sub_group_scan"}
  /\ SubGroupAt(g, "begin")
  /\ value' = WithLanes(value, g, SubGroupLoop(LaneValues(value, g)))
  /\ pc' = [i \in Items |-> IF Group(i) = g THEN "publish" ELSE pc[i]]
  /\ UNCHANGED <<case, call, waiting, offset, side_idx, group_val, lmem, accesses, result>>

\* The first (reduce) or last (scan) lane stores the result of its sub-group.
Publisher == IF case.fn = "reduce" THEN 0 ELSE case.simd - 1
Publish(i) ==
  /\ At(i, "publish")
  /\ IF Lane(i) = Publisher
     THEN lmem' = [lmem EXCEPT ![Group(i)] = value[i]] /\ Access(Writes(i, {Group(i)}))
     ELSE UNCHANGED <<lmem, accesses>>
  /\ BarrierThen(i, "second")
  /\ UNCHANGED <<case, call, offset, side_idx, value, group_val, result>>

\* Mutation: every lane takes what is in the memory.
SecondInputOfAllLanes(l) == lmem[l]
\* The first sub-group combines the results; lanes without one take the neutral
\* element. reduce: the others return reduced_type {}.
SecondInput(l) == IF l < GroupCount THEN lmem[l] ELSE <<>>
SecondPass ==
  /\ SubGroupAt(0, "second")
  /\ LET v == [l \in 0..case.simd - 1 |-> SecondInput(l)]
     IN IF case.fn = "reduce"
        THEN value' = WithLanes(value, 0, SubGroupLoop(v)) /\ UNCHANGED group_val
        ELSE group_val' = WithLanes(group_val, 0, SubGroupLoop(v)) /\ UNCHANGED value
  /\ Access(UNION {Reads(i, {Lane(i)} \cap 0..GroupCount - 1) : i \in Lanes(0)})
  /\ pc' = [i \in Items |-> IF Group(i) = 0 THEN "offsets" ELSE pc[i]]
  /\ UNCHANGED <<case, call, waiting, offset, side_idx, lmem, result>>

\* scan: the first lanes store the combined results
StoreOffsets(i) ==
  /\ At(i, "offsets")
  /\ IF case.fn # "reduce" /\ Lane(i) < GroupCount
     THEN lmem' = [lmem EXCEPT ![Lane(i)] = group_val[i]] /\ Access(Writes(i, {Lane(i)}))
     ELSE UNCHANGED <<lmem, accesses>>
  /\ BarrierThen(i, IF case.fn = "reduce" THEN "return" ELSE "combine")
  /\ UNCHANGED <<case, call, offset, side_idx, value, group_val, result>>

SkipSecond(i) ==
  /\ At(i, "second") /\ Group(i) # 0
  /\ value' = IF case.fn = "reduce" THEN [value EXCEPT ![i] = <<>>] ELSE value
  /\ BarrierThen(i, IF case.fn = "reduce" THEN "return" ELSE "combine")
  /\ UNCHANGED <<case, call, offset, side_idx, group_val, lmem, accesses, result>>

\* Each item adds the result of the sub-groups before its own; exclusive scans
\* shift the values of the lanes up by one. A barrier lets the memory be used again.
Combine(g) ==
  /\ SubGroupAt(g, "combine")
  /\ LET before == IF g = 0 THEN <<>> ELSE lmem[g - 1]
         v == LaneValues(value, g)
         own == IF case.fn = "inclusive" THEN v
                ELSE [l \in DOMAIN v |-> IF l = 0 THEN <<>> ELSE ShuffleUp(v, 1)[l]]
     IN value' = WithLanes(value, g, [l \in DOMAIN v |-> before \o own[l]])
  /\ Access(IF g = 0 THEN {} ELSE UNION {Reads(i, {g - 1}) : i \in Lanes(g)})
  /\ pc' = [i \in Items |-> IF Group(i) = g THEN "return" ELSE pc[i]]
  /\ waiting' = waiting \cup Lanes(g)
  /\ UNCHANGED <<case, call, offset, side_idx, group_val, lmem, result>>

-----------------------------------------------------------------------------
Finished == (\A i \in Items : call[i] > Calls) /\ UNCHANGED groupVars

ItemStep(i) ==
  \/ Store(i) \/ Fold(i) \/ HostReduce(i) \/ HostScan(i)
  \/ ScanStep(i) \/ ScanLast(i) \/ ReturnValue(i)
  \/ Publish(i) \/ StoreOffsets(i) \/ SkipSecond(i)

GroupsNext ==
  \/ Barrier
  \/ \E i \in Items : ItemStep(i)
  \/ \E g \in 0..GroupCount - 1 : FirstPass(g) \/ Combine(g)
  \/ SecondPass
  \/ Finished
GroupsSpec == GroupsInit /\ [][GroupsNext]_groupVars

-----------------------------------------------------------------------------
\* Properties

Inputs(n, k) == [j \in 1..n |-> <<k, j - 1>>]
SameElements(s, t) ==
  Len(s) = Len(t) /\ \A e \in {s[j] : j \in DOMAIN s} \cup {t[j] : j \in DOMAIN t} :
    Cardinality({j \in DOMAIN s : s[j] = e}) = Cardinality({j \in DOMAIN t : t[j] = e})

\* What reduce returns in item 0 ("only work-item #0 is guaranteed to contain the
\* final result") is made of the input of each item, each exactly once.
ReduceIsWhole ==
  case.fn = "reduce" /\ call[0] > 1 => SameElements(result[0], Inputs(case.size, call[0] - 1))
\* The halved loop of the generic reduce loses items of a group whose size is not a
\* power of two.
HalvesEvenly == Algorithm = "reduce" => IsPowerOf2(case.size)

\* A scan returns in item i the inputs of the items up to i (exclusive: before i),
\* each once, of this call and no other. The generic scan(), whose function need
\* not be commutative, keeps their order.
ScanIsPrefix ==
  \A i \in Items : case.fn # "reduce" /\ call[i] > 1 =>
    LET expected == Inputs(IF case.fn = "inclusive" THEN i + 1 ELSE i, call[i] - 1)
    IN IF case.supported THEN SameElements(result[i], expected) ELSE result[i] = expected

\* Apple: lanes of one sub-group are in lock step and need no barrier between rounds.
InLockStep(i, j) == case.apple /\ Algorithm = "reduce" /\ Group(i) = Group(j)
\* A group whose size is not a power of two: its halves do not end at the width of a
\* sub-group, and the barrier is missing between items of two of them.
AppleMissesBarrier == case.apple /\ ~HalvesEvenly

\* No item writes a cell of the local memory that another one reads or writes
\* between the same two barriers, neither in a call nor from one call to the next,
\* unless the two are lanes in lock step. On Apple, where a reduction leaves barriers
\* out, this needs a group whose size is a power of two.
NoLocalRace ==
  \/ AppleMissesBarrier
  \/ \A a, b \in accesses : a[1] # b[1] /\ a[2] = b[2] /\ ~InLockStep(a[1], b[1]) => ~a[3] /\ ~b[3]

\* The functions stay inside the memory that reduce_local_memory_elements and
\* scan_local_memory_elements tell the caller to allocate; but for a scan of a type
\* without sub-group functions where uint32_t has them, which gets too little.
InLocalMemory ==
  case.supported \/ ~case.supported32 \/ case.fn = "reduce"
  => \A a \in accesses : a[2] < LocalElements

\* Both results are exact: every input is there, once and in its place.
ResultsAreExact == (HalvesEvenly => ReduceIsWhole) /\ ScanIsPrefix

\* The local memory is free of races and large enough.
LocalMemoryIsSafe == NoLocalRace /\ InLocalMemory
=============================================================================
