-------------------------- MODULE VulkanArguments --------------------------
(***************************************************************************)
(* Arguments of Vulkan functions (vulkan_args.hpp, vulkan_function.cpp,    *)
(* vulkan_shader.cpp, vulkan_indirect_command.cpp, vulkan_program.cpp,     *)
(* vulkan_pipeline.cpp): one list of arguments is dealt out to the stages  *)
(* of a pipeline, each is written into the descriptor memory of its stage, *)
(* and the memory is bound to the sets of the pipeline layout. The layouts *)
(* are made elsewhere and earlier; what is written and bound must be what  *)
(* they say.                                                               *)
(*                                                                         *)
(* Arguments are of the declared kind; how many are passed varies. Arrays  *)
(* take one binding like single objects. Checks of debug builds only are   *)
(* left out. The compiler gives the access READ_WRITE to images only.      *)
(***************************************************************************)
EXTENDS Naturals, FiniteSets, SequencesExt, TLC

CONSTANTS
  EncodeCases,  \* [path, entries, count, low_device]
  NoFunction    \* nullptr, an optional stage

Direct == {"compute", "draw", "mesh"}
Indirect == {"indirect_compute", "indirect_draw", "indirect_mesh"}
ArgumentKinds ==
  {"buffer", "constant", "inline", "read", "write", "read_write", "table", "stage_input"}

\* "table" is an argument buffer, "inline" an inline uniform block. Stages come in
\* the order VS, FS or TS, MS, FS. "low" is VULKAN_LOW_DS and VULKAN_LOW_IUB.
ASSUME EncodeAssumption ==
  \A c \in EncodeCases :
    /\ c.path \in Direct \cup Indirect \cup {"argument"}
    /\ c.count \in {"exact", "short", "long"} /\ c.low_device \in BOOLEAN
    /\ \A e \in DOMAIN c.entries : c.entries[e] # NoFunction =>
         /\ c.entries[e].args \in Seq(ArgumentKinds)
         /\ c.entries[e].printf \in BOOLEAN /\ c.entries[e].low \in BOOLEAN

VARIABLES
  encoding,          \* what is encoded: a member of EncodeCases
  progress,          \* "acquire", "set", "bind", or the outcome
  idx,               \* idx_handler, with entries and arguments from 1
  explicit_idx, implicit_idx,
  descriptors,       \* <<stage, binding>> -> descriptor, for what has been written
  constant_buffer,   \* <<stage, offset>> -> argument, likewise
  argument_buffers,  \* sequence of <<stage, argument>>
  sets               \* set -> descriptor memory, for the sets that were bound

argumentVars ==
  <<encoding, progress, idx, explicit_idx, implicit_idx, descriptors, constant_buffer,
    argument_buffers, sets>>

entries == encoding.entries
Stages == {e \in DOMAIN entries : entries[e] # NoFunction}
IsTable(kind_of_arg) == kind_of_arg = "table"
TableArgs(e) == SelectSeq([i \in DOMAIN entries[e].args |-> i], LAMBDA i : IsTable(entries[e].args[i]))

-----------------------------------------------------------------------------
\* Layouts: what the device reads

\* An argument has no, one or two bindings; the printf buffer is the last.
BindingsOf(i, arg) ==
  CASE arg \in {"table", "stage_input"} -> <<>>
    [] arg = "read"       -> <<[arg |-> i, type |-> "sampled"]>>
    [] arg = "write"      -> <<[arg |-> i, type |-> "storage"]>>
    [] arg = "read_write" -> <<[arg |-> i, type |-> "sampled"], [arg |-> i, type |-> "storage"]>>
    [] arg = "inline"     -> <<[arg |-> i, type |-> "inline"]>>
    [] OTHER              -> <<[arg |-> i, type |-> "buffer"]>>

Bindings(f) ==
  FlattenSeq([i \in DOMAIN f.args |-> BindingsOf(i, f.args[i])])
  \o IF f.printf THEN <<[arg |-> Len(f.args) + 1, type |-> "buffer"]>> ELSE <<>>

HasDescriptors(e) == e \in Stages /\ Bindings(entries[e]) # <<>>

\* Constants share one buffer; each begins at a multiple of the alignment.
ConstantSize == 3
Alignment == 2
Aligned(n) == ((n + Alignment - 1) \div Alignment) * Alignment
ConstantOffset(f, i) ==
  Aligned(FoldLeft(LAMBDA size, arg : IF arg = "constant" THEN Aligned(size) + ConstantSize ELSE size,
                   0, SubSeq(f.args, 1, i - 1)))
ConstantCells(f, i) == ConstantOffset(f, i) .. ConstantOffset(f, i) + ConstantSize - 1

StageSet(e) == [of |-> "stage", stage |-> e]
TableSet(e, i) == [of |-> "table", stage |-> e, arg |-> i]
TableSets(e) == [j \in DOMAIN TableArgs(e) |-> TableSet(e, TableArgs(e)[j])]
EmptySet == [of |-> "empty"]
SamplerSet == [of |-> "sampler"]

\* std::vector::resize: fills up, or cuts off
Resized(layouts, n) == [s \in 1..n |-> IF s \in DOMAIN layouts THEN layouts[s] ELSE EmptySet]
WithTables(layouts, e, start) ==
  IF e \notin Stages \/ TableSets(e) = <<>> THEN layouts ELSE Resized(layouts, start) \o TableSets(e)

vs_start_set == 3
ts_start_set == 4
ms_start_set == 6
fs_start_set(f) == IF f # NoFunction /\ f.low THEN 5 ELSE 9

IsCompute == encoding.path \in {"compute", "indirect_compute"}
IsMesh == encoding.path \in {"mesh", "indirect_mesh"}
StageSetOrEmpty(e) == IF e \in Stages THEN StageSet(e) ELSE EmptySet

\* Set s of the pipeline layout is PipelineLayout[s + 1].
PipelineLayout ==
  IF IsCompute THEN <<SamplerSet, StageSet(1)>> \o TableSets(1)
  ELSE IF IsMesh
  THEN LET fixed == <<SamplerSet, StageSetOrEmpty(1), StageSetOrEmpty(3), StageSet(2)>>
       IN  WithTables(WithTables(WithTables(fixed, 1, ts_start_set), 2, ms_start_set),
                      3, fs_start_set(entries[3]))
  ELSE LET fixed == <<SamplerSet, StageSet(1)>> \o IF 2 \in Stages THEN <<StageSet(2)>> ELSE <<>>
       IN  WithTables(WithTables(fixed, 1, vs_start_set), 2, fs_start_set(entries[2]))

-----------------------------------------------------------------------------
\* The caller, and what is acquired for the call

UserArgs(e) ==
  SelectSeq([i \in DOMAIN entries[e].args |-> <<e, i>>],
            LAMBDA arg : entries[e].args[arg[2]] # "stage_input")
Expected == FlattenSeq([e \in DOMAIN entries |-> IF e \in Stages THEN UserArgs(e) ELSE <<>>])
args ==
  CASE encoding.count = "exact" -> Expected
    [] encoding.count = "short" -> Front(Expected)
    [] encoding.count = "long"  -> Append(Expected, <<0, 0>>)
implicit_args == {e \in Stages : entries[e].printf}

\* The memory pre-handler and set_argument find under the number of an entry: with
\* indirect render commands the list has no element for a missing stage.
host_desc_data ==
  IF encoding.path \in {"indirect_draw", "indirect_mesh"}
  THEN SelectSeq([e \in DOMAIN entries |-> e], LAMBDA e : e \in Stages)
  ELSE [e \in DOMAIN entries |-> e]

NothingSet ==
  /\ progress = "acquire"
  /\ idx = [entry |-> 1, arg |-> 1, binding |-> 1, is_implicit |-> FALSE]
  /\ explicit_idx = 0 /\ implicit_idx = 0
  /\ descriptors = <<>> /\ constant_buffer = <<>> /\ argument_buffers = <<>> /\ sets = <<>>

ArgumentsInit ==
  /\ encoding \in EncodeCases
  /\ encoding.count = "short" => Expected # <<>>
  /\ NothingSet

NothingToSet ==
  encoding.path \in Direct /\ \A e \in Stages : ~HasDescriptors(e) /\ TableArgs(e) = <<>>
\* The flags of an optional stage are read as well.
NotLow == {e \in DOMAIN entries : e \in Stages => ~entries[e].low}

Acquire ==
  /\ progress = "acquire"
  /\ progress' =
       IF NothingToSet THEN "bind"
       ELSE IF ~encoding.low_device \/ NotLow = {} THEN "set"
       ELSE IF entries[CHOOSE e \in NotLow : \A d \in NotLow : e <= d] = NoFunction
       THEN "undefined" ELSE "refused"
  /\ UNCHANGED <<encoding, idx, explicit_idx, implicit_idx, descriptors, constant_buffer,
                 argument_buffers, sets>>

-----------------------------------------------------------------------------
\* arg_pre_handler: finds the entry and argument that come next

writtenVars == <<encoding, explicit_idx, implicit_idx, descriptors, constant_buffer, argument_buffers, sets>>

MoreArguments == explicit_idx + implicit_idx < Len(args) + Cardinality(implicit_args)
Handling == progress = "set" /\ MoreArguments
AtEntry == Handling /\ idx.entry \in Stages /\ idx.entry \in DOMAIN host_desc_data
current == entries[idx.entry]
AtArgument == AtEntry /\ idx.arg \in DOMAIN current.args
AtPrintf == AtEntry /\ current.printf /\ idx.arg = Len(current.args) + 1

OutOfEntries ==
  /\ Handling /\ idx.entry \notin DOMAIN entries
  /\ progress' = "refused" /\ UNCHANGED <<idx, writtenVars>>

NoHostMemory ==
  /\ Handling /\ idx.entry \in Stages \ DOMAIN host_desc_data
  /\ progress' = "undefined" /\ UNCHANGED <<idx, writtenVars>>

SkipMissingStage ==
  /\ Handling /\ idx.entry \in DOMAIN entries \ Stages
  /\ idx' = [idx EXCEPT !.entry = @ + 1]
  /\ UNCHANGED <<progress, writtenVars>>

SkipNonUserArg ==
  /\ AtArgument /\ current.args[idx.arg] = "stage_input"
  /\ idx' = [idx EXCEPT !.arg = @ + 1]
  /\ UNCHANGED <<progress, writtenVars>>

NextEntry ==
  /\ AtEntry /\ ~AtArgument /\ ~AtPrintf
  /\ idx' = [entry |-> idx.entry + 1, arg |-> 1, binding |-> 1, is_implicit |-> FALSE]
  /\ UNCHANGED <<progress, writtenVars>>

-----------------------------------------------------------------------------
\* set_arguments: one argument at a time

\* Mutation: a read/write image advances by one binding only.
arg_post_handler_once(arg, at) ==
  [at EXCEPT !.arg = @ + 1, !.binding = IF arg = "table" THEN @ ELSE @ + 1]

arg_post_handler(arg, at) ==
  [at EXCEPT !.arg = @ + 1,
             !.binding = @ + (IF arg = "read_write" THEN 1 ELSE 0) + (IF arg = "table" THEN 0 ELSE 1)]

MemoryOf(binding) == <<host_desc_data[idx.entry], binding>>
Descriptor(arg, type) == [arg |-> arg, type |-> type]

set_argument(arg, value) ==
  CASE arg = "read"       -> MemoryOf(idx.binding) :> Descriptor(value, "sampled")
    [] arg = "write"      -> MemoryOf(idx.binding) :> Descriptor(value, "storage")
    [] arg = "read_write" -> MemoryOf(idx.binding) :> Descriptor(value, "sampled")
                             @@ MemoryOf(idx.binding + 1) :> Descriptor(value, "storage")
    [] arg = "inline"     -> MemoryOf(idx.binding) :> Descriptor(value, "inline")
    [] arg = "constant"   -> MemoryOf(idx.binding) :>
                               Descriptor(<<"constant", idx.entry, ConstantOffset(current, idx.arg)>>, "buffer")
    [] OTHER              -> MemoryOf(idx.binding) :> Descriptor(value, "buffer")

SetArgument ==
  /\ AtArgument /\ current.args[idx.arg] # "stage_input" /\ explicit_idx < Len(args)
  /\ LET arg == current.args[idx.arg]
         given == args[explicit_idx + 1]
     IN  /\ explicit_idx' = explicit_idx + 1
         /\ argument_buffers' = IF arg = "table" THEN Append(argument_buffers, <<idx.entry, given>>)
                                ELSE argument_buffers
         /\ descriptors' = IF arg = "table" THEN descriptors ELSE set_argument(arg, given) @@ descriptors
         /\ constant_buffer' =
              IF arg # "constant" THEN constant_buffer
              ELSE [cell \in {<<idx.entry, n>> : n \in ConstantCells(current, idx.arg)} |-> given]
                   @@ constant_buffer
         /\ idx' = arg_post_handler(arg, idx)
  /\ UNCHANGED <<encoding, progress, implicit_idx, sets>>

\* The list is shorter than the arguments of the stages: args[explicit_idx] is
\* behind its end (the count includes the implicit arguments that are still to come).
ReadBehindArgs ==
  /\ AtArgument /\ current.args[idx.arg] # "stage_input" /\ explicit_idx = Len(args)
  /\ progress' = "undefined" /\ UNCHANGED <<idx, writtenVars>>

SetPrintfBuffer ==
  /\ AtPrintf
  /\ implicit_idx' = implicit_idx + 1
  /\ descriptors' = MemoryOf(idx.binding) :> Descriptor("printf", "buffer") @@ descriptors
  /\ idx' = [arg_post_handler("buffer", idx) EXCEPT !.is_implicit = TRUE]
  /\ UNCHANGED <<encoding, progress, explicit_idx, constant_buffer, argument_buffers, sets>>

MaxTables(f) ==
  IF IsCompute THEN (IF f.low THEN 5 ELSE 14) ELSE (IF f.low THEN 2 ELSE 6)
TablesOf(e) == SelectSeq(argument_buffers, LAMBDA table : table[1] = e)

SetArgumentsEnds ==
  /\ progress = "set" /\ ~MoreArguments
  /\ progress' = IF \E e \in Stages : Len(TablesOf(e)) > MaxTables(entries[e]) THEN "refused" ELSE "bind"
  /\ UNCHANGED <<idx, writtenVars>>

-----------------------------------------------------------------------------
\* Binding: vkCmdBindDescriptorBuffersEXT takes the acquired descriptor buffers (for
\* indirect commands one buffer with the memory of all stages), then the argument
\* buffers; vkCmdSetDescriptorBufferOffsets2EXT assigns them to sets.

SetsFrom(first, memories) == [s \in first .. first + Len(memories) - 1 |-> memories[s - first + 1]]
Acquired == SelectSeq([e \in DOMAIN entries |-> StageSet(e)], LAMBDA set : HasDescriptors(set.stage))
TablesFrom(first, e) ==
  SetsFrom(first, [j \in DOMAIN TablesOf(e) |-> TableSet(TablesOf(e)[j][2][1], TablesOf(e)[j][2][2])])

ComputeSets ==
  SetsFrom(IF Acquired = <<>> THEN 2 ELSE 1, Acquired)
  @@ TablesFrom(2, 1)

DrawSets ==
  SetsFrom(IF HasDescriptors(1) THEN 1 ELSE 2, Acquired)
  @@ TablesFrom(fs_start_set(entries[2]), 2) @@ TablesFrom(vs_start_set, 1)

\* Acquired in the order TS, MS, FS; each is set individually.
MeshSet(e) == <<1, 3, 2>>[e]
MeshSets ==
  [s \in {MeshSet(e) : e \in {d \in Stages : HasDescriptors(d)}} |->
     StageSet(CHOOSE e \in Stages : MeshSet(e) = s)]
  @@ TablesFrom(IF encoding.path = "mesh" THEN 9 ELSE fs_start_set(entries[3]), 3)
  @@ TablesFrom(ms_start_set, 2) @@ TablesFrom(ts_start_set, 1)

\* A direct mesh draw looks at the task and the fragment shader without a check.
Dereferenced == encoding.path = "mesh" /\ (Acquired # <<>> \/ argument_buffers # <<>>)

Bind ==
  /\ progress = "bind"
  /\ IF Dereferenced /\ {1, 3} \ Stages # {}
     THEN progress' = "undefined" /\ sets' = sets
     ELSE /\ progress' = "bound"
          /\ sets' = CASE IsCompute -> ComputeSets
                       [] IsMesh -> MeshSets
                       [] encoding.path = "argument" -> sets
                       [] OTHER -> DrawSets
  /\ UNCHANGED <<encoding, idx, explicit_idx, implicit_idx, descriptors, constant_buffer, argument_buffers>>

ArgumentsNext ==
  \/ Acquire
  \/ OutOfEntries \/ NoHostMemory \/ SkipMissingStage \/ SkipNonUserArg \/ NextEntry
  \/ SetArgument \/ ReadBehindArgs \/ SetPrintfBuffer
  \/ SetArgumentsEnds \/ Bind

-----------------------------------------------------------------------------
\* Properties

\* Known deviations: a stage that is left out where the code does not expect it ...
StageIsMissing ==
  Stages # DOMAIN entries /\ (encoding.low_device \/ encoding.path \in {"mesh", "indirect_mesh"})
\* ... and more argument buffers, each accepted, than sets up to those of the next stage.
FirstTableSet(e) ==
  IF e = Len(entries) THEN fs_start_set(entries[e])
  ELSE IF IsMesh THEN <<ts_start_set, ms_start_set>>[e] ELSE vs_start_set
TableSetsOverlap ==
  ~IsCompute /\ \E e, d \in Stages :
    e < d /\ TableArgs(d) # <<>> /\ FirstTableSet(e) + Len(TableArgs(e)) > FirstTableSet(d)

\* The device finds each argument of stage e where the layouts say.
DescriptorsAgree(e) ==
  \A b \in DOMAIN Bindings(entries[e]) :
    LET binding == Bindings(entries[e])[b]
        f == entries[e]
        found == descriptors[<<e, b>>]
    IN  /\ <<e, b>> \in DOMAIN descriptors
        /\ found.type = binding.type
        /\ IF binding.arg > Len(f.args) THEN found.arg = "printf"
           ELSE IF f.args[binding.arg] # "constant" THEN found.arg = <<e, binding.arg>>
           ELSE /\ found.arg = <<"constant", e, ConstantOffset(f, binding.arg)>>
                /\ \A n \in ConstantCells(f, binding.arg) : constant_buffer[<<e, n>>] = <<e, binding.arg>>

SetsAgree ==
  \A s \in DOMAIN PipelineLayout :
    LET set == PipelineLayout[s]
        used == set.of = "table" \/ (set.of = "stage" /\ HasDescriptors(set.stage))
    IN  used => s - 1 \in DOMAIN sets /\ sets[s - 1] = set

TablesAreReached ==
  \A e \in Stages : \A i \in DOMAIN entries[e].args :
    IsTable(entries[e].args[i]) => \E s \in DOMAIN PipelineLayout : PipelineLayout[s] = TableSet(e, i)

AllInPlace ==
  /\ \A e \in Stages : DescriptorsAgree(e)
  /\ encoding.path # "argument" => SetsAgree /\ TablesAreReached

\* With as many arguments as the stages declare, the device finds every one of them:
\* in the memory that is bound to the set of its stage, at its binding, as the kind of
\* descriptor the function expects, constants whole. Too many arguments are refused
\* unless no stage takes any. Nothing else is refused but what the device cannot have,
\* and only the known deviations leave what C++ defines.
ArgumentsLandRight ==
  /\ progress = "bound" /\ encoding.count = "exact" /\ ~StageIsMissing /\ ~TableSetsOverlap => AllInPlace
  /\ progress = "bound" => encoding.count # "long" \/ NothingToSet
  /\ progress = "refused" =>
       \/ encoding.count = "long"
       \/ encoding.low_device /\ NotLow # {}
       \/ \E e \in Stages : Len(TableArgs(e)) > MaxTables(entries[e])
  /\ progress = "undefined" => StageIsMissing \/ encoding.count = "short"

\* "any of them may be optional": a pipeline without a task or fragment shader gets
\* its arguments like any other.
StagesAreOptional ==
  encoding.count = "exact" =>
    progress # "undefined" /\ (progress = "bound" /\ ~TableSetsOverlap => AllInPlace)
=============================================================================
