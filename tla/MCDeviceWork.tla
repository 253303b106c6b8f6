---------------------------- MODULE MCDeviceWork ----------------------------
(***************************************************************************)
(* Memory objects and what is executed on them: the resource registry, the *)
(* operations of buffers, shared and locked Host-Compute buffers, layouts  *)
(* of Vulkan images, the algorithms of a work-group, arguments of Vulkan   *)
(* functions and the memory leased for them, and indirect commands. The    *)
(* parts have no state in common, so a behaviour is one of one part.       *)
(***************************************************************************)
EXTENDS ResourceRegistry, BufferSharing, BufferLocks, GroupAlgorithms, VulkanImages,
        IndirectCommands, BufferOperations, VulkanArguments, ArgumentLeases

CONSTANTS Parts, i1, i2

VARIABLE part

memoryVars == <<registryVars, sharingVars, lockVars, bufferVars>>
vars == <<part, memoryVars, groupVars, imageVars, indirectVars, argumentVars, leaseVars>>

NoImages ==
  /\ kind = CHOOSE k \in KindCases : TRUE
  /\ cur = [i \in Images |-> Created(i)] /\ actual = [i \in Images |-> cur[i].layout]
  /\ mapped = [i \in Images |-> {}] /\ renderer = NoRenderer
  /\ wrong = {} /\ strayed = {}

NoBuffer ==
  /\ this = CHOOSE b \in BufferCases : TRUE
  /\ promised = [i \in Bytes |-> <<0, i>>]
  /\ contents = [device |-> promised, staging |-> promised, cpu |-> promised]
  /\ mappings = {} /\ answer = [got |-> <<>>, expected |-> <<>>] /\ calls = 0 /\ deviated = FALSE

Init ==
  /\ part \in Parts
  /\ IF part = "registry" THEN RegistryInit ELSE RegistryInit /\ resource_registry_enabled
  /\ IF part = "sharing" THEN SharingInit
     ELSE /\ flags = handle_memory_flags("manual", {}, {}) /\ latest = 0
          /\ shared_buffer = 0 /\ buffer = 0 /\ shared_object_state = FALSE
          /\ seen = [by |-> "nobody", content |-> 0, latest |-> 0]
          /\ unwritten = FALSE /\ stray = FALSE
  /\ LocksInit
  /\ IF part = "buffers" THEN BuffersInit ELSE NoBuffer
  /\ IF part = "groups" THEN GroupsInit ELSE GroupsInit /\ case = CHOOSE c \in Cases : TRUE
  /\ IF part = "images" THEN ImagesInit ELSE NoImages
  /\ IF part = "indirect" THEN IndirectInit ELSE IndirectInit /\ backend = "host"
  /\ IF part = "arguments" THEN ArgumentsInit
     ELSE encoding = (CHOOSE c \in EncodeCases : TRUE) /\ NothingSet
  /\ LeasesInit

WorkNext ==
  \/ part = "groups" /\ GroupsNext /\ UNCHANGED <<part, imageVars, indirectVars, argumentVars, leaseVars>>
  \/ part = "images" /\ ImagesNext /\ UNCHANGED <<part, groupVars, indirectVars, argumentVars, leaseVars>>
  \/ part = "indirect" /\ IndirectNext /\ UNCHANGED <<part, groupVars, imageVars, argumentVars, leaseVars>>
  \/ part = "arguments" /\ ArgumentsNext /\ UNCHANGED <<part, groupVars, imageVars, indirectVars, leaseVars>>
  \/ part = "leases" /\ LeasesNext /\ UNCHANGED <<part, groupVars, imageVars, indirectVars, argumentVars>>
MemoryNext ==
  \/ part = "registry" /\ RegistryNext /\ UNCHANGED <<part, sharingVars, lockVars, bufferVars>>
  \/ part = "sharing" /\ SharingNext /\ UNCHANGED <<part, registryVars, lockVars, bufferVars>>
  \/ part = "locks" /\ LocksNext /\ UNCHANGED <<part, registryVars, sharingVars, bufferVars>>
  \/ part = "buffers" /\ BuffersNext /\ UNCHANGED <<part, registryVars, sharingVars, lockVars>>
\* All but groups may stop: copies in opposite directions block, images and indirect
\* commands are given up when they stray. Groups always finish.
Next ==
  \/ WorkNext /\ UNCHANGED memoryVars
  \/ MemoryNext /\ UNCHANGED <<groupVars, imageVars, indirectVars, argumentVars, leaseVars>>
  \/ part # "groups" /\ UNCHANGED vars

Spec == Init /\ [][Next]_vars

-----------------------------------------------------------------------------
\* Calls of group functions

Call(fn, size, simd, supported, shuffle, host) ==
  [fn |-> fn, size |-> size, simd |-> simd, simd_min |-> simd, supported |-> supported,
   supported32 |-> supported, shuffle |-> shuffle, host |-> host, apple |-> FALSE]
\* reduce on Apple: the last rounds, all of them (one sub-group), or 3, where items of two
\* sub-groups meet, begin without a barrier
OnApple(size, simd) == [Call("reduce", size, simd, FALSE, FALSE, FALSE) EXCEPT !.apple = TRUE]

\* The last ones: a device whose sub-groups have a varying width (no
\* has_sub_group_scan) supports sub-group functions for 32 bit types only; the
\* scan is of a 64 bit type.
Scans == {"inclusive", "exclusive"}
MCCases ==
  {Call("reduce", n, 2, s, FALSE, FALSE) : n \in {2, 4}, s \in BOOLEAN}
  \cup {Call("reduce", 4, 4, TRUE, TRUE, FALSE), Call("reduce", 8, 4, FALSE, FALSE, FALSE),
        Call("reduce", 3, 2, FALSE, FALSE, TRUE), Call("reduce", 8, 4, TRUE, TRUE, FALSE),
        Call("reduce", 3, 2, FALSE, FALSE, FALSE), Call("reduce", 1, 1, FALSE, FALSE, FALSE)}
  \cup {OnApple(8, 2), OnApple(8, 4), OnApple(4, 4), OnApple(6, 4)}
  \cup {Call(fn, 4, w, s, TRUE, FALSE) : fn \in Scans, w \in {2, 4}, s \in BOOLEAN}
  \cup {Call(fn, 8, 4, s, TRUE, FALSE) : fn \in Scans, s \in BOOLEAN}
  \cup {Call(fn, n, 2, FALSE, FALSE, h) : fn \in Scans, n \in {3, 4, 5}, h \in BOOLEAN}
  \cup {Call(fn, 1, 1, s, FALSE, FALSE) : fn \in Scans, s \in BOOLEAN}
  \cup {[Call(fn, 4, 2, FALSE, FALSE, FALSE) EXCEPT !.supported32 = TRUE] : fn \in Scans}

-----------------------------------------------------------------------------
\* Pairs of images

MCKindCases ==
  {i1 :> "color" @@ i2 :> "texture", i1 :> "depth" @@ i2 :> "color",
   i1 :> "eye" @@ i2 :> "storage", i1 :> "texture" @@ i2 :> "storage"}

-----------------------------------------------------------------------------
\* Each kind of memory, and what the host may do with it

Buffer(memory_kind, host) == [kind |-> memory_kind, host |-> host]
MCBufferCases ==
  {Buffer(k, ReadWrite) : k \in {"cuda", "direct", "shared", "managed", "staged", "local", "coherent", "coherent_heap"}}
  \cup {Buffer(k, {"read"}) : k \in {"cuda", "staged", "local"}} \cup {Buffer("private", {})}

\* Of 8 bytes: all of it, halves, a middle part, odd sizes and offsets, and one that is too long
Part8(size, start) == [size |-> size, offset |-> start]
MCRegions ==
  {Part8(0, 0), Part8(4, 0), Part8(4, 4), Part8(2, 2), Part8(3, 3), Part8(4, 6), Part8(3, 0), Part8(4, 2)}

-----------------------------------------------------------------------------
\* Functions and how they are called. Indirect commands may only have buffers and
\* argument buffers; argument buffers hold no others; kernels have no stage input.

Function(list, printf, low) == [args |-> list, printf |-> printf, low |-> low]
Encode(path, stages, n, low) == [path |-> path, entries |-> stages, count |-> n, low_device |-> low]
UpTo(n, kinds) == UNION {[1..m -> kinds] : m \in 0..n}
Counts == {"exact", "short", "long"}
PassedTo(path, stages) == {Encode(path, stages, n, FALSE) : n \in Counts}
OnlyBuffers(list) == \A i \in DOMAIN list : list[i] \in {"buffer", "table", "stage_input"}
Tables(n) == [i \in 1..n |-> "table"]

KernelCases ==
  UNION {PassedTo("compute", <<Function(list, p, FALSE)>>) :
           list \in UpTo(3, ArgumentKinds \ {"stage_input"}), p \in BOOLEAN}
  \cup UNION {PassedTo("indirect_compute", <<Function(list, p, FALSE)>>) :
                list \in UpTo(3, {"buffer", "table"}), p \in BOOLEAN}
  \cup UNION {PassedTo("argument", <<Function(list, FALSE, FALSE)>>) :
                list \in UpTo(3, ArgumentKinds \ {"stage_input", "table"})}
  \cup {Encode("compute", <<Function(Tables(n), FALSE, low)>>, "exact", dev) :
          n \in {5, 6}, low \in BOOLEAN, dev \in BOOLEAN}

ShaderArgs ==
  {<<>>, <<"buffer">>, <<"stage_input", "read_write", "buffer">>, <<"table", "constant">>,
   <<"table", "buffer", "table">>, <<"stage_input">>}
Shaders(printf, low) == {Function(list, printf, low) : list \in ShaderArgs}
FragmentShaders(printf, low) == Shaders(printf, low) \cup {NoFunction}

DrawCases ==
  UNION {PassedTo("draw", <<vs, fs>>) : vs \in Shaders(TRUE, FALSE) \cup Shaders(FALSE, FALSE),
           fs \in FragmentShaders(FALSE, FALSE) \cup FragmentShaders(TRUE, FALSE)}
  \cup UNION {PassedTo("indirect_draw", <<vs, fs>>) :
          vs \in {f \in Shaders(TRUE, FALSE) : OnlyBuffers(f.args)},
          fs \in {f \in Shaders(TRUE, FALSE) : OnlyBuffers(f.args)} \cup {NoFunction}}
  \cup {Encode(path, <<vs, fs>>, "exact", dev) : path \in {"draw", "indirect_draw"}, dev \in BOOLEAN,
          vs \in {Function(Tables(n), FALSE, low) : n \in {0, 2, 3}, low \in BOOLEAN},
          fs \in {Function(Tables(n), FALSE, low) : n \in {0, 2, 3}, low \in BOOLEAN} \cup {NoFunction}}

MeshCases ==
  UNION {PassedTo("mesh", <<ts, ms, fs>>) : ts \in FragmentShaders(FALSE, FALSE),
           ms \in Shaders(TRUE, FALSE), fs \in FragmentShaders(TRUE, FALSE)}
  \cup UNION {PassedTo("indirect_mesh", <<ts, ms, fs>>) :
          ts \in {f \in Shaders(TRUE, FALSE) : OnlyBuffers(f.args)} \cup {NoFunction},
          ms \in {f \in Shaders(TRUE, FALSE) : OnlyBuffers(f.args)},
          fs \in {f \in Shaders(FALSE, FALSE) : OnlyBuffers(f.args)} \cup {NoFunction}}
  \cup {Encode("mesh", <<Function(Tables(n), FALSE, FALSE), Function(Tables(m), FALSE, FALSE),
                         Function(Tables(k), FALSE, FALSE)>>, "exact", FALSE) :
          n \in 2..7, m \in 3..4, k \in 0..1}

DirectMeshCases == {c \in MeshCases : c.path = "mesh"}
MCEncodeCases == KernelCases \cup DrawCases \cup MeshCases

-----------------------------------------------------------------------------
AllParts ==
  {"buffers", "registry", "sharing", "locks", "groups", "images", "indirect", "arguments", "leases"}
MCKernels == {<<"kernel">>}
MCDraws == {<<"vertex", "fragment">>}
AllBackends == {"stream", "host", "vulkan"}
=============================================================================
