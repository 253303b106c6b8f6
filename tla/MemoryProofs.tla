---------------------------- MODULE MemoryProofs ----------------------------
(***************************************************************************)
(* Proofs about memory objects: the locks of Host-Compute buffers, buffers *)
(* shared with Vulkan or Metal, the resource registry, the layouts of      *)
(* Vulkan images and the contents of buffers. For every set of threads,    *)
(* buffers, objects, addresses, labels, images and regions, and without    *)
(* bounds on the calls.                                                    *)
(***************************************************************************)
EXTENDS BufferLocks, BufferSharing, ResourceRegistry, VulkanImages, BufferOperations,
        FiniteSetTheorems, TLAPS

-----------------------------------------------------------------------------
(* BufferLocks                                                             *)

LockSteps == {"idle", "lock_src", "lock_dst", "access"}

(* An idle thread has no access.                                           *)
LocksTypeOK ==
  /\ holder \in [Buffers -> CopyThreads \cup {Nobody}]
  /\ step \in [CopyThreads -> LockSteps]
  /\ access \in [CopyThreads -> Accesses \cup {NoAccess}]
  /\ \A t \in CopyThreads : step[t] # "idle" => access[t] \in Accesses

(* Where in its access a thread holds the lock of b: the source's from the *)
(* first lock on, its own buffer's from the second one on.                 *)
Holds(t, b) ==
  \/ step[t] = "lock_dst" /\ b = access[t].src
  \/ step[t] = "access" /\ access[t].op # "fill" /\ b \in {access[t].src, access[t].dst}

(* The locks are where the threads' places say, only a copy takes a second *)
(* one, and fill takes none.                                               *)
LocksInv ==
  /\ LocksTypeOK
  /\ \A t \in CopyThreads, b \in Buffers : holder[b] = t <=> Holds(t, b)
  /\ \A t \in CopyThreads :
       /\ step[t] = "lock_dst" => access[t].op = "copy"
       /\ step[t] = "lock_src" => access[t].op # "fill"

LEMMA AccessesFields ==
  ASSUME NEW a \in Accesses
  PROVE  /\ a.src \in Buffers /\ a.dst \in Buffers
         /\ a.op \in {"read", "write", "fill", "copy"}
         /\ a.op # "copy" => a.src = a.dst
BY DEF Accesses

LEMMA LocksInitInv == LocksInit => LocksInv
BY BufferLocksAssumption DEF LocksInit, LocksInv, LocksTypeOK, LockSteps, Holds

LEMMA LocksStepInv == LocksInv /\ [LocksNext]_lockVars => LocksInv'
<1> SUFFICES ASSUME LocksInv, [LocksNext]_lockVars PROVE LocksInv'
  OBVIOUS
<1> USE BufferLocksAssumption DEF LocksInv, LocksTypeOK, LockSteps, Holds, StepTo
<1>1. ASSUME NEW t \in CopyThreads, Begin(t) PROVE LocksInv'
  BY <1>1 DEF Begin
<1>2. ASSUME NEW t \in CopyThreads, LockSource(t) PROVE LocksInv'
  BY <1>2, AccessesFields DEF LockSource, Free
<1>3. ASSUME NEW t \in CopyThreads, LockDestination(t) PROVE LocksInv'
  BY <1>3, AccessesFields DEF LockDestination, Free
<1>4. ASSUME NEW t \in CopyThreads, End(t) PROVE LocksInv'
  <2>1. LocksTypeOK'
    BY <1>4 DEF End
  <2>2. \A b \in Buffers : holder'[b] = IF Holds(t, b) THEN Nobody ELSE holder[b]
    BY <1>4 DEF End
  <2>3. \A u \in CopyThreads \ {t} : step'[u] = step[u] /\ access'[u] = access[u]
    BY <1>4 DEF End
  <2>4. step'[t] = "idle"
    BY <1>4 DEF End
  <2>5. ASSUME NEW u \in CopyThreads, NEW b \in Buffers PROVE holder'[b] = u <=> Holds(u, b)'
    <3>1. CASE u = t
      BY <3>1, <2>2, <2>4
    <3>2. CASE u # t
      BY <3>2, <2>2, <2>3
    <3> QED
      BY <3>1, <3>2
  <2> QED
    BY <2>1, <2>3, <2>4, <2>5
<1>5. CASE UNCHANGED lockVars
  BY <1>5 DEF lockVars
<1> QED
  BY <1>1, <1>2, <1>3, <1>4, <1>5 DEF LocksNext

(* No thread accesses a buffer that another one writes, but for fill: the  *)
(* two would hold the same lock.                                           *)
LEMMA LocksExclude == LocksInv => AccessIsExclusive
<1> SUFFICES ASSUME LocksInv, NEW t \in CopyThreads, NEW u \in CopyThreads, t # u,
                    step[t] = "access", step[u] = "access",
                    "fill" \notin {access[t].op, access[u].op},
                    NEW b \in Touches(t) \cap Changes(u)
             PROVE  FALSE
  BY DEF AccessIsExclusive
<1>1. Holds(t, b) /\ Holds(u, b)
  BY DEF Touches, Changes, Holds
<1>2. b \in Buffers
  BY AccessesFields DEF LocksInv, LocksTypeOK, Touches
<1> QED
  BY <1>1, <1>2 DEF LocksInv

(* A thread that blocks another while it waits itself is a copy that waits *)
(* for its own buffer's lock; so a group of threads that block each other  *)
(* is held together by such copies, whose sources are a cycle.             *)
LEMMA LocksBlockInCycles == LocksInv => OnlyCopyCycleBlocks
<1> SUFFICES ASSUME LocksInv, NEW T \in SUBSET CopyThreads, T # {},
                    \A t \in T : \E u \in T : WaitsFor(t, u)
             PROVE  CopyCycle
  BY DEF OnlyCopyCycleBlocks
<1> DEFINE C == {t \in T : step[t] = "lock_dst"}
           S == {access[t].src : t \in C}
<1>1. \A t \in T : step[t] \in {"lock_src", "lock_dst"} /\ access[t] \in Accesses
  BY DEF WaitsFor, LocksInv, LocksTypeOK
<1>2. ASSUME NEW t \in T, NEW u \in T, WaitsFor(t, u)
      PROVE  u \in C /\ (t \in C => access[t].dst = access[u].src)
  BY <1>1, <1>2, AccessesFields DEF WaitsFor, LocksInv, Holds
<1>3. \A t \in C : \E u \in C : t # u /\ access[t].dst = access[u].src
  BY <1>2 DEF WaitsFor
<1>4. S \in SUBSET Buffers /\ S # {}
  <2>1. C # {}
    BY <1>2
  <2> QED
    BY <2>1, <1>1, AccessesFields
<1>5. ASSUME NEW b \in S PROVE \E c \in S \ {b} : <<b, c>> \in CopyEdges
  <2>1. PICK t \in C : b = access[t].src
    OBVIOUS
  <2>2. PICK u \in C : t # u /\ access[t].dst = access[u].src
    BY <1>3
  <2>3. access[u].src # b
    BY <2>1, <2>2, <1>1, AccessesFields DEF LocksInv, Holds
  <2>4. <<b, access[u].src>> \in CopyEdges
    BY <2>1, <2>2 DEF CopyEdges
  <2> QED
    BY <2>3, <2>4
<1> QED
  BY <1>4, <1>5 DEF CopyCycle

(* host_buffer.cpp: threads that read, write, zero and copy any buffers    *)
(* exclude each other from what they write, and block each other only if   *)
(* the copies they are in form a cycle.                                    *)
THEOREM BufferAccess == LocksSpec => []BufferAccessIsSafe
<1>1. LocksInv => BufferAccessIsSafe
  BY LocksExclude, LocksBlockInCycles DEF BufferAccessIsSafe
<1> QED
  BY <1>1, LocksInitInv, LocksStepInv, PTL DEF LocksSpec

-----------------------------------------------------------------------------
(* BufferSharing                                                           *)

SharingTypeOK ==
  /\ flags \in [mode : {"manual", "sync_shared", "sync"},
                render : SUBSET ReadWrite, compute : SUBSET ReadWrite]
  /\ latest \in Nat

(* A content is the last write, or the initial data it lacks.              *)
IsCurrent(content) == content = latest \/ (~needs_sync_to_host /\ content = 0 /\ latest = 1)

(* The side that has the buffer has the current content. So has the other  *)
(* side, if the first one does not write: its content is then not copied.  *)
CurrentInv ==
  /\ shared_object_state => /\ IsCurrent(shared_buffer)
                            /\ ~Allows(flags.render, "write") => IsCurrent(buffer)
  /\ ~shared_object_state => /\ IsCurrent(buffer)
                             /\ ~Allows(flags.compute, "write") => IsCurrent(shared_buffer)

SeenInv == seen.content = seen.latest \/ InitialDataMissing \/ StaleHostRead

SharingInv == SharingTypeOK /\ (stray \/ unwritten \/ (CurrentInv /\ SeenInv))

LEMMA SharingInitInv == SharingInit => SharingInv
<1> SUFFICES ASSUME SharingInit PROVE SharingInv
  OBVIOUS
<1>1. flags \in [mode : {"manual", "sync_shared", "sync"},
                 render : SUBSET ReadWrite, compute : SUBSET ReadWrite]
  BY DEF SharingInit, handle_memory_flags, ReadWrite
<1>2. ~shared_object_state /\ latest \in {0, 1} /\ seen.content = seen.latest
  BY Zenon DEF SharingInit
<1>3. shared_buffer = latest /\ buffer = IF needs_sync_to_host THEN shared_buffer ELSE 0
  BY Zenon DEF SharingInit
<1> QED
  BY <1>1, <1>2, <1>3 DEF SharingInv, SharingTypeOK, CurrentInv, SeenInv, IsCurrent

LEMMA SharingStepInv == SharingInv /\ [SharingNext]_sharingVars => SharingInv'
<1> SUFFICES ASSUME SharingInv, [SharingNext]_sharingVars PROVE SharingInv'
  OBVIOUS
<1> USE SharingAssumption
    DEF SharingInv, SharingTypeOK, CurrentInv, SeenInv, IsCurrent, InitialDataMissing, Allows,
        needs_sync_to_host, StaleHostRead
<1>1. CASE acquire_buffer
  <2>1. /\ shared_object_state /\ ~shared_object_state' /\ (stray' <=> stray)
        /\ unwritten' <=> (unwritten \/ (flags.mode = "sync" /\ "read" \notin flags.compute))
    BY <1>1, Zenon DEF acquire_buffer, Leaves
  <2>2. SharingTypeOK'
    BY <1>1, Zenon DEF acquire_buffer, Leaves
  <2>3. buffer' = IF needs_sync_to_host THEN shared_buffer ELSE buffer
    BY <1>1, Zenon DEF acquire_buffer, AcquiredBuffer
  <2>4. UNCHANGED <<flags, shared_buffer, latest, seen>>
    BY <1>1 DEF acquire_buffer
  <2> QED
    BY <2>1, <2>2, <2>3, <2>4
<1>2. CASE release_buffer
  <2>1. /\ ~shared_object_state /\ shared_object_state' /\ (stray' <=> stray)
        /\ unwritten' <=> (unwritten \/ (flags.mode = "sync" /\ "read" \notin flags.render))
    BY <1>2, Zenon DEF release_buffer, Leaves
  <2>2. SharingTypeOK'
    BY <1>2, Zenon DEF release_buffer, Leaves
  <2>3. shared_buffer' = IF needs_sync_from_host THEN buffer ELSE shared_buffer
    BY <1>2, Zenon DEF release_buffer, ReleasedBuffer
  <2>4. UNCHANGED <<flags, buffer, latest, seen>>
    BY <1>2 DEF release_buffer
  <2> QED
    BY <2>1, <2>2, <2>3, <2>4 DEF needs_sync_from_host
<1>3. CASE ComputeUse
  <2>1. PICK w \in SideWrites(flags.compute) :
          /\ latest' = IF w THEN latest + 1 ELSE latest
          /\ buffer' = IF w THEN latest + 1 ELSE AcquiredBuffer
          /\ Leaves(flags.compute, w)
    BY <1>3, Zenon DEF ComputeUse
  <2>2. ~shared_object_state' /\ (stray' <=> stray) /\ UNCHANGED <<flags, shared_buffer>>
    BY <1>3, Zenon DEF ComputeUse
  <2>3. /\ flags.mode = "sync" \/ ~shared_object_state
        /\ seen' = IF Allows(flags.compute, "read")
                   THEN [by |-> "compute", content |-> AcquiredBuffer, latest |-> latest] ELSE seen
    BY <1>3, Zenon DEF ComputeUse, See
  <2>4. AcquiredBuffer = IF shared_object_state /\ needs_sync_to_host THEN shared_buffer ELSE buffer
    BY Zenon DEF AcquiredBuffer
  <2>5. CASE w = TRUE
    <3>1. Allows(flags.compute, "write")
      BY <2>5, Zenon DEF SideWrites
    <3>2. latest' = latest + 1 /\ buffer' = latest + 1
      BY <2>1, <2>5, Zenon
    <3>3. unwritten' <=> unwritten
      BY <2>1, <2>5, Zenon DEF Leaves
    <3> QED
      BY <2>2, <2>3, <2>4, <3>1, <3>2, <3>3
  <2>6. CASE w = FALSE
    <3>1. latest' = latest /\ buffer' = AcquiredBuffer
      BY <2>1, <2>6, Zenon
    <3>2. unwritten' <=> (unwritten \/ (flags.mode = "sync" /\ "read" \notin flags.compute))
      BY <2>1, <2>6, Zenon DEF Leaves
    <3> QED
      BY <2>2, <2>3, <2>4, <3>1, <3>2
  <2> QED
    BY <2>1, <2>5, <2>6 DEF SideWrites
<1>4. CASE RenderUse
  <2>1. PICK w \in SideWrites(flags.render) :
          /\ w => flags.mode = "sync" \/ shared_object_state
          /\ latest' = IF w THEN latest + 1 ELSE latest
          /\ shared_buffer' = IF w THEN latest + 1 ELSE ReleasedBuffer
          /\ Leaves(flags.render, w)
    BY <1>4, Zenon DEF RenderUse
  <2>2. /\ shared_object_state' <=> (flags.mode = "sync" \/ shared_object_state)
        /\ (stray' <=> stray) /\ UNCHANGED <<flags, buffer>>
        /\ flags.mode = "manual" => shared_object_state
    BY <1>4, Zenon DEF RenderUse
  <2>3. seen' = IF Allows(flags.render, "read")
                THEN [by |-> "render", content |-> ReleasedBuffer, latest |-> latest] ELSE seen
    BY <1>4, Zenon DEF RenderUse, See
  <2>4. ReleasedBuffer = IF ~shared_object_state /\ needs_sync_from_host THEN buffer ELSE shared_buffer
    BY Zenon DEF ReleasedBuffer
  <2>5. CASE w = TRUE
    <3>1. Allows(flags.render, "write") /\ (flags.mode = "sync" \/ shared_object_state)
      BY <2>1, <2>5, Zenon DEF SideWrites
    <3>2. latest' = latest + 1 /\ shared_buffer' = latest + 1
      BY <2>1, <2>5, Zenon
    <3>3. unwritten' <=> unwritten
      BY <2>1, <2>5, Zenon DEF Leaves
    <3> QED
      BY <2>2, <2>3, <2>4, <3>1, <3>2, <3>3 DEF needs_sync_from_host
  <2>6. CASE w = FALSE
    <3>1. latest' = latest /\ shared_buffer' = ReleasedBuffer
      BY <2>1, <2>6, Zenon
    <3>2. unwritten' <=> (unwritten \/ (flags.mode = "sync" /\ "read" \notin flags.render))
      BY <2>1, <2>6, Zenon DEF Leaves
    <3> QED
      BY <2>2, <2>3, <2>4, <3>1, <3>2 DEF needs_sync_from_host
  <2> QED
    BY <2>1, <2>5, <2>6 DEF SideWrites
<1>5. CASE HostWrite
  <2>1. /\ stray' <=> (stray \/ shared_object_state \/ ~Allows(flags.compute, "write"))
        /\ (shared_object_state' <=> shared_object_state) /\ (unwritten' <=> unwritten)
    BY <1>5, Zenon DEF HostWrite
  <2> QED
    BY <1>5, <2>1 DEF HostWrite
<1>6. CASE HostRead
  <2>1. UNCHANGED <<flags, shared_object_state, buffer, shared_buffer, latest, unwritten, stray>>
    BY <1>6, Zenon DEF HostRead
  <2>2. CASE shared_object_state /\ Allows(flags.render, "write")
    <3>1. seen'.by = "host_unacquired"
      BY <1>6, <2>2 DEF HostRead
    <3> QED
      BY <2>1, <3>1
  <2>3. CASE ~(shared_object_state /\ Allows(flags.render, "write"))
    <3>1. stray \/ unwritten \/ IsCurrent(buffer)
      BY <2>3
    <3>2. seen'.content = buffer /\ seen'.latest = latest
      BY <1>6 DEF HostRead
    <3> QED
      BY <2>1, <3>1, <3>2
  <2> QED
    BY <2>2, <2>3
<1>7. CASE UNCHANGED sharingVars
  BY <1>7 DEF sharingVars
<1> QED
  BY <1>1, <1>2, <1>3, <1>4, <1>5, <1>6, <1>7 DEF SharingNext

(* host_buffer.cpp, the SHARING flags: whatever flags a shared buffer has  *)
(* and however often it changes sides, a function of either side finds the *)
(* latest write, and so does the host unless the render side has the       *)
(* buffer to write; with the exceptions SharedIsCoherent names.            *)
THEOREM SharedBuffersAreCoherent == SharingSpec => []SharedIsCoherent
<1>1. SharingInv => SharedIsCoherent
  BY DEF SharingInv, SeenInv, SharedIsCoherent
<1> QED
  BY <1>1, SharingInitInv, SharingStepInv, PTL DEF SharingSpec

-----------------------------------------------------------------------------
(* ResourceRegistry                                                        *)

Stages == {"new", "constructed", "live", "renaming", "expired", "gone"}

RegistryTypeOK ==
  /\ resource_registry \in [Names -> Objects \cup {NoObject}]
  /\ resource_registry_reverse \in [Addresses -> Names \cup {NoLabel}]
  /\ resource_registry_ptr_lut \in [Addresses -> Objects \cup {NoObject}]
  /\ debug_label \in [Objects -> Names]
  /\ memory \in [Addresses -> Objects \cup {NoObject}]
  /\ stage \in [Objects -> Stages]
  /\ pending \in [Objects -> Names]
  /\ disables \in Nat
  /\ named \in SUBSET Objects

Present(o) == stage[o] \notin {"new", "gone"}

(* An object lives at one address from its construction to its end.        *)
MemoryInv ==
  /\ \A a \in Addresses : memory[a] # NoObject => Present(memory[a])
  /\ \A a, b \in Addresses : memory[a] = memory[b] /\ memory[a] # NoObject => a = b
  /\ \A o \in Objects : Present(o) => \E a \in Addresses : memory[a] = o
  /\ \A o \in Objects : stage[o] = "new" => pending[o] = Unlabelled

(* The label an object has for the registry, which is told first.          *)
Current(o) == IF stage[o] = "renaming" THEN pending[o] ELSE debug_label[o]

(* A disabled registry that was never enabled is empty.                    *)
EmptyInv ==
  ~resource_registry_enabled =>
    /\ \A l \in Names : resource_registry[l] = NoObject
    /\ \A a \in Addresses : resource_registry_ptr_lut[a] = NoObject
    /\ named = {}

(* The three maps agree: a weak pointer is to the object that lives there, *)
(* a label that was entered for an address is its object's, and an object  *)
(* is found by the label entered for its address only.                     *)
MapsInv ==
  /\ \A a \in Addresses : LET o == resource_registry_ptr_lut[a] IN
       o # NoObject => memory[a] = o /\ stage[o] # "constructed"
  /\ \A a \in Addresses : LET o == resource_registry_ptr_lut[a] IN
       resource_registry_reverse[a] # NoLabel
         => o # NoObject /\ resource_registry_reverse[a] = Current(o)
  /\ \A l \in Labels : LET o == resource_registry[l] IN
       o # NoObject => \E a \in Addresses :
         resource_registry_ptr_lut[a] = o /\ resource_registry_reverse[a] = l

(* Labels that two objects have at a time are contested.                   *)
ContestedInv ==
  \A o, p \in Objects : o # p /\ Present(o) /\ Present(p) =>
    {debug_label[o], pending[o]} \cap {debug_label[p], pending[p]} \subseteq contested \cup {Unlabelled}

NamedInv ==
  \A o \in named :
    /\ stage[o] \notin {"new", "constructed"}
    /\ stage[o] \in {"live", "renaming"} /\ Current(o) \notin contested \cup {Unlabelled}
         => resource_registry[Current(o)] = o

NeverDisabledInv == EmptyInv /\ MapsInv /\ ContestedInv /\ NamedInv
RegistryInv == RegistryTypeOK /\ MemoryInv /\ (disables = 0 => NeverDisabledInv)

LEMMA AddressIsUnique ==
  ASSUME RegistryTypeOK, MemoryInv, NEW o \in Objects, Present(o)
  PROVE  /\ AddressOf(o) \in Addresses /\ memory[AddressOf(o)] = o
         /\ \A a \in Addresses : memory[a] = o => a = AddressOf(o)
<1>1. AddressOf(o) \in Addresses /\ memory[AddressOf(o)] = o
  BY DEF MemoryInv, AddressOf
<1> QED
  BY <1>1, RegistryAssumption DEF MemoryInv, RegistryTypeOK

LEMMA RegistryInitInv == RegistryInit => RegistryInv
<1> SUFFICES ASSUME RegistryInit PROVE RegistryInv
  OBVIOUS
<1> USE RegistryAssumption DEF RegistryInit
<1>1. RegistryTypeOK
  BY DEF RegistryTypeOK, Names, Stages
<1>2. MemoryInv
  BY DEF MemoryInv, Present
<1>3. NeverDisabledInv
  BY DEF NeverDisabledInv, EmptyInv, MapsInv, ContestedInv, NamedInv, Present, Names
<1> QED
  BY <1>1, <1>2, <1>3 DEF RegistryInv

(* The registry tells the truth in every state of the invariant.           *)
LEMMA RegistryInvImplies == RegistryInv => RegistryIsTruthful
<1> SUFFICES ASSUME RegistryInv, disables = 0 PROVE FoundHasLabel /\ NamedIsFound
  BY DEF RegistryIsTruthful
<1> USE RegistryAssumption DEF RegistryInv, NeverDisabledInv, RegistryTypeOK
<1>1. ASSUME NEW l \in Labels, Lookup(l) # NoObject
      PROVE  IF Alive(Lookup(l)) THEN l \in {debug_label[Lookup(l)], pending[Lookup(l)]}
             ELSE stage[Lookup(l)] = "expired"
  <2> DEFINE o == resource_registry[l]
  <2>1. Lookup(l) = o
    BY <1>1, Zenon DEF Lookup
  <2>2. PICK a \in Addresses : resource_registry_ptr_lut[a] = o /\ resource_registry_reverse[a] = l
    BY <1>1, <2>1 DEF MapsInv
  <2>3. o \in Objects /\ memory[a] = o /\ stage[o] # "constructed" /\ l = Current(o)
    BY <1>1, <2>1, <2>2 DEF MapsInv, Names
  <2>4. Present(o)
    BY <2>3 DEF MemoryInv
  <2> QED
    BY <2>1, <2>3, <2>4 DEF Present, Alive, Current, Stages
<1>2. ASSUME NEW o \in named, stage[o] = "live", debug_label[o] \notin contested \cup {Unlabelled},
             resource_registry_enabled
      PROVE  Lookup(debug_label[o]) = o
  <2>1. resource_registry[debug_label[o]] = o
    BY <1>2 DEF NamedInv, Current
  <2> QED
    BY <2>1, <1>2, Zenon DEF Lookup
<1> QED
  BY <1>1, <1>2 DEF FoundHasLabel, NamedIsFound

(* What update_resource_registry does for an object that is labelled: if   *)
(* it is registered, its new label is entered and the one before removed.  *)
LEMMA UpdateEffect ==
  ASSUME RegistryInv, disables = 0, NEW o \in Objects, stage[o] = "live", NEW label \in Names,
         update_resource_registry(AddressOf(o), debug_label[o], label)
  PROVE  LET a == AddressOf(o) IN
         /\ resource_registry_ptr_lut' = resource_registry_ptr_lut
         /\ ~Registered(a) => UNCHANGED <<resource_registry, resource_registry_reverse>>
         /\ Registered(a) =>
              /\ resource_registry_ptr_lut[a] = o
              /\ resource_registry_reverse' = [resource_registry_reverse EXCEPT ![a] = label]
         /\ debug_label[o] = label => UNCHANGED resource_registry
         /\ Registered(a) /\ debug_label[o] # label =>
              /\ resource_registry' \in [Names -> Objects \cup {NoObject}]
              /\ \A l \in Names : resource_registry'[l] =
                   IF l = label THEN o
                   ELSE IF l = debug_label[o] /\ l # Unlabelled THEN NoObject ELSE resource_registry[l]
<1> DEFINE a == AddressOf(o)
<1> USE RegistryAssumption DEF RegistryInv, NeverDisabledInv
<1>1. a \in Addresses /\ memory[a] = o
  BY AddressIsUnique DEF Present
<1>2. Registered(a) => resource_registry_ptr_lut[a] = o
  BY <1>1 DEF Registered, MapsInv
<1>3. Registered(a) /\ debug_label[o] # label =>
        resource_registry' = WithEntry(a, debug_label[o], label)
  BY Zenon DEF update_resource_registry
<1>4. Registered(a) /\ debug_label[o] # label =>
        /\ resource_registry' \in [Names -> Objects \cup {NoObject}]
        /\ \A l \in Names : resource_registry'[l] =
             IF l = label THEN o
             ELSE IF l = debug_label[o] /\ l # Unlabelled THEN NoObject ELSE resource_registry[l]
  BY <1>2, <1>3 DEF WithEntry, RegistryTypeOK
<1>5. /\ resource_registry_ptr_lut' = resource_registry_ptr_lut
      /\ ~Registered(a) => UNCHANGED <<resource_registry, resource_registry_reverse>>
      /\ Registered(a) => resource_registry_reverse' = [resource_registry_reverse EXCEPT ![a] = label]
      /\ debug_label[o] = label => UNCHANGED resource_registry
  BY Zenon DEF update_resource_registry
<1> QED
  BY <1>2, <1>4, <1>5

(* Types and the memory, which no label is needed for.                     *)
LEMMA RegistryMemoryStep ==
  RegistryTypeOK /\ MemoryInv /\ [RegistryNext]_registryVars => RegistryTypeOK' /\ MemoryInv'
<1> SUFFICES ASSUME RegistryTypeOK, MemoryInv, [RegistryNext]_registryVars
             PROVE  RegistryTypeOK' /\ MemoryInv'
  OBVIOUS
<1> USE RegistryAssumption DEF RegistryTypeOK, Stages, Goes
<1>1. ASSUME NEW o \in Objects, NEW a \in Addresses, NEW label \in Names, Construct(o, a, label)
      PROVE  RegistryTypeOK' /\ MemoryInv'
  <2>1. /\ resource_registry' \in [Names -> Objects \cup {NoObject}]
        /\ resource_registry_reverse' \in [Addresses -> Names \cup {NoLabel}]
        /\ resource_registry_ptr_lut' \in [Addresses -> Objects \cup {NoObject}]
    BY <1>1 DEF Construct, update_resource_registry, WithEntry, maps
  <2>2. RegistryTypeOK'
    BY <1>1, <2>1 DEF Construct
  <2>3. MemoryInv'
    BY <1>1 DEF Construct, MemoryInv, Present
  <2> QED
    BY <2>2, <2>3
<1>2. ASSUME NEW o \in Objects, AddResource(o) PROVE RegistryTypeOK' /\ MemoryInv'
  <2>1. \/ resource_registry_ptr_lut' = resource_registry_ptr_lut
        \/ resource_registry_ptr_lut' = [resource_registry_ptr_lut EXCEPT ![AddressOf(o)] = o]
    BY <1>2, Zenon DEF AddResource
  <2> QED
    BY <1>2, <2>1, ZenonT(30) DEF AddResource, MemoryInv, Present, history
<1>3. ASSUME NEW o \in Objects, NEW label \in Names, SetLabel(o, label)
      PROVE  RegistryTypeOK' /\ MemoryInv'
  <2>1. /\ resource_registry' \in [Names -> Objects \cup {NoObject}]
        /\ resource_registry_reverse' \in [Addresses -> Names \cup {NoLabel}]
        /\ resource_registry_ptr_lut' = resource_registry_ptr_lut
    <3>1. AddressOf(o) \in Addresses
      BY <1>3, AddressIsUnique DEF SetLabel, Present
    <3>2. /\ resource_registry_ptr_lut' = resource_registry_ptr_lut
          /\ \/ resource_registry' = resource_registry
             \/ resource_registry' = WithEntry(AddressOf(o), debug_label[o], label)
          /\ \/ resource_registry_reverse' = resource_registry_reverse
             \/ resource_registry_reverse' = [resource_registry_reverse EXCEPT ![AddressOf(o)] = label]
      BY <1>3, Zenon DEF SetLabel, update_resource_registry
    <3>3. WithEntry(AddressOf(o), debug_label[o], label) \in [Names -> Objects \cup {NoObject}]
      BY <3>1 DEF WithEntry
    <3> QED
      BY <3>1, <3>2, <3>3
  <2>2. named' \in SUBSET Objects
    BY <1>3 DEF SetLabel
  <2>3. RegistryTypeOK'
    BY <1>3, <2>1, <2>2 DEF SetLabel
  <2>4. MemoryInv'
    BY <1>3 DEF SetLabel, MemoryInv, Present
  <2> QED
    BY <2>3, <2>4
<1>4. ASSUME NEW o \in Objects, AssignLabel(o) PROVE RegistryTypeOK' /\ MemoryInv'
  BY <1>4 DEF AssignLabel, MemoryInv, Present, history, maps
<1>5. ASSUME NEW o \in Objects, Release(o) PROVE RegistryTypeOK' /\ MemoryInv'
  BY <1>5 DEF Release, MemoryInv, Present, history, maps
<1>6. ASSUME NEW o \in Objects, Destroy(o) PROVE RegistryTypeOK' /\ MemoryInv'
  <2>1. /\ AddressOf(o) \in Addresses /\ memory[AddressOf(o)] = o
        /\ \A a \in Addresses : memory[a] = o => a = AddressOf(o)
    BY <1>6, AddressIsUnique DEF Destroy, Present
  <2>2. /\ resource_registry' \in [Names -> Objects \cup {NoObject}]
        /\ resource_registry_reverse' \in [Addresses -> Names \cup {NoLabel}]
        /\ resource_registry_ptr_lut' \in [Addresses -> Objects \cup {NoObject}]
    BY <1>6, <2>1 DEF Destroy, remove_from_resource_registry, maps
  <2>3. RegistryTypeOK'
    BY <1>6, <2>2 DEF Destroy, history
  <2>4. MemoryInv'
    BY <1>6, <2>1 DEF Destroy, MemoryInv, Present
  <2> QED
    BY <2>3, <2>4
<1>7. CASE enable_resource_registry \/ disable_resource_registry \/ UNCHANGED registryVars
  BY <1>7 DEF enable_resource_registry, disable_resource_registry, registryVars, maps, history,
              MemoryInv, Present
<1> QED
  BY <1>1, <1>2, <1>3, <1>4, <1>5, <1>6, <1>7 DEF RegistryNext

LEMMA ConstructStep ==
  ASSUME RegistryInv, RegistryTypeOK', MemoryInv', disables = 0,
         NEW o \in Objects, NEW a \in Addresses, NEW label \in Names, Construct(o, a, label)
  PROVE  NeverDisabledInv'
<1> USE RegistryAssumption DEF RegistryInv, NeverDisabledInv
<1>1. UNCHANGED maps
  <2>1. ~Registered(a)
    BY DEF Construct, Registered, MapsInv
  <2> QED
    BY <2>1, Zenon DEF Construct, update_resource_registry, maps
<1>2. /\ UNCHANGED <<pending, named>> /\ (resource_registry_enabled' <=> resource_registry_enabled)
      /\ stage[o] = "new" /\ stage' = [stage EXCEPT ![o] = "constructed"] /\ pending[o] = Unlabelled
      /\ debug_label' = [debug_label EXCEPT ![o] = label] /\ memory[a] = NoObject
      /\ memory' = [memory EXCEPT ![a] = o] /\ contested' = contested \cup Doubled(o, label)
  BY DEF Construct, Goes, MemoryInv
<1>3. EmptyInv'
  BY <1>1, <1>2 DEF EmptyInv, maps
<1>4. MapsInv'
  BY <1>1, <1>2 DEF MapsInv, maps, RegistryTypeOK, Current, MemoryInv, Present
<1>5. ContestedInv'
  BY <1>2 DEF ContestedInv, Doubled, Present, RegistryTypeOK
<1>6. NamedInv'
  BY <1>1, <1>2 DEF NamedInv, Current, RegistryTypeOK, maps
<1> QED
  BY <1>3, <1>4, <1>5, <1>6

LEMMA AddResourceStep ==
  ASSUME RegistryInv, RegistryTypeOK', MemoryInv', disables = 0,
         NEW o \in Objects, AddResource(o)
  PROVE  NeverDisabledInv'
<1> USE RegistryAssumption DEF RegistryInv, NeverDisabledInv
<1>1. AddressOf(o) \in Addresses /\ memory[AddressOf(o)] = o
  BY AddressIsUnique DEF AddResource, Present
<1>2. /\ UNCHANGED <<resource_registry, resource_registry_reverse, debug_label, memory, pending,
                     named, contested>>
      /\ (resource_registry_enabled' <=> resource_registry_enabled)
      /\ stage[o] = "constructed" /\ stage' = [stage EXCEPT ![o] = "live"]
  BY Zenon DEF AddResource, Goes, history
<1>3. \/ resource_registry_ptr_lut' = resource_registry_ptr_lut
      \/ /\ resource_registry_enabled
         /\ resource_registry_ptr_lut[AddressOf(o)] = NoObject
         /\ resource_registry_ptr_lut' = [resource_registry_ptr_lut EXCEPT ![AddressOf(o)] = o]
  BY Zenon DEF AddResource
<1>4. EmptyInv'
  BY <1>2, <1>3 DEF EmptyInv
<1>5. MapsInv'
  BY <1>1, <1>2, <1>3 DEF MapsInv, RegistryTypeOK, Current
<1>6. ContestedInv'
  BY <1>2 DEF ContestedInv, Present, RegistryTypeOK
<1>7. NamedInv'
  BY <1>2 DEF NamedInv, Current, RegistryTypeOK
<1> QED
  BY <1>4, <1>5, <1>6, <1>7

LEMMA SetLabelStep ==
  ASSUME RegistryInv, RegistryTypeOK', MemoryInv', disables = 0,
         NEW o \in Objects, NEW label \in Names, SetLabel(o, label)
  PROVE  NeverDisabledInv'
<1> DEFINE a == AddressOf(o)
<1> USE RegistryAssumption DEF RegistryInv, NeverDisabledInv
<1>1. /\ AddressOf(o) \in Addresses /\ memory[AddressOf(o)] = o
      /\ \A b \in Addresses : memory[b] = o => b = AddressOf(o)
  BY AddressIsUnique DEF SetLabel, Present
<1>2. /\ UNCHANGED <<debug_label, memory>> /\ (resource_registry_enabled' <=> resource_registry_enabled)
      /\ stage[o] = "live" /\ stage' = [stage EXCEPT ![o] = "renaming"]
      /\ pending' = [pending EXCEPT ![o] = label] /\ contested' = contested \cup Doubled(o, label)
      /\ update_resource_registry(a, debug_label[o], label)
      /\ named' = IF debug_label[o] = label THEN named
                  ELSE IF Registered(a) THEN named \cup {o} ELSE named \ {o}
  BY Zenon DEF SetLabel, Goes
<1>3. /\ resource_registry_ptr_lut' = resource_registry_ptr_lut
      /\ ~Registered(a) => UNCHANGED <<resource_registry, resource_registry_reverse>>
      /\ Registered(a) =>
           /\ resource_registry_ptr_lut[a] = o
           /\ resource_registry_reverse' = [resource_registry_reverse EXCEPT ![a] = label]
      /\ debug_label[o] = label => UNCHANGED resource_registry
      /\ Registered(a) /\ debug_label[o] # label =>
           \A l \in Names : resource_registry'[l] =
             IF l = label THEN o
             ELSE IF l = debug_label[o] /\ l # Unlabelled THEN NoObject ELSE resource_registry[l]
  BY <1>2, UpdateEffect
<1>4. ~resource_registry_enabled => ~Registered(a)
  BY Zenon DEF Registered
<1>5. EmptyInv'
  BY <1>2, <1>3, <1>4 DEF EmptyInv
<1>6. ContestedInv'
  BY <1>2 DEF ContestedInv, Doubled, Present, RegistryTypeOK
<1>7. resource_registry_ptr_lut[a] # NoObject => Registered(a) /\ resource_registry_ptr_lut[a] = o
  <2>1. resource_registry_ptr_lut[a] # NoObject => resource_registry_enabled
    BY <1>1 DEF EmptyInv
  <2>2. resource_registry_ptr_lut[a] # NoObject => Registered(a)
    BY <2>1, Zenon DEF Registered
  <2> QED
    BY <1>3, <2>2
<1>8. MapsInv'
  <2>1. ASSUME NEW b \in Addresses, resource_registry_ptr_lut[b] = o PROVE b = a
    BY <1>1, <2>1 DEF MapsInv
  <2>2. ASSUME NEW b \in Addresses, resource_registry_reverse'[b] # NoLabel
        PROVE  /\ resource_registry_ptr_lut'[b] # NoObject
               /\ resource_registry_reverse'[b] = Current(resource_registry_ptr_lut[b])'
    <3>1. CASE resource_registry_ptr_lut[b] = o
      BY <1>1, <1>2, <1>3, <1>7, <2>1, <2>2, <3>1 DEF MapsInv, Current, RegistryTypeOK
    <3>2. CASE resource_registry_ptr_lut[b] # o
      BY <1>1, <1>2, <1>3, <2>2, <3>2 DEF MapsInv, Current, RegistryTypeOK
    <3> QED
      BY <3>1, <3>2
  <2>3. ASSUME NEW l \in Labels, resource_registry'[l] # NoObject
        PROVE  \E b \in Addresses :
                 resource_registry_ptr_lut'[b] = resource_registry'[l] /\ resource_registry_reverse'[b] = l
    <3>1. CASE l = label /\ Registered(a) /\ debug_label[o] # label
      BY <1>1, <1>3, <3>1, <2>3 DEF RegistryTypeOK, Names
    <3>2. CASE ~(l = label /\ Registered(a) /\ debug_label[o] # label)
      <4>1. resource_registry'[l] = resource_registry[l] /\ (Registered(a) /\ l # label => l # debug_label[o])
        BY <1>3, <2>3, <3>2 DEF Names
      <4>2. PICK b \in Addresses :
              resource_registry_ptr_lut[b] = resource_registry[l] /\ resource_registry_reverse[b] = l
        BY <2>3, <4>1 DEF MapsInv
      <4>3. resource_registry_reverse'[b] = l
        <5>1. CASE b = a
          <6>1. resource_registry_ptr_lut[a] = o /\ Registered(a) /\ l = debug_label[o]
            BY <1>2, <1>7, <2>3, <4>1, <4>2, <5>1 DEF MapsInv, Current, Names
          <6> QED
            BY <1>1, <1>3, <4>1, <5>1, <6>1 DEF RegistryTypeOK
        <5>2. CASE b # a
          BY <1>3, <4>2, <5>2 DEF RegistryTypeOK
        <5> QED
          BY <5>1, <5>2
      <4> QED
        BY <1>3, <4>1, <4>2, <4>3
    <3> QED
      BY <3>1, <3>2
  <2> QED
    BY <1>2, <1>3, <2>2, <2>3 DEF MapsInv, RegistryTypeOK
<1>9. NamedInv'
  <2>1. ASSUME NEW q \in named', stage'[q] \in {"live", "renaming"},
               Current(q)' \notin contested' \cup {Unlabelled}
        PROVE  resource_registry'[Current(q)'] = q
    <3>1. CASE q = o
      <4>1. Current(q)' = label
        BY <1>2, <3>1 DEF Current, RegistryTypeOK
      <4>2. CASE debug_label[o] = label
        BY <1>2, <1>3, <2>1, <3>1, <4>1, <4>2 DEF NamedInv, Current
      <4>3. CASE debug_label[o] # label
        <5>1. Registered(a)
          BY <1>2, <2>1, <3>1, <4>3
        <5> QED
          BY <1>3, <3>1, <4>1, <4>3, <5>1
      <4> QED
        BY <4>2, <4>3
    <3>2. CASE q # o
      <4>1. /\ q \in named /\ q \in Objects /\ stage[q] \in {"live", "renaming"}
            /\ Current(q)' = Current(q) /\ Current(q) \in Names
            /\ Current(q) \in {debug_label[q], pending[q]} /\ Current(q) \notin contested \cup {Unlabelled}
        BY <1>2, <2>1, <3>2 DEF Current, RegistryTypeOK
      <4>2. resource_registry[Current(q)] = q
        BY <4>1 DEF NamedInv
      <4>3. Current(q) # label
        BY <1>2, <2>1, <3>2, <4>1 DEF Doubled
      <4>4. Current(q) # debug_label[o]
        BY <1>2, <3>2, <4>1 DEF ContestedInv, Present
      <4> QED
        BY <1>3, <4>1, <4>2, <4>3, <4>4
    <3> QED
      BY <3>1, <3>2
  <2> QED
    BY <1>2, <2>1 DEF NamedInv, RegistryTypeOK
<1> QED
  BY <1>5, <1>6, <1>8, <1>9

LEMMA DestroyStep ==
  ASSUME RegistryInv, RegistryTypeOK', MemoryInv', disables = 0,
         NEW o \in Objects, Destroy(o)
  PROVE  NeverDisabledInv'
<1> DEFINE a == AddressOf(o)
<1> USE RegistryAssumption DEF RegistryInv, NeverDisabledInv
<1>1. /\ a \in Addresses /\ memory[a] = o
      /\ \A b \in Addresses : memory[b] = o => b = a
  BY AddressIsUnique DEF Destroy, Present
<1>2. /\ UNCHANGED <<debug_label, pending, named, contested>>
      /\ (resource_registry_enabled' <=> resource_registry_enabled)
      /\ stage[o] = "expired" /\ stage' = [stage EXCEPT ![o] = "gone"]
      /\ memory' = [memory EXCEPT ![a] = NoObject]
  BY Zenon DEF Destroy, Goes, history
<1>3. \/ ~resource_registry_enabled /\ UNCHANGED maps
      \/ /\ resource_registry_enabled
         /\ resource_registry' = IF resource_registry_reverse[a] \in Labels
                                 THEN [resource_registry EXCEPT ![resource_registry_reverse[a]] = NoObject]
                                 ELSE resource_registry
         /\ resource_registry_reverse' = [resource_registry_reverse EXCEPT ![a] = NoLabel]
         /\ resource_registry_ptr_lut' = [resource_registry_ptr_lut EXCEPT ![a] = NoObject]
  BY Zenon DEF Destroy, remove_from_resource_registry
<1>4. EmptyInv'
  BY <1>2, <1>3 DEF EmptyInv, maps
<1>5. ContestedInv'
  BY <1>2 DEF ContestedInv, Present, RegistryTypeOK
<1>6. MapsInv'
  <2>1. ASSUME NEW b \in Addresses, resource_registry_ptr_lut'[b] # NoObject
        PROVE  resource_registry_ptr_lut[b] = resource_registry_ptr_lut'[b] /\ resource_registry_ptr_lut[b] # o
               /\ b # a
    BY <1>1, <1>2, <1>3, <2>1 DEF MapsInv, EmptyInv, maps, RegistryTypeOK
  <2>2. ASSUME NEW b \in Addresses, resource_registry_reverse'[b] # NoLabel
        PROVE  /\ resource_registry_ptr_lut'[b] # NoObject
               /\ resource_registry_reverse'[b] = Current(resource_registry_ptr_lut[b])'
    BY <1>1, <1>2, <1>3, <2>2 DEF MapsInv, EmptyInv, maps, RegistryTypeOK, Current
  <2>3. ASSUME NEW l \in Labels, resource_registry'[l] # NoObject
        PROVE  \E b \in Addresses :
                 resource_registry_ptr_lut'[b] = resource_registry'[l] /\ resource_registry_reverse'[b] = l
    <3>1. /\ resource_registry'[l] = resource_registry[l] /\ resource_registry[l] # NoObject
          /\ resource_registry_enabled => l # resource_registry_reverse[a]
      BY <1>3, <2>3 DEF RegistryTypeOK, maps, EmptyInv, Names
    <3>2. PICK b \in Addresses :
            resource_registry_ptr_lut[b] = resource_registry[l] /\ resource_registry_reverse[b] = l
      BY <3>1 DEF MapsInv
    <3> QED
      BY <1>3, <3>1, <3>2 DEF maps, RegistryTypeOK
  <2> QED
    BY <1>1, <1>2, <2>1, <2>2, <2>3 DEF MapsInv, RegistryTypeOK
<1>7. NamedInv'
  <2>1. ASSUME NEW q \in named', stage'[q] \in {"live", "renaming"},
               Current(q)' \notin contested' \cup {Unlabelled}
        PROVE  resource_registry'[Current(q)'] = q
    <3>1. /\ q \in named /\ q \in Objects /\ stage[q] \in {"live", "renaming"} /\ q # o
          /\ Current(q)' = Current(q) /\ Current(q) \in Names
          /\ Current(q) \in {debug_label[q], pending[q]} /\ Current(q) \notin contested \cup {Unlabelled}
      BY <1>2, <2>1 DEF Current, RegistryTypeOK
    <3>2. resource_registry[Current(q)] = q
      BY <3>1 DEF NamedInv
    <3>3. resource_registry_reverse[a] = Current(q) => FALSE
      <4>1. SUFFICES ASSUME resource_registry_reverse[a] = Current(q) PROVE FALSE
        OBVIOUS
      <4>2. resource_registry_ptr_lut[a] = o /\ Current(q) = debug_label[o]
        BY <1>1, <1>2, <3>1, <4>1 DEF MapsInv, Current, Names
      <4> QED
        BY <1>2, <3>1, <4>2 DEF ContestedInv, Present
    <3> QED
      BY <1>3, <3>1, <3>2, <3>3 DEF maps, RegistryTypeOK
  <2> QED
    BY <1>2, <2>1 DEF NamedInv, RegistryTypeOK
<1> QED
  BY <1>4, <1>5, <1>6, <1>7

LEMMA RegistryStepInv == RegistryInv /\ [RegistryNext]_registryVars => RegistryInv'
<1> SUFFICES ASSUME RegistryInv, [RegistryNext]_registryVars PROVE RegistryInv'
  OBVIOUS
<1>1. RegistryTypeOK' /\ MemoryInv'
  BY RegistryMemoryStep DEF RegistryInv
<1>2. ASSUME disables = 0,
             (\E o \in Objects : AssignLabel(o) \/ Release(o)) \/ enable_resource_registry
             \/ UNCHANGED registryVars
      PROVE  NeverDisabledInv'
  <2> USE <1>2, RegistryAssumption DEF RegistryInv, NeverDisabledInv
  <2>1. CASE \E o \in Objects : AssignLabel(o)
    <3>1. PICK o \in Objects : AssignLabel(o)
      BY <2>1
    <3>2. /\ UNCHANGED <<resource_registry, resource_registry_reverse, resource_registry_ptr_lut,
                         memory, pending, named, contested>>
          /\ (resource_registry_enabled' <=> resource_registry_enabled)
          /\ debug_label' = [debug_label EXCEPT ![o] = pending[o]]
          /\ stage[o] = "renaming" /\ stage' = [stage EXCEPT ![o] = "live"]
      BY <3>1, Zenon DEF AssignLabel, Goes, maps, history
    <3> QED
      BY <3>2 DEF EmptyInv, MapsInv, ContestedInv, NamedInv, Current, Present, RegistryTypeOK
  <2>2. CASE \E o \in Objects : Release(o)
    <3>1. PICK o \in Objects : Release(o)
      BY <2>2
    <3>2. /\ UNCHANGED <<resource_registry, resource_registry_reverse, resource_registry_ptr_lut,
                         debug_label, memory, pending, named, contested>>
          /\ (resource_registry_enabled' <=> resource_registry_enabled)
          /\ stage[o] = "live" /\ stage' = [stage EXCEPT ![o] = "expired"]
      BY <3>1, Zenon DEF Release, Goes, maps, history
    <3> QED
      BY <3>2 DEF EmptyInv, MapsInv, ContestedInv, NamedInv, Current, Present, RegistryTypeOK
  <2>3. CASE enable_resource_registry \/ UNCHANGED registryVars
    <3>1. /\ UNCHANGED <<resource_registry, resource_registry_reverse, resource_registry_ptr_lut,
                         debug_label, memory, stage, pending, named, contested>>
          /\ resource_registry_enabled => resource_registry_enabled'
      <4>1. CASE enable_resource_registry
        BY <4>1, Zenon DEF enable_resource_registry, maps, history
      <4>2. CASE UNCHANGED registryVars
        BY <4>2 DEF registryVars, maps, history
      <4> QED
        BY <2>3, <4>1, <4>2
    <3> QED
      BY <3>1 DEF EmptyInv, MapsInv, ContestedInv, NamedInv, Current, Present
  <2> QED
    BY <1>2, <2>1, <2>2, <2>3
<1>3. disables' = 0 => disables = 0 /\ ~disable_resource_registry
  BY DEF RegistryInv, RegistryTypeOK, RegistryNext, registryVars, history, Construct, AddResource,
         SetLabel, AssignLabel, Release, Destroy, enable_resource_registry, disable_resource_registry
<1>4. disables' = 0 => NeverDisabledInv'
  BY <1>1, <1>2, <1>3, ConstructStep, AddResourceStep, SetLabelStep, DestroyStep DEF RegistryNext
<1> QED
  BY <1>1, <1>4 DEF RegistryInv

(* device_context.cpp: whatever objects, labels and addresses there are,   *)
(* and however they are created, renamed and destroyed, a lookup in a      *)
(* registry that was never disabled finds what its label says.             *)
THEOREM RegistryTellsTheTruth == RegistrySpec => []RegistryIsTruthful
BY RegistryInitInv, RegistryStepInv, RegistryInvImplies, PTL DEF RegistrySpec

-----------------------------------------------------------------------------
(* VulkanImages                                                            *)

Layouts == {"UNDEFINED", "GENERAL", "SHADER_READ_ONLY", "DEPTH_READ_ONLY", "DEPTH_ATTACHMENT",
            "COLOR_ATTACHMENT", "TRANSFER_SRC", "TRANSFER_DST"}
AccessFlags == {"shader_read", "shader_write", "depth_read", "depth_write", "color_read",
                "color_write", "transfer_read", "transfer_write"}
LayoutStates == [layout : Layouts, access : SUBSET AccessFlags]
Moves == [image : Images, from : Layouts, to : Layouts]
Marks == [used : BOOLEAN, from : Layouts, to : Layouts, ok : BOOLEAN]
RendererStates ==
  [stage : {"none", "idle", "set", "pass", "ended"},
   pass : [Images -> {"none", "READ", "WRITE", "READ_WRITE"}], att : SUBSET Moves, att_recorded : BOOLEAN,
   img : SUBSET Moves, img_performed : BOOLEAN, buffer : [Images -> Marks],
   drawable : SUBSET [image : Images, state : LayoutStates], is_presenting : BOOLEAN]

ImageTypes ==
  /\ kind \in [Images -> {"texture", "storage", "color", "depth", "eye"}]
  /\ cur \in [Images -> LayoutStates] /\ actual \in [Images -> Layouts]
  /\ renderer \in RendererStates
  /\ strayed \subseteq Images

(* Render targets and VR images are not mapped. *)
MappedInv ==
  /\ mapped \in [Images -> SUBSET {"READ", "WRITE", "leaving"}]
  /\ \A i \in Images : mapped[i] # {} => Copyable(i)

OnePerImage(moves) == \A m, n \in moves : m.image = n.image => m = n
Unperformed == IF renderer.img_performed THEN {} ELSE renderer.img
Unrecorded == IF renderer.att_recorded THEN {} ELSE renderer.att

(* What a renderer moves: attachments, one VR image, arguments of a draw.  *)
RendererInv ==
  /\ OnePerImage(renderer.img)
  /\ OnePerImage(Unrecorded) /\ \A m \in Unrecorded : m.image \in Attached
  /\ \A i \in Attached : kind[i] \in {"color", "depth"}
  /\ \A d, e \in renderer.drawable : kind[d.image] = "eye" /\ d = e
  /\ renderer.stage \in {"pass", "ended"} => renderer.att_recorded
  /\ renderer.stage = "none" => renderer = NoRenderer

(* A VR image is rendered to or presented. *)
EyeInv ==
  /\ \A i \in Images : kind[i] = "eye" => cur[i] \in {TransferSrc, WriteState(i, FALSE, FALSE)}
  /\ \A d \in renderer.drawable : d.state \in {TransferSrc, WriteState(d.image, FALSE, FALSE)}

(* The moves of an image that are still to come start at its layout on the *)
(* device, follow each other - those of draws, the command buffer of the   *)
(* renderer, those of set_attachments - and end at the tracked layout.     *)
LayoutAfter(moves, i, layout) ==
  IF \E m \in moves : m.image = i THEN (CHOOSE m \in moves : m.image = i).to ELSE layout
BeforePass(i) == LayoutAfter(Unperformed, i, actual[i])
AfterPass(i) == IF renderer.buffer[i].used THEN renderer.buffer[i].to ELSE BeforePass(i)
MovesConnect(i) ==
  /\ \A m \in Unperformed : m.image = i => m.from = actual[i]
  /\ renderer.buffer[i].used => renderer.buffer[i].ok /\ renderer.buffer[i].from = BeforePass(i)
  /\ \A m \in Unrecorded : m.image = i => m.from = AfterPass(i)
  /\ cur[i].layout = LayoutAfter(Unrecorded, i, AfterPass(i))

(* The renderer's idea of an image is that of the image.                   *)
RendererAgrees(i) ==
  /\ \A d \in renderer.drawable : d.image = i => d.state.layout = cur[i].layout
  /\ renderer.stage \in {"set", "pass", "ended"} /\ i \in Attached =>
       cur[i].layout = AttachedState(i, renderer.pass[i]).layout

ImagesInv ==
  /\ ImageTypes /\ MappedInv /\ RendererInv /\ EyeInv
  /\ wrong \subseteq strayed
  /\ \A i \in Images \ strayed : MovesConnect(i) /\ RendererAgrees(i)

(* The mark of an image leads from one layout to another.                  *)
Leads(mark, a, b) ==
  IF mark.used THEN mark.ok /\ mark.from = a /\ mark.to = b ELSE a = b

LEMMA StatesAreStates ==
  ASSUME NEW i
  PROVE  /\ ReadState(i) \in LayoutStates /\ Usage(i) \in LayoutStates
         /\ \A b, c \in BOOLEAN : WriteState(i, b, c) \in LayoutStates
         /\ \A a : Wanted(i, a) \in LayoutStates /\ AttachedState(i, a) \in LayoutStates
         /\ \A a \in Layouts : State(a, {}) \in LayoutStates /\ State(a, {}).layout = a
         /\ TransferSrc \in LayoutStates /\ TransferDst \in LayoutStates
<1>1. ReadState(i) \in LayoutStates
  BY DEF ReadState, State, LayoutStates, Layouts, AccessFlags
<1>2. ASSUME NEW b \in BOOLEAN, NEW c \in BOOLEAN
      PROVE  WriteState(i, b, c) \in LayoutStates
  <2>1. WriteState(i, TRUE, c) \in LayoutStates
    BY DEF WriteState, State, LayoutStates, Layouts, AccessFlags
  <2>2. WriteState(i, FALSE, c) \in LayoutStates
    BY DEF WriteState, State, LayoutStates, Layouts, AccessFlags
  <2> QED
    BY <2>1, <2>2
<1>3. ASSUME NEW a PROVE Wanted(i, a) \in LayoutStates /\ AttachedState(i, a) \in LayoutStates
  <2>1. (a = "READ_WRITE") \in BOOLEAN
    OBVIOUS
  <2> QED
    BY <1>1, <1>2, <2>1 DEF Wanted, AttachedState
<1>4. Usage(i) \in LayoutStates
  BY <1>1, <1>2 DEF Usage
<1>5. \A a \in Layouts : State(a, {}) \in LayoutStates /\ State(a, {}).layout = a
  BY DEF State, LayoutStates, Layouts, AccessFlags
<1>6. TransferSrc \in LayoutStates /\ TransferDst \in LayoutStates
  BY DEF TransferSrc, TransferDst, State, LayoutStates, Layouts, AccessFlags
<1> QED
  BY <1>1, <1>2, <1>3, <1>4, <1>5, <1>6

LEMMA BarrierIsMove ==
  ASSUME NEW i \in Images, NEW a \in LayoutStates, NEW b \in LayoutStates
  PROVE  /\ BarrierOf(i, a, b) \in Moves
         /\ BarrierOf(i, a, b).image = i
         /\ BarrierOf(i, a, b).from = a.layout /\ BarrierOf(i, a, b).to = b.layout
         /\ a.layout \in Layouts /\ b.layout \in Layouts
BY DEF BarrierOf, Move, Moves, LayoutStates

LEMMA EmptyBufferLeads ==
  /\ EmptyBuffer \in [Images -> Marks]
  /\ \A i \in Images : ~EmptyBuffer[i].used
  /\ \A i \in Images, a \in Layouts : Leads(EmptyBuffer[i], a, a)
<1>1. Untouched \in Marks /\ ~Untouched.used
  BY DEF Untouched, Marks, Layouts
<1> QED
  BY <1>1 DEF EmptyBuffer, Leads

LEMMA PutType ==
  ASSUME NEW work \in [Images -> Marks], NEW m \in Moves
  PROVE  /\ Put(work, m) \in [Images -> Marks]
         /\ \A i \in Images : i # m.image => Put(work, m)[i] = work[i]
         /\ Put(work, m)[m.image].used
<1> DEFINE b == work[m.image]
           n == IF b.used THEN [b EXCEPT !.to = m.to, !.ok = b.ok /\ b.to = m.from]
                ELSE [used |-> TRUE, from |-> m.from, to |-> m.to, ok |-> TRUE]
<1>1. m.image \in Images /\ m.from \in Layouts /\ m.to \in Layouts /\ b \in Marks
  BY DEF Moves
<1>2. Put(work, m) = [work EXCEPT ![m.image] = n]
  BY DEF Put
<1>3. n \in Marks /\ n.used
  BY <1>1 DEF Marks
<1> HIDE DEF b, n
<1> QED
  BY <1>1, <1>2, <1>3

LEMMA PutLeads ==
  ASSUME NEW work \in [Images -> Marks], NEW m \in Moves, NEW a \in Layouts,
         Leads(work[m.image], a, m.from)
  PROVE  Leads(Put(work, m)[m.image], a, m.to)
<1> DEFINE b == work[m.image]
           n == Put(work, m)[m.image]
<1>1. m.image \in Images /\ m.from \in Layouts /\ m.to \in Layouts /\ b \in Marks
  BY DEF Moves
<1>2. n.used
  BY PutType
<1>3. CASE b.used
  <2>1. n = [b EXCEPT !.to = m.to, !.ok = TRUE]
    BY <1>1, <1>3 DEF Leads, Put
  <2> QED
    BY <1>1, <1>2, <1>3, <2>1 DEF Leads, Marks
<1>4. CASE ~b.used
  <2>1. n = [used |-> TRUE, from |-> m.from, to |-> m.to, ok |-> TRUE]
    BY <1>1, <1>4 DEF Put
  <2> QED
    BY <1>4, <2>1 DEF Leads
<1> QED
  BY <1>3, <1>4

LEMMA PutAllType ==
  ASSUME NEW work \in [Images -> Marks], NEW moves \in SUBSET Moves
  PROVE  /\ PutAll(work, moves) \in [Images -> Marks]
         /\ \A i \in Images : (\A m \in moves : m.image # i) => PutAll(work, moves)[i] = work[i]
<1>1. ASSUME NEW j \in Images, \E m \in moves : m.image = j
      PROVE  (CHOOSE m \in moves : m.image = j) \in moves
  BY <1>1
<1> QED
  BY <1>1, PutType DEF PutAll

LEMMA PutAllLeads ==
  ASSUME NEW work \in [Images -> Marks], NEW moves \in SUBSET Moves, NEW m \in moves,
         \A n \in moves : n.image = m.image => n = m
  PROVE  /\ PutAll(work, moves)[m.image].used
         /\ \A a \in Layouts : Leads(work[m.image], a, m.from) => Leads(PutAll(work, moves)[m.image], a, m.to)
<1>1. (CHOOSE n \in moves : n.image = m.image) = m
  OBVIOUS
<1>2. m.image \in Images
  BY DEF Moves
<1>3. PutAll(work, moves)[m.image] = Put(work, m)[m.image]
  BY <1>1, <1>2 DEF PutAll
<1> QED
  BY <1>3, PutType, PutLeads

LEMMA SubmittedLeads ==
  ASSUME NEW layouts \in [Images -> Layouts], NEW work \in [Images -> Marks]
  PROVE  /\ LayoutsAfter(layouts, work) \in [Images -> Layouts]
         /\ WrongIn(layouts, work) \subseteq Images
BY DEF LayoutsAfter, WrongIn, Marks

LEMMA SubmittedFinds ==
  ASSUME NEW layouts \in [Images -> Layouts], NEW work \in [Images -> Marks],
         NEW i \in Images, NEW b \in Layouts, Leads(work[i], layouts[i], b)
  PROVE  i \notin WrongIn(layouts, work) /\ LayoutsAfter(layouts, work)[i] = b
BY DEF LayoutsAfter, WrongIn, Leads, Marks, Found

LEMMA LayoutAfterOnly ==
  ASSUME NEW moves \in SUBSET Moves, NEW i, NEW a
  PROVE  /\ (\A m \in moves : m.image # i) => LayoutAfter(moves, i, a) = a
         /\ \A m \in moves : m.image = i /\ (\A n \in moves : n.image = i => n = m) =>
              LayoutAfter(moves, i, a) = m.to
<1>1. ASSUME NEW m \in moves, m.image = i, \A n \in moves : n.image = i => n = m
      PROVE  LayoutAfter(moves, i, a) = m.to
  <2>1. (CHOOSE n \in moves : n.image = i) = m
    BY <1>1
  <2> QED
    BY <1>1, <2>1 DEF LayoutAfter
<1> QED
  BY <1>1 DEF LayoutAfter

LEMMA NotTakenIsSettled ==
  ASSUME ImagesInv, NEW i \in Images \ strayed, i \notin Taken
  PROVE  cur[i].layout = actual[i]
<1>1. MovesConnect(i)
  BY DEF ImagesInv
<1>2. /\ \A m \in Unperformed : m.image # i
      /\ \A m \in Unrecorded : m.image # i
      /\ ~renderer.buffer[i].used
  BY DEF Taken, Open, Unperformed, Unrecorded
<1>3. /\ Unperformed \in SUBSET Moves /\ Unrecorded \in SUBSET Moves
  BY DEF ImagesInv, ImageTypes, RendererStates, Unperformed, Unrecorded
<1> QED
  BY <1>1, <1>2, <1>3, LayoutAfterOnly DEF MovesConnect, AfterPass, BeforePass

LEMMA SettledConnects ==
  ASSUME NEW i \in Images, i \notin Taken, cur'[i].layout = actual'[i],
         renderer \in RendererStates, UNCHANGED renderer
  PROVE  MovesConnect(i)'
<1>2. /\ \A m \in Unperformed' : m.image # i
      /\ \A m \in Unrecorded' : m.image # i
      /\ ~renderer.buffer[i].used
  BY DEF Taken, Open, Unperformed, Unrecorded
<1>3. /\ Unperformed' \in SUBSET Moves /\ Unrecorded' \in SUBSET Moves
  BY DEF RendererStates, Unperformed, Unrecorded
<1>4. LayoutAfter(Unperformed', i, actual'[i]) = actual'[i] /\ LayoutAfter(Unrecorded', i, actual'[i]) = actual'[i]
  BY <1>2, <1>3, LayoutAfterOnly
<1> QED
  BY <1>2, <1>4 DEF MovesConnect, AfterPass, BeforePass

(* What an operation on images that is submitted at once does to them.     *)
Kept ==
  /\ cur' \in [Images -> LayoutStates] /\ actual' \in [Images -> Layouts]
  /\ strayed \subseteq strayed' /\ strayed' \subseteq Images /\ wrong' \subseteq strayed'
  /\ \A i \in Images : kind[i] = "eye" => cur'[i] \in {TransferSrc, WriteState(i, FALSE, FALSE)}
  /\ \A i \in Images \ strayed' :
       \/ cur'[i] = cur[i] /\ actual'[i] = actual[i]
       \/ i \notin Taken /\ cur'[i].layout = actual'[i]

LEMMA KeptIsInvariant ==
  ASSUME ImagesInv, Kept, MappedInv', UNCHANGED <<kind, renderer>>
  PROVE  ImagesInv'
<1>1. ImageTypes'
  BY DEF ImagesInv, Kept, ImageTypes
<1>2. RendererInv'
  BY DEF ImagesInv, RendererInv, Attached, Unrecorded
<1>3. EyeInv'
  BY DEF ImagesInv, Kept, EyeInv, WriteState, IsTarget
<1>4. ASSUME NEW i \in Images \ strayed' PROVE MovesConnect(i)' /\ RendererAgrees(i)'
  <2>1. i \in Images \ strayed /\ MovesConnect(i) /\ RendererAgrees(i)
    BY <1>4 DEF ImagesInv, Kept
  <2>2. CASE cur'[i] = cur[i] /\ actual'[i] = actual[i]
    <3>1. MovesConnect(i)'
      BY <2>1, <2>2 DEF MovesConnect, AfterPass, BeforePass, Unperformed, Unrecorded
    <3>2. RendererAgrees(i)'
      BY <2>1, <2>2 DEF RendererAgrees, Attached, AttachedState, ReadState, WriteState, IsTarget
    <3> QED
      BY <3>1, <3>2
  <2>3. CASE i \notin Taken /\ cur'[i].layout = actual'[i]
    <3>1. MovesConnect(i)'
      BY <2>3, SettledConnects DEF ImagesInv, ImageTypes
    <3>2. renderer.stage \in {"none", "idle"} \/ i \notin Attached
      BY <2>1, <2>3 DEF Taken, Attached
    <3>3. \A d \in renderer.drawable : d.image # i
      BY <2>3 DEF Taken, Open
    <3> QED
      BY <3>1, <3>2, <3>3 DEF RendererAgrees, Attached
  <2> QED
    BY <1>4, <2>2, <2>3 DEF Kept
<1> QED
  BY <1>1, <1>2, <1>3, <1>4 DEF ImagesInv, Kept

(* What a command buffer does to images is what the tracked states say.    *)
Fits(images, next, work) ==
  /\ images \subseteq Images /\ next \in [Images -> LayoutStates] /\ work \in [Images -> Marks]
  /\ \A i \in Images : kind[i] = "eye" => next[i] \in {TransferSrc, WriteState(i, FALSE, FALSE)}
  /\ \A i \in images : work[i].used /\ Leads(work[i], cur[i].layout, next[i].layout)
  /\ \A i \in Images \ images : ~work[i].used /\ next[i] = cur[i]

LEMMA BlockKeeps ==
  ASSUME ImagesInv, NEW images, NEW next, NEW work,
         Fits(images, next, work), Block(images, next, work)
  PROVE  Kept
<1>0. /\ images \subseteq Images /\ next \in [Images -> LayoutStates] /\ work \in [Images -> Marks]
      /\ \A i \in Images : kind[i] = "eye" => next[i] \in {TransferSrc, WriteState(i, FALSE, FALSE)}
      /\ \A i \in images : work[i].used /\ Leads(work[i], cur[i].layout, next[i].layout)
      /\ \A i \in Images \ images : ~work[i].used /\ next[i] = cur[i]
  BY DEF Fits
<1>1. ImageTypes /\ EyeInv /\ wrong \subseteq strayed
  BY DEF ImagesInv
<1>2. /\ LayoutsAfter(actual, work) \in [Images -> Layouts]
      /\ WrongIn(actual, work) \subseteq Images
  BY <1>0, <1>1, SubmittedLeads DEF ImageTypes
<1>3. ASSUME cur' = next, actual' = LayoutsAfter(actual, work),
             wrong' = wrong \cup WrongIn(actual, work),
             strayed' = strayed \cup (images \cap Taken)
      PROVE  Kept
  <2>1. ASSUME NEW i \in images, i \notin strayed'
        PROVE  /\ i \notin Taken /\ i \notin WrongIn(actual, work)
               /\ cur'[i].layout = actual'[i]
    <3>1. i \notin Taken /\ i \in Images \ strayed
      BY <1>0, <1>3, <2>1
    <3>2. Leads(work[i], actual[i], next[i].layout)
      BY <1>0, <3>1, NotTakenIsSettled
    <3>3. actual \in [Images -> Layouts] /\ next[i].layout \in Layouts
      BY <1>0, <1>1, <3>1 DEF ImageTypes, LayoutStates
    <3>4. i \notin WrongIn(actual, work) /\ LayoutsAfter(actual, work)[i] = next[i].layout
      BY <1>0, <3>1, <3>2, <3>3, SubmittedFinds
    <3> QED
      BY <1>0, <1>3, <3>1, <3>4
  <2>2. ASSUME NEW i \in Images \ images
        PROVE  i \notin WrongIn(actual, work) /\ cur'[i] = cur[i] /\ actual'[i] = actual[i]
    BY <1>0, <1>3, <2>2 DEF WrongIn, LayoutsAfter
  <2>3. wrong' \subseteq strayed'
    BY <1>0, <1>1, <1>2, <1>3, <2>1, <2>2
  <2> QED
    BY <1>0, <1>1, <1>2, <1>3, <2>1, <2>2, <2>3 DEF Kept, ImageTypes
<1>4. ASSUME UNCHANGED <<cur, actual, wrong, strayed>>
      PROVE  Kept
  BY <1>0, <1>1, <1>4 DEF Kept, ImageTypes, EyeInv
<1>5. ASSUME cur' = next, strayed' = strayed \cup (images \cap Taken) \cup Moved(work),
             UNCHANGED <<actual, wrong>>
      PROVE  Kept
  <2>1. ASSUME NEW i \in images, i \notin strayed'
        PROVE  i \notin Taken /\ cur'[i].layout = actual'[i]
    <3>1. i \notin Taken /\ i \notin Moved(work) /\ i \in Images \ strayed
      BY <1>0, <1>5, <2>1
    <3>2. Leads(work[i], actual[i], next[i].layout) /\ work[i].used
      BY <1>0, <3>1, NotTakenIsSettled
    <3>3. work[i].from = work[i].to
      BY <1>0, <3>1, <3>2 DEF Moved
    <3> QED
      BY <1>0, <1>5, <3>1, <3>2, <3>3 DEF Leads
  <2>2. Moved(work) \subseteq Images
    BY <1>0 DEF Moved
  <2> QED
    BY <1>0, <1>1, <1>5, <2>1, <2>2 DEF Kept, ImageTypes
<1> QED
  BY <1>3, <1>4, <1>5 DEF Block

LEMMA TransferLeads ==
  ASSUME ImageTypes, NEW work \in [Images -> Marks], NEW i \in Images, NEW a \in Layouts,
         NEW during \in LayoutStates, NEW after \in LayoutStates,
         Leads(work[i], a, cur[i].layout)
  PROVE  /\ Transfer(work, i, during, after) \in [Images -> Marks]
         /\ Transfer(work, i, during, after)[i].used
         /\ Leads(Transfer(work, i, during, after)[i], a, after.layout)
         /\ \A j \in Images : j # i => Transfer(work, i, during, after)[j] = work[j]
<1> DEFINE m1 == BarrierOf(i, cur[i], during)
           m2 == BarrierOf(i, during, during)
           m3 == BarrierOf(i, during, after)
           b1 == Put(work, m1)
           b2 == Put(b1, m2)
           b3 == Put(b2, m3)
<1>1. cur[i] \in LayoutStates
  BY DEF ImageTypes
<1>2. /\ m1 \in Moves /\ m1.image = i /\ m1.from = cur[i].layout /\ m1.to = during.layout
      /\ cur[i].layout \in Layouts /\ during.layout \in Layouts
      /\ m2 \in Moves /\ m2.image = i /\ m2.from = during.layout /\ m2.to = during.layout
      /\ m3 \in Moves /\ m3.image = i /\ m3.from = during.layout /\ m3.to = after.layout
  BY <1>1, BarrierIsMove
<1>3. Transfer(work, i, during, after) = b3
  BY DEF Transfer
<1> HIDE DEF m1, m2, m3
<1>4. /\ b1 \in [Images -> Marks] /\ Leads(b1[i], a, during.layout)
      /\ \A j \in Images : j # i => b1[j] = work[j]
  BY <1>2, PutType, PutLeads
<1> HIDE DEF b1
<1>5. /\ b2 \in [Images -> Marks] /\ Leads(b2[i], a, during.layout)
      /\ \A j \in Images : j # i => b2[j] = b1[j]
  BY <1>2, <1>4, PutType, PutLeads
<1> HIDE DEF b2
<1>6. /\ b3 \in [Images -> Marks] /\ Leads(b3[i], a, after.layout) /\ b3[i].used
      /\ \A j \in Images : j # i => b3[j] = b2[j]
  BY <1>2, <1>5, PutType, PutLeads
<1> QED
  BY <1>3, <1>4, <1>5, <1>6

LEMMA TransitionKeeps ==
  ASSUME ImagesInv, NEW i \in Images, NEW wanted \in LayoutStates,
         kind[i] = "eye" => wanted \in {TransferSrc, WriteState(i, FALSE, FALSE)},
         TransitionTo(i, wanted)
  PROVE  Kept
<1>1. ImageTypes /\ EyeInv /\ wrong \subseteq strayed
  BY DEF ImagesInv
<1>2. CASE UNCHANGED <<cur, actual, wrong, strayed>>
  BY <1>1, <1>2 DEF Kept, ImageTypes, EyeInv
<1>3. CASE Block({i}, [cur EXCEPT ![i] = wanted], Put(EmptyBuffer, BarrierOf(i, cur[i], wanted)))
  <2> DEFINE next == [cur EXCEPT ![i] = wanted]
             m == BarrierOf(i, cur[i], wanted)
             work == Put(EmptyBuffer, m)
  <2>1. next \in [Images -> LayoutStates]
    BY <1>1 DEF ImageTypes
  <2>2. /\ m \in Moves /\ m.image = i /\ m.from = cur[i].layout /\ m.to = wanted.layout
        /\ cur[i].layout \in Layouts
    BY <1>1, BarrierIsMove DEF ImageTypes
  <2>3. next[i] = wanted /\ \A j \in Images \ {i} : next[j] = cur[j]
    BY <1>1 DEF ImageTypes
  <2>4. \A j \in Images : kind[j] = "eye" => next[j] \in {TransferSrc, WriteState(j, FALSE, FALSE)}
    BY <1>1, <2>3 DEF EyeInv
  <2> HIDE DEF m
  <2>5. /\ work \in [Images -> Marks] /\ work[i].used
        /\ Leads(work[i], cur[i].layout, wanted.layout)
        /\ \A j \in Images \ {i} : ~work[j].used
    BY <2>2, PutType, PutLeads, EmptyBufferLeads
  <2>6. Block({i}, next, work)
    BY <1>3 DEF m
  <2> HIDE DEF next, work
  <2>7. Fits({i}, next, work)
    BY <2>1, <2>3, <2>4, <2>5 DEF Fits
  <2> QED
    BY <2>6, <2>7, BlockKeeps
<1> QED
  BY <1>2, <1>3 DEF TransitionTo

(* A transfer of one image that is submitted at once                       *)
LEMMA TransferKeeps ==
  ASSUME ImagesInv, NEW i \in Images, kind[i] # "eye",
         NEW during \in LayoutStates, NEW after \in LayoutStates,
         NEW next, next = [cur EXCEPT ![i] = after],
         Block({i}, next, Transfer(EmptyBuffer, i, during, after))
  PROVE  Kept
<1>1. ImageTypes /\ EyeInv
  BY DEF ImagesInv
<1> DEFINE work == Transfer(EmptyBuffer, i, during, after)
<1>2. next \in [Images -> LayoutStates] /\ next[i] = after /\ \A j \in Images \ {i} : next[j] = cur[j]
  BY <1>1 DEF ImageTypes
<1>3. \A j \in Images : kind[j] = "eye" => next[j] \in {TransferSrc, WriteState(j, FALSE, FALSE)}
  BY <1>1, <1>2 DEF EyeInv
<1>4. /\ work \in [Images -> Marks] /\ work[i].used
      /\ Leads(work[i], cur[i].layout, after.layout)
      /\ \A j \in Images \ {i} : ~work[j].used
  <2>1. cur[i].layout \in Layouts
    BY <1>1 DEF ImageTypes, LayoutStates
  <2>2. /\ EmptyBuffer \in [Images -> Marks] /\ (\A j \in Images : ~EmptyBuffer[j].used)
        /\ Leads(EmptyBuffer[i], cur[i].layout, cur[i].layout)
    BY <2>1, EmptyBufferLeads
  <2> QED
    BY <1>1, <2>1, <2>2, TransferLeads
<1>5. Block({i}, next, work)
  OBVIOUS
<1> HIDE DEF work
<1>6. Fits({i}, next, work)
  BY <1>2, <1>3, <1>4 DEF Fits
<1> QED
  BY <1>5, <1>6, BlockKeeps

(* A transfer that leaves the image in the layout it is done in            *)
LEMMA HalfTransferKeeps ==
  ASSUME ImagesInv, NEW i \in Images, kind[i] # "eye", NEW during \in LayoutStates,
         Block({i}, [cur EXCEPT ![i] = during],
               Put(Put(EmptyBuffer, BarrierOf(i, cur[i], during)), BarrierOf(i, during, during)))
  PROVE  Kept
<1>1. ImageTypes /\ EyeInv
  BY DEF ImagesInv
<1> DEFINE next == [cur EXCEPT ![i] = during]
           m == BarrierOf(i, cur[i], during)
           n == BarrierOf(i, during, during)
           b == Put(EmptyBuffer, m)
           work == Put(b, n)
<1>2. next \in [Images -> LayoutStates] /\ next[i] = during /\ \A j \in Images \ {i} : next[j] = cur[j]
  BY <1>1 DEF ImageTypes
<1>3. \A j \in Images : kind[j] = "eye" => next[j] \in {TransferSrc, WriteState(j, FALSE, FALSE)}
  BY <1>1, <1>2 DEF EyeInv
<1>4. /\ m \in Moves /\ m.image = i /\ m.from = cur[i].layout /\ m.to = during.layout
      /\ cur[i].layout \in Layouts
      /\ n \in Moves /\ n.image = i /\ n.from = during.layout /\ n.to = during.layout
  BY <1>1, BarrierIsMove DEF ImageTypes
<1>5. Block({i}, next, work)
  OBVIOUS
<1> HIDE DEF m, n, next
<1>6. /\ b \in [Images -> Marks] /\ Leads(b[i], cur[i].layout, during.layout)
      /\ \A j \in Images \ {i} : ~b[j].used
  <2>1. /\ EmptyBuffer \in [Images -> Marks] /\ (\A j \in Images : ~EmptyBuffer[j].used)
        /\ Leads(EmptyBuffer[i], cur[i].layout, cur[i].layout)
    BY <1>4, EmptyBufferLeads
  <2>2. b \in [Images -> Marks] /\ \A j \in Images \ {i} : ~b[j].used
    BY <1>4, <2>1, PutType
  <2>3. Leads(b[i], cur[i].layout, during.layout)
    BY <1>4, <2>1, PutLeads
  <2> QED
    BY <2>2, <2>3
<1> HIDE DEF b
<1>7. /\ work \in [Images -> Marks] /\ work[i].used
      /\ Leads(work[i], cur[i].layout, during.layout)
      /\ \A j \in Images \ {i} : ~work[j].used
  BY <1>4, <1>6, PutType, PutLeads
<1> HIDE DEF work
<1>8. Fits({i}, next, work)
  BY <1>2, <1>3, <1>7 DEF Fits
<1> QED
  BY <1>5, <1>8, BlockKeeps

LEMMA ZeroKeeps ==
  ASSUME ImagesInv, NEW i \in Images, zero(i)
  PROVE  Kept /\ UNCHANGED <<kind, renderer>>
<1>1. ImageTypes /\ EyeInv /\ wrong \subseteq strayed /\ cur[i] \in LayoutStates
  BY DEF ImagesInv, ImageTypes
<1>2. kind[i] # "eye" /\ UNCHANGED <<kind, renderer>>
  BY DEF zero
<1>3. CASE ~IsTarget(i)
  <2>1. cur = [cur EXCEPT ![i] = cur[i]]
    BY <1>1 DEF ImageTypes
  <2>2. Block({i}, cur, Transfer(EmptyBuffer, i, TransferDst, cur[i]))
    BY <1>3 DEF zero
  <2> QED
    BY <1>1, <1>2, <2>1, <2>2, StatesAreStates, TransferKeeps
<1>4. CASE IsTarget(i)
  <2> DEFINE layout == WriteState(i, FALSE, FALSE).layout
  <2>1. layout \in Layouts
    BY StatesAreStates DEF LayoutStates
  <2>2. /\ actual' = [actual EXCEPT ![i] = layout]
        /\ wrong' = IF actual[i] = layout THEN wrong ELSE wrong \cup {i}
        /\ strayed' = IF cur[i].layout = layout THEN strayed \cup ({i} \cap Taken) ELSE strayed \cup {i}
        /\ UNCHANGED cur
    BY <1>4 DEF zero
  <2> HIDE DEF layout
  <2>3. ASSUME i \notin strayed'
        PROVE  i \notin wrong' /\ i \notin Taken /\ cur'[i].layout = actual'[i]
    <3>1. cur[i].layout = layout /\ i \notin Taken /\ i \in Images \ strayed
      BY <2>2, <2>3
    <3>2. actual[i] = layout
      BY <3>1, NotTakenIsSettled
    <3> QED
      BY <1>1, <2>2, <3>1, <3>2 DEF ImageTypes
  <2>4. \A j \in Images \ {i} : cur'[j] = cur[j] /\ actual'[j] = actual[j]
    BY <1>1, <2>2 DEF ImageTypes
  <2>5. wrong' \subseteq strayed'
    BY <1>1, <2>2, <2>3
  <2>6. /\ cur' \in [Images -> LayoutStates] /\ actual' \in [Images -> Layouts]
        /\ strayed \subseteq strayed' /\ strayed' \subseteq Images
    BY <1>1, <2>1, <2>2 DEF ImageTypes
  <2> QED
    BY <1>1, <1>2, <2>2, <2>3, <2>4, <2>5, <2>6 DEF Kept, EyeInv
<1> QED
  BY <1>3, <1>4

LEMMA WriteKeeps ==
  ASSUME ImagesInv, NEW i \in Images, write(i)
  PROVE  Kept /\ UNCHANGED <<kind, renderer>>
<1>1. ImageTypes /\ EyeInv /\ wrong \subseteq strayed /\ cur[i] \in LayoutStates
  BY DEF ImagesInv, ImageTypes
<1>2. kind[i] # "eye" /\ UNCHANGED <<kind, renderer>>
  BY DEF write, Copyable
<1>3. CASE Block({i}, [cur EXCEPT ![i] = Usage(i)], Transfer(EmptyBuffer, i, TransferDst, Usage(i)))
  BY <1>1, <1>2, <1>3, StatesAreStates, TransferKeeps
<1>4. CASE /\ wrong' = wrong \cup WrongIn(actual, Put(EmptyBuffer, BarrierOf(i, cur[i], cur[i])))
           /\ strayed' = strayed \cup ({i} \cap Taken)
           /\ UNCHANGED <<cur, actual>>
  <2> DEFINE m == BarrierOf(i, cur[i], cur[i])
             work == Put(EmptyBuffer, m)
  <2>1. /\ m \in Moves /\ m.image = i /\ m.from = cur[i].layout /\ m.to = cur[i].layout
        /\ cur[i].layout \in Layouts
    BY <1>1, BarrierIsMove
  <2>2. wrong' = wrong \cup WrongIn(actual, work)
    BY <1>4
  <2> HIDE DEF m
  <2>3. /\ EmptyBuffer \in [Images -> Marks] /\ (\A j \in Images : ~EmptyBuffer[j].used)
        /\ Leads(EmptyBuffer[i], cur[i].layout, cur[i].layout)
    BY <2>1, EmptyBufferLeads
  <2>4. /\ work \in [Images -> Marks]
        /\ Leads(work[i], cur[i].layout, cur[i].layout)
        /\ \A j \in Images \ {i} : ~work[j].used
    BY <2>1, <2>3, PutType, PutLeads
  <2> HIDE DEF work
  <2>5. WrongIn(actual, work) \subseteq {i}
    BY <2>4 DEF WrongIn
  <2>6. ASSUME i \notin strayed' PROVE i \notin WrongIn(actual, work)
    <3>1. i \in Images \ strayed /\ i \notin Taken
      BY <1>4, <2>6
    <3>2. Leads(work[i], actual[i], cur[i].layout)
      BY <2>4, <3>1, NotTakenIsSettled
    <3> QED
      BY <1>1, <2>1, <2>4, <3>2, SubmittedFinds DEF ImageTypes
  <2>7. wrong' \subseteq strayed' /\ strayed \subseteq strayed' /\ strayed' \subseteq Images
    BY <1>1, <1>4, <2>2, <2>5, <2>6 DEF ImageTypes
  <2> QED
    BY <1>1, <1>2, <1>4, <2>7 DEF Kept, ImageTypes, EyeInv
<1> QED
  BY <1>3, <1>4 DEF write

LEMMA BlitKeeps ==
  ASSUME ImagesInv, NEW dst \in Images, NEW src \in Images, blit(dst, src)
  PROVE  Kept /\ UNCHANGED <<kind, renderer>>
<1>1. ImageTypes /\ EyeInv
  BY DEF ImagesInv
<1>2. dst # src /\ UNCHANGED <<kind, renderer>>
  BY DEF blit
<1> DEFINE first == Source(EmptyBuffer, src)
           work == Transfer(first, dst, TransferDst, cur[dst])
<1>3. Block({dst, src}, cur, work)
  BY DEF blit
<1>4. /\ TransferSrc \in LayoutStates /\ TransferDst \in LayoutStates
      /\ cur[src] \in LayoutStates /\ cur[src].layout \in Layouts
      /\ cur[dst] \in LayoutStates /\ cur[dst].layout \in Layouts
  BY <1>1, StatesAreStates DEF ImageTypes, LayoutStates
<1>5. /\ EmptyBuffer \in [Images -> Marks] /\ (\A j \in Images : ~EmptyBuffer[j].used)
      /\ Leads(EmptyBuffer[src], cur[src].layout, cur[src].layout)
      /\ Leads(EmptyBuffer[dst], cur[dst].layout, cur[dst].layout)
  BY <1>4, EmptyBufferLeads
<1>6. /\ first \in [Images -> Marks] /\ first[src].used
      /\ Leads(first[src], cur[src].layout, cur[src].layout)
      /\ \A j \in Images : j # src => first[j] = EmptyBuffer[j]
  <2>1. CASE cur[src].layout = "TRANSFER_SRC"
    <3> DEFINE m == Move(src, "TRANSFER_SRC", "TRANSFER_SRC")
    <3>1. /\ m \in Moves /\ m.image = src /\ m.from = cur[src].layout /\ m.to = cur[src].layout
      BY <2>1 DEF Move, Moves, Layouts
    <3>2. first = Put(EmptyBuffer, m)
      BY <2>1 DEF Source
    <3> HIDE DEF m, first
    <3> QED
      BY <1>4, <1>5, <3>1, <3>2, PutType, PutLeads
  <2>2. CASE cur[src].layout # "TRANSFER_SRC"
    <3>1. first = Transfer(EmptyBuffer, src, TransferSrc, cur[src])
      BY <2>2 DEF Source
    <3> HIDE DEF first
    <3> QED
      BY <1>1, <1>4, <1>5, <3>1, TransferLeads
  <2> QED
    BY <2>1, <2>2
<1> HIDE DEF first
<1>7. /\ work \in [Images -> Marks] /\ work[dst].used
      /\ Leads(work[dst], cur[dst].layout, cur[dst].layout)
      /\ \A j \in Images : j # dst => work[j] = first[j]
  <2>1. Leads(first[dst], cur[dst].layout, cur[dst].layout)
    BY <1>2, <1>5, <1>6
  <2> QED
    BY <1>1, <1>4, <1>6, <2>1, TransferLeads
<1> HIDE DEF work
<1>8. Fits({dst, src}, cur, work)
  BY <1>1, <1>2, <1>5, <1>6, <1>7 DEF Fits, ImageTypes, EyeInv
<1> QED
  BY <1>2, <1>3, <1>8, BlockKeeps

LEMMA MapKeeps ==
  ASSUME ImagesInv, NEW i \in Images, NEW how, map(i, how)
  PROVE  Kept /\ UNCHANGED <<kind, renderer>>
<1>1. ImageTypes /\ EyeInv /\ wrong \subseteq strayed
  BY DEF ImagesInv
<1>2. kind[i] # "eye" /\ UNCHANGED <<kind, renderer>>
  BY DEF map, Copyable
<1>3. CASE UNCHANGED <<cur, actual, wrong, strayed>>
  BY <1>1, <1>2, <1>3 DEF Kept, ImageTypes, EyeInv
<1>4. CASE Block({i}, [cur EXCEPT ![i] = TransferSrc],
                 Put(Put(EmptyBuffer, BarrierOf(i, cur[i], TransferSrc)), BarrierOf(i, TransferSrc, TransferSrc)))
  BY <1>2, <1>4, StatesAreStates, HalfTransferKeeps
<1> QED
  BY <1>3, <1>4 DEF map

LEMMA UnmapKeeps ==
  ASSUME ImagesInv, NEW i \in Images, NEW discard \in BOOLEAN, unmap(i, discard)
  PROVE  Kept /\ UNCHANGED <<kind, renderer>>
<1>1. ImageTypes /\ EyeInv /\ wrong \subseteq strayed
  BY DEF ImagesInv
<1>2. kind[i] # "eye" /\ UNCHANGED <<kind, renderer>>
  BY DEF unmap, ImagesInv, MappedInv, Copyable
<1>3. CASE UNCHANGED <<cur, actual, wrong, strayed>>
  BY <1>1, <1>2, <1>3 DEF Kept, ImageTypes, EyeInv
<1>4. CASE Block({i}, [cur EXCEPT ![i] = TransferDst],
                 Put(Put(EmptyBuffer, BarrierOf(i, cur[i], TransferDst)), BarrierOf(i, TransferDst, TransferDst)))
  BY <1>2, <1>4, StatesAreStates, HalfTransferKeeps
<1> QED
  BY <1>3, <1>4 DEF unmap

LEMMA LeaveTransferKeeps ==
  ASSUME ImagesInv, NEW i \in Images, leave_transfer(i)
  PROVE  Kept /\ UNCHANGED <<kind, renderer>>
<1>1. ImageTypes /\ kind[i] # "eye"
  BY DEF leave_transfer, ImagesInv, MappedInv, Copyable
<1>2. Unmapped(i) \in LayoutStates
  BY <1>1, StatesAreStates DEF Unmapped, ImageTypes
<1>3. TransitionTo(i, Unmapped(i)) /\ UNCHANGED <<kind, renderer>>
  BY DEF leave_transfer
<1> QED
  BY <1>1, <1>2, <1>3, TransitionKeeps

(* An argument is used in the layout of its transition: the general layout *)
(* of its descriptor, or the one of a read the descriptor does not say.    *)
LEMMA UsedWhereMoved ==
  ASSUME NEW args \in Arguments, NEW i \in Images, args[i] # "none"
  PROVE  UsedIn(i, args[i]) = ArgState(i, args[i]).layout
<1>1. args[i] \in {"READ", "WRITE", "READ_WRITE"}
  BY DEF Arguments
<1>2. CASE args[i] = "READ"
  BY <1>2 DEF UsedIn, MisdescribedRead
<1>3. ASSUME args[i] # "READ" PROVE ArgState(i, args[i]).layout = "GENERAL"
  <2>1. Wanted(i, args[i]).layout = "GENERAL"
    BY <1>3 DEF Wanted, WriteState, State
  <2> QED
    BY <2>1 DEF ArgState, Transitioned, IsIn
<1> QED
  BY <1>1, <1>2, <1>3 DEF UsedIn, MisdescribedRead, DescriptorLayout

(* The moves of the arguments of a function, which are of different images *)
LEMMA ArgMoves ==
  ASSUME ImageTypes, NEW args \in Arguments
  PROVE  /\ ArgBarriers(args) \in SUBSET Moves /\ OnePerImage(ArgBarriers(args))
         /\ ArgUses(args) \in SUBSET Moves /\ OnePerImage(ArgUses(args))
         /\ \A m \in ArgBarriers(args) :
              /\ args[m.image] # "none" /\ m.from = cur[m.image].layout
              /\ m.to = ArgState(m.image, args[m.image]).layout
         /\ \A m \in ArgUses(args) :
              /\ args[m.image] # "none"
              /\ m.from = ArgState(m.image, args[m.image]).layout /\ m.to = m.from
<1> DEFINE State2(i) == ArgState(i, args[i])
<1>1. ASSUME NEW i \in Images
      PROVE  State2(i) \in LayoutStates /\ cur[i] \in LayoutStates
  BY StatesAreStates DEF ArgState, Transitioned, ImageTypes
<1>2. ASSUME NEW i \in Images
      PROVE  /\ BarrierOf(i, cur[i], State2(i)) \in Moves /\ BarrierOf(i, cur[i], State2(i)).image = i
             /\ BarrierOf(i, cur[i], State2(i)).from = cur[i].layout
             /\ BarrierOf(i, cur[i], State2(i)).to = State2(i).layout
             /\ BarrierOf(i, State2(i), State2(i)) \in Moves
             /\ BarrierOf(i, State2(i), State2(i)).image = i
             /\ BarrierOf(i, State2(i), State2(i)).from = State2(i).layout
             /\ BarrierOf(i, State2(i), State2(i)).to = State2(i).layout
  <2>1. State2(i) \in LayoutStates /\ cur[i] \in LayoutStates
    BY <1>1
  <2> HIDE DEF State2
  <2> QED
    BY <2>1, BarrierIsMove
<1>3. /\ ArgBarriers(args) = {BarrierOf(i, cur[i], State2(i)) :
              i \in {j \in Images : args[j] # "none" /\ ~IsIn(cur[j], Wanted(j, args[j]))}}
      /\ ArgUses(args) = {BarrierOf(i, State2(i), State2(i)) : i \in {j \in Images : args[j] # "none"}}
  BY UsedWhereMoved DEF ArgBarriers, ArgUses, BarrierOf
<1> HIDE DEF State2
<1>4. /\ \A m \in ArgBarriers(args) : \E i \in Images : args[i] # "none" /\ m = BarrierOf(i, cur[i], State2(i))
      /\ \A m \in ArgUses(args) : \E i \in Images : args[i] # "none" /\ m = BarrierOf(i, State2(i), State2(i))
  BY <1>3
<1>5. /\ ArgBarriers(args) \in SUBSET Moves /\ ArgUses(args) \in SUBSET Moves
  BY <1>2, <1>4
<1>6. OnePerImage(ArgBarriers(args)) /\ OnePerImage(ArgUses(args))
  BY <1>2, <1>4 DEF OnePerImage
<1>7. \A m \in ArgBarriers(args) :
        args[m.image] # "none" /\ m.from = cur[m.image].layout /\ m.to = State2(m.image).layout
  BY <1>2, <1>4
<1>8. \A m \in ArgUses(args) :
        args[m.image] # "none" /\ m.from = State2(m.image).layout /\ m.to = m.from
  BY <1>2, <1>4
<1> QED
  BY <1>5, <1>6, <1>7, <1>8 DEF State2

LEMMA ArgOfImage ==
  ASSUME ImageTypes, NEW args \in Arguments, NEW i \in Images
  PROVE  /\ ArgState(i, args[i]) \in LayoutStates /\ ArgState(i, args[i]).layout \in Layouts
         /\ kind[i] = "eye" => args[i] = "none"
         /\ args[i] = "none" =>
              /\ ArgState(i, args[i]) = cur[i]
              /\ \A m \in ArgBarriers(args) \cup ArgUses(args) : m.image # i
         /\ (\A m \in ArgBarriers(args) : m.image # i) => ArgState(i, args[i]) = cur[i]
         /\ args[i] # "none" => \E m \in ArgUses(args) : m.image = i
<1>1. ArgState(i, args[i]) \in LayoutStates /\ cur[i] \in LayoutStates
  BY StatesAreStates DEF ArgState, Transitioned, ImageTypes
<1>2. ArgState(i, args[i]).layout \in Layouts
  BY <1>1 DEF LayoutStates
<1>3. kind[i] = "eye" => args[i] = "none"
  BY DEF Arguments, Usable
<1>4. args[i] = "none" => ArgState(i, args[i]) = cur[i]
  BY DEF ArgState
<1>5. args[i] = "none" => \A m \in ArgBarriers(args) \cup ArgUses(args) : m.image # i
  BY ArgMoves
<1>6. ASSUME \A m \in ArgBarriers(args) : m.image # i, args[i] # "none"
      PROVE  ArgState(i, args[i]) = cur[i]
  <2>1. BarrierOf(i, cur[i], ArgState(i, args[i])).image = i
    BY DEF BarrierOf, Move
  <2>2. IsIn(cur[i], Wanted(i, args[i]))
    BY <1>6, <2>1 DEF ArgBarriers
  <2> QED
    BY <1>6, <2>2 DEF ArgState, Transitioned
<1>7. ASSUME args[i] # "none" PROVE \E m \in ArgUses(args) : m.image = i
  <2>1. Move(i, UsedIn(i, args[i]), UsedIn(i, args[i])).image = i
    BY DEF Move
  <2> QED
    BY <1>7, <2>1 DEF ArgUses
<1> QED
  BY <1>1, <1>2, <1>3, <1>4, <1>5, <1>6, <1>7

LEMMA ExecuteKeeps ==
  ASSUME ImagesInv, NEW args \in Arguments, execute(args)
  PROVE  Kept /\ UNCHANGED <<kind, renderer>>
<1>1. ImageTypes /\ EyeInv
  BY DEF ImagesInv
<1> DEFINE images == {i \in Images : args[i] # "none"}
           next == [i \in Images |-> ArgState(i, args[i])]
           first == PutAll(EmptyBuffer, ArgBarriers(args))
           work == PutAll(first, ArgUses(args))
<1>2. Block(images, next, work) /\ UNCHANGED <<kind, renderer>>
  BY DEF execute
<1>3. EmptyBuffer \in [Images -> Marks] /\ \A j \in Images : ~EmptyBuffer[j].used
  BY EmptyBufferLeads
<1>4. first \in [Images -> Marks]
  BY <1>1, <1>3, ArgMoves, PutAllType
<1>5. work \in [Images -> Marks]
  <2> HIDE DEF first
  <2> QED
    BY <1>1, <1>4, ArgMoves, PutAllType
<1>6. ASSUME NEW i \in images
      PROVE  work[i].used /\ Leads(work[i], cur[i].layout, next[i].layout)
  <2>1. i \in Images /\ cur[i].layout \in Layouts /\ next[i] = ArgState(i, args[i])
        /\ next[i].layout \in Layouts
    BY <1>1, ArgOfImage DEF ImageTypes, LayoutStates
  <2>2. Leads(EmptyBuffer[i], cur[i].layout, cur[i].layout)
    BY <2>1, EmptyBufferLeads
  <2>3. Leads(first[i], cur[i].layout, next[i].layout)
    <3>1. CASE \A m \in ArgBarriers(args) : m.image # i
      <4>1. first[i] = EmptyBuffer[i]
        BY <1>1, <1>3, <2>1, <3>1, ArgMoves, PutAllType
      <4>2. next[i] = cur[i]
        BY <1>1, <2>1, <3>1, ArgOfImage
      <4> QED
        BY <2>2, <4>1, <4>2
    <3>2. ASSUME NEW m \in ArgBarriers(args), m.image = i
          PROVE  Leads(first[i], cur[i].layout, next[i].layout)
      <4>1. m.from = cur[i].layout /\ m.to = next[i].layout
        BY <1>1, <2>1, <3>2, ArgMoves
      <4>2. /\ ArgBarriers(args) \in SUBSET Moves
            /\ \A n \in ArgBarriers(args) : n.image = m.image => n = m
        BY <1>1, ArgMoves DEF OnePerImage
      <4> QED
        BY <1>3, <2>1, <2>2, <3>2, <4>1, <4>2, PutAllLeads
    <3> QED
      BY <3>1, <3>2
  <2> HIDE DEF first, next
  <2>4. PICK m \in ArgUses(args) : m.image = i
    BY <1>1, <2>1, ArgOfImage
  <2>5. m.from = next[i].layout /\ m.to = next[i].layout
    BY <1>1, <2>1, <2>4, ArgMoves
  <2>6. /\ ArgUses(args) \in SUBSET Moves
        /\ \A n \in ArgUses(args) : n.image = m.image => n = m
    BY <1>1, ArgMoves DEF OnePerImage
  <2> QED
    BY <1>4, <2>1, <2>3, <2>4, <2>5, <2>6, PutAllLeads
<1>7. ASSUME NEW i \in Images \ images
      PROVE  ~work[i].used /\ next[i] = cur[i]
  <2>1. args[i] = "none" /\ next[i] = cur[i]
        /\ \A m \in ArgBarriers(args) \cup ArgUses(args) : m.image # i
    BY <1>1, ArgOfImage
  <2>2. first[i] = EmptyBuffer[i]
    BY <1>1, <1>3, <2>1, ArgMoves, PutAllType
  <2> HIDE DEF first
  <2>3. work[i] = first[i]
    BY <1>1, <1>4, <2>1, ArgMoves, PutAllType
  <2> QED
    BY <1>3, <2>1, <2>2, <2>3
<1>8. /\ next \in [Images -> LayoutStates]
      /\ \A i \in Images : kind[i] = "eye" => next[i] \in {TransferSrc, WriteState(i, FALSE, FALSE)}
  BY <1>1, ArgOfImage DEF EyeInv
<1> HIDE DEF next, work, first
<1>9. Fits(images, next, work)
  BY <1>5, <1>6, <1>7, <1>8 DEF Fits
<1> HIDE DEF images
<1> QED
  BY <1>2, <1>9, BlockKeeps

LEMMA NoRendererMoves ==
  /\ NoRenderer \in RendererStates
  /\ NoRenderer.att = {} /\ NoRenderer.img = {} /\ NoRenderer.drawable = {}
  /\ NoRenderer.stage = "none" /\ NoRenderer.buffer = EmptyBuffer
  /\ \A i \in Images : NoRenderer.pass[i] = "none"
<1>1. [i \in Images |-> "none"] \in [Images -> {"none", "READ", "WRITE", "READ_WRITE"}]
  OBVIOUS
<1> QED
  BY <1>1, EmptyBufferLeads DEF NoRenderer, RendererStates

(* Without moves to come the device is where the image object says.        *)
LEMMA NoMovesConnect ==
  ASSUME NEW i \in Images, cur[i].layout = actual[i], renderer \in RendererStates,
         Unperformed = {}, Unrecorded = {}, ~renderer.buffer[i].used
  PROVE  MovesConnect(i)
<1>1. LayoutAfter({}, i, actual[i]) = actual[i]
  BY DEF LayoutAfter
<1> QED
  BY <1>1 DEF MovesConnect, AfterPass, BeforePass

(* No renderer has anything to do.                                         *)
Settled ==
  /\ \/ renderer = NoRenderer
     \/ \E pass \in Passes : renderer = [NoRenderer EXCEPT !.stage = "idle", !.pass = pass]
  /\ \A i \in Images \ strayed : cur[i].layout = actual[i]

LEMMA WithoutRenderer ==
  ImageTypes /\ MappedInv /\ EyeInv /\ wrong \subseteq strayed /\ Settled => ImagesInv
<1> SUFFICES ASSUME ImageTypes, MappedInv, EyeInv, wrong \subseteq strayed, Settled
             PROVE  ImagesInv
  OBVIOUS
<1>0. /\ \/ renderer = NoRenderer
         \/ \E pass \in Passes : renderer = [NoRenderer EXCEPT !.stage = "idle", !.pass = pass]
      /\ \A i \in Images \ strayed : cur[i].layout = actual[i]
  BY DEF Settled
<1>1. /\ renderer.att = {} /\ renderer.img = {} /\ renderer.drawable = {}
      /\ renderer.stage \in {"none", "idle"} /\ renderer.buffer = EmptyBuffer
      /\ renderer.stage = "none" => renderer = NoRenderer
  BY <1>0, NoRendererMoves DEF RendererStates
<1>2. Unperformed = {} /\ Unrecorded = {}
  BY <1>1 DEF Unperformed, Unrecorded
<1>3. \A i \in Attached : kind[i] \in {"color", "depth"}
  BY <1>0, NoRendererMoves DEF Attached, Passes, RendererStates
<1>4. RendererInv
  BY <1>1, <1>2, <1>3 DEF RendererInv, OnePerImage
<1>5. ASSUME NEW i \in Images \ strayed PROVE MovesConnect(i) /\ RendererAgrees(i)
  <2>1. ~renderer.buffer[i].used
    BY <1>1, EmptyBufferLeads
  <2> QED
    BY <1>0, <1>1, <1>2, <2>1, NoMovesConnect DEF RendererAgrees, ImageTypes
<1> QED
  BY <1>4, <1>5 DEF ImagesInv

LEMMA ImagesInitially == ImagesInit => ImagesInv
<1> SUFFICES ASSUME ImagesInit PROVE ImagesInv
  OBVIOUS
<1>1. kind \in [Images -> {"texture", "storage", "color", "depth", "eye"}]
  BY ImagesAssumption DEF ImagesInit
<1>2. ASSUME NEW i \in Images
      PROVE  Created(i) \in LayoutStates /\ (kind[i] = "eye" => Created(i) = WriteState(i, FALSE, FALSE))
  <2>1. State("GENERAL", {}) \in LayoutStates
    BY StatesAreStates DEF Layouts
  <2>2. CASE IsTarget(i)
    <3>1. WriteState(i, FALSE, FALSE) \in LayoutStates
      BY StatesAreStates
    <3>2. Created(i) = WriteState(i, FALSE, FALSE)
      BY <2>2, <3>1 DEF Created, State, LayoutStates
    <3> QED
      BY <3>1, <3>2
  <2>3. CASE ~IsTarget(i)
    <3>1. kind[i] # "eye"
      BY <2>3 DEF IsTarget
    <3>2. Created(i) \in LayoutStates
      BY <2>1, <2>3, StatesAreStates DEF Created, Transitioned
    <3> QED
      BY <3>1, <3>2
  <2> QED
    BY <2>2, <2>3
<1>3. /\ cur = [i \in Images |-> Created(i)] /\ actual = [i \in Images |-> cur[i].layout]
      /\ mapped = [i \in Images |-> {}] /\ renderer = NoRenderer
      /\ wrong = {} /\ strayed = {}
  BY DEF ImagesInit
<1>4. cur \in [Images -> LayoutStates] /\ actual \in [Images -> Layouts]
  BY <1>2, <1>3 DEF LayoutStates
<1>5. ImageTypes /\ MappedInv
  BY <1>1, <1>3, <1>4, NoRendererMoves DEF ImageTypes, MappedInv
<1>6. EyeInv
  BY <1>2, <1>3, NoRendererMoves DEF EyeInv
<1> QED
  BY <1>3, <1>5, <1>6, WithoutRenderer DEF Settled

LEMMA CreateRendererPreserves ==
  ASSUME ImagesInv, NEW pass \in Passes, create_renderer(pass)
  PROVE  ImagesInv'
<1>1. /\ renderer = NoRenderer
      /\ renderer' = [NoRenderer EXCEPT !.stage = "idle", !.pass = pass]
      /\ UNCHANGED <<cur, strayed, kind, actual, mapped, wrong>>
  BY DEF create_renderer, Unchanged, ImagesInv, RendererInv
<1>2. renderer' \in RendererStates /\ renderer'.drawable = {}
  BY <1>1, NoRendererMoves DEF RendererStates, Passes
<1>3. ImageTypes' /\ MappedInv' /\ EyeInv' /\ (wrong \subseteq strayed)'
  BY <1>1, <1>2 DEF ImagesInv, ImageTypes, MappedInv, Copyable, EyeInv, WriteState, IsTarget
<1>4. Taken = {}
  BY <1>1, NoRendererMoves, EmptyBufferLeads DEF Taken, Open
<1>5. \A i \in Images \ strayed : cur[i].layout = actual[i]
  BY <1>4, NotTakenIsSettled
<1>6. pass \in Passes'
  BY <1>1 DEF Passes
<1>7. (\A i \in Images \ strayed : cur[i].layout = actual[i])'
  BY <1>1, <1>5
<1>8. Settled'
  BY <1>1, <1>6, <1>7 DEF Settled
<1> QED
  BY <1>3, <1>8, WithoutRenderer, PTL

LEMMA GiveUpPreserves ==
  ASSUME ImagesInv, give_up
  PROVE  ImagesInv'
<1>1. /\ renderer' = NoRenderer /\ strayed' = strayed \cup Open
      /\ UNCHANGED <<cur, kind, actual, mapped, wrong>>
  BY DEF give_up, Unchanged
<1>2. Open \subseteq Images
  BY DEF Open, ImagesInv, ImageTypes, RendererStates, Moves
<1>3. ImageTypes' /\ MappedInv' /\ EyeInv' /\ (wrong \subseteq strayed)'
  BY <1>1, <1>2, NoRendererMoves
     DEF ImagesInv, ImageTypes, MappedInv, Copyable, EyeInv, WriteState, IsTarget
<1>4. ASSUME NEW i \in Images \ strayed' PROVE cur[i].layout = actual[i]
  <2>1. i \in Images \ strayed /\ i \notin Open
    BY <1>1
  <2>2. MovesConnect(i)
    BY <2>1 DEF ImagesInv
  <2>3. /\ \A m \in Unperformed : m.image # i
        /\ \A m \in Unrecorded : m.image # i
        /\ ~renderer.buffer[i].used
    BY <2>1 DEF Open, Unperformed, Unrecorded
  <2> QED
    BY <2>2, <2>3 DEF MovesConnect, AfterPass, BeforePass, LayoutAfter
<1>5. Settled'
  BY <1>1, <1>4 DEF Settled
<1> QED
  BY <1>3, <1>5, WithoutRenderer, PTL

(* Facts about a renderer that several actions use                         *)
LEMMA RendererFields ==
  ASSUME ImagesInv
  PROVE  /\ renderer \in RendererStates /\ renderer.buffer \in [Images -> Marks]
         /\ renderer.att \in SUBSET Moves /\ renderer.img \in SUBSET Moves
         /\ Unperformed \in SUBSET Moves /\ Unrecorded \in SUBSET Moves
         /\ OnePerImage(Unperformed) /\ OnePerImage(Unrecorded)
         /\ \A i \in Images : cur[i] \in LayoutStates /\ cur[i].layout \in Layouts
         /\ \A i \in Attached : kind[i] \in {"color", "depth"}
         /\ \A d \in renderer.drawable : d.image \in Images /\ kind[d.image] = "eye"
BY DEF ImagesInv, ImageTypes, RendererInv, RendererStates, Unperformed, Unrecorded, OnePerImage,
       LayoutStates

LEMMA DrawableFields ==
  ASSUME ImagesInv
  PROVE  \A d \in renderer.drawable :
           /\ d.image \in Images /\ d.state \in LayoutStates /\ kind[d.image] = "eye"
           /\ d.state \in {TransferSrc, WriteState(d.image, FALSE, FALSE)}
           /\ d = [image |-> d.image, state |-> d.state]
<1>1. renderer.drawable \in SUBSET [image : Images, state : LayoutStates]
  BY DEF ImagesInv, ImageTypes, RendererStates
<1>2. \A d \in renderer.drawable : kind[d.image] = "eye"
  BY DEF ImagesInv, RendererInv
<1>3. \A d \in renderer.drawable : d.state \in {TransferSrc, WriteState(d.image, FALSE, FALSE)}
  BY DEF ImagesInv, EyeInv
<1>4. \A d \in renderer.drawable : d.image \in Images /\ d.state \in LayoutStates
  BY <1>1
<1>5. \A d \in renderer.drawable : d = [image |-> d.image, state |-> d.state]
  BY <1>1
<1> QED
  BY <1>2, <1>3, <1>4, <1>5

LEMMA BeforePassIsLayout ==
  ASSUME ImagesInv, NEW i \in Images
  PROVE  BeforePass(i) \in Layouts /\ AfterPass(i) \in Layouts
<1>1. actual[i] \in Layouts
  BY DEF ImagesInv, ImageTypes
<1>2. BeforePass(i) \in Layouts
  <2>1. CASE \E m \in Unperformed : m.image = i
    <3>1. PICK m \in Unperformed : m.image = i
      BY <2>1
    <3>2. BeforePass(i) = m.to
      BY <3>1, RendererFields, LayoutAfterOnly DEF BeforePass, OnePerImage
    <3> QED
      BY <3>1, <3>2, RendererFields DEF Moves
  <2>2. CASE \A m \in Unperformed : m.image # i
    BY <1>1, <2>2 DEF BeforePass, LayoutAfter
  <2> QED
    BY <2>1, <2>2
<1> QED
  BY <1>2, RendererFields DEF AfterPass, Marks

LEMMA GetNextDrawablePreserves ==
  ASSUME ImagesInv, NEW i \in Images, get_next_drawable(i)
  PROVE  ImagesInv'
<1>1. /\ kind[i] = "eye" /\ TransitionTo(i, WriteState(i, FALSE, FALSE))
      /\ renderer.stage = "idle" /\ renderer.drawable = {}
      /\ renderer' = [renderer EXCEPT !.drawable = {[image |-> i, state |-> cur'[i]]}]
      /\ UNCHANGED <<kind, mapped>>
  BY DEF get_next_drawable
<1>2. Kept
  BY <1>1, StatesAreStates, TransitionKeeps
<1>3. cur'[i] \in LayoutStates /\ cur'[i] \in {TransferSrc, WriteState(i, FALSE, FALSE)}
  BY <1>1, <1>2 DEF Kept
<1>4. /\ renderer' \in RendererStates /\ renderer'.drawable = {[image |-> i, state |-> cur'[i]]}
      /\ renderer'.buffer = renderer.buffer /\ renderer'.img = renderer.img
      /\ renderer'.img_performed = renderer.img_performed /\ renderer'.att = renderer.att
      /\ renderer'.att_recorded = renderer.att_recorded /\ renderer'.stage = renderer.stage
      /\ renderer'.pass = renderer.pass
  BY <1>1, <1>3, RendererFields DEF RendererStates
<1>5. ImageTypes'
  BY <1>1, <1>2, <1>4 DEF ImagesInv, ImageTypes, Kept
<1>6. MappedInv'
  BY <1>1 DEF ImagesInv, MappedInv, Copyable
<1>7. RendererInv'
  BY <1>1, <1>4 DEF ImagesInv, RendererInv, Attached, Unrecorded
<1>8. EyeInv'
  BY <1>1, <1>2, <1>3, <1>4 DEF Kept, EyeInv, WriteState, IsTarget
<1>9. ASSUME NEW j \in Images \ strayed' PROVE MovesConnect(j)' /\ RendererAgrees(j)'
  <2>1. j \in Images \ strayed /\ MovesConnect(j) /\ RendererAgrees(j)
    BY <1>2, <1>9 DEF ImagesInv, Kept
  <2>2. MovesConnect(j)'
    <3>1. CASE cur'[j] = cur[j] /\ actual'[j] = actual[j]
      BY <1>4, <2>1, <3>1 DEF MovesConnect, AfterPass, BeforePass, Unperformed, Unrecorded
    <3>2. CASE j \notin Taken /\ cur'[j].layout = actual'[j]
      <4>1. /\ \A m \in Unperformed' : m.image # j
            /\ \A m \in Unrecorded' : m.image # j
            /\ ~renderer'.buffer[j].used
        BY <1>4, <3>2 DEF Taken, Open, Unperformed, Unrecorded
      <4>2. LayoutAfter(Unperformed', j, actual'[j]) = actual'[j] /\ LayoutAfter(Unrecorded', j, actual'[j]) = actual'[j]
        BY <4>1 DEF LayoutAfter
      <4> QED
        BY <3>2, <4>1, <4>2 DEF MovesConnect, AfterPass, BeforePass
    <3> QED
      BY <1>2, <1>9, <3>1, <3>2 DEF Kept
  <2>3. RendererAgrees(j)'
    BY <1>1, <1>4 DEF RendererAgrees
  <2> QED
    BY <2>2, <2>3
<1> QED
  BY <1>2, <1>5, <1>6, <1>7, <1>8, <1>9 DEF ImagesInv, Kept

LEMMA SetAttachmentsPreserves ==
  ASSUME ImagesInv, set_attachments
  PROVE  ImagesInv'
<1> DEFINE wanted(i) == AttachedState(i, renderer.pass[i])
           moving == {i \in Attached : ~IsIn(cur[i], wanted(i))}
           att == {BarrierOf(i, cur[i], wanted(i)) : i \in moving}
<1>1. /\ renderer.stage \in {"idle", "ended"}
      /\ cur' = [i \in Images |-> IF i \in moving THEN wanted(i) ELSE cur[i]]
      /\ renderer' = [renderer EXCEPT !.att = att, !.att_recorded = FALSE, !.stage = "set"]
      /\ strayed' = strayed \cup {m.image : m \in IF renderer.att_recorded THEN {} ELSE renderer.att}
                            \cup {i \in moving : \E m \in renderer.img : m.image = i /\ ~renderer.img_performed}
      /\ UNCHANGED <<kind, actual, mapped, wrong>>
  BY DEF set_attachments, Unchanged
<1>2. \A i \in Images : wanted(i) \in LayoutStates
  BY StatesAreStates
<1>3. moving \subseteq Attached /\ Attached \subseteq Images
  BY DEF Attached
<1>4. ASSUME NEW i \in moving
      PROVE  /\ BarrierOf(i, cur[i], wanted(i)) \in Moves /\ BarrierOf(i, cur[i], wanted(i)).image = i
             /\ BarrierOf(i, cur[i], wanted(i)).from = cur[i].layout
             /\ BarrierOf(i, cur[i], wanted(i)).to = wanted(i).layout
  <2>1. i \in Images /\ cur[i] \in LayoutStates /\ wanted(i) \in LayoutStates
    BY <1>2, <1>3, RendererFields
  <2> HIDE DEF wanted
  <2> QED
    BY <2>1, BarrierIsMove
<1>5. \A i \in Attached \ moving : cur[i].layout = wanted(i).layout
  BY DEF IsIn
<1>6. \A i \in Attached : wanted(i)' = wanted(i)
  BY <1>1, RendererFields DEF AttachedState, ReadState, WriteState, IsTarget, RendererStates
<1> HIDE DEF wanted, moving
<1>7. /\ att \in SUBSET Moves /\ OnePerImage(att)
      /\ \A m \in att : m.image \in moving /\ m.from = cur[m.image].layout /\ m.to = wanted(m.image).layout
  BY <1>4 DEF OnePerImage
<1>8. \A i \in moving : \E m \in att : m.image = i
  BY <1>4
<1> HIDE DEF att
<1>9. /\ renderer' \in RendererStates /\ renderer'.att = att /\ ~renderer'.att_recorded
      /\ renderer'.stage = "set" /\ renderer'.pass = renderer.pass
      /\ renderer'.buffer = renderer.buffer /\ renderer'.img = renderer.img
      /\ renderer'.img_performed = renderer.img_performed /\ renderer'.drawable = renderer.drawable
  BY <1>1, <1>7, RendererFields DEF RendererStates
<1>10. /\ cur' \in [Images -> LayoutStates]
       /\ \A i \in Images : cur'[i] = IF i \in moving THEN wanted(i) ELSE cur[i]
  BY <1>1, <1>2, RendererFields
<1>11. strayed' \subseteq Images /\ strayed \subseteq strayed'
  BY <1>1, <1>3, RendererFields DEF ImagesInv, ImageTypes, Moves
<1>12. ImageTypes' /\ MappedInv'
  BY <1>1, <1>9, <1>10, <1>11 DEF ImagesInv, ImageTypes, MappedInv, Copyable
<1>13. Attached' = Attached /\ Unperformed' = Unperformed /\ Unrecorded' = att
  BY <1>9 DEF Attached, Unperformed, Unrecorded
<1>14. RendererInv'
  BY <1>1, <1>3, <1>7, <1>9, <1>13 DEF ImagesInv, RendererInv
<1>15. \A i \in Images : kind[i] = "eye" => i \notin moving
  BY <1>3, RendererFields
<1>16. EyeInv'
  BY <1>1, <1>9, <1>10, <1>15 DEF ImagesInv, EyeInv, WriteState, IsTarget
<1>17. ASSUME NEW i \in Images \ strayed' PROVE MovesConnect(i)' /\ RendererAgrees(i)'
  <2>1. i \in Images \ strayed /\ MovesConnect(i) /\ RendererAgrees(i)
    BY <1>11 DEF ImagesInv
  <2>2. \A m \in Unrecorded : m.image # i
    BY <1>1 DEF Unrecorded
  <2>3. cur[i].layout = AfterPass(i) /\ AfterPass(i)' = AfterPass(i) /\ BeforePass(i)' = BeforePass(i)
    BY <1>1, <1>9, <1>13, <2>1, <2>2 DEF MovesConnect, LayoutAfter, AfterPass, BeforePass
  <2>4. LayoutAfter(att, i, AfterPass(i)) = cur'[i].layout
    <3>1. CASE i \in moving
      <4>1. PICK m \in att : m.image = i
        BY <1>8, <3>1
      <4>2. LayoutAfter(att, i, AfterPass(i)) = m.to
        BY <1>7, <4>1, LayoutAfterOnly DEF OnePerImage
      <4> QED
        BY <1>7, <1>10, <3>1, <4>1, <4>2
    <3>2. CASE i \notin moving
      BY <1>7, <1>10, <2>3, <3>2 DEF LayoutAfter
    <3> QED
      BY <3>1, <3>2
  <2>5. MovesConnect(i)'
    BY <1>1, <1>7, <1>9, <1>13, <2>1, <2>3, <2>4 DEF MovesConnect
  <2>6. \A d \in renderer.drawable : d.image = i => cur'[i] = cur[i]
    BY <1>10, <1>15, RendererFields
  <2>7. i \in Attached => cur'[i].layout = wanted(i)'.layout
    BY <1>5, <1>6, <1>10
  <2> QED
    BY <1>9, <1>13, <2>1, <2>5, <2>6, <2>7 DEF RendererAgrees, wanted
<1> QED
  BY <1>1, <1>11, <1>12, <1>14, <1>16, <1>17 DEF ImagesInv

LEMMA BeginPreserves ==
  ASSUME ImagesInv, begin
  PROVE  ImagesInv'
<1> DEFINE attachment(i) == AttachedState(i, renderer.pass[i])
           target(i) == WriteState(i, FALSE, FALSE)
           attached == {Move(i, attachment(i).layout, attachment(i).layout) : i \in Attached}
           drawn == {BarrierOf(d.image, d.state, target(d.image)) : d \in renderer.drawable}
           att == renderer.att \cup drawn
           first == PutAll(renderer.buffer, att)
           work == PutAll(first, attached)
           drawable == {[d EXCEPT !.state = target(d.image)] : d \in renderer.drawable}
<1>1. /\ renderer.stage \in {"set", "ended"}
      /\ renderer' = [renderer EXCEPT !.stage = "pass", !.att = att, !.att_recorded = TRUE,
                                      !.buffer = work, !.drawable = drawable]
      /\ strayed' = strayed \cup {m.image : m \in IF renderer.att_recorded THEN renderer.att ELSE {}}
                            \cup {i \in Attached : \E m \in renderer.img : m.image = i}
                            \cup {d.image : d \in {e \in renderer.drawable : e.state = TransferSrc}}
      /\ UNCHANGED <<cur, kind, actual, mapped, wrong>>
  BY DEF begin, Unchanged
<1>2. \A i \in Images : /\ target(i) \in LayoutStates /\ attachment(i) \in LayoutStates
                        /\ target(i).layout \in Layouts /\ attachment(i).layout \in Layouts
  BY StatesAreStates DEF LayoutStates
<1>3. Attached \subseteq Images /\ \A i \in Attached : kind[i] # "eye"
  BY RendererFields DEF Attached
<1> HIDE DEF attachment
<1>4. ASSUME NEW i \in Attached
      PROVE  LET m == Move(i, attachment(i).layout, attachment(i).layout) IN
             m \in Moves /\ m.image = i /\ m.from = attachment(i).layout /\ m.to = m.from
  BY <1>2, <1>3 DEF Move, Moves
<1>4b. /\ attached \in SUBSET Moves
       /\ \A m \in attached : m.image \in Attached /\ m.from = attachment(m.image).layout /\ m.to = m.from
       /\ \A i \in Attached : \E m \in attached : m.image = i
       /\ OnePerImage(attached)
  BY <1>4 DEF OnePerImage
<1>5. \A d \in renderer.drawable :
        /\ d.image \in Images /\ d.state \in LayoutStates /\ kind[d.image] = "eye"
        /\ d.state \in {TransferSrc, target(d.image)}
        /\ d = [image |-> d.image, state |-> d.state]
  BY DrawableFields
<1>6. \A d, e \in renderer.drawable : d = e
  BY DEF ImagesInv, RendererInv
<1> HIDE DEF target, attached
<1>7. ASSUME NEW d \in renderer.drawable
      PROVE  LET m == BarrierOf(d.image, d.state, target(d.image)) IN
             m \in Moves /\ m.image = d.image /\ m.from = d.state.layout /\ m.to = target(d.image).layout
  BY <1>2, <1>5, BarrierIsMove
<1>8. /\ drawn \in SUBSET Moves
      /\ \A m \in drawn : \E d \in renderer.drawable :
           m.image = d.image /\ m.from = d.state.layout /\ m.to = target(d.image).layout
      /\ \A m, n \in drawn : m = n
      /\ \A d \in renderer.drawable : \E m \in drawn : m.image = d.image
  BY <1>6, <1>7
<1> HIDE DEF drawn
<1>9. att \in SUBSET Moves
  BY <1>8, RendererFields
<1>10. first \in [Images -> Marks]
  <2> HIDE DEF att
  <2> QED
    BY <1>9, RendererFields, PutAllType
<1>11. work \in [Images -> Marks]
  <2> HIDE DEF first
  <2> QED
    BY <1>4b, <1>10, PutAllType
<1>12. /\ drawable \in SUBSET [image : Images, state : LayoutStates]
       /\ \A e \in drawable : \E d \in renderer.drawable : e.image = d.image /\ e.state = target(d.image)
       /\ \A d, e \in drawable : d = e
  BY <1>2, <1>5, <1>6
<1>13. /\ \A i \in Images : (\A m \in att : m.image # i) => first[i] = renderer.buffer[i]
       /\ \A i \in Images : (\A m \in attached : m.image # i) => work[i] = first[i]
  <2>1. \A i \in Images : (\A m \in att : m.image # i) => first[i] = renderer.buffer[i]
    <3> HIDE DEF att
    <3> QED
      BY <1>9, RendererFields, PutAllType
  <2> HIDE DEF first
  <2> QED
    BY <1>4b, <1>10, <2>1, PutAllType
<1> HIDE DEF drawable, work, first, att
<1>14. /\ renderer' \in RendererStates /\ renderer'.att = att /\ renderer'.att_recorded
       /\ renderer'.stage = "pass" /\ renderer'.pass = renderer.pass
       /\ renderer'.buffer = work /\ renderer'.img = renderer.img
       /\ renderer'.img_performed = renderer.img_performed /\ renderer'.drawable = drawable
  BY <1>1, <1>9, <1>11, <1>12, RendererFields DEF RendererStates
<1>15. strayed' \subseteq Images /\ strayed \subseteq strayed'
  BY <1>1, <1>3, <1>5, RendererFields DEF ImagesInv, ImageTypes, Moves
<1>16. ImageTypes' /\ MappedInv'
  BY <1>1, <1>14, <1>15 DEF ImagesInv, ImageTypes, MappedInv, Copyable
<1>17. Attached' = Attached /\ Unperformed' = Unperformed /\ Unrecorded' = {}
  BY <1>14 DEF Attached, Unperformed, Unrecorded
<1>18. RendererInv'
  BY <1>1, <1>5, <1>12, <1>14, <1>17 DEF ImagesInv, RendererInv, OnePerImage
<1>19. EyeInv'
  BY <1>1, <1>12, <1>14 DEF ImagesInv, EyeInv, WriteState, IsTarget, target
<1>20. ASSUME NEW i \in Images \ strayed' PROVE MovesConnect(i)' /\ RendererAgrees(i)'
  <2>1. i \in Images \ strayed /\ MovesConnect(i) /\ RendererAgrees(i)
    BY <1>15 DEF ImagesInv
  <2>2. /\ renderer.att_recorded => \A m \in renderer.att : m.image # i
        /\ \A d \in renderer.drawable : d.image = i => d.state # TransferSrc
    BY <1>1
  <2>3. Leads(renderer.buffer[i], BeforePass(i), AfterPass(i))
    BY <2>1 DEF MovesConnect, AfterPass, Leads
  <2>4. BeforePass(i) \in Layouts /\ AfterPass(i) \in Layouts /\ cur[i].layout \in Layouts
    BY BeforePassIsLayout, RendererFields
  <2>5. Leads(first[i], BeforePass(i), cur[i].layout)
    <3>1. CASE \A m \in att : m.image # i
      <4>1. \A m \in Unrecorded : m.image # i
        BY <3>1 DEF att, Unrecorded
      <4>2. cur[i].layout = AfterPass(i)
        BY <2>1, <4>1 DEF MovesConnect, LayoutAfter
      <4> QED
        BY <1>13, <2>3, <3>1, <4>2
    <3>2. ASSUME NEW m \in att, m.image = i
          PROVE  Leads(first[i], BeforePass(i), cur[i].layout)
      <4>1. m.from = AfterPass(i) /\ m.to = cur[i].layout /\ \A n \in att : n.image = m.image => n = m
        <5>1. CASE m \in drawn
          <6>1. PICK d \in renderer.drawable :
                  m.image = d.image /\ m.from = d.state.layout /\ m.to = target(d.image).layout
            BY <1>8, <5>1
          <6>2. d.state = target(d.image) /\ kind[i] = "eye" /\ d.state.layout = cur[i].layout
            BY <1>5, <2>1, <2>2, <3>2, <6>1 DEF RendererAgrees
          <6>3. /\ \A n \in Unrecorded : n.image # i
                /\ \A n \in renderer.att : n.image # i
            BY <1>3, <2>2, <6>2 DEF ImagesInv, RendererInv, Unrecorded
          <6>4. cur[i].layout = AfterPass(i)
            BY <2>1, <6>3 DEF MovesConnect, LayoutAfter
          <6> QED
            BY <1>8, <3>2, <5>1, <6>1, <6>2, <6>3, <6>4 DEF att
        <5>2. CASE m \in renderer.att
          <6>1. ~renderer.att_recorded /\ Unrecorded = renderer.att
            BY <2>2, <3>2, <5>2 DEF Unrecorded
          <6>2. i \in Attached /\ \A n \in Unrecorded : n.image = m.image => n = m
            BY <3>2, <5>2, <6>1 DEF ImagesInv, RendererInv, OnePerImage
          <6>3. \A n \in drawn : n.image # i
            BY <1>3, <1>5, <1>8, <6>2
          <6>4. LayoutAfter(Unrecorded, i, AfterPass(i)) = m.to
            BY <3>2, <5>2, <6>1, <6>2, LayoutAfterOnly, RendererFields
          <6> QED
            BY <2>1, <3>2, <5>2, <6>1, <6>2, <6>3, <6>4 DEF MovesConnect, att
        <5> QED
          BY <3>2, <5>1, <5>2 DEF att
      <4>2. Leads(PutAll(renderer.buffer, att)[m.image], BeforePass(i), m.to)
        BY <1>9, <2>3, <2>4, <3>2, <4>1, PutAllLeads, RendererFields
      <4> QED
        BY <3>2, <4>1, <4>2 DEF first
    <3> QED
      BY <3>1, <3>2
  <2>6. Leads(work[i], BeforePass(i), cur[i].layout)
    <3>1. CASE i \notin Attached
      BY <1>4b, <1>13, <2>5, <3>1
    <3>2. CASE i \in Attached
      <4>1. PICK m \in attached : m.image = i
        BY <1>4b, <3>2
      <4>2. m.from = cur[i].layout /\ m.to = cur[i].layout
        BY <1>1, <1>4b, <2>1, <3>2, <4>1 DEF RendererAgrees, attachment
      <4>3. \A n \in attached : n.image = m.image => n = m
        BY <1>4b DEF OnePerImage
      <4>4. Leads(PutAll(first, attached)[m.image], BeforePass(i), m.to)
        BY <1>4b, <1>10, <2>4, <2>5, <4>1, <4>2, <4>3, PutAllLeads
      <4> QED
        BY <4>1, <4>2, <4>4 DEF work
    <3> QED
      BY <3>1, <3>2
  <2>7. MovesConnect(i)'
    <3>1. BeforePass(i)' = BeforePass(i)
      BY <1>1, <1>17 DEF BeforePass
    <3>2. AfterPass(i)' = cur[i].layout
      BY <1>14, <2>6, <3>1 DEF AfterPass, Leads
    <3> QED
      BY <1>1, <1>14, <1>17, <2>1, <2>6, <3>1, <3>2 DEF MovesConnect, LayoutAfter, Leads
  <2>8. RendererAgrees(i)'
    <3>1. \A d \in renderer.drawable : d.image = i => target(d.image).layout = cur[i].layout
      BY <1>5, <2>1, <2>2 DEF RendererAgrees
    <3>2. \A e \in drawable : e.image = i => e.state.layout = cur[i].layout
      BY <1>12, <3>1
    <3> QED
      BY <1>1, <1>14, <1>17, <2>1, <3>2
      DEF RendererAgrees, AttachedState, ReadState, WriteState, IsTarget
  <2> QED
    BY <2>7, <2>8
<1> QED
  BY <1>1, <1>15, <1>16, <1>18, <1>19, <1>20 DEF ImagesInv

LEMMA DrawPreserves ==
  ASSUME ImagesInv, NEW args \in Arguments, draw(args)
  PROVE  ImagesInv'
<1> DEFINE barriers == ArgBarriers(args)
           uses == ArgUses(args)
           next == [i \in Images |-> ArgState(i, args[i])]
           work == PutAll(renderer.buffer, uses)
<1>1. /\ renderer.stage = "pass" /\ \A i \in Images : args[i] # "none" => i \notin Attached
      /\ cur' = next
      /\ renderer' = [renderer EXCEPT !.img = barriers, !.img_performed = FALSE, !.buffer = work]
      /\ strayed' = strayed \cup {m.image : m \in IF renderer.img_performed THEN {} ELSE renderer.img}
                            \cup {m.image : m \in {b \in barriers : renderer.buffer[b.image].used}}
      /\ UNCHANGED <<kind, actual, mapped, wrong>>
  BY DEF draw, Unchanged
<1>2. /\ barriers \in SUBSET Moves /\ uses \in SUBSET Moves
      /\ OnePerImage(barriers) /\ OnePerImage(uses)
      /\ \A m \in barriers : m.from = cur[m.image].layout /\ m.to = next[m.image].layout
      /\ \A m \in uses : m.from = next[m.image].layout /\ m.to = m.from
  <2>1. \A m \in Moves : m.image \in Images
    BY DEF Moves
  <2> QED
    BY <2>1, ArgMoves DEF ImagesInv
<1>3. ASSUME NEW i \in Images
      PROVE  /\ next[i] \in LayoutStates /\ next[i].layout \in Layouts
             /\ kind[i] = "eye" => next[i] = cur[i]
             /\ args[i] = "none" => next[i] = cur[i]
             /\ (\A m \in barriers : m.image # i) => next[i] = cur[i]
  BY ArgOfImage DEF ImagesInv
<1>4. next \in [Images -> LayoutStates]
  BY <1>3
<1> HIDE DEF barriers, uses, next
<1>5. /\ work \in [Images -> Marks]
      /\ \A i \in Images : (\A m \in uses : m.image # i) => work[i] = renderer.buffer[i]
  BY <1>2, RendererFields, PutAllType
<1> HIDE DEF work
<1>6. /\ renderer' \in RendererStates /\ renderer'.att = renderer.att
      /\ renderer'.att_recorded = renderer.att_recorded
      /\ renderer'.stage = "pass" /\ renderer'.pass = renderer.pass
      /\ renderer'.buffer = work /\ renderer'.img = barriers
      /\ ~renderer'.img_performed /\ renderer'.drawable = renderer.drawable
  BY <1>1, <1>2, <1>5, RendererFields DEF RendererStates
<1>7. strayed' \subseteq Images /\ strayed \subseteq strayed'
  BY <1>1, <1>2, RendererFields DEF ImagesInv, ImageTypes, Moves
<1>8. ImageTypes' /\ MappedInv'
  BY <1>1, <1>4, <1>6, <1>7 DEF ImagesInv, ImageTypes, MappedInv, Copyable
<1>9. renderer.att_recorded
  BY <1>1 DEF ImagesInv, RendererInv
<1>10. Attached' = Attached /\ Unperformed' = barriers /\ Unrecorded' = {} /\ Unrecorded = {}
  BY <1>6, <1>9 DEF Attached, Unperformed, Unrecorded
<1>11. RendererInv'
  BY <1>1, <1>2, <1>6, <1>9, <1>10 DEF ImagesInv, RendererInv, OnePerImage
<1>12. EyeInv'
  BY <1>1, <1>3, <1>6 DEF ImagesInv, EyeInv, WriteState, IsTarget
<1>13. ASSUME NEW i \in Images \ strayed' PROVE MovesConnect(i)' /\ RendererAgrees(i)'
  <2>1. i \in Images \ strayed /\ MovesConnect(i) /\ RendererAgrees(i)
    BY <1>7 DEF ImagesInv
  <2>2. /\ \A m \in Unperformed : m.image # i
        /\ \A m \in barriers : m.image = i => ~renderer.buffer[i].used
    BY <1>1 DEF Unperformed
  <2>3. BeforePass(i) = actual[i] /\ cur[i].layout = AfterPass(i)
    BY <1>10, <2>1, <2>2 DEF MovesConnect, LayoutAfter, BeforePass
  <2>4. actual[i] \in Layouts /\ next[i].layout \in Layouts
    BY <1>3 DEF ImagesInv, ImageTypes
  <2>5. /\ BeforePass(i)' \in Layouts
        /\ Leads(renderer.buffer[i], BeforePass(i)', next[i].layout)
        /\ \A m \in barriers : m.image = i => m.from = actual[i]
    <3>1. CASE \A m \in barriers : m.image # i
      <4>1. BeforePass(i)' = actual[i] /\ next[i] = cur[i]
        BY <1>1, <1>3, <1>10, <3>1 DEF BeforePass, LayoutAfter
      <4>2. Leads(renderer.buffer[i], actual[i], cur[i].layout)
        BY <2>1, <2>3 DEF MovesConnect, AfterPass, Leads
      <4> QED
        BY <2>4, <3>1, <4>1, <4>2
    <3>2. ASSUME NEW m \in barriers, m.image = i
          PROVE  /\ BeforePass(i)' \in Layouts
                 /\ Leads(renderer.buffer[i], BeforePass(i)', next[i].layout)
                 /\ \A n \in barriers : n.image = i => n.from = actual[i]
      <4>1. ~renderer.buffer[i].used /\ cur[i].layout = actual[i]
        BY <2>2, <2>3, <3>2 DEF AfterPass
      <4>2. LayoutAfter(barriers, i, actual[i]) = m.to
        BY <1>2, <3>2, LayoutAfterOnly DEF OnePerImage
      <4>3. BeforePass(i)' = next[i].layout
        BY <1>1, <1>2, <1>10, <3>2, <4>2 DEF BeforePass
      <4> QED
        BY <1>2, <2>4, <3>2, <4>1, <4>3 DEF Leads
    <3> QED
      BY <3>1, <3>2
  <2>6. Leads(work[i], BeforePass(i)', next[i].layout)
    <3>1. CASE \A m \in uses : m.image # i
      BY <1>5, <2>5, <3>1
    <3>2. ASSUME NEW m \in uses, m.image = i
          PROVE  Leads(work[i], BeforePass(i)', next[i].layout)
      <4>1. m.from = next[i].layout /\ m.to = next[i].layout /\ \A n \in uses : n.image = m.image => n = m
        BY <1>2, <3>2 DEF OnePerImage
      <4>2. \A a \in Layouts : Leads(renderer.buffer[m.image], a, m.from)
                                => Leads(PutAll(renderer.buffer, uses)[m.image], a, m.to)
        BY <1>2, <4>1, PutAllLeads, RendererFields
      <4> QED
        BY <2>5, <3>2, <4>1, <4>2 DEF work
    <3> QED
      BY <3>1, <3>2
  <2>7. MovesConnect(i)'
    <3>1. AfterPass(i)' = next[i].layout
      BY <1>6, <2>6 DEF AfterPass, Leads
    <3> QED
      BY <1>1, <1>6, <1>10, <2>5, <2>6, <3>1 DEF MovesConnect, LayoutAfter, Leads
  <2>8. RendererAgrees(i)'
    <3>1. \A d \in renderer.drawable : d.image = i => next[i] = cur[i]
      BY <1>3, RendererFields
    <3>2. i \in Attached => next[i] = cur[i]
      BY <1>1, <1>3
    <3> QED
      BY <1>1, <1>6, <1>10, <2>1, <3>1, <3>2
      DEF RendererAgrees, AttachedState, ReadState, WriteState, IsTarget
  <2> QED
    BY <2>7, <2>8
<1> QED
  BY <1>1, <1>7, <1>8, <1>11, <1>12, <1>13 DEF ImagesInv

LEMMA EndOrPresentPreserves ==
  ASSUME ImagesInv, end \/ present
  PROVE  ImagesInv'
<1>1. /\ renderer.stage \in {"pass", "ended"}
      /\ renderer' \in {[renderer EXCEPT !.stage = "ended"], [renderer EXCEPT !.is_presenting = TRUE]}
      /\ UNCHANGED <<cur, strayed, kind, actual, mapped, wrong>>
  BY DEF end, present, Unchanged
<1>2. /\ renderer' \in RendererStates /\ renderer'.att = renderer.att
      /\ renderer'.att_recorded = renderer.att_recorded
      /\ renderer'.stage \in {"pass", "ended"} /\ renderer'.pass = renderer.pass
      /\ renderer'.buffer = renderer.buffer /\ renderer'.img = renderer.img
      /\ renderer'.img_performed = renderer.img_performed /\ renderer'.drawable = renderer.drawable
  BY <1>1, RendererFields DEF RendererStates
<1>3. Attached' = Attached /\ Unperformed' = Unperformed /\ Unrecorded' = Unrecorded
  BY <1>2 DEF Attached, Unperformed, Unrecorded
<1>4. ImageTypes' /\ MappedInv'
  BY <1>1, <1>2 DEF ImagesInv, ImageTypes, MappedInv, Copyable
<1>5. RendererInv'
  BY <1>1, <1>2, <1>3 DEF ImagesInv, RendererInv
<1>6. EyeInv'
  BY <1>1, <1>2 DEF ImagesInv, EyeInv, WriteState, IsTarget
<1>7. ASSUME NEW i \in Images \ strayed' PROVE MovesConnect(i)' /\ RendererAgrees(i)'
  <2>1. MovesConnect(i) /\ RendererAgrees(i)
    BY <1>1 DEF ImagesInv
  <2>2. MovesConnect(i)'
    BY <1>1, <1>2, <1>3, <2>1 DEF MovesConnect, AfterPass, BeforePass
  <2>3. RendererAgrees(i)'
    BY <1>1, <1>2, <1>3, <2>1 DEF RendererAgrees, AttachedState, ReadState, WriteState, IsTarget
  <2> QED
    BY <2>2, <2>3
<1> QED
  BY <1>1, <1>4, <1>5, <1>6, <1>7 DEF ImagesInv

(* A command buffer that was the first of a commit, and the renderer's.    *)
LEMMA CommitLeads ==
  ASSUME ImagesInv, NEW is_finishing \in BOOLEAN, commit(is_finishing)
  PROVE  LET first == PutAll(EmptyBuffer, renderer.img)
             last == Presented(renderer.buffer)
         IN /\ first \in [Images -> Marks] /\ last \in [Images -> Marks]
            /\ \A i \in Images \ strayed' :
                 /\ Leads(first[i], actual[i], BeforePass(i))
                 /\ Leads(last[i], BeforePass(i), cur'[i].layout)
<1> DEFINE first == PutAll(EmptyBuffer, renderer.img)
           last == Presented(renderer.buffer)
           shown == {BarrierOf(d.image, d.state, TransferSrc) : d \in renderer.drawable}
<1>1. /\ renderer.stage = "ended" /\ cur' = QueuePresent(cur)
      /\ strayed' = strayed \cup {m.image : m \in IF renderer.img_performed THEN renderer.img ELSE {}}
  BY DEF commit
<1>2. Unrecorded = {}
  BY <1>1 DEF ImagesInv, RendererInv, Unrecorded
<1>3. /\ first \in [Images -> Marks]
      /\ \A i \in Images : (\A m \in renderer.img : m.image # i) => first[i] = EmptyBuffer[i]
  BY EmptyBufferLeads, RendererFields, PutAllType
<1>4. TransferSrc \in LayoutStates
  BY StatesAreStates
<1>5. ASSUME NEW d \in renderer.drawable
      PROVE  LET m == BarrierOf(d.image, d.state, TransferSrc) IN
             /\ m \in Moves /\ m.image = d.image
             /\ m.from = d.state.layout /\ m.to = TransferSrc.layout
  <2>1. d.image \in Images /\ d.state \in LayoutStates
    BY DrawableFields
  <2> QED
    BY <1>4, <2>1, BarrierIsMove
<1>6. \A d, e \in renderer.drawable : d = e
  BY DEF ImagesInv, RendererInv
<1>7. /\ shown \in SUBSET Moves /\ \A m, n \in shown : m = n
      /\ \A m \in shown : \E d \in renderer.drawable :
           m.image = d.image /\ m.from = d.state.layout /\ m.to = TransferSrc.layout
      /\ \A d \in renderer.drawable : \E m \in shown : m.image = d.image
  BY <1>5, <1>6
<1>8. last = IF ~renderer.is_presenting THEN renderer.buffer ELSE PutAll(renderer.buffer, shown)
  BY DEF Presented
<1> HIDE DEF first, last, shown
<1>9. last \in [Images -> Marks]
  BY <1>7, <1>8, RendererFields, PutAllType
<1>10. ASSUME NEW i \in Images \ strayed'
       PROVE  /\ Leads(first[i], actual[i], BeforePass(i))
              /\ Leads(last[i], BeforePass(i), cur'[i].layout)
  <2>1. i \in Images \ strayed /\ MovesConnect(i) /\ RendererAgrees(i)
    BY <1>1 DEF ImagesInv
  <2>2. BeforePass(i) \in Layouts /\ actual[i] \in Layouts
    BY BeforePassIsLayout DEF ImagesInv, ImageTypes
  <2>3. Leads(first[i], actual[i], BeforePass(i))
    <3>1. CASE \A m \in renderer.img : m.image # i
      <4>1. BeforePass(i) = actual[i]
        BY <3>1 DEF BeforePass, Unperformed, LayoutAfter
      <4> QED
        BY <1>3, <2>2, <3>1, <4>1, EmptyBufferLeads
    <3>2. ASSUME NEW m \in renderer.img, m.image = i
          PROVE  Leads(first[i], actual[i], BeforePass(i))
      <4>1. ~renderer.img_performed /\ Unperformed = renderer.img
        BY <1>1, <3>2 DEF Unperformed
      <4>2. \A n \in renderer.img : n.image = m.image => n = m
        BY <3>2, <4>1, RendererFields DEF OnePerImage
      <4>3. m.from = actual[i]
        BY <2>1, <3>2, <4>1 DEF MovesConnect
      <4>4. BeforePass(i) = m.to
        BY <3>2, <4>1, <4>2, LayoutAfterOnly, RendererFields DEF BeforePass
      <4>5. Leads(EmptyBuffer[m.image], actual[i], m.from)
        BY <2>2, <3>2, <4>3, EmptyBufferLeads
      <4>6. \A a \in Layouts : Leads(EmptyBuffer[m.image], a, m.from)
                                => Leads(PutAll(EmptyBuffer, renderer.img)[m.image], a, m.to)
        BY <4>2, EmptyBufferLeads, RendererFields, PutAllLeads
      <4> QED
        BY <2>2, <3>2, <4>4, <4>5, <4>6 DEF first
    <3> QED
      BY <3>1, <3>2
  <2>4. Leads(renderer.buffer[i], BeforePass(i), cur[i].layout)
    BY <1>2, <2>1 DEF MovesConnect, AfterPass, LayoutAfter, Leads
  <2>5. Leads(last[i], BeforePass(i), cur'[i].layout)
    <3>1. CASE ~renderer.is_presenting
      BY <1>1, <1>8, <2>4, <3>1 DEF QueuePresent
    <3>2. CASE renderer.is_presenting /\ \A d \in renderer.drawable : d.image # i
      <4>1. cur'[i] = cur[i]
        BY <1>1, <3>2 DEF QueuePresent
      <4>2. \A m \in shown : m.image # i
        BY <1>7, <3>2
      <4>3. PutAll(renderer.buffer, shown)[i] = renderer.buffer[i]
        BY <1>7, <4>2, RendererFields, PutAllType
      <4> QED
        BY <1>8, <2>4, <3>2, <4>1, <4>3
    <3>3. ASSUME renderer.is_presenting, NEW d \in renderer.drawable, d.image = i
          PROVE  Leads(last[i], BeforePass(i), cur'[i].layout)
      <4>1. cur'[i] = TransferSrc
        BY <1>1, <3>3 DEF QueuePresent
      <4>2. PICK m \in shown : m.image = i
        BY <1>7, <3>3
      <4>3. m.from = cur[i].layout /\ m.to = TransferSrc.layout
        BY <1>7, <2>1, <4>2 DEF RendererAgrees
      <4>4. \A a \in Layouts : Leads(renderer.buffer[m.image], a, m.from)
                                => Leads(PutAll(renderer.buffer, shown)[m.image], a, m.to)
        BY <1>7, RendererFields, PutAllLeads
      <4> QED
        BY <1>8, <2>2, <2>4, <3>3, <4>1, <4>2, <4>3, <4>4
    <3> QED
      BY <3>1, <3>2, <3>3
  <2> QED
    BY <2>3, <2>5
<1> QED
  BY <1>3, <1>9, <1>10 DEF first, last

LEMMA CommitPreserves ==
  ASSUME ImagesInv, NEW is_finishing \in BOOLEAN, commit(is_finishing)
  PROVE  ImagesInv'
<1> DEFINE first == PutAll(EmptyBuffer, renderer.img)
           between == LayoutsAfter(actual, first)
           last == Presented(renderer.buffer)
           drawable == IF renderer.is_presenting
                       THEN {[d EXCEPT !.state = TransferSrc] : d \in renderer.drawable}
                       ELSE renderer.drawable
<1>1. /\ renderer.stage = "ended"
      /\ actual' = LayoutsAfter(between, last)
      /\ wrong' = wrong \cup WrongIn(actual, first) \cup WrongIn(between, last)
      /\ strayed' = strayed \cup {m.image : m \in IF renderer.img_performed THEN renderer.img ELSE {}}
      /\ cur' = QueuePresent(cur)
      /\ renderer' = IF is_finishing THEN NoRenderer
                     ELSE [renderer EXCEPT !.stage = "ended", !.buffer = EmptyBuffer, !.img_performed = TRUE,
                                           !.is_presenting = FALSE, !.drawable = drawable]
      /\ UNCHANGED <<kind, mapped>>
  BY DEF commit
<1>2. /\ first \in [Images -> Marks] /\ last \in [Images -> Marks]
      /\ \A i \in Images \ strayed' :
           /\ Leads(first[i], actual[i], BeforePass(i))
           /\ Leads(last[i], BeforePass(i), cur'[i].layout)
  BY CommitLeads
<1> HIDE DEF first, last
<1>3. actual \in [Images -> Layouts] /\ kind \in [Images -> {"texture", "storage", "color", "depth", "eye"}]
  BY DEF ImagesInv, ImageTypes
<1>4. between \in [Images -> Layouts] /\ WrongIn(actual, first) \subseteq Images
  BY <1>2, <1>3, SubmittedLeads
<1>5. \A i \in Images \ strayed' : i \notin WrongIn(actual, first) /\ between[i] = BeforePass(i)
  BY <1>2, <1>3, SubmittedFinds, BeforePassIsLayout
<1> HIDE DEF between
<1>6. actual' \in [Images -> Layouts] /\ WrongIn(between, last) \subseteq Images
  BY <1>1, <1>2, <1>4, SubmittedLeads
<1>7. /\ cur' \in [Images -> LayoutStates]
      /\ \A i \in Images : \/ cur'[i] = cur[i]
                           \/ renderer.is_presenting /\ cur'[i] = TransferSrc
      /\ \A i \in Images : (renderer.is_presenting /\ \E d \in renderer.drawable : d.image = i)
                           => cur'[i] = TransferSrc
      /\ \A i \in Images : (~renderer.is_presenting \/ \A d \in renderer.drawable : d.image # i)
                           => cur'[i] = cur[i]
  <2>1. TransferSrc \in LayoutStates
    BY StatesAreStates
  <2>2. \A i \in Images : cur'[i] = IF renderer.is_presenting /\ i \in {d.image : d \in renderer.drawable}
                                    THEN TransferSrc ELSE cur[i]
    BY <1>1 DEF QueuePresent
  <2>3. \A i \in Images : cur'[i] \in LayoutStates
    BY <2>1, <2>2, RendererFields
  <2>4. cur' \in [Images -> LayoutStates]
    BY <1>1, <2>3 DEF QueuePresent
  <2>5. \A i \in Images : \/ cur'[i] = cur[i]
                          \/ renderer.is_presenting /\ cur'[i] = TransferSrc
    BY <2>2
  <2>6. ASSUME NEW i \in Images, renderer.is_presenting, NEW d \in renderer.drawable, d.image = i
        PROVE  cur'[i] = TransferSrc
    BY <2>2, <2>6
  <2>7. ASSUME NEW i \in Images, ~renderer.is_presenting \/ \A d \in renderer.drawable : d.image # i
        PROVE  cur'[i] = cur[i]
    BY <2>2, <2>7
  <2> QED
    BY <2>4, <2>5, <2>6, <2>7
<1>8. \A i \in Images \ strayed' : i \notin WrongIn(between, last) /\ actual'[i] = cur'[i].layout
  <2>1. \A i \in Images : cur'[i].layout \in Layouts
    BY <1>7 DEF LayoutStates
  <2> QED
    BY <1>1, <1>2, <1>4, <1>5, <2>1, SubmittedFinds
<1>9. strayed' \subseteq Images /\ strayed \subseteq strayed'
  BY <1>1, RendererFields DEF ImagesInv, ImageTypes, Moves
<1>10. (wrong \subseteq strayed)'
  BY <1>1, <1>4, <1>5, <1>6, <1>8, <1>9 DEF ImagesInv
<1>11. /\ drawable \in SUBSET [image : Images, state : LayoutStates]
       /\ \A e \in drawable : \E d \in renderer.drawable :
            /\ e.image = d.image
            /\ e.state = IF renderer.is_presenting THEN TransferSrc ELSE d.state
       /\ \A d, e \in drawable : d = e
  <2>1. \A d, e \in renderer.drawable : d = e
    BY DEF ImagesInv, RendererInv
  <2>2. TransferSrc \in LayoutStates
    BY StatesAreStates
  <2>3. ASSUME NEW d \in renderer.drawable
        PROVE  LET e == [d EXCEPT !.state = TransferSrc] IN
               e \in [image : Images, state : LayoutStates] /\ e.image = d.image /\ e.state = TransferSrc
    <3>1. d \in [image : Images, state : LayoutStates]
      BY RendererFields DEF RendererStates
    <3> QED
      BY <2>2, <3>1
  <2>4. renderer.drawable \in SUBSET [image : Images, state : LayoutStates]
    BY RendererFields DEF RendererStates
  <2> QED
    BY <2>1, <2>3, <2>4
<1> HIDE DEF drawable
<1>12. renderer' \in RendererStates
  BY <1>1, <1>11, NoRendererMoves, RendererFields, EmptyBufferLeads DEF RendererStates
<1>13. ImageTypes' /\ MappedInv'
  BY <1>1, <1>3, <1>6, <1>7, <1>9, <1>12 DEF ImagesInv, ImageTypes, MappedInv, Copyable
<1>14. ASSUME NEW i \in Images, kind[i] = "eye"
       PROVE  cur'[i] \in {TransferSrc, WriteState(i, FALSE, FALSE)}
  BY <1>7, <1>14 DEF ImagesInv, EyeInv
<1>15. CASE is_finishing
  <2>1. renderer' = NoRenderer
    BY <1>1, <1>15
  <2>2. EyeInv'
    BY <1>1, <1>14, <2>1, NoRendererMoves DEF EyeInv, WriteState, IsTarget
  <2>3. Settled'
    BY <1>8, <2>1 DEF Settled
  <2> QED
    BY <1>10, <1>13, <2>2, <2>3, WithoutRenderer, PTL
<1>16. CASE ~is_finishing
  <2>1. /\ renderer'.att = renderer.att /\ renderer'.att_recorded = renderer.att_recorded
        /\ renderer'.stage = "ended" /\ renderer'.pass = renderer.pass
        /\ renderer'.buffer = EmptyBuffer /\ renderer'.img = renderer.img
        /\ renderer'.img_performed /\ renderer'.drawable = drawable
    BY <1>1, <1>16, RendererFields DEF RendererStates
  <2>2. renderer.att_recorded
    BY <1>1 DEF ImagesInv, RendererInv
  <2>3. Attached' = Attached /\ Unperformed' = {} /\ Unrecorded' = {} /\ Unrecorded = {}
    BY <2>1, <2>2 DEF Attached, Unperformed, Unrecorded
  <2>4. RendererInv'
    <3>1. /\ \A i \in Attached : kind[i] \in {"color", "depth"}
          /\ \A d \in renderer.drawable : kind[d.image] = "eye"
          /\ OnePerImage(renderer.img)
      BY DEF ImagesInv, RendererInv
    <3>2. \A d, e \in drawable : kind[d.image] = "eye" /\ d = e
      BY <1>11, <3>1
    <3> QED
      BY <1>1, <2>1, <2>2, <2>3, <3>1, <3>2 DEF RendererInv, OnePerImage
  <2>5. EyeInv'
    <3>1. \A e \in drawable : e.state \in {TransferSrc, WriteState(e.image, FALSE, FALSE)}
      BY <1>11 DEF ImagesInv, EyeInv
    <3> QED
      BY <1>1, <1>14, <2>1, <3>1 DEF EyeInv, WriteState, IsTarget
  <2>6. ASSUME NEW i \in Images \ strayed' PROVE MovesConnect(i)' /\ RendererAgrees(i)'
    <3>1. i \in Images \ strayed /\ RendererAgrees(i)
      BY <1>9 DEF ImagesInv
    <3>2. MovesConnect(i)'
      <4>1. ~EmptyBuffer[i].used
        BY EmptyBufferLeads
      <4> QED
        BY <1>8, <2>1, <2>3, <4>1 DEF MovesConnect, AfterPass, BeforePass, LayoutAfter
    <3>3. \A e \in drawable : e.image = i => e.state.layout = cur'[i].layout
      <4> SUFFICES ASSUME NEW e \in drawable, e.image = i
                   PROVE  e.state.layout = cur'[i].layout
        OBVIOUS
      <4>1. PICK d \in renderer.drawable :
              /\ e.image = d.image
              /\ e.state = IF renderer.is_presenting THEN TransferSrc ELSE d.state
        BY <1>11
      <4>2. d.state.layout = cur[i].layout
        BY <3>1, <4>1 DEF RendererAgrees
      <4>3. CASE renderer.is_presenting
        <5>1. \E x \in renderer.drawable : x.image = i
          BY <4>1
        <5>2. cur'[i] = TransferSrc /\ e.state = TransferSrc
          BY <1>7, <4>1, <4>3, <5>1
        <5> QED
          BY <5>2
      <4>4. CASE ~renderer.is_presenting
        BY <1>7, <4>1, <4>2, <4>4
      <4> QED
        BY <4>3, <4>4
    <3>4. i \in Attached => cur'[i] = cur[i]
      BY <1>7, RendererFields
    <3>5. AttachedState(i, renderer.pass[i])' = AttachedState(i, renderer.pass[i])
      BY <1>1, <2>1 DEF AttachedState, ReadState, WriteState, IsTarget
    <3>6. RendererAgrees(i)'
      BY <1>1, <2>1, <2>3, <3>1, <3>3, <3>4, <3>5 DEF RendererAgrees
    <3> QED
      BY <3>2, <3>6
  <2> QED
    BY <1>10, <1>13, <2>4, <2>5, <2>6 DEF ImagesInv
<1> QED
  BY <1>15, <1>16

LEMMA MappedStays ==
  ASSUME ImagesInv, NEW i \in Images, UNCHANGED kind,
         \/ \E how \in {{"READ"}, {"WRITE"}, {"READ", "WRITE"}} : map(i, how)
         \/ \E discard \in BOOLEAN : unmap(i, discard)
         \/ leave_transfer(i)
  PROVE  MappedInv'
<1>1. MappedInv
  BY DEF ImagesInv
<1>2. /\ \E how \in SUBSET {"READ", "WRITE", "leaving"} : mapped' = [mapped EXCEPT ![i] = how] \/ mapped' = mapped
      /\ mapped[i] # {} \/ Copyable(i)
  BY DEF map, unmap, leave_transfer
<1> QED
  BY <1>1, <1>2 DEF MappedInv, Copyable

LEMMA ImagesStep ==
  ASSUME ImagesInv, [ImagesNext]_imageVars
  PROVE  ImagesInv'
<1>1. ASSUME NEW i \in Images, zero(i) \/ write(i) \/ \E src \in Images : blit(i, src)
      PROVE  ImagesInv'
  <2>1. Kept /\ UNCHANGED <<kind, renderer>>
    BY <1>1, ZeroKeeps, WriteKeeps, BlitKeeps
  <2>2. MappedInv'
    BY <1>1, <2>1 DEF zero, write, blit, ImagesInv, MappedInv, Copyable
  <2> QED
    BY <2>1, <2>2, KeptIsInvariant
<1>2. ASSUME NEW i \in Images,
             \/ \E how \in {{"READ"}, {"WRITE"}, {"READ", "WRITE"}} : map(i, how)
             \/ \E discard \in BOOLEAN : unmap(i, discard)
             \/ leave_transfer(i)
      PROVE  ImagesInv'
  <2>1. Kept /\ UNCHANGED <<kind, renderer>>
    BY <1>2, MapKeeps, UnmapKeeps, LeaveTransferKeeps
  <2>2. MappedInv'
    BY <1>2, <2>1, MappedStays
  <2> QED
    BY <2>1, <2>2, KeptIsInvariant
<1>3. ASSUME NEW args \in Arguments, execute(args)
      PROVE  ImagesInv'
  <2>1. Kept /\ UNCHANGED <<kind, renderer>>
    BY <1>3, ExecuteKeeps
  <2>2. MappedInv'
    BY <1>3, <2>1 DEF execute, ImagesInv, MappedInv, Copyable
  <2> QED
    BY <2>1, <2>2, KeptIsInvariant
<1>4. ASSUME UNCHANGED imageVars
      PROVE  ImagesInv'
  <2>1. Kept /\ UNCHANGED <<kind, renderer, mapped>>
    BY <1>4 DEF imageVars, Kept, ImagesInv, ImageTypes, EyeInv
  <2>2. MappedInv'
    BY <2>1 DEF ImagesInv, MappedInv, Copyable
  <2> QED
    BY <2>1, <2>2, KeptIsInvariant
<1> QED
  BY <1>1, <1>2, <1>3, <1>4, GetNextDrawablePreserves, DrawPreserves, CreateRendererPreserves,
     SetAttachmentsPreserves, BeginPreserves, EndOrPresentPreserves, GiveUpPreserves, CommitPreserves
     DEF ImagesNext

(* An image no renderer is about to move has no moves to come.             *)
LEMMA ImagesInvAgrees == ImagesInv => LayoutsAgree
<1> SUFFICES ASSUME ImagesInv, NEW i \in Images \ (strayed \cup Open)
             PROVE  cur[i].layout = actual[i]
  BY DEF LayoutsAgree, ImagesInv
<1>1. MovesConnect(i)
  BY DEF ImagesInv
<1>2. /\ \A m \in Unperformed : m.image # i
      /\ \A m \in Unrecorded : m.image # i
      /\ ~renderer.buffer[i].used
  BY DEF Open, Unperformed, Unrecorded
<1> QED
  BY <1>1, <1>2 DEF MovesConnect, AfterPass, BeforePass, LayoutAfter

(* For all images, kinds and render passes, and any number of calls: every *)
(* barrier, transfer, attachment and written argument finds its image in   *)
(* the layout it was made for, a read argument in that of its transition   *)
(* (its descriptor says another one), and what an image object says of its *)
(* layout is true whenever no renderer is about to move the image - of     *)
(* images that no barrier of was lost, repeated or overtaken.              *)
THEOREM ImageLayoutsAreTracked == ImagesSpec => []LayoutsAgree
<1>1. ImagesInv /\ [ImagesNext]_imageVars => ImagesInv'
  BY ImagesStep
<1> QED
  BY <1>1, ImagesInitially, ImagesInvAgrees, PTL DEF ImagesSpec

-----------------------------------------------------------------------------
(* Buffers: contents                                                       *)

Values == Nat \X Nat
Memory == [Bytes -> Values]
Memories == [device : Memory, staging : Memory, cpu : Memory]
Data(n) == [0 .. n - 1 -> Values]
Mappings ==
  [id : Nat, flags : MapFlags, block : BOOLEAN, offset : Bytes, size : 1 .. Size,
   place : {"own", "cpu", "device"}, data : UNION {Data(n) : n \in Nat}, written : BOOLEAN]
Within(o, n, i) == o <= i /\ i < o + n
Covers(m, i) == Within(m.offset, m.size, i)

BuffersTypeOK ==
  /\ this \in BufferCases
  /\ contents \in Memories /\ promised \in Memory
  /\ mappings \subseteq Mappings
  /\ \A m \in mappings : m.offset + m.size <= Size /\ m.data \in Data(m.size)
  /\ calls \in Nat

(* What a mapping shows at its k-th byte                                   *)
Stored(m, k) ==
  IF m.written /\ ~(IsRead(m.flags) /\ k > 0) THEN <<m.id, k>> ELSE promised[m.offset + k]

(* A mapping that is changed shows what will be stored; what is copied     *)
(* back leaves the buffer alone until it is unmapped, and the staging      *)
(* buffer agrees as long as nothing was written.                           *)
ShowsByte(m, k) ==
  /\ m.place = "device" => contents.device[m.offset + k] = Stored(m, k)
  /\ m.place # "device" => contents.device[m.offset + k] = promised[m.offset + k]
  /\ m.place = "own" /\ (IsRead(m.flags) \/ m.written) => m.data[k] = Stored(m, k)
  /\ m.place = "cpu" =>
       /\ contents.cpu[m.offset + k] = Stored(m, k)
       /\ this.kind = "staged" /\ ~m.written => contents.staging[m.offset + k] = promised[m.offset + k]
MappingInv(m) ==
  /\ m.place = Place(m.flags)
  /\ m.written => IsChanged(m.flags)
  /\ m.block \/ this.kind = "local"
  /\ this.kind = "staged" => m.offset = 0
  /\ IsChanged(m.flags) => \A k \in 0 .. m.size - 1 : ShowsByte(m, k)
MappingsApart ==
  \A m1, m2 \in mappings :
    m1 # m2 /\ IsChanged(m1.flags) => \A i \in Bytes : ~(Covers(m1, i) /\ Covers(m2, i))
UnmappedAsPromised ==
  \A i \in Bytes :
    (\A m \in mappings : IsChanged(m.flags) => ~Covers(m, i)) => contents.device[i] = promised[i]
BuffersInv ==
  /\ BuffersTypeOK
  /\ \A m \in mappings : MappingInv(m)
  /\ MappingsApart /\ UnmappedAsPromised
  /\ answer.got = answer.expected
BuffersInductive == ~deviated => BuffersInv

LEMMA DataLength ==
  ASSUME NEW n \in Nat, NEW d \in Data(n)
  PROVE  Length(d) = n /\ DOMAIN d = 0 .. n - 1
<1>1. DOMAIN d = 0 .. n - 1
  BY DEF Data
<1>2. Cardinality(0 .. n - 1) = n
  BY FS_Interval
<1> QED
  BY <1>1, <1>2 DEF Length

LEMMA OverwrittenIs ==
  ASSUME NEW mem \in Memory, NEW o \in Nat, NEW n \in Nat, NEW d \in Data(n)
  PROVE  /\ Overwritten(mem, o, d) \in Memory
         /\ \A i \in Bytes : Overwritten(mem, o, d)[i] = IF Within(o, n, i) THEN d[i - o] ELSE mem[i]
<1>1. DOMAIN d = 0 .. n - 1
  BY DataLength
<1>2. ASSUME NEW i \in Bytes
      PROVE  (i >= o /\ i - o \in DOMAIN d) <=> Within(o, n, i)
  BY <1>1, BufferAssumption DEF Within, Bytes
<1>3. Overwritten(mem, o, d) = [i \in Bytes |-> IF Within(o, n, i) THEN d[i - o] ELSE mem[i]]
  BY <1>2 DEF Overwritten
<1>4. ASSUME NEW i \in Bytes, Within(o, n, i) PROVE d[i - o] \in Values
  <2>1. i - o \in 0 .. n - 1
    BY <1>4, BufferAssumption DEF Within, Bytes
  <2> QED
    BY <2>1 DEF Data
<1>5. \A i \in Bytes : mem[i] \in Values
  BY DEF Memory
<1> QED
  BY <1>3, <1>4, <1>5 DEF Memory

LEMMA PartIs ==
  ASSUME NEW mem \in Memory, NEW o \in Nat, NEW n \in Nat, o + n <= Size
  PROVE  /\ Part(mem, o, n) \in Data(n)
         /\ \A k \in 0 .. n - 1 : Part(mem, o, n)[k] = mem[o + k] /\ o + k \in Bytes
<1>1. \A k \in 0 .. n - 1 : o + k \in Bytes
  BY BufferAssumption DEF Bytes
<1>2. \A k \in 0 .. n - 1 : mem[o + k] \in Values
  BY <1>1 DEF Memory
<1> QED
  BY <1>1, <1>2 DEF Part, Data

(* The byte of a region that is at i                                       *)
LEMMA ByteOf ==
  ASSUME NEW o \in Nat, NEW n \in Nat, NEW i \in Bytes, Within(o, n, i)
  PROVE  i - o \in 0 .. n - 1 /\ o + (i - o) = i
BY BufferAssumption DEF Within, Bytes

LEMMA DataAre ==
  ASSUME NEW n \in Nat, calls \in Nat
  PROVE  /\ HostData(n) \in Data(n) /\ Undefined(n) \in Data(n) /\ CopySource \in Memory
         /\ \A p \in Nat \ {0} : PatternData(n, p) \in Data(n)
<1>1. \A k \in 0 .. n - 1 : <<calls + 1, k>> \in Values /\ <<MaxCalls + 2, k>> \in Values
  BY BufferAssumption DEF Values
<1>2. \A i \in Bytes : <<MaxCalls + 1, i>> \in Values
  BY BufferAssumption DEF Values, Bytes
<1>3. ASSUME NEW p \in Nat \ {0}, NEW k \in 0 .. n - 1 PROVE <<calls + 1, k % p>> \in Values
  <2>1. k % p \in Nat
    BY <1>3
  <2> QED
    BY <2>1 DEF Values
<1> QED
  BY <1>1, <1>2, <1>3 DEF HostData, Undefined, CopySource, PatternData, Data, Memory

LEMMA DidModifyIs ==
  ASSUME NEW device \in Memory, NEW copy \in Memory, NEW o \in Nat, NEW n \in Nat
  PROVE  /\ DidModify(device, copy, o, n) \in Memory
         /\ \A i \in Bytes : DidModify(device, copy, o, n)[i] =
                               IF Within(o, o + n, i) THEN copy[i] ELSE device[i]
<1>1. \A i \in Bytes : (i >= o /\ i < o + (o + n)) <=> Within(o, o + n, i)
  BY BufferAssumption DEF Within, Bytes
<1>2. DidModify(device, copy, o, n) = [i \in Bytes |-> IF Within(o, o + n, i) THEN copy[i] ELSE device[i]]
  BY <1>1 DEF DidModify
<1> QED
  BY <1>2 DEF Memory

(* What a call that stores data in a region may do to the memory           *)
StoresAs(m, w, o, n, d) ==
  /\ w \in Memories
  /\ \A i \in Bytes :
       /\ w.device[i] = IF Within(o, n, i) THEN d[i - o] ELSE m.device[i]
       /\ ~Within(o, n, i) => w.cpu[i] = m.cpu[i] /\ w.staging[i] \in {m.staging[i], m.cpu[i]}

LEMMA DeviceStores ==
  ASSUME NEW m \in Memories, NEW o \in Nat, NEW n \in Nat, NEW d \in Data(n)
  PROVE  StoresAs(m, [m EXCEPT !.device = Overwritten(m.device, o, d)], o, n, d)
<1>1. Overwritten(m.device, o, d) \in Memory /\ m.device \in Memory
  BY OverwrittenIs DEF Memories
<1>2. \A i \in Bytes : Overwritten(m.device, o, d)[i] = IF Within(o, n, i) THEN d[i - o] ELSE m.device[i]
  BY <1>1, OverwrittenIs
<1> QED
  BY <1>1, <1>2 DEF StoresAs, Memories

LEMMA ManagedStores ==
  ASSUME NEW m \in Memories, NEW n \in Nat, NEW d \in Data(n), n <= Size
  PROVE  StoresAs(m, StoreManaged(m, 0, d), 0, n, d)
<1> DEFINE cpu == Overwritten(m.cpu, 0, d)
           device == DidModify(m.device, cpu, 0, n)
<1>1. m.cpu \in Memory /\ m.device \in Memory /\ m.staging \in Memory
  BY DEF Memories
<1>2. /\ cpu \in Memory
      /\ \A i \in Bytes : cpu[i] = IF Within(0, n, i) THEN d[i - 0] ELSE m.cpu[i]
  BY <1>1, OverwrittenIs
<1>3. Length(d) = n
  BY DataLength
<1>4. StoreManaged(m, 0, d) = [m EXCEPT !.cpu = cpu, !.device = device]
  BY <1>3 DEF StoreManaged
<1> HIDE DEF cpu
<1>5. device \in Memory /\ \A i \in Bytes : device[i] = IF Within(0, 0 + n, i) THEN cpu[i] ELSE m.device[i]
  <2>1. PICK z \in Nat : z = 0
    OBVIOUS
  <2>2. PICK s \in Memory, c \in Memory : s = m.device /\ c = cpu
    BY <1>1, <1>2
  <2>3. /\ DidModify(s, c, z, n) \in Memory
        /\ \A i \in Bytes : DidModify(s, c, z, n)[i] = IF Within(z, z + n, i) THEN c[i] ELSE s[i]
    BY DidModifyIs
  <2> QED
    BY <2>1, <2>2, <2>3
<1> HIDE DEF device
<1>6. ASSUME NEW i \in Bytes
      PROVE  /\ device[i] = IF Within(0, n, i) THEN d[i - 0] ELSE m.device[i]
             /\ ~Within(0, n, i) => cpu[i] = m.cpu[i]
  <2>1. 0 + n = n
    OBVIOUS
  <2> QED
    BY <1>2, <1>5, <2>1
<1> QED
  BY <1>1, <1>2, <1>4, <1>5, <1>6 DEF StoresAs, Memories

(* The staging buffer takes the data, and more from the CPU's copy.        *)
LEMMA StagingStores ==
  ASSUME NEW m \in Memories, NEW o \in Nat, NEW n \in Nat, NEW d \in Data(n), o + n <= Size
  PROVE  LET stored == StoreStaging(m, o, d) IN
         StoresAs(m, [stored EXCEPT !.device = Overwritten(@, o, Part(stored.staging, o, n))], o, n, d)
<1> DEFINE cpu == Overwritten(m.cpu, o, d)
           staging == DidModify(m.staging, cpu, o, n)
           stored == StoreStaging(m, o, d)
           device == Overwritten(m.device, o, Part(staging, o, n))
<1>1. m.cpu \in Memory /\ m.device \in Memory /\ m.staging \in Memory
  BY DEF Memories
<1>2. /\ cpu \in Memory
      /\ \A i \in Bytes : cpu[i] = IF Within(o, n, i) THEN d[i - o] ELSE m.cpu[i]
  BY <1>1, OverwrittenIs
<1>3. Length(d) = n
  BY DataLength
<1>4. stored = [m EXCEPT !.cpu = cpu, !.staging = staging]
  BY <1>3 DEF StoreStaging
<1> HIDE DEF stored
<1>5. [stored EXCEPT !.device = Overwritten(@, o, Part(stored.staging, o, n))]
      = [device |-> device, staging |-> staging, cpu |-> cpu]
  <2>1. m = [device |-> m.device, staging |-> m.staging, cpu |-> m.cpu]
    BY DEF Memories
  <2> HIDE DEF device, staging, cpu
  <2>2. stored = [device |-> m.device, staging |-> staging, cpu |-> cpu]
    BY <1>4, <2>1
  <2>3. device = Overwritten(stored.device, o, Part(stored.staging, o, n))
    BY <2>2 DEF device
  <2> QED
    BY <2>2, <2>3
<1> HIDE DEF cpu
<1>6. staging \in Memory /\ \A i \in Bytes : staging[i] = IF Within(o, o + n, i) THEN cpu[i] ELSE m.staging[i]
  <2>1. PICK s \in Memory : s = m.staging
    BY <1>1
  <2>2. PICK c \in Memory : c = cpu
    BY <1>2
  <2>3. /\ DidModify(s, c, o, n) \in Memory
        /\ \A i \in Bytes : DidModify(s, c, o, n)[i] = IF Within(o, o + n, i) THEN c[i] ELSE s[i]
    BY DidModifyIs
  <2> QED
    BY <2>1, <2>2, <2>3
<1> HIDE DEF staging
<1>7. /\ Part(staging, o, n) \in Data(n)
      /\ \A k \in 0 .. n - 1 : Part(staging, o, n)[k] = staging[o + k]
  BY <1>6, PartIs
<1>8. /\ device \in Memory
      /\ \A i \in Bytes : device[i] = IF Within(o, n, i) THEN Part(staging, o, n)[i - o] ELSE m.device[i]
  <2>1. PICK d1 \in Data(n) : d1 = Part(staging, o, n)
    BY <1>7
  <2>2. /\ Overwritten(m.device, o, d1) \in Memory
        /\ \A i \in Bytes : Overwritten(m.device, o, d1)[i] = IF Within(o, n, i) THEN d1[i - o] ELSE m.device[i]
    BY <1>1, OverwrittenIs
  <2> QED
    BY <2>1, <2>2
<1> HIDE DEF device
<1>9. ASSUME NEW i \in Bytes
      PROVE  /\ device[i] = IF Within(o, n, i) THEN d[i - o] ELSE m.device[i]
             /\ ~Within(o, n, i) => cpu[i] = m.cpu[i] /\ staging[i] \in {m.staging[i], m.cpu[i]}
  <2>1. CASE Within(o, n, i)
    <3>1. i - o \in 0 .. n - 1 /\ o + (i - o) = i
      BY <2>1, ByteOf
    <3>2. Within(o, o + n, i)
      BY <2>1, BufferAssumption DEF Within, Bytes
    <3>3. Part(staging, o, n)[i - o] = staging[i]
      BY <1>7, <3>1
    <3>4. staging[i] = d[i - o]
      BY <1>2, <1>6, <2>1, <3>2
    <3> QED
      BY <1>8, <2>1, <3>3, <3>4
  <2>2. CASE ~Within(o, n, i)
    BY <1>2, <1>6, <1>8, <2>2
  <2> QED
    BY <2>1, <2>2
<1> DEFINE w == [device |-> device, staging |-> staging, cpu |-> cpu]
<1>10. /\ w \in Memories /\ w.device = device /\ w.staging = staging /\ w.cpu = cpu
  BY <1>2, <1>6, <1>8 DEF Memories
<1> HIDE DEF w
<1>11. StoresAs(m, w, o, n, d)
  BY <1>9, <1>10 DEF StoresAs
<1> QED
  BY <1>5, <1>11 DEF stored, w

(* write() stores its data, but for the calls known to deviate.            *)
LEMMA WriteStores ==
  ASSUME NEW m \in Memories, NEW o \in Nat, NEW n \in Nat, NEW d \in Data(n), o + n <= Size,
         ~MapsTwice, ~(this.kind = "managed" /\ o > 0)
  PROVE  StoresAs(m, write_buffer(m, o, d), o, n, d)
<1>1. CASE this.kind = "managed"
  <2>1. o = 0 /\ n <= Size
    BY <1>1, BufferAssumption
  <2>2. write_buffer(m, o, d) = StoreManaged(m, 0, d)
    BY <1>1, <2>1 DEF write_buffer
  <2> QED
    BY <2>1, <2>2, ManagedStores
<1>2. CASE this.kind = "staged"
  <2>1. Length(d) = n
    BY DataLength
  <2>2. write_buffer(m, o, d) =
          LET stored == StoreStaging(m, o, d) IN
          [stored EXCEPT !.device = Overwritten(@, o, Part(stored.staging, o, n))]
    BY <1>2, <2>1 DEF write_buffer
  <2> QED
    BY <2>2, StagingStores
<1>3. CASE this.kind \notin {"managed", "staged"}
  <2>1. write_buffer(m, o, d) = [m EXCEPT !.device = Overwritten(m.device, o, d)]
    BY <1>3 DEF write_buffer
  <2> QED
    BY <2>1, DeviceStores
<1> QED
  BY <1>1, <1>2, <1>3

LEMMA FillStores ==
  ASSUME NEW m \in Memories, NEW o \in Nat, NEW n \in Nat, NEW p \in Nat \ {0},
         fill_check(n, p, o), ~FillDeviates(o, n, p), calls \in Nat
  PROVE  StoresAs(m, fill_buffer(m, o, n, p), o, n, PatternData(n, p))
<1> DEFINE d == PatternData(n, p)
<1>1. d \in Data(n) /\ o + n <= Size /\ InBuffer(n, o) /\ Length(d) = n
  <2>1. d \in Data(n)
    BY DataAre
  <2> QED
    BY <2>1, DataLength DEF fill_check, InBuffer
<1>2. \A b \in Memories : [b EXCEPT !.device = Overwritten(@, o, d)] = [b EXCEPT !.device = Overwritten(b.device, o, d)]
  OBVIOUS
<1>3. ASSUME p = 1, o = 0 PROVE fill_single_byte(m, o, n) = [m EXCEPT !.device = Overwritten(m.device, o, d)]
  <2>1. o + n = n
    BY <1>3
  <2> QED
    BY <1>3, <2>1 DEF fill_single_byte
<1> HIDE DEF d
<1>4. ASSUME "write" \in this.host PROVE WriteChecked(m, o, d) = write_buffer(m, o, d)
  BY <1>1, <1>4 DEF WriteChecked, write_check
<1>5. StoresAs(m, [m EXCEPT !.device = Overwritten(m.device, o, d)], o, n, d)
  BY <1>1, DeviceStores
<1>6. ASSUME this.kind \notin {"coherent", "managed"} PROVE StoresAs(m, write_buffer(m, o, d), o, n, d)
  BY <1>1, <1>6, WriteStores DEF MapsTwice
<1>7. CASE Metal
  <2>0. p = 1 => o = 0
    BY <1>7 DEF FillDeviates
  <2>1. fill_buffer(m, o, n, p) = metal_fill(m, o, n, p)
    <3>1. ~Vulkan
      BY <1>7 DEF Metal, Vulkan
    <3> QED
      BY <1>7, <3>1 DEF fill_buffer
  <2>2. CASE this.kind \in {"private", "staged"}
    <3>1. metal_fill(m, o, n, p) = IF p = 1 THEN fill_single_byte(m, o, n) ELSE WriteChecked(m, o, d)
      BY <2>2 DEF metal_fill, d
    <3>2. p # 1 => "write" \in this.host
      BY <2>2 DEF FillDeviates
    <3> QED
      BY <1>3, <1>4, <1>5, <1>6, <2>0, <2>1, <2>2, <3>1, <3>2 DEF d
  <2>3. CASE this.kind = "managed"
    <3>1. p # 1 /\ o = 0
      BY <2>3 DEF FillDeviates
    <3>2. metal_fill(m, o, n, p) = StoreManaged(m, o, d)
      BY <2>3, <3>1 DEF metal_fill, d
    <3>3. n <= Size
      BY <1>1, <3>1
    <3> QED
      BY <1>1, <2>1, <3>1, <3>2, <3>3, ManagedStores DEF d
  <2>4. CASE this.kind = "shared"
    <3>1. metal_fill(m, o, n, p) = IF p = 1 THEN fill_single_byte(m, o, n) ELSE write_buffer(m, o, d)
      BY <2>4 DEF metal_fill, d
    <3> QED
      BY <1>3, <1>5, <1>6, <2>0, <2>1, <2>4, <3>1 DEF d
  <2> QED
    BY <1>7, <2>2, <2>3, <2>4 DEF Metal
<1>8. CASE Vulkan
  <2>1. fill_buffer(m, o, n, p) = vulkan_fill(m, o, n, p)
    BY <1>8 DEF fill_buffer, Vulkan, Metal
  <2>2. CASE CanFill32(n, p)
    <3>1. o % 4 = 0
      BY <1>8, <2>2 DEF FillDeviates
    <3>2. vulkan_fill(m, o, n, p) = [m EXCEPT !.device = Overwritten(m.device, o, d)]
      BY <2>2, <3>1 DEF vulkan_fill, d
    <3> QED
      BY <1>5, <2>1, <3>2 DEF d
  <2>3. CASE ~CanFill32(n, p) /\ Coherent
    <3>1. ~MapsTwice /\ o = 0
      BY <2>3 DEF FillDeviates
    <3>2. vulkan_fill(m, o, n, p) = [m EXCEPT !.device = Overwritten(m.device, o, d)]
      BY <2>3, <3>1 DEF vulkan_fill, d
    <3> QED
      BY <1>5, <2>1, <3>2 DEF d
  <2>4. CASE ~CanFill32(n, p) /\ ~Coherent
    <3>1. this.kind = "local"
      BY <1>8, <2>4 DEF Vulkan, Coherent
    <3>2. "write" \in this.host
      BY <2>4, <3>1 DEF FillDeviates
    <3>3. vulkan_fill(m, o, n, p) = WriteChecked(m, o, d)
      BY <2>4 DEF vulkan_fill, d
    <3> QED
      BY <1>4, <1>6, <2>1, <3>1, <3>2, <3>3 DEF d
  <2> QED
    BY <2>2, <2>3, <2>4
<1>9. CASE ~Metal /\ ~Vulkan
  <2>1. fill_buffer(m, o, n, p) = [m EXCEPT !.device = Overwritten(m.device, o, d)]
    BY <1>9 DEF fill_buffer, d
  <2> QED
    BY <1>5, <2>1 DEF d
<1> QED
  BY <1>7, <1>8, <1>9

LEMMA StoredIs ==
  ASSUME BuffersTypeOK, NEW m \in mappings
  PROVE  /\ m \in Mappings /\ m.offset \in Nat /\ m.size \in Nat /\ m.size >= 1 /\ m.offset + m.size <= Size
         /\ m.data \in Data(m.size) /\ m.id \in Nat /\ m.flags \in MapFlags
         /\ m.block \in BOOLEAN /\ m.written \in BOOLEAN
         /\ \A k \in 0 .. m.size - 1 : m.offset + k \in Bytes /\ Stored(m, k) \in Values
         /\ [k \in 0 .. m.size - 1 |-> Stored(m, k)] \in Data(m.size)
<1>1. m \in Mappings /\ m.offset + m.size <= Size /\ m.data \in Data(m.size) /\ promised \in Memory
  BY DEF BuffersTypeOK
<1>2. /\ m.offset \in Nat /\ m.size \in Nat /\ m.size >= 1 /\ m.id \in Nat /\ m.flags \in MapFlags
      /\ m.block \in BOOLEAN /\ m.written \in BOOLEAN
  BY <1>1, BufferAssumption DEF Mappings, Bytes
<1>3. \A k \in 0 .. m.size - 1 : m.offset + k \in Bytes
  BY <1>1, <1>2, BufferAssumption DEF Bytes
<1>4. \A k \in 0 .. m.size - 1 : <<m.id, k>> \in Values /\ promised[m.offset + k] \in Values
  BY <1>1, <1>2, <1>3 DEF Values, Memory
<1>5. \A k \in 0 .. m.size - 1 : Stored(m, k) \in Values
  BY <1>4 DEF Stored
<1> QED
  BY <1>1, <1>2, <1>3, <1>5 DEF Data

(* Unmapping stores what the mapping shows.                                *)
LEMMA UnmapStores ==
  ASSUME BuffersTypeOK, NEW m \in mappings, MappingInv(m),
         IsChanged(m.flags), ~IsRead(m.flags) => m.written, ~UnmapDeviates(m, FALSE)
  PROVE  StoresAs(contents, unmap_buffer(contents, m), m.offset, m.size, [k \in 0 .. m.size - 1 |-> Stored(m, k)])
<1> DEFINE d == [k \in 0 .. m.size - 1 |-> Stored(m, k)]
           data == IF m.place = "cpu" THEN Part(contents.cpu, m.offset, m.size) ELSE m.data
<1>1. /\ m.offset \in Nat /\ m.size \in Nat /\ m.offset + m.size <= Size /\ m.data \in Data(m.size)
      /\ d \in Data(m.size) /\ contents \in Memories /\ contents.cpu \in Memory
      /\ \A k \in 0 .. m.size - 1 : ShowsByte(m, k)
      /\ m.place = Place(m.flags)
  BY StoredIs DEF MappingInv, BuffersTypeOK, Memories
<1>2. ASSUME m.place \in {"cpu", "own"} PROVE data = d
  <2>1. CASE m.place = "cpu"
    <3>1. \A k \in 0 .. m.size - 1 : contents.cpu[m.offset + k] = Stored(m, k)
      BY <1>1, <2>1 DEF ShowsByte
    <3> QED
      BY <2>1, <3>1 DEF Part
  <2>2. CASE m.place = "own"
    <3>1. \A k \in 0 .. m.size - 1 : m.data[k] = Stored(m, k)
      BY <1>1, <2>2 DEF ShowsByte
    <3>2. m.data = [k \in 0 .. m.size - 1 |-> m.data[k]]
      BY <1>1 DEF Data
    <3> QED
      BY <2>2, <3>1, <3>2
  <2> QED
    BY <1>2, <2>1, <2>2
<1>3. CASE Copied
  <2>1. m.block
    BY <1>3 DEF MappingInv, UnmapDeviates, Copied
  <2>2. m.place \in {"cpu", "own"}
    BY <1>1, <1>3 DEF Place
  <2>3. unmap_buffer(contents, m) = [contents EXCEPT !.device = Overwritten(contents.device, m.offset, data)]
    <3>1. this.kind \notin {"managed", "staged"}
      BY <1>3 DEF Copied
    <3> HIDE DEF data
    <3>2. unmap_buffer(contents, m) = [contents EXCEPT !.device = Overwritten(@, m.offset, data)]
      BY <1>3, <2>1, <3>1 DEF unmap_buffer, data
    <3> QED
      BY <3>2
  <2> HIDE DEF d, data
  <2>4. unmap_buffer(contents, m) = [contents EXCEPT !.device = Overwritten(contents.device, m.offset, d)]
    BY <1>2, <2>2, <2>3
  <2> QED
    BY <1>1, <2>4, DeviceStores DEF d
<1>4. CASE this.kind = "managed"
  <2>1. m.offset = 0 /\ ~Copied
    BY <1>1, <1>4, BufferAssumption DEF UnmapDeviates, Copied
  <2>2. m.place \in {"cpu", "own"}
    BY <1>1, <1>4, <2>1 DEF Place
  <2>3. unmap_buffer(contents, m) = StoreManaged(contents, 0, data)
    BY <1>4, <2>1 DEF unmap_buffer
  <2> HIDE DEF d, data
  <2>4. unmap_buffer(contents, m) = StoreManaged(contents, 0, d) /\ m.size <= Size
    BY <1>1, <1>2, <2>1, <2>2, <2>3
  <2> QED
    BY <1>1, <2>1, <2>4, ManagedStores DEF d
<1>5. CASE this.kind = "staged"
  <2>1. m.offset = 0 /\ ~Copied
    BY <1>5 DEF MappingInv, Copied
  <2>2. m.place \in {"cpu", "own"}
    BY <1>1, <1>5, <2>1 DEF Place
  <2>3. unmap_buffer(contents, m) =
          LET stored == StoreStaging(contents, 0, data) IN
          [stored EXCEPT !.device = Overwritten(@, 0, Part(stored.staging, 0, m.size))]
    BY <1>5, <2>1 DEF unmap_buffer
  <2> HIDE DEF d, data
  <2>4. unmap_buffer(contents, m) =
          LET stored == StoreStaging(contents, 0, d) IN
          [stored EXCEPT !.device = Overwritten(@, 0, Part(stored.staging, 0, m.size))]
    BY <1>2, <2>2, <2>3
  <2>5. 0 + m.size <= Size
    BY <1>1, <2>1
  <2> QED
    BY <1>1, <2>1, <2>4, <2>5, StagingStores DEF d
<1>6. CASE ~Copied /\ this.kind \notin {"managed", "staged"}
  <2>1. unmap_buffer(contents, m) = contents /\ m.place = "device"
    BY <1>1, <1>6 DEF unmap_buffer, Place
  <2>2. \A k \in 0 .. m.size - 1 : contents.device[m.offset + k] = d[k]
    BY <1>1, <2>1 DEF ShowsByte
  <2> HIDE DEF d
  <2>3. \A i \in Bytes : Within(m.offset, m.size, i) => contents.device[i] = d[i - m.offset]
    BY <1>1, <2>2, ByteOf
  <2> QED
    BY <1>1, <2>1, <2>3 DEF StoresAs, d
<1> QED
  BY <1>3, <1>4, <1>5, <1>6

-----------------------------------------------------------------------------
LEMMA MappingCovers ==
  ASSUME BuffersTypeOK, NEW m \in mappings, NEW k \in 0 .. m.size - 1
  PROVE  m.offset + k \in Bytes /\ Covers(m, m.offset + k)
<1>1. m.offset \in Nat /\ m.size \in Nat /\ m.offset + k \in Bytes
  BY StoredIs
<1> QED
  BY <1>1 DEF Covers, Within

(* A call stores data in a region that no mapping that stays overlaps.     *)
LEMMA StorePreserves ==
  ASSUME BuffersInv, NEW o \in Nat, NEW n \in Nat, o + n <= Size, NEW d \in Data(n),
         StoresAs(contents, contents', o, n, d), promised' \in Memory,
         \A i \in Bytes : promised'[i] = IF Within(o, n, i) THEN d[i - o] ELSE promised[i],
         mappings' \subseteq mappings,
         \A m \in mappings', i \in Bytes : ~(Covers(m, i) /\ Within(o, n, i)),
         \A m \in mappings \ mappings' :
           IsChanged(m.flags) => \A i \in Bytes : Covers(m, i) => Within(o, n, i),
         this' = this, answer' = answer, calls' \in Nat
  PROVE  BuffersInv'
<1>1. /\ BuffersTypeOK /\ \A m \in mappings : MappingInv(m)
      /\ MappingsApart /\ UnmappedAsPromised /\ answer.got = answer.expected
  BY DEF BuffersInv
<1>2. BuffersTypeOK'
  BY <1>1 DEF BuffersTypeOK, StoresAs
<1>3. \A i \in Bytes :
        /\ contents'.device[i] = IF Within(o, n, i) THEN d[i - o] ELSE contents.device[i]
        /\ ~Within(o, n, i) =>
             contents'.cpu[i] = contents.cpu[i] /\ contents'.staging[i] \in {contents.staging[i], contents.cpu[i]}
  BY DEF StoresAs
<1>4. ASSUME NEW m \in mappings' PROVE MappingInv(m)'
  <2>1. m \in mappings /\ MappingInv(m)
    BY <1>1
  <2>2. ASSUME IsChanged(m.flags), NEW k \in 0 .. m.size - 1 PROVE ShowsByte(m, k)'
    <3>1. m.offset + k \in Bytes /\ Covers(m, m.offset + k)
      BY <1>1, <2>1, MappingCovers
    <3>2. ~Within(o, n, m.offset + k)
      BY <3>1
    <3>3. /\ contents'.device[m.offset + k] = contents.device[m.offset + k]
          /\ contents'.cpu[m.offset + k] = contents.cpu[m.offset + k]
          /\ contents'.staging[m.offset + k] \in {contents.staging[m.offset + k], contents.cpu[m.offset + k]}
          /\ promised'[m.offset + k] = promised[m.offset + k]
      BY <1>3, <3>1, <3>2
    <3>4. ShowsByte(m, k)
      BY <2>1, <2>2 DEF MappingInv
    <3> QED
      BY <3>3, <3>4 DEF ShowsByte, Stored
  <2>3. Place(m.flags)' = Place(m.flags)
    BY DEF Place, Copied
  <2> QED
    BY <2>1, <2>2, <2>3 DEF MappingInv
<1>5. MappingsApart'
  BY <1>1 DEF MappingsApart
<1>6. UnmappedAsPromised'
  <2> SUFFICES ASSUME NEW i \in Bytes, \A m \in mappings' : IsChanged(m.flags) => ~Covers(m, i)
               PROVE  contents'.device[i] = promised'[i]
    BY DEF UnmappedAsPromised
  <2>1. CASE Within(o, n, i)
    BY <1>3, <2>1
  <2>2. CASE ~Within(o, n, i)
    <3>1. \A m \in mappings : IsChanged(m.flags) => ~Covers(m, i)
      BY <2>2
    <3> QED
      BY <1>1, <1>3, <2>2, <3>1 DEF UnmappedAsPromised
  <2> QED
    BY <2>1, <2>2
<1> QED
  BY <1>1, <1>2, <1>4, <1>5, <1>6 DEF BuffersInv

(* read() and map() bring the CPU's and the staging buffer's copies up to  *)
(* date.                                                                   *)
SyncsAs(m, w) ==
  /\ w \in Memories /\ w.device = m.device
  /\ \A i \in Bytes :
       /\ w.staging[i] \in {m.staging[i], m.device[i]}
       /\ w.cpu[i] \in {m.cpu[i], m.device[i]} \cup (IF this.kind = "staged" THEN {m.staging[i]} ELSE {})

LEMMA ManagedSyncs ==
  ASSUME NEW m \in Memories
  PROVE  /\ SyncsAs(m, [m EXCEPT !.cpu = m.device])
         /\ [m EXCEPT !.cpu = m.device].cpu = m.device
<1> DEFINE w == [m EXCEPT !.cpu = m.device]
<1>1. w \in Memories /\ w.device = m.device /\ w.staging = m.staging /\ w.cpu = m.device
  BY DEF Memories
<1> HIDE DEF w
<1>2. SyncsAs(m, w) /\ w.cpu = m.device
  BY <1>1 DEF SyncsAs
<1> QED
  BY <1>2 DEF w

(* A region of the device goes to the same place of the staging buffer.    *)
LEMMA StagedSyncs ==
  ASSUME NEW m \in Memories, NEW o \in Nat, NEW n \in Nat, o + n <= Size, this.kind = "staged",
         NEW w, NEW staging, staging = Overwritten(m.staging, o, Part(m.device, o, n)),
         w = [device |-> m.device, staging |-> staging, cpu |-> staging]
  PROVE  /\ SyncsAs(m, w)
         /\ \A i \in Bytes : Within(o, n, i) => w.cpu[i] = m.device[i] /\ w.staging[i] = m.device[i]
<1>1. m.device \in Memory /\ m.staging \in Memory
  BY DEF Memories
<1>2. /\ Part(m.device, o, n) \in Data(n)
      /\ \A k \in 0 .. n - 1 : Part(m.device, o, n)[k] = m.device[o + k]
  BY <1>1, PartIs
<1>3. /\ staging \in Memory
      /\ \A i \in Bytes : staging[i] = IF Within(o, n, i) THEN Part(m.device, o, n)[i - o] ELSE m.staging[i]
  BY <1>1, <1>2, OverwrittenIs
<1>4. \A i \in Bytes : Within(o, n, i) => Part(m.device, o, n)[i - o] = m.device[i]
  BY <1>2, ByteOf
<1>5. \A i \in Bytes : staging[i] = IF Within(o, n, i) THEN m.device[i] ELSE m.staging[i]
  BY <1>3, <1>4
<1>6. w \in Memories /\ w.device = m.device /\ w.staging = staging /\ w.cpu = staging
  BY <1>3 DEF Memories
<1>7. SyncsAs(m, w)
  BY <1>5, <1>6 DEF SyncsAs
<1> QED
  BY <1>5, <1>6, <1>7

LEMMA NothingSyncs == ASSUME NEW m \in Memories PROVE SyncsAs(m, m)
BY DEF SyncsAs

(* A call that changes copies only, and may add a mapping                  *)
LEMMA SyncPreserves ==
  ASSUME BuffersInv, SyncsAs(contents, contents'), ~SyncDeviates \/ contents' = contents,
         promised' = promised, this' = this, calls' \in Nat,
         NEW N \in SUBSET Mappings, mappings' = mappings \cup N,
         \A m \in N : m.offset + m.size <= Size /\ m.data \in Data(m.size),
         \A m \in N : MappingInv(m)',
         \A m1 \in N, m2 \in mappings' :
           m1 # m2 /\ (IsChanged(m1.flags) \/ IsChanged(m2.flags)) =>
             \A i \in Bytes : ~(Covers(m1, i) /\ Covers(m2, i)),
         answer'.got = answer'.expected
  PROVE  BuffersInv'
<1>1. /\ BuffersTypeOK /\ \A m \in mappings : MappingInv(m)
      /\ MappingsApart /\ UnmappedAsPromised
  BY DEF BuffersInv
<1>2. BuffersTypeOK'
  BY <1>1 DEF BuffersTypeOK, SyncsAs
<1>3. \A i \in Bytes :
        /\ contents'.device[i] = contents.device[i]
        /\ contents'.staging[i] \in {contents.staging[i], contents.device[i]}
        /\ contents'.cpu[i] \in {contents.cpu[i], contents.device[i]}
                                \cup (IF this.kind = "staged" THEN {contents.staging[i]} ELSE {})
  BY DEF SyncsAs
<1>4. ASSUME NEW m \in mappings PROVE MappingInv(m)'
  <2>1. MappingInv(m) /\ m.written \in BOOLEAN
    BY <1>1, StoredIs
  <2>2. ASSUME IsChanged(m.flags), NEW k \in 0 .. m.size - 1 PROVE ShowsByte(m, k)'
    <3>1. m.offset + k \in Bytes
      BY <1>1, MappingCovers
    <3>2. ShowsByte(m, k)
      BY <2>1, <2>2 DEF MappingInv
    <3>3. CASE m.place = "cpu" /\ m.written
      <4>1. contents' = contents
        BY <3>3 DEF SyncDeviates
      <4> QED
        BY <3>2, <4>1 DEF ShowsByte, Stored
    <3>4. CASE m.place = "cpu" /\ ~m.written
      <4>1. Stored(m, k) = promised[m.offset + k] /\ Stored(m, k)' = promised[m.offset + k]
        BY <3>4 DEF Stored
      <4>2. /\ contents.cpu[m.offset + k] = promised[m.offset + k]
            /\ contents.device[m.offset + k] = promised[m.offset + k]
            /\ this.kind = "staged" => contents.staging[m.offset + k] = promised[m.offset + k]
        BY <3>2, <3>4, <4>1 DEF ShowsByte
      <4>3. /\ contents'.cpu[m.offset + k] = promised[m.offset + k]
            /\ contents'.device[m.offset + k] = promised[m.offset + k]
            /\ this.kind = "staged" => contents'.staging[m.offset + k] = promised[m.offset + k]
        BY <1>3, <3>1, <4>2
      <4> QED
        BY <3>4, <4>1, <4>3 DEF ShowsByte
    <3>5. CASE m.place # "cpu"
      <4>1. contents'.device[m.offset + k] = contents.device[m.offset + k]
        BY <1>3, <3>1
      <4> QED
        BY <3>2, <3>5, <4>1 DEF ShowsByte, Stored
    <3> QED
      BY <2>1, <3>3, <3>4, <3>5
  <2>3. Place(m.flags)' = Place(m.flags)
    BY DEF Place, Copied
  <2> QED
    BY <2>1, <2>2, <2>3 DEF MappingInv
<1>5. UnmappedAsPromised'
  BY <1>1, <1>3 DEF UnmappedAsPromised
<1>6. MappingsApart'
  <2> SUFFICES ASSUME NEW m1 \in mappings', NEW m2 \in mappings', m1 # m2, IsChanged(m1.flags), NEW i \in Bytes
               PROVE  ~(Covers(m1, i) /\ Covers(m2, i))
    BY DEF MappingsApart
  <2>1. CASE m1 \in N \/ m2 \in N
    BY <2>1
  <2>2. CASE m1 \in mappings /\ m2 \in mappings
    BY <1>1, <2>2 DEF MappingsApart
  <2> QED
    BY <2>1, <2>2
<1>7. \A m \in mappings' : MappingInv(m)'
  BY <1>4
<1> QED
  BY <1>2, <1>5, <1>6, <1>7 DEF BuffersInv

-----------------------------------------------------------------------------
LEMMA RegionIs ==
  ASSUME NEW region \in Regions
  PROVE  region.offset \in Nat /\ SizeOf(region) \in Nat /\ SizeOf(region) >= 1
BY BufferAssumption DEF SizeOf

LEMMA CoveredOverlaps ==
  ASSUME BuffersTypeOK, NEW m \in mappings, NEW o \in Nat, NEW n \in Nat,
         NEW i \in Bytes, Within(o, n, i), Covers(m, i)
  PROVE  Overlap(o, n, m)
<1>1. PICK a \in Nat, s \in Nat : a = m.offset /\ s = m.size
  BY StoredIs
<1>2. i \in Nat /\ o <= i /\ i < o + n /\ a <= i /\ i < a + s
  BY <1>1, BufferAssumption DEF Bytes, Within, Covers
<1>3. o < a + s /\ a < o + n
  BY <1>2
<1> QED
  BY <1>1, <1>3 DEF Overlap

(* What may be read is as promised.                                        *)
LEMMA MayReadShows ==
  ASSUME BuffersInv, NEW o \in Nat, NEW n \in Nat, MayRead(o, n)
  PROVE  \A i \in Bytes : Within(o, n, i) => contents.device[i] = promised[i]
<1> SUFFICES ASSUME NEW i \in Bytes, Within(o, n, i), NEW m \in mappings, IsChanged(m.flags), Covers(m, i)
             PROVE  FALSE
  BY DEF BuffersInv, UnmappedAsPromised
<1>1. Overlap(o, n, m)
  BY CoveredOverlaps DEF BuffersInv
<1> QED
  BY <1>1 DEF MayRead

LEMMA ReadPreserves ==
  ASSUME BuffersInv, NEW region \in Regions, Read(region), ~deviated'
  PROVE  BuffersInv'
<1> DEFINE o == region.offset
           n == SizeOf(region)
<1>1. /\ ~deviated /\ calls' = calls + 1 /\ deviated' = ReadDeviates /\ MayRead(o, n)
      /\ read_check(n, o) /\ contents' = read_buffer(contents, o, n)
      /\ answer' = [got |-> IF MapsTwice THEN <<>> ELSE Part(SeenBy(contents'), o, n),
                    expected |-> Part(promised, o, n)]
      /\ this' = this /\ mappings' = mappings /\ promised' = promised
  BY DEF Read, NextCall
<1>2. /\ BuffersTypeOK /\ contents \in Memories /\ calls \in Nat /\ o \in Nat /\ n \in Nat /\ o + n <= Size
      /\ UnmappedAsPromised /\ promised \in Memory
  BY <1>1, RegionIs DEF BuffersInv, BuffersTypeOK, read_check, InBuffer
<1> HIDE DEF o, n
<1>3. /\ SyncsAs(contents, contents')
      /\ \A i \in Bytes : Within(o, n, i) => SeenBy(contents')[i] = contents.device[i]
  <2>1. CASE this.kind = "managed"
    <3>1. contents' = [contents EXCEPT !.cpu = contents.device] /\ SeenBy(contents') = contents'.cpu
      BY <1>1, <2>1 DEF read_buffer, SeenBy
    <3> QED
      BY <1>2, <3>1, ManagedSyncs
  <2>2. CASE this.kind = "staged"
    <3>0. PICK staging : staging = Overwritten(contents.staging, o, Part(contents.device, o, n))
      OBVIOUS
    <3>1. contents' = [contents EXCEPT !.staging = staging, !.cpu = staging] /\ SeenBy(contents') = contents'.cpu
      BY <1>1, <2>2, <3>0 DEF read_buffer, SeenBy
    <3>2. contents' = [device |-> contents.device, staging |-> staging, cpu |-> staging]
      BY <1>2, <3>1 DEF Memories
    <3>3. /\ SyncsAs(contents, contents')
          /\ \A i \in Bytes : Within(o, n, i) =>
               contents'.cpu[i] = contents.device[i] /\ contents'.staging[i] = contents.device[i]
      BY <1>2, <2>2, <3>0, <3>2, StagedSyncs
    <3> QED
      BY <3>1, <3>3
  <2>3. CASE this.kind \notin {"managed", "staged"}
    <3>1. contents' = contents /\ SeenBy(contents') = contents'.device
      BY <1>1, <2>3 DEF read_buffer, SeenBy
    <3> QED
      BY <1>2, <3>1, NothingSyncs
  <2> QED
    BY <2>1, <2>2, <2>3
<1>4. ~SyncDeviates /\ answer'.got = answer'.expected
  <2>1. ~SyncDeviates /\ ~MapsTwice
    BY <1>1 DEF ReadDeviates
  <2>2. \A k \in 0 .. n - 1 : o + k \in Bytes /\ Within(o, n, o + k)
    BY <1>2, BufferAssumption DEF Bytes, Within
  <2>3. \A i \in Bytes : Within(o, n, i) => contents.device[i] = promised[i]
    BY <1>1, <1>2, MayReadShows
  <2>4. \A k \in 0 .. n - 1 : SeenBy(contents')[o + k] = promised[o + k]
    BY <1>3, <2>2, <2>3
  <2> QED
    BY <1>1, <2>1, <2>4 DEF Part
<1>5. calls' \in Nat
  BY <1>1, <1>2
<1>6. PICK N \in SUBSET Mappings : N = {}
  OBVIOUS
<1>7. /\ mappings' = mappings \cup N
      /\ \A m \in N : m.offset + m.size <= Size /\ m.data \in Data(m.size)
      /\ \A m \in N : MappingInv(m)'
      /\ \A m1 \in N, m2 \in mappings' :
           m1 # m2 /\ (IsChanged(m1.flags) \/ IsChanged(m2.flags)) =>
             \A i \in Bytes : ~(Covers(m1, i) /\ Covers(m2, i))
  BY <1>1, <1>6
<1> QED
  BY <1>1, <1>3, <1>4, <1>5, <1>7, SyncPreserves

(* A region that may be written is not overlapped.                         *)
LEMMA MayWriteApart ==
  ASSUME BuffersTypeOK, NEW o \in Nat, NEW n \in Nat, MayWrite(o, n)
  PROVE  \A m \in mappings, i \in Bytes : ~(Covers(m, i) /\ Within(o, n, i))
BY CoveredOverlaps DEF MayWrite

(* Calls that store data at once: write, copy and fill.                    *)
LEMMA StoringCall ==
  ASSUME BuffersInv, NEW o \in Nat, NEW n \in Nat, o + n <= Size, NEW d \in Data(n), MayWrite(o, n),
         StoresAs(contents, contents', o, n, d), promised' = Overwritten(promised, o, d),
         this' = this, mappings' = mappings, answer' = answer, calls' = calls + 1
  PROVE  BuffersInv'
<1>1. BuffersTypeOK /\ promised \in Memory /\ calls \in Nat
  BY DEF BuffersInv, BuffersTypeOK
<1>2. /\ promised' \in Memory
      /\ \A i \in Bytes : promised'[i] = IF Within(o, n, i) THEN d[i - o] ELSE promised[i]
  BY <1>1, OverwrittenIs
<1>3. /\ mappings' \subseteq mappings /\ calls' \in Nat
      /\ \A m \in mappings \ mappings' :
           IsChanged(m.flags) => \A i \in Bytes : Covers(m, i) => Within(o, n, i)
  BY <1>1
<1>4. \A m \in mappings', i \in Bytes : ~(Covers(m, i) /\ Within(o, n, i))
  BY <1>1, MayWriteApart
<1> QED
  BY <1>2, <1>3, <1>4, StorePreserves

LEMMA WritePreserves ==
  ASSUME BuffersInv, NEW region \in Regions, Write(region), ~deviated'
  PROVE  BuffersInv'
<1>1. PICK o \in Nat, n \in Nat : o = region.offset /\ n = SizeOf(region)
  BY RegionIs
<1>2. PICK d : d = HostData(n)
  OBVIOUS
<1>3. /\ ~WriteDeviates(o) /\ MayWrite(o, n) /\ o + n <= Size /\ calls' = calls + 1
      /\ contents' = write_buffer(contents, o, d) /\ promised' = Overwritten(promised, o, d)
      /\ this' = this /\ mappings' = mappings /\ answer' = answer
  BY <1>1, <1>2 DEF Write, NextCall, write_check, InBuffer
<1>4. d \in Data(n) /\ contents \in Memories
  BY <1>2, DataAre DEF BuffersInv, BuffersTypeOK
<1>5. StoresAs(contents, contents', o, n, d)
  BY <1>3, <1>4, WriteStores DEF WriteDeviates
<1> QED
  BY <1>3, <1>4, <1>5, StoringCall

LEMMA CopyPreserves ==
  ASSUME BuffersInv, NEW region \in Regions, NEW src_offset \in SourceOffsets, Copy(region, src_offset)
  PROVE  BuffersInv'
<1>1. PICK o \in Nat, n \in Nat : o = region.offset /\ n = SizeOf(region)
  BY RegionIs
<1>2. PICK d : d = Part(CopySource, src_offset, n)
  OBVIOUS
<1>3. /\ MayWrite(o, n) /\ o + n <= Size /\ src_offset + n <= Size /\ calls' = calls + 1
      /\ contents' = copy_buffer(contents, o, src_offset, n) /\ promised' = Overwritten(promised, o, d)
      /\ this' = this /\ mappings' = mappings /\ answer' = answer
  BY <1>1, <1>2 DEF Copy, NextCall, copy_check, InBuffer
<1>4. contents \in Memories /\ calls \in Nat
  BY DEF BuffersInv, BuffersTypeOK
<1>5. src_offset \in Nat /\ CopySource \in Memory
  BY <1>4, DataAre, BufferAssumption DEF SourceOffsets
<1>6. d \in Data(n)
  BY <1>2, <1>3, <1>5, PartIs
<1>7. contents' = [contents EXCEPT !.device = Overwritten(contents.device, o, d)]
  BY <1>2, <1>3 DEF copy_buffer
<1>8. StoresAs(contents, contents', o, n, d)
  BY <1>4, <1>6, <1>7, DeviceStores
<1> QED
  BY <1>3, <1>6, <1>8, StoringCall

LEMMA FillPreserves ==
  ASSUME BuffersInv, NEW region \in Regions, NEW p \in PatternSizes, Fill(region, p), ~deviated'
  PROVE  BuffersInv'
<1>1. PICK o \in Nat, n \in Nat : o = region.offset /\ n = SizeOf(region)
  BY RegionIs
<1>2. PICK d : d = PatternData(n, p)
  OBVIOUS
<1>3. /\ ~FillDeviates(o, n, p) /\ MayWrite(o, n) /\ fill_check(n, p, o) /\ o + n <= Size /\ calls' = calls + 1
      /\ contents' = fill_buffer(contents, o, n, p) /\ promised' = Overwritten(promised, o, d)
      /\ this' = this /\ mappings' = mappings /\ answer' = answer
  BY <1>1, <1>2 DEF Fill, NextCall, fill_check, InBuffer
<1>4. contents \in Memories /\ calls \in Nat /\ p \in Nat \ {0}
  BY BufferAssumption DEF BuffersInv, BuffersTypeOK
<1>5. d \in Data(n)
  BY <1>2, <1>4, DataAre
<1>6. StoresAs(contents, contents', o, n, d)
  BY <1>2, <1>3, <1>4, FillStores
<1> QED
  BY <1>3, <1>5, <1>6, StoringCall

-----------------------------------------------------------------------------
(* What mapping a region does to the copies, unless it deviates            *)
LEMMA MapSyncs ==
  ASSUME contents \in Memories, NEW f \in MapFlags, NEW o \in Nat, NEW n \in Nat, o + n <= Size,
         this.kind = "staged" => o = 0, NEW w, w = map_buffer(contents, f, o, n)
  PROVE  /\ SyncsAs(contents, w) /\ (~IsRead(f) => w = contents)
         /\ \A i \in Bytes : Within(o, n, i) /\ IsRead(f) =>
              /\ SeenBy(w)[i] = contents.device[i]
              /\ this.kind \in {"managed", "staged"} => w.cpu[i] = contents.device[i]
              /\ this.kind = "staged" => w.staging[i] = contents.device[i]
<1>1. CASE this.kind = "managed" /\ IsRead(f)
  <2>1. w = [contents EXCEPT !.cpu = contents.device] /\ SeenBy(w) = w.cpu
    BY <1>1 DEF map_buffer, SeenBy
  <2>2. SyncsAs(contents, w) /\ w.cpu = contents.device
    BY <2>1, ManagedSyncs
  <2> QED
    BY <1>1, <2>1, <2>2
<1>2. CASE this.kind = "staged" /\ IsRead(f)
  <2>1. o = 0
    BY <1>2
  <2>2. PICK staging : staging = Overwritten(contents.staging, o, Part(contents.device, o, n))
    OBVIOUS
  <2>3. w = [contents EXCEPT !.staging = staging, !.cpu = staging] /\ SeenBy(w) = w.cpu
    BY <1>2, <2>1, <2>2 DEF map_buffer, SeenBy
  <2>4. w = [device |-> contents.device, staging |-> staging, cpu |-> staging]
    BY <2>3 DEF Memories
  <2>5. /\ SyncsAs(contents, w)
        /\ \A i \in Bytes : Within(o, n, i) => w.cpu[i] = contents.device[i] /\ w.staging[i] = contents.device[i]
    BY <1>2, <2>2, <2>4, StagedSyncs
  <2> QED
    BY <1>2, <2>3, <2>5
<1>3. CASE ~(this.kind \in {"managed", "staged"} /\ IsRead(f))
  <2>1. w = contents
    BY <1>3 DEF map_buffer
  <2>2. IsRead(f) => SeenBy(w) = w.device /\ this.kind \notin {"managed", "staged"}
    BY <1>3 DEF SeenBy
  <2> QED
    BY <2>1, <2>2, NothingSyncs
<1> QED
  BY <1>1, <1>2, <1>3

LEMMA MapPreserves ==
  ASSUME BuffersInv, NEW region \in Regions, NEW f \in MapFlags, NEW block \in BOOLEAN,
         Map(region, f, block), ~deviated'
  PROVE  BuffersInv'
<1>1. PICK o \in Nat, n \in Nat : o = region.offset /\ n = SizeOf(region) /\ n >= 1
  BY RegionIs
<1>2. PICK shown : shown = Part(SeenBy(contents'), o, n)
  OBVIOUS
<1>3. PICK new : new = [id |-> calls + 1, flags |-> f, block |-> block, offset |-> o, size |-> n,
                        place |-> Place(f), data |-> IF IsRead(f) THEN shown ELSE Undefined(n),
                        written |-> FALSE]
  OBVIOUS
<1>4. /\ block \/ this.kind = "local"
      /\ ~MapDeviates(f, o) /\ (IF IsChanged(f) THEN MayWrite(o, n) ELSE MayRead(o, n))
      /\ o + n <= Size /\ o < Size /\ calls' = calls + 1
      /\ contents' = map_buffer(contents, f, o, n)
      /\ mappings' = mappings \cup {new}
      /\ answer' = IF IsRead(f) THEN [got |-> shown, expected |-> Part(promised, o, n)] ELSE answer
      /\ this' = this /\ promised' = promised
  BY <1>1, <1>2, <1>3 DEF Map, NextCall, map_check, InBuffer
<1>5. /\ BuffersTypeOK /\ contents \in Memories /\ calls \in Nat /\ promised \in Memory
      /\ answer.got = answer.expected
  BY DEF BuffersInv, BuffersTypeOK
<1>6. (IsRead(f) => ~SyncDeviates) /\ (this.kind = "staged" => o = 0)
  BY <1>4 DEF MapDeviates
<1>7. /\ SyncsAs(contents, contents') /\ (~IsRead(f) => contents' = contents)
      /\ \A i \in Bytes : Within(o, n, i) /\ IsRead(f) =>
           /\ SeenBy(contents')[i] = contents.device[i]
           /\ this.kind \in {"managed", "staged"} => contents'.cpu[i] = contents.device[i]
           /\ this.kind = "staged" => contents'.staging[i] = contents.device[i]
  BY <1>4, <1>5, <1>6, MapSyncs
<1>8. \A k \in 0 .. n - 1 : o + k \in Bytes /\ Within(o, n, o + k)
  BY <1>4, BufferAssumption DEF Bytes, Within
<1>9. \A i \in Bytes : Within(o, n, i) => contents.device[i] = promised[i]
  <2>1. MayRead(o, n)
    BY <1>4 DEF MayWrite, MayRead
  <2> QED
    BY <2>1, MayReadShows
<1>10. \A k \in 0 .. n - 1 :
         /\ contents'.device[o + k] = promised[o + k]
         /\ IsRead(f) =>
              /\ SeenBy(contents')[o + k] = promised[o + k]
              /\ this.kind \in {"managed", "staged"} => contents'.cpu[o + k] = promised[o + k]
              /\ this.kind = "staged" => contents'.staging[o + k] = promised[o + k]
  BY <1>7, <1>8, <1>9 DEF SyncsAs
<1>11. IsRead(f) => shown \in Data(n) /\ shown = Part(promised, o, n) /\ \A k \in 0 .. n - 1 : shown[k] = promised[o + k]
  <2>1. ASSUME IsRead(f) PROVE shown = Part(promised, o, n)
    BY <1>2, <1>10, <2>1 DEF Part
  <2>2. Part(promised, o, n) \in Data(n) /\ \A k \in 0 .. n - 1 : Part(promised, o, n)[k] = promised[o + k]
    BY <1>4, <1>5, PartIs
  <2> QED
    BY <2>1, <2>2
<1>12. /\ new.id = calls + 1 /\ new.flags = f /\ new.block = block /\ new.offset = o /\ new.size = n
       /\ new.place = Place(f) /\ new.written = FALSE /\ (IsRead(f) => new.data = shown)
       /\ new.data \in Data(n) /\ new \in Mappings
  <2>1. PICK data : data = IF IsRead(f) THEN shown ELSE Undefined(n)
    OBVIOUS
  <2>2. data \in Data(n) /\ (IsRead(f) => data = shown)
    BY <1>5, <1>11, <2>1, DataAre
  <2>3. new = [id |-> calls + 1, flags |-> f, block |-> block, offset |-> o, size |-> n,
               place |-> Place(f), data |-> data, written |-> FALSE]
    BY <1>3, <2>1
  <2>4. o \in Bytes /\ n \in 1 .. Size /\ calls + 1 \in Nat
    BY <1>1, <1>4, <1>5, BufferAssumption DEF Bytes
  <2>5. Place(f) \in {"own", "cpu", "device"}
    BY DEF Place
  <2>6. data \in UNION {Data(i) : i \in Nat}
    BY <2>2
  <2> QED
    BY <2>2, <2>3, <2>4, <2>5, <2>6 DEF Mappings
<1>13. MappingInv(new)'
  <2>1. ASSUME NEW k \in 0 .. n - 1 PROVE ShowsByte(new, k)'
    <3>1. Stored(new, k)' = promised[o + k]
      BY <1>4, <1>12 DEF Stored
    <3>2. new.place = "cpu" => this.kind \in {"managed", "staged"} /\ IsRead(f)
      BY <1>12 DEF Place
    <3>3. new.place = "own" /\ (IsRead(f) \/ new.written) => new.data[k] = promised[o + k]
      BY <1>11, <1>12
    <3> QED
      BY <1>4, <1>10, <1>12, <3>1, <3>2, <3>3 DEF ShowsByte
  <2>2. Place(f)' = Place(f)
    BY <1>4 DEF Place, Copied
  <2> QED
    BY <1>4, <1>6, <1>12, <2>1, <2>2 DEF MappingInv
<1>14. ASSUME NEW m \in mappings, IsChanged(f) \/ IsChanged(m.flags), NEW i \in Bytes
       PROVE  ~(Covers(m, i) /\ Covers(new, i))
  <2>1. ~Overlap(o, n, m)
    BY <1>4, <1>14 DEF MayWrite, MayRead
  <2>2. Covers(new, i) => Within(o, n, i)
    BY <1>12 DEF Covers
  <2> QED
    BY <1>5, <2>1, <2>2, CoveredOverlaps
<1>15. PICK N \in SUBSET Mappings : N = {new}
  BY <1>12
<1>16. /\ mappings' = mappings \cup N
       /\ \A m \in N : m.offset + m.size <= Size /\ m.data \in Data(m.size)
       /\ \A m \in N : MappingInv(m)'
  BY <1>4, <1>12, <1>13, <1>15
<1>17. \A m1 \in N, m2 \in mappings' :
         m1 # m2 /\ (IsChanged(m1.flags) \/ IsChanged(m2.flags)) =>
           \A i \in Bytes : ~(Covers(m1, i) /\ Covers(m2, i))
  BY <1>4, <1>12, <1>14, <1>15
<1>18. answer'.got = answer'.expected
  BY <1>4, <1>5, <1>11
<1>19. (~SyncDeviates \/ contents' = contents) /\ calls' \in Nat
  BY <1>4, <1>5, <1>6, <1>7
<1> QED
  BY <1>4, <1>7, <1>16, <1>17, <1>18, <1>19, SyncPreserves

-----------------------------------------------------------------------------
LEMMA HostStoredIs ==
  ASSUME BuffersTypeOK, NEW m \in mappings, NEW x \in Data(m.size)
  PROVE  /\ HostStored(m, x) \in Data(m.size)
         /\ HostStored(m, x) = [k \in 0 .. m.size - 1 |-> IF IsRead(m.flags) /\ k > 0 THEN x[k] ELSE <<m.id, k>>]
<1>1. DOMAIN x = 0 .. m.size - 1 /\ \A k \in 0 .. m.size - 1 : x[k] \in Values /\ <<m.id, k>> \in Values
  BY StoredIs DEF Data, Values
<1>2. HostStored(m, x) = [k \in 0 .. m.size - 1 |-> IF IsRead(m.flags) /\ k > 0 THEN x[k] ELSE <<m.id, k>>]
  BY <1>1 DEF HostStored
<1> QED
  BY <1>1, <1>2 DEF Data

(* What the host does to memory it has mapped                              *)
LEMMA HostStoresInto ==
  ASSUME BuffersTypeOK, NEW m \in mappings, NEW mem \in Memory, NEW w,
         w = Overwritten(mem, m.offset, HostStored(m, Part(mem, m.offset, m.size)))
  PROVE  /\ w \in Memory
         /\ \A i \in Bytes : ~Covers(m, i) => w[i] = mem[i]
         /\ \A k \in 0 .. m.size - 1 :
              w[m.offset + k] = IF IsRead(m.flags) /\ k > 0 THEN mem[m.offset + k] ELSE <<m.id, k>>
<1>1. PICK o \in Nat, n \in Nat : o = m.offset /\ n = m.size /\ o + n <= Size
  BY StoredIs
<1>2. PICK x : x = Part(mem, o, n)
  OBVIOUS
<1>3. x \in Data(n) /\ \A k \in 0 .. n - 1 : x[k] = mem[o + k]
  BY <1>1, <1>2, PartIs
<1>4. PICK d : d = HostStored(m, x)
  OBVIOUS
<1>5. d \in Data(n) /\ d = [k \in 0 .. n - 1 |-> IF IsRead(m.flags) /\ k > 0 THEN x[k] ELSE <<m.id, k>>]
  BY <1>1, <1>3, <1>4, HostStoredIs
<1>6. /\ w \in Memory
      /\ \A i \in Bytes : w[i] = IF Within(o, n, i) THEN d[i - o] ELSE mem[i]
  <2>1. w = Overwritten(mem, o, d)
    BY <1>1, <1>2, <1>4
  <2>2. d \in Data(n)
    BY <1>5
  <2>3. /\ Overwritten(mem, o, d) \in Memory
        /\ \A i \in Bytes : Overwritten(mem, o, d)[i] = IF Within(o, n, i) THEN d[i - o] ELSE mem[i]
    BY <2>2, OverwrittenIs
  <2> QED
    BY <2>1, <2>3
<1>7. ASSUME NEW k \in 0 .. n - 1
      PROVE  w[o + k] = IF IsRead(m.flags) /\ k > 0 THEN mem[o + k] ELSE <<m.id, k>>
  <2>1. o + k \in Bytes /\ Within(o, n, o + k) /\ (o + k) - o = k
    BY <1>1, BufferAssumption DEF Bytes, Within
  <2>2. w[o + k] = d[k]
    BY <1>6, <2>1
  <2> QED
    BY <1>3, <1>5, <2>2
<1> QED
  BY <1>1, <1>6, <1>7 DEF Covers

LEMMA HostWritesPreserves ==
  ASSUME BuffersInv, NEW m \in mappings, HostWrites(m)
  PROVE  BuffersInv'
<1>1. /\ BuffersTypeOK /\ \A b \in mappings : MappingInv(b)
      /\ MappingsApart /\ UnmappedAsPromised /\ answer.got = answer.expected
      /\ contents \in Memories /\ contents.device \in Memory /\ contents.cpu \in Memory /\ contents.staging \in Memory
  BY DEF BuffersInv, BuffersTypeOK, Memories
<1>2. PICK mw : mw = [m EXCEPT !.written = TRUE, !.data = HostStored(m, m.data)]
  OBVIOUS
<1>3. PICK device, cpu :
        /\ device = Overwritten(contents.device, m.offset, HostStored(m, Part(contents.device, m.offset, m.size)))
        /\ cpu = Overwritten(contents.cpu, m.offset, HostStored(m, Part(contents.cpu, m.offset, m.size)))
  OBVIOUS
<1>4. /\ IsChanged(m.flags) /\ ~m.written
      /\ mappings' = (mappings \ {m}) \cup {mw}
      /\ contents' = CASE m.place = "device" -> [contents EXCEPT !.device = device]
                     [] m.place = "cpu" -> [contents EXCEPT !.cpu = cpu]
                     [] OTHER -> contents
      /\ this' = this /\ promised' = promised /\ answer' = answer /\ calls' = calls
  BY <1>2, <1>3 DEF HostWrites
<1>5. /\ m \in Mappings /\ m.offset \in Nat /\ m.size \in Nat /\ m.size >= 1 /\ m.offset + m.size <= Size
      /\ m.data \in Data(m.size)
      /\ \A k \in 0 .. m.size - 1 : m.offset + k \in Bytes
  BY <1>1, StoredIs
<1>6. /\ device \in Memory /\ cpu \in Memory
      /\ \A i \in Bytes : ~Covers(m, i) => device[i] = contents.device[i] /\ cpu[i] = contents.cpu[i]
      /\ \A k \in 0 .. m.size - 1 :
           /\ device[m.offset + k] = IF IsRead(m.flags) /\ k > 0 THEN contents.device[m.offset + k] ELSE <<m.id, k>>
           /\ cpu[m.offset + k] = IF IsRead(m.flags) /\ k > 0 THEN contents.cpu[m.offset + k] ELSE <<m.id, k>>
  BY <1>1, <1>3, HostStoresInto
<1>7. /\ contents' \in Memories /\ contents'.staging = contents.staging
      /\ m.place = "device" => contents'.device = device /\ contents'.cpu = contents.cpu
      /\ m.place = "cpu" => contents'.device = contents.device /\ contents'.cpu = cpu
      /\ m.place \notin {"device", "cpu"} => contents' = contents
  BY <1>1, <1>4, <1>6 DEF Memories
<1>8. PICK d : d = HostStored(m, m.data)
  OBVIOUS
<1>9. /\ d \in Data(m.size)
      /\ \A k \in 0 .. m.size - 1 : d[k] = IF IsRead(m.flags) /\ k > 0 THEN m.data[k] ELSE <<m.id, k>>
  BY <1>1, <1>5, <1>8, HostStoredIs
<1>10. /\ mw \in Mappings /\ mw.id = m.id /\ mw.flags = m.flags /\ mw.block = m.block /\ mw.offset = m.offset
       /\ mw.size = m.size /\ mw.place = m.place /\ mw.written = TRUE /\ mw.data = d
  <2>1. d \in UNION {Data(i) : i \in Nat}
    BY <1>5, <1>9
  <2> QED
    BY <1>2, <1>5, <1>8, <2>1 DEF Mappings
<1>11. BuffersTypeOK'
  <2>1. /\ mappings' \subseteq Mappings
        /\ \A b \in mappings' : b.offset + b.size <= Size /\ b.data \in Data(b.size)
    BY <1>1, <1>4, <1>5, <1>9, <1>10 DEF BuffersTypeOK
  <2> QED
    BY <1>1, <1>4, <1>7, <2>1 DEF BuffersTypeOK
<1>12. \A i \in Bytes : ~Covers(m, i) =>
         contents'.device[i] = contents.device[i] /\ contents'.cpu[i] = contents.cpu[i]
  BY <1>6, <1>7
<1>13. \A f : Place(f)' = Place(f)
  BY <1>4 DEF Place, Copied
<1>14. ASSUME NEW b \in mappings \ {m} PROVE MappingInv(b)'
  <2>1. MappingInv(b)
    BY <1>1
  <2>2. ASSUME IsChanged(b.flags), NEW k \in 0 .. b.size - 1 PROVE ShowsByte(b, k)'
    <3>1. b.offset + k \in Bytes /\ Covers(b, b.offset + k)
      BY <1>1, MappingCovers
    <3>2. ~Covers(m, b.offset + k)
      BY <1>1, <1>4, <3>1 DEF MappingsApart
    <3>3. /\ contents'.device[b.offset + k] = contents.device[b.offset + k]
          /\ contents'.cpu[b.offset + k] = contents.cpu[b.offset + k]
          /\ contents'.staging[b.offset + k] = contents.staging[b.offset + k]
      BY <1>7, <1>12, <3>1, <3>2
    <3>4. ShowsByte(b, k)
      BY <2>1, <2>2 DEF MappingInv
    <3> QED
      BY <1>4, <3>3, <3>4 DEF ShowsByte, Stored
  <2> QED
    BY <1>4, <1>13, <2>1, <2>2 DEF MappingInv
<1>15. MappingInv(mw)'
  <2>1. MappingInv(m)
    BY <1>1
  <2>2. ASSUME NEW k \in 0 .. m.size - 1 PROVE ShowsByte(mw, k)'
    <3>1. ShowsByte(m, k) /\ Stored(m, k) = promised[m.offset + k]
      BY <1>4, <2>1 DEF MappingInv, Stored
    <3>2. Stored(mw, k)' = IF IsRead(m.flags) /\ k > 0 THEN promised[m.offset + k] ELSE <<m.id, k>>
      BY <1>4, <1>10 DEF Stored
    <3>3. CASE m.place = "device"
      <4>1. contents.device[m.offset + k] = promised[m.offset + k]
        BY <3>1, <3>3 DEF ShowsByte
      <4>2. contents'.device[m.offset + k] = Stored(mw, k)'
        BY <1>6, <1>7, <3>2, <3>3, <4>1
      <4> QED
        BY <1>10, <3>3, <4>2 DEF ShowsByte
    <3>4. CASE m.place = "cpu"
      <4>1. contents.cpu[m.offset + k] = promised[m.offset + k] /\ contents.device[m.offset + k] = promised[m.offset + k]
        BY <3>1, <3>4 DEF ShowsByte
      <4>2. contents'.cpu[m.offset + k] = Stored(mw, k)' /\ contents'.device[m.offset + k] = promised[m.offset + k]
        BY <1>6, <1>7, <3>2, <3>4, <4>1
      <4> QED
        BY <1>4, <1>10, <3>4, <4>2 DEF ShowsByte
    <3>5. CASE m.place \notin {"device", "cpu"}
      <4>1. contents'.device[m.offset + k] = promised[m.offset + k]
        BY <1>7, <3>1, <3>5 DEF ShowsByte
      <4>2. m.place = "own" => d[k] = Stored(mw, k)'
        BY <1>9, <3>1, <3>2 DEF ShowsByte
      <4> QED
        BY <1>4, <1>10, <3>5, <4>1, <4>2 DEF ShowsByte
    <3> QED
      BY <3>3, <3>4, <3>5
  <2> QED
    BY <1>4, <1>10, <1>13, <2>1, <2>2 DEF MappingInv
<1>16. \A i \in Bytes : Covers(mw, i) <=> Covers(m, i)
  BY <1>10 DEF Covers
<1>17. MappingsApart'
  <2> SUFFICES ASSUME NEW m1 \in mappings', NEW m2 \in mappings', m1 # m2, IsChanged(m1.flags), NEW i \in Bytes
               PROVE  ~(Covers(m1, i) /\ Covers(m2, i))
    BY DEF MappingsApart
  <2>1. CASE m1 = mw
    <3>1. m2 \in mappings \ {m}
      BY <1>4, <2>1
    <3>2. ~(Covers(m, i) /\ Covers(m2, i))
      BY <1>1, <1>4, <3>1 DEF MappingsApart
    <3> QED
      BY <1>16, <2>1, <3>2
  <2>2. CASE m2 = mw /\ m1 # mw
    <3>1. m1 \in mappings \ {m}
      BY <1>4, <2>2
    <3>2. ~(Covers(m1, i) /\ Covers(m, i))
      BY <1>1, <3>1 DEF MappingsApart
    <3> QED
      BY <1>16, <2>2, <3>2
  <2>3. CASE m1 # mw /\ m2 # mw
    <3>1. m1 \in mappings /\ m2 \in mappings
      BY <1>4, <2>3
    <3> QED
      BY <1>1, <3>1 DEF MappingsApart
  <2> QED
    BY <2>1, <2>2, <2>3
<1>18. UnmappedAsPromised'
  <2> SUFFICES ASSUME NEW i \in Bytes, \A b \in mappings' : IsChanged(b.flags) => ~Covers(b, i)
               PROVE  contents'.device[i] = promised'[i]
    BY DEF UnmappedAsPromised
  <2>1. ~Covers(m, i)
    BY <1>4, <1>10, <1>16
  <2>2. \A b \in mappings : IsChanged(b.flags) => ~Covers(b, i)
    BY <1>4, <2>1
  <2> QED
    BY <1>1, <1>4, <1>12, <2>1, <2>2 DEF UnmappedAsPromised
<1>19. \A b \in mappings' : MappingInv(b)'
  BY <1>4, <1>14, <1>15
<1> QED
  BY <1>1, <1>4, <1>11, <1>17, <1>18, <1>19 DEF BuffersInv

-----------------------------------------------------------------------------
LEMMA UnmapPreserves ==
  ASSUME BuffersInv, NEW m \in mappings, NEW discard \in BOOLEAN, Unmap(m, discard), ~deviated'
  PROVE  BuffersInv'
<1>1. /\ BuffersTypeOK /\ MappingInv(m) /\ MappingsApart
      /\ contents \in Memories /\ contents.device \in Memory /\ promised \in Memory /\ calls \in Nat
  BY DEF BuffersInv, BuffersTypeOK, Memories
<1>2. PICK o \in Nat, n \in Nat : o = m.offset /\ n = m.size /\ o + n <= Size
  BY <1>1, StoredIs
<1>3. PICK old : old = Part(promised, o, n)
  OBVIOUS
<1>4. PICK new : new = IF m.written THEN HostStored(m, old) ELSE old
  OBVIOUS
<1>5. /\ ~UnmapDeviates(m, discard)
      /\ IsChanged(m.flags) /\ ~IsRead(m.flags) /\ ~discard => m.written
      /\ mappings' = mappings \ {m}
      /\ contents' = IF discard \/ ~IsChanged(m.flags) THEN contents ELSE unmap_buffer(contents, m)
      /\ promised' = IF ~discard \/ Part(contents'.device, o, n) = new THEN Overwritten(promised, o, new) ELSE promised
      /\ this' = this /\ answer' = answer /\ calls' = calls
  BY <1>2, <1>3, <1>4 DEF Unmap
<1>6. /\ old \in Data(n) /\ old = [k \in 0 .. n - 1 |-> promised[o + k]]
      /\ \A k \in 0 .. n - 1 : o + k \in Bytes
  BY <1>1, <1>2, <1>3, PartIs DEF Part
<1>7. new \in Data(n) /\ new = [k \in 0 .. n - 1 |-> Stored(m, k)]
  <2>1. CASE m.written
    <3>1. /\ new \in Data(n)
          /\ new = [k \in 0 .. n - 1 |-> IF IsRead(m.flags) /\ k > 0 THEN old[k] ELSE <<m.id, k>>]
      <4>1. new = HostStored(m, old)
        BY <1>4, <2>1
      <4>2. old \in Data(m.size) /\ n = m.size
        BY <1>2, <1>6
      <4>3. /\ HostStored(m, old) \in Data(m.size)
            /\ HostStored(m, old)
                 = [k \in 0 .. m.size - 1 |-> IF IsRead(m.flags) /\ k > 0 THEN old[k] ELSE <<m.id, k>>]
        BY <1>1, <4>2, HostStoredIs
      <4> QED
        BY <4>1, <4>2, <4>3
    <3>2. \A k \in 0 .. n - 1 : Stored(m, k) = IF IsRead(m.flags) /\ k > 0 THEN old[k] ELSE <<m.id, k>>
      BY <1>2, <1>6, <2>1 DEF Stored
    <3> QED
      BY <3>1, <3>2
  <2>2. CASE ~m.written
    <3>1. \A k \in 0 .. n - 1 : Stored(m, k) = promised[o + k]
      BY <1>2, <2>2 DEF Stored
    <3> QED
      BY <1>4, <1>6, <2>2, <3>1
  <2> QED
    BY <2>1, <2>2
<1>8. /\ mappings' \subseteq mappings /\ calls' \in Nat
      /\ \A b \in mappings \ mappings' : b = m
  BY <1>1, <1>5
<1>9. ASSUME NEW d \in Data(n)
      PROVE  /\ Overwritten(promised, o, d) \in Memory
             /\ \A i \in Bytes : Overwritten(promised, o, d)[i] = IF Within(o, n, i) THEN d[i - o] ELSE promised[i]
  BY <1>1, OverwrittenIs
<1>10. CASE ~IsChanged(m.flags)
  <2>1. new = old /\ contents' = contents
    BY <1>1, <1>4, <1>5, <1>10 DEF MappingInv
  <2>2. \A i \in Bytes : Within(o, n, i) => old[i - o] = promised[i]
    BY <1>6, ByteOf
  <2>3. promised' \in Memory /\ \A i \in Bytes : promised'[i] = promised[i]
    BY <1>1, <1>5, <1>6, <1>9, <2>1, <2>2
  <2>4. PICK none : none = HostData(0)
    OBVIOUS
  <2>5. none \in Data(0) /\ \A i \in Bytes : ~Within(0, 0, i)
    BY <1>1, <2>4, DataAre, BufferAssumption DEF Within, Bytes
  <2>6. StoresAs(contents, contents', 0, 0, none)
    BY <1>1, <2>1, <2>5 DEF StoresAs
  <2>7. 0 + 0 <= Size /\ 0 \in Nat
    BY BufferAssumption
  <2> QED
    BY <1>5, <1>8, <1>10, <2>3, <2>5, <2>6, <2>7, StorePreserves
<1>11. CASE IsChanged(m.flags)
  <2>1. /\ \A b \in mappings', i \in Bytes : ~(Covers(b, i) /\ Within(o, n, i))
        /\ \A b \in mappings \ mappings' :
             IsChanged(b.flags) => \A i \in Bytes : Covers(b, i) => Within(o, n, i)
    BY <1>1, <1>2, <1>5, <1>11 DEF MappingsApart, Covers
  <2>2. CASE ~discard
    <3>1. StoresAs(contents, contents', o, n, new)
      BY <1>1, <1>2, <1>5, <1>7, <1>11, <2>2, UnmapStores
    <3>2. promised' = Overwritten(promised, o, new)
      BY <1>5, <2>2
    <3>3. new \in Data(n)
      BY <1>7
    <3>4. /\ promised' \in Memory
          /\ \A i \in Bytes : promised'[i] = IF Within(o, n, i) THEN new[i - o] ELSE promised[i]
      BY <1>9, <3>2, <3>3
    <3>5. o + n <= Size /\ this' = this /\ answer' = answer
      BY <1>2, <1>5
    <3> QED
      BY <1>8, <2>1, <3>1, <3>3, <3>4, <3>5, StorePreserves
  <2>3. CASE discard
    <3>1. contents' = contents
      BY <1>5, <2>3
    <3>2. PICK d : d = IF Part(contents.device, o, n) = new THEN new ELSE old
      OBVIOUS
    <3>3. d \in Data(n) /\ \A k \in 0 .. n - 1 : contents.device[o + k] = d[k]
      <4>1. CASE Part(contents.device, o, n) = new
        BY <1>7, <3>2, <4>1 DEF Part
      <4>2. CASE Part(contents.device, o, n) # new
        <5>1. \A k \in 0 .. n - 1 : ShowsByte(m, k)
          BY <1>1, <1>2, <1>11 DEF MappingInv
        <5>2. m.place # "device"
          <6> SUFFICES ASSUME m.place = "device" PROVE FALSE
            OBVIOUS
          <6>1. \A k \in 0 .. n - 1 : contents.device[o + k] = Stored(m, k)
            BY <1>2, <5>1 DEF ShowsByte
          <6> QED
            BY <1>7, <4>2, <6>1 DEF Part
        <5>3. \A k \in 0 .. n - 1 : contents.device[o + k] = promised[o + k]
          BY <1>2, <5>1, <5>2 DEF ShowsByte
        <5> QED
          BY <1>6, <3>2, <4>2, <5>3
      <4> QED
        BY <4>1, <4>2
    <3>4. \A i \in Bytes : Within(o, n, i) => contents.device[i] = d[i - o]
      BY <3>3, ByteOf
    <3>5. StoresAs(contents, contents', o, n, d)
      BY <1>1, <3>1, <3>4 DEF StoresAs
    <3>6. promised' \in Memory /\ \A i \in Bytes : promised'[i] = IF Within(o, n, i) THEN d[i - o] ELSE promised[i]
      <4>1. CASE Part(contents.device, o, n) = new
        BY <1>5, <1>7, <1>9, <3>1, <3>2, <4>1
      <4>2. CASE Part(contents.device, o, n) # new
        <5>1. d = old /\ promised' = promised
          BY <1>5, <2>3, <3>1, <3>2, <4>2
        <5>2. \A i \in Bytes : Within(o, n, i) => old[i - o] = promised[i]
          BY <1>6, ByteOf
        <5> QED
          BY <1>1, <5>1, <5>2
      <4> QED
        BY <4>1, <4>2
    <3> QED
      BY <1>2, <1>5, <1>8, <2>1, <3>3, <3>5, <3>6, StorePreserves
  <2> QED
    BY <2>2, <2>3
<1> QED
  BY <1>10, <1>11

-----------------------------------------------------------------------------
LEMMA BuffersInitially == BuffersInit => BuffersInv
<1> SUFFICES ASSUME BuffersInit PROVE BuffersInv
  OBVIOUS
<1> DEFINE data == [i \in Bytes |-> <<0, i>>]
<1>1. calls = 0 /\ mappings = {} /\ this \in BufferCases /\ answer = [got |-> <<>>, expected |-> <<>>]
      /\ promised = contents.device
  BY DEF BuffersInit
<1>2. PICK other \in {data, Undefined(Size)} : contents = [device |-> data, staging |-> other, cpu |-> other]
  BY DEF BuffersInit
<1>3. data \in Memory
  BY BufferAssumption DEF Memory, Values, Bytes
<1>4. Undefined(Size) \in Memory
  <2>1. Undefined(Size) \in Data(Size)
    BY <1>1, BufferAssumption, DataAre
  <2> QED
    BY <2>1 DEF Data, Memory, Bytes
<1> HIDE DEF data
<1>5. contents \in Memories
  BY <1>2, <1>3, <1>4 DEF Memories
<1>6. promised \in Memory /\ BuffersTypeOK
  BY <1>1, <1>5 DEF BuffersTypeOK, Memories
<1> QED
  BY <1>1, <1>6 DEF BuffersInv, MappingsApart, UnmappedAsPromised

LEMMA BuffersStepPreserves == BuffersInductive /\ [BuffersNext]_bufferVars => BuffersInductive'
<1> SUFFICES ASSUME BuffersInductive, [BuffersNext]_bufferVars, ~deviated' PROVE BuffersInv'
  BY DEF BuffersInductive
<1>1. CASE UNCHANGED bufferVars
  <2>1. BuffersInv
    BY <1>1 DEF BuffersInductive, bufferVars
  <2>2. \A f : Place(f)' = Place(f)
    BY <1>1 DEF Place, Copied, bufferVars
  <2>3. \A m \in mappings : MappingInv(m)'
    BY <1>1, <2>1, <2>2 DEF BuffersInv, MappingInv, ShowsByte, Stored, bufferVars
  <2> QED
    BY <1>1, <2>1, <2>3 DEF BuffersInv, BuffersTypeOK, MappingsApart, UnmappedAsPromised, bufferVars
<1>2. ASSUME NEW region \in Regions,
             \/ Read(region) \/ Write(region)
             \/ \E src_offset \in SourceOffsets : Copy(region, src_offset)
             \/ \E p \in PatternSizes : Fill(region, p)
             \/ \E f \in MapFlags, block \in BOOLEAN : Map(region, f, block)
      PROVE  BuffersInv'
  <2>1. BuffersInv
    BY <1>2 DEF BuffersInductive, Read, Write, Copy, Fill, Map, NextCall
  <2> QED
    BY <1>2, <2>1, ReadPreserves, WritePreserves, CopyPreserves, FillPreserves, MapPreserves
<1>3. ASSUME NEW m \in mappings, HostWrites(m) \/ \E discard \in BOOLEAN : Unmap(m, discard)
      PROVE  BuffersInv'
  <2>1. BuffersInv
    BY <1>3 DEF BuffersInductive, HostWrites, Unmap
  <2> QED
    BY <1>3, <2>1, HostWritesPreserves, UnmapPreserves
<1> QED
  BY <1>1, <1>2, <1>3 DEF BuffersNext

LEMMA BuffersAreAsPromised == BuffersInductive => ContentsAsPromised
<1> SUFFICES ASSUME BuffersInv PROVE ContentsAsPromised
  BY DEF BuffersInductive, ContentsAsPromised
<1> SUFFICES ASSUME NEW i \in Bytes, \A m \in mappings : ~(Overlap(i, 1, m) /\ IsChanged(m.flags))
             PROVE  contents.device[i] = promised[i]
  BY DEF BuffersInv, ContentsAsPromised
<1>1. i \in Nat /\ 1 \in Nat /\ Within(i, 1, i)
  BY BufferAssumption DEF Bytes, Within
<1>2. \A m \in mappings : IsChanged(m.flags) => ~Covers(m, i)
  BY <1>1, CoveredOverlaps DEF BuffersInv
<1> QED
  BY <1>2 DEF BuffersInv, UnmappedAsPromised

(* Until a call is made for which the code is known to do something else:  *)
(* the device has, outside of mappings that change it, what the calls have *)
(* stored, and every read and map shows it - for every kind of memory,     *)
(* size, region, pattern and number of calls.                              *)
THEOREM BuffersHoldWhatWasStored == BuffersSpec => []ContentsAsPromised
<1>1. BuffersInit => BuffersInductive
  BY BuffersInitially DEF BuffersInductive
<1> QED
  BY <1>1, BuffersStepPreserves, BuffersAreAsPromised, PTL DEF BuffersSpec
=============================================================================
