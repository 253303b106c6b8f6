-------------------------- MODULE ResourceRegistry --------------------------
(***************************************************************************)
(* The resource registry of device_context (src/device/device_context.cpp) *)
(* as device_memory uses it: labels of memory objects, looked up by name.  *)
(*                                                                         *)
(* Objects are created, labelled and destroyed by any threads; each call   *)
(* of the registry is one step under resource_registry_lock. An address    *)
(* (this) is used again by later objects; a weak pointer is not fooled by  *)
(* that, it knows the object, so it is modelled by the object's identity.  *)
(***************************************************************************)
EXTENDS Naturals, FiniteSets

CONSTANTS
  Objects,     \* identities of memory objects
  Addresses,   \* where they live
  Labels,      \* labels other than the empty one
  NoObject,
  MaxRenames,  \* bound: calls of set_debug_label
  MaxDisables  \* bound: calls of disable_resource_registry

\* The empty label, and what the reverse map has for an address without one
Unlabelled == ""
NoLabel == "none"

ASSUME RegistryAssumption ==
  /\ NoObject \notin Objects /\ Unlabelled \notin Labels /\ NoLabel \notin Labels
  /\ NoLabel # Unlabelled
  /\ MaxRenames \in Nat /\ MaxDisables \in Nat

Names == Labels \cup {Unlabelled}

VARIABLES
  resource_registry_enabled,
  resource_registry,          \* label -> weak pointer
  resource_registry_reverse,  \* address -> label
  resource_registry_ptr_lut,  \* address -> weak pointer
  debug_label,                \* of each object
  memory,                     \* address -> object that lives there
  stage,                      \* life of each object
  pending,                    \* label an object is about to be given
  renames, disables,          \* bounds
  named,                      \* objects whose current label was entered in the registry
  contested                   \* labels that two objects had at a time

maps == <<resource_registry, resource_registry_reverse, resource_registry_ptr_lut>>
history == <<renames, disables, named, contested>>
registryVars == <<resource_registry_enabled, maps, debug_label, memory, stage, pending, history>>

RegistryInit ==
  /\ resource_registry_enabled \in BOOLEAN
  /\ resource_registry = [l \in Names |-> NoObject]
  /\ resource_registry_reverse = [a \in Addresses |-> NoLabel]
  /\ resource_registry_ptr_lut = [a \in Addresses |-> NoObject]
  /\ debug_label = [o \in Objects |-> Unlabelled]
  /\ memory = [a \in Addresses |-> NoObject]
  /\ stage = [o \in Objects |-> "new"]
  /\ pending = [o \in Objects |-> Unlabelled]
  /\ renames = 0 /\ disables = 0
  /\ named = {} /\ contested = {}

AddressOf(o) == CHOOSE a \in Addresses : memory[a] = o
Goes(o, s) == stage' = [stage EXCEPT ![o] = s]
\* The weak pointer can be locked.
Alive(o) == o # NoObject /\ stage[o] \in {"live", "renaming"}

-----------------------------------------------------------------------------
\* update_resource_registry

Registered(a) == resource_registry_enabled /\ resource_registry_ptr_lut[a] # NoObject
\* Mutation: the entry of the previous label stays.
WithEntryKeepsPrevious(a, prev_label, label) ==
  [resource_registry EXCEPT ![label] = resource_registry_ptr_lut[a]]
WithEntry(a, prev_label, label) ==
  [l \in Names |-> CASE l = label -> resource_registry_ptr_lut[a]
                     [] l # label /\ l = prev_label /\ prev_label # Unlabelled -> NoObject
                     [] OTHER -> resource_registry[l]]
update_resource_registry(a, prev_label, label) ==
  /\ resource_registry_reverse' =
       IF Registered(a) THEN [resource_registry_reverse EXCEPT ![a] = label]
       ELSE resource_registry_reverse
  /\ resource_registry' =
       IF Registered(a) /\ prev_label # label THEN WithEntry(a, prev_label, label)
       ELSE resource_registry
  /\ UNCHANGED resource_registry_ptr_lut

Doubled(o, label) ==
  {l \in {label} : \E p \in Objects \ {o} :
     stage[p] \notin {"new", "gone"} /\ l \in {debug_label[p], pending[p]}}

\* device_memory::device_memory: the constructor, before the object is registered.
Construct(o, a, label) ==
  /\ stage[o] = "new" /\ memory[a] = NoObject
  /\ memory' = [memory EXCEPT ![a] = o]
  /\ debug_label' = [debug_label EXCEPT ![o] = label]
  /\ IF label # Unlabelled THEN update_resource_registry(a, Unlabelled, label) ELSE UNCHANGED maps
  /\ Goes(o, "constructed")
  /\ contested' = contested \cup Doubled(o, label)
  /\ UNCHANGED <<resource_registry_enabled, pending, renames, disables, named>>

\* add_resource: emplace keeps an entry that is already there
AddResource(o) ==
  /\ stage[o] = "constructed"
  /\ LET a == AddressOf(o) IN
       resource_registry_ptr_lut' =
         IF resource_registry_enabled /\ resource_registry_ptr_lut[a] = NoObject
         THEN [resource_registry_ptr_lut EXCEPT ![a] = o] ELSE resource_registry_ptr_lut
  /\ Goes(o, "live")
  /\ UNCHANGED <<resource_registry_enabled, resource_registry, resource_registry_reverse,
                 debug_label, memory, pending, history>>

\* device_memory::set_debug_label: the registry first, then the object
SetLabel(o, label) ==
  LET a == AddressOf(o) IN
  /\ stage[o] = "live" /\ renames < MaxRenames
  /\ update_resource_registry(a, debug_label[o], label)
  /\ pending' = [pending EXCEPT ![o] = label]
  /\ Goes(o, "renaming")
  /\ renames' = renames + 1
  /\ named' = IF debug_label[o] = label THEN named
              ELSE IF Registered(a) THEN named \cup {o} ELSE named \ {o}
  /\ contested' = contested \cup Doubled(o, label)
  /\ UNCHANGED <<resource_registry_enabled, debug_label, memory, disables>>

AssignLabel(o) ==
  /\ stage[o] = "renaming"
  /\ debug_label' = [debug_label EXCEPT ![o] = pending[o]]
  /\ Goes(o, "live")
  /\ UNCHANGED <<resource_registry_enabled, maps, memory, pending, history>>

\* The last shared pointer goes; the destructor follows.
Release(o) ==
  /\ stage[o] = "live"
  /\ Goes(o, "expired")
  /\ UNCHANGED <<resource_registry_enabled, maps, debug_label, memory, pending, history>>

\* remove_from_resource_registry, then the memory is free for other objects
remove_from_resource_registry(a) ==
  IF ~resource_registry_enabled THEN UNCHANGED maps
  ELSE LET label == resource_registry_reverse[a] IN
    /\ resource_registry' =
         IF label \in Labels THEN [resource_registry EXCEPT ![label] = NoObject] ELSE resource_registry
    /\ resource_registry_reverse' = [resource_registry_reverse EXCEPT ![a] = NoLabel]
    /\ resource_registry_ptr_lut' = [resource_registry_ptr_lut EXCEPT ![a] = NoObject]
Destroy(o) ==
  /\ stage[o] = "expired"
  /\ remove_from_resource_registry(AddressOf(o))
  /\ memory' = [memory EXCEPT ![AddressOf(o)] = NoObject]
  /\ Goes(o, "gone")
  /\ UNCHANGED <<resource_registry_enabled, debug_label, pending, history>>

enable_resource_registry ==
  /\ ~resource_registry_enabled
  /\ resource_registry_enabled' = TRUE
  /\ UNCHANGED <<maps, debug_label, memory, stage, pending, history>>

disable_resource_registry ==
  /\ resource_registry_enabled /\ disables < MaxDisables
  /\ resource_registry_enabled' = FALSE
  /\ disables' = disables + 1
  /\ UNCHANGED <<maps, debug_label, memory, stage, pending, renames, named, contested>>

RegistryNext ==
  \/ \E o \in Objects :
       \/ \E a \in Addresses, label \in Names : Construct(o, a, label)
       \/ AddResource(o)
       \/ \E label \in Names : SetLabel(o, label)
       \/ AssignLabel(o) \/ Release(o) \/ Destroy(o)
  \/ enable_resource_registry \/ disable_resource_registry

RegistrySpec == RegistryInit /\ [][RegistryNext]_registryVars

-----------------------------------------------------------------------------
\* Properties

\* get_memory_from_resource_registry
Lookup(label) == IF resource_registry_enabled THEN resource_registry[label] ELSE NoObject

\* What a lookup returns: the object has that label (or is just being given it),
\* or it is being destroyed and its weak pointer is empty. (The entry of the empty
\* label is never removed.)
FoundHasLabel ==
  \A l \in Labels : LET o == Lookup(l) IN
    o # NoObject => IF Alive(o) THEN l \in {debug_label[o], pending[o]} ELSE stage[o] = "expired"

\* An object is found by the label it was given with set_debug_label after it was
\* registered, unless another object had the same label at some time: giving it
\* away, or its end, removes the entry of either. (The label an object was created
\* with does not find it.)
NamedIsFound ==
  \A o \in named : stage[o] = "live" /\ debug_label[o] \notin contested \cup {Unlabelled}
                   /\ resource_registry_enabled => Lookup(debug_label[o]) = o

\* As long as the registry has not been disabled, it tells the truth. (While it is
\* disabled, renamed and destroyed objects keep their entries for good.)
RegistryIsTruthful == disables = 0 => FoundHasLabel /\ NamedIsFound
=============================================================================
