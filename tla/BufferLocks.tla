---------------------------- MODULE BufferLocks ----------------------------
(***************************************************************************)
(* How threads access Host-Compute buffers (src/device/host/               *)
(* host_buffer.cpp): read, write and zero hold the buffer's lock, copy     *)
(* holds the source's and then its own, fill holds none. The lock is a     *)
(* recursive mutex.                                                        *)
(***************************************************************************)
EXTENDS Naturals, FiniteSets

CONSTANTS CopyThreads, Buffers, Nobody

ASSUME BufferLocksAssumption == Nobody \notin CopyThreads

VARIABLES
  holder,  \* holder[b]: thread that holds the lock of b, or Nobody
  step,    \* step[t]: what thread t does next
  access   \* access[t]: [op, src, dst]; src = dst unless it copies; zero is a write

lockVars == <<holder, step, access>>

Accesses ==
  {[op |-> o, src |-> b, dst |-> b] : o \in {"read", "write", "fill"}, b \in Buffers}
  \cup {[op |-> "copy", src |-> s, dst |-> d] : s \in Buffers, d \in Buffers}

NoAccess == CHOOSE a \in Accesses : a.op = "read"

LocksInit ==
  /\ holder = [b \in Buffers |-> Nobody]
  /\ step = [t \in CopyThreads |-> "idle"]
  /\ access = [t \in CopyThreads |-> NoAccess]

Free(b, t) == holder[b] \in {Nobody, t}
StepTo(t, s) == step' = [step EXCEPT ![t] = s]

\* Mutation: read does not lock.
BeginReadUnlocked(t) ==
  /\ step[t] = "idle"
  /\ \E a \in Accesses :
       /\ access' = [access EXCEPT ![t] = a]
       /\ StepTo(t, IF a.op \in {"fill", "read"} THEN "access" ELSE "lock_src")
  /\ UNCHANGED holder

Begin(t) ==
  /\ step[t] = "idle"
  /\ \E a \in Accesses :
       /\ access' = [access EXCEPT ![t] = a]
       /\ StepTo(t, IF a.op = "fill" THEN "access" ELSE "lock_src")
  /\ UNCHANGED holder

\* src._lock(), or GUARD(lock)
LockSource(t) ==
  /\ step[t] = "lock_src" /\ Free(access[t].src, t)
  /\ holder' = [holder EXCEPT ![access[t].src] = t]
  /\ StepTo(t, IF access[t].op = "copy" THEN "lock_dst" ELSE "access")
  /\ UNCHANGED access

\* _lock()
LockDestination(t) ==
  /\ step[t] = "lock_dst" /\ Free(access[t].dst, t)
  /\ holder' = [holder EXCEPT ![access[t].dst] = t]
  /\ StepTo(t, "access")
  /\ UNCHANGED access

\* The memory is accessed; then _unlock(), src._unlock().
End(t) ==
  /\ step[t] = "access"
  /\ holder' = [b \in Buffers |->
       IF access[t].op # "fill" /\ b \in {access[t].src, access[t].dst} THEN Nobody ELSE holder[b]]
  /\ StepTo(t, "idle") /\ access' = [access EXCEPT ![t] = NoAccess]

LocksNext == \E t \in CopyThreads : Begin(t) \/ LockSource(t) \/ LockDestination(t) \/ End(t)

LocksSpec == LocksInit /\ [][LocksNext]_lockVars

-----------------------------------------------------------------------------
\* Properties

\* t needs a lock that u holds.
WaitsFor(t, u) ==
  /\ t # u
  /\ \/ step[t] = "lock_src" /\ holder[access[t].src] = u
     \/ step[t] = "lock_dst" /\ holder[access[t].dst] = u

\* The buffers reachable from b along copies under way, source to destination.
CopyEdges == {<<access[t].src, access[t].dst>> : t \in {u \in CopyThreads : step[u] = "lock_dst"}}
CopyCycle == \E S \in SUBSET Buffers : S # {} /\ \A b \in S : \E c \in S \ {b} : <<b, c>> \in CopyEdges

\* Threads block each other only if the copies they are in form a cycle: copies in
\* one direction, and all other accesses, always go on.
OnlyCopyCycleBlocks ==
  (\E T \in SUBSET CopyThreads : T # {} /\ \A t \in T : \E u \in T : WaitsFor(t, u)) => CopyCycle

\* No thread accesses a buffer that another one writes, but for fill.
Touches(t) == {access[t].src, access[t].dst}
Changes(t) == IF access[t].op = "read" THEN {} ELSE {access[t].dst}
AccessIsExclusive ==
  \A t, u \in CopyThreads :
    t # u /\ step[t] = "access" /\ step[u] = "access" /\ "fill" \notin {access[t].op, access[u].op}
    => Touches(t) \cap Changes(u) = {}

BufferAccessIsSafe == OnlyCopyCycleBlocks /\ AccessIsExclusive
=============================================================================
