------------------------------- MODULE Logger -------------------------------
(***************************************************************************)
(* The asynchronous logger (src/core/logger.cpp): any thread appends       *)
(* messages to a store under store_lock; the logger thread, a thread_base  *)
(* (module ThreadBase) without a delay, swaps the store with its output    *)
(* store, writes the entries outside the lock and counts its runs.         *)
(* flush() and synchronous logging wait until the count changes; destroy() *)
(* ends the logger thread and executes run() once more itself.             *)
(*                                                                         *)
(* run_cv is waited on with a timeout of 500ms, so the wait in run() can   *)
(* end at any time and the notifications need no action.  Of run_num only  *)
(* the comparison with an earlier value is used: same_run holds the        *)
(* threads for which it has not changed yet (a wrap of the 32 bit counter  *)
(* between two polls is left out).  Messages are named by their sender.    *)
(***************************************************************************)
EXTENDS ThreadBase, Sequences, FiniteSets

CONSTANTS
  LogThread,   \* the logger_thread object
  Dtor,        \* the thread that calls logger::destroy()
  Callers,     \* threads that log and flush
  MaxMsgs      \* bound: messages per caller

ASSUME LoggerAssumption ==
  /\ Workers = {LogThread} /\ Delayed = {}
  /\ Dtor \notin Callers \cup {LogThread}
  /\ MaxMsgs \in Nat

VARIABLES
  synchronous,   \* logger_state.synchronous
  store,         \* messages waiting for the logger thread
  output_store,  \* messages taken over by the running run()
  out_pos,       \* how many of them are written
  written,       \* what has been output
  rpc,           \* where each thread that executes run() stands in it
  same_run,      \* waiting threads that still see the run_num they noted
  apc,           \* what each caller is doing
  dpc,           \* how far logger::destroy() is
  pushed,        \* all messages in the order of store_lock (history)
  flush_taken    \* messages taken over when the caller began to flush (history)

storeVars == <<store, output_store, out_pos, written>>
logVars == <<synchronous, storeVars, rpc, same_run, apc, dpc, pushed,
             flush_taken>>
loggerVars == <<threadVars, logVars>>

Runners == {LogThread, Dtor}
Message == (Callers \X (1 .. MaxMsgs)) \cup {<<Dtor, 1>>}
AllMsgs == Cardinality(Message)

LogTypeOK ==
  /\ ThreadTypeOK
  /\ synchronous \in BOOLEAN
  /\ store \in Seq(Message) /\ output_store \in Seq(Message)
  /\ written \in Seq(Message) /\ pushed \in Seq(Message)
  /\ out_pos \in 0 .. AllMsgs
  /\ rpc \in [Runners -> {"none", "cv", "swap", "write"}]
  /\ same_run \subseteq Callers
  /\ apc \in [Callers -> {"idle", "wait", "flush"}]
  /\ dpc \in {"up", "logged", "flag", "finish", "last_run", "gone"}
  /\ flush_taken \in [Callers -> 0 .. AllMsgs]

(* After logger::init(): the constructor of logger_thread has called start(). *)
LogInit ==
  /\ thread_status = [w \in Workers |-> "RUNNING"]
  /\ should_finish = [w \in Workers |-> FALSE]
  /\ thread_pause = [w \in Workers |-> FALSE]
  /\ tpc = [w \in Workers |-> "init"]
  /\ call = [w \in Workers |-> "idle"]
  /\ delay_woken = [w \in Workers |-> FALSE]
  /\ terminated = FALSE
  /\ early = [w \in Workers |-> FALSE]
  /\ flag_runs = [w \in Workers |-> 0]
  /\ pause_runs = [w \in Workers |-> 0]
  /\ synchronous \in BOOLEAN
  /\ store = <<>> /\ output_store = <<>> /\ out_pos = 0
  /\ written = <<>> /\ pushed = <<>>
  /\ rpc = [r \in Runners |-> "none"]
  /\ same_run = {}
  /\ apc = [c \in Callers |-> "idle"]
  /\ dpc = "up"
  /\ flush_taken = [c \in Callers |-> 0]

(* log_thread: reset before the object is destroyed. *)
log_thread == dpc \in {"up", "logged"}

CallerGoto(c, label) == apc' = [apc EXCEPT ![c] = label]
RunGoto(r, label) == rpc' = [rpc EXCEPT ![r] = label]
-----------------------------------------------------------------------------
(* Logging and flushing. *)

Push(m) ==
  /\ store' = Append(store, m)
  /\ pushed' = Append(pushed, m)

LoggedBy(c) == {i \in 1 .. Len(pushed) : pushed[i][1] = c}

(* log_internal: push and, when synchronous, note run_num, all under       *)
(* store_lock; then wait until run_num has changed.                        *)
Log(c) ==
  /\ apc[c] = "idle"
  /\ Cardinality(LoggedBy(c)) < MaxMsgs
  /\ Push(<<c, Cardinality(LoggedBy(c)) + 1>>)
  /\ IF synchronous /\ log_thread
     THEN same_run' = same_run \cup {c} /\ CallerGoto(c, "wait")
     ELSE UNCHANGED <<same_run, apc>>
  /\ UNCHANGED <<threadVars, synchronous, output_store, out_pos, written, rpc,
                 dpc, flush_taken>>

(* flush: nothing to do without a logger thread, else note run_num. *)
Flush(c) ==
  /\ apc[c] = "idle"
  /\ log_thread
  /\ same_run' = same_run \cup {c}
  /\ flush_taken' = [flush_taken EXCEPT ![c] = Len(pushed) - Len(store)]
  /\ CallerGoto(c, "flush")
  /\ UNCHANGED <<threadVars, synchronous, storeVars, rpc, dpc, pushed>>

WaitEnds(c) ==
  /\ apc[c] \in {"wait", "flush"}
  /\ c \notin same_run
  /\ CallerGoto(c, "idle")
  /\ flush_taken' = [flush_taken EXCEPT ![c] = 0]
  /\ UNCHANGED <<threadVars, synchronous, storeVars, rpc, same_run, dpc, pushed>>
-----------------------------------------------------------------------------
(* run(), executed by the logger thread and once by the destroying thread. *)

EnterRun ==
  /\ RunBegin(LogThread)
  /\ RunGoto(LogThread, "cv")
  /\ UNCHANGED <<synchronous, storeVars, same_run, apc, dpc, pushed,
                 flush_taken>>

\* Variant: wait() in place of wait_for(), and no notification arrives.
WaitOver_never(r) == rpc[r] = "cv" /\ UNCHANGED loggerVars

WaitOver(r) ==
  /\ rpc[r] = "cv"
  /\ RunGoto(r, "swap")
  /\ UNCHANGED <<threadVars, synchronous, storeVars, same_run, apc, dpc, pushed,
                 flush_taken>>

(* Swap store and output_store under store_lock. *)
Swap(r) ==
  /\ rpc[r] = "swap"
  /\ store' = output_store /\ output_store' = store
  /\ RunGoto(r, "write")
  /\ UNCHANGED <<threadVars, synchronous, out_pos, written, same_run, apc, dpc,
                 pushed, flush_taken>>

\* Variant: run_num counts written entries.
WriteEntry_count(r) ==
  /\ rpc[r] = "write" /\ out_pos < Len(output_store)
  /\ out_pos' = out_pos + 1
  /\ written' = Append(written, output_store[out_pos'])
  /\ same_run' = {}
  /\ UNCHANGED <<threadVars, synchronous, store, output_store, rpc, apc, dpc,
                 pushed, flush_taken>>

WriteEntry(r) ==
  /\ rpc[r] = "write" /\ out_pos < Len(output_store)
  /\ out_pos' = out_pos + 1
  /\ written' = Append(written, output_store[out_pos'])
  /\ UNCHANGED <<threadVars, synchronous, store, output_store, rpc, same_run,
                 apc, dpc, pushed, flush_taken>>

(* run() returns to _thread_run, or to the destructor of logger_thread. *)
ReturnFromRun(r) ==
  /\ RunGoto(r, "none")
  /\ IF r = LogThread
     THEN RunReturn(LogThread) /\ UNCHANGED dpc
     ELSE dpc' = "gone" /\ UNCHANGED threadVars

\* Variant: the output store is not cleared.
FinishRun_keep(r) ==
  /\ rpc[r] = "write" /\ out_pos = Len(output_store)
  /\ out_pos' = 0
  /\ same_run' = {}
  /\ ReturnFromRun(r)
  /\ UNCHANGED <<synchronous, store, output_store, written, apc, pushed,
                 flush_taken>>

\* Variant: a run that has nothing to write is not counted.
FinishRun_uncounted(r) ==
  /\ rpc[r] = "write" /\ out_pos = Len(output_store)
  /\ output_store' = <<>> /\ out_pos' = 0
  /\ same_run' = IF output_store = <<>> THEN same_run ELSE {}
  /\ ReturnFromRun(r)
  /\ UNCHANGED <<synchronous, store, written, apc, pushed, flush_taken>>

(* Everything is written: clear the output store, ++run_num. *)
FinishRun(r) ==
  /\ rpc[r] = "write" /\ out_pos = Len(output_store)
  /\ output_store' = <<>> /\ out_pos' = 0
  /\ same_run' = {}
  /\ ReturnFromRun(r)
  /\ UNCHANGED <<synchronous, store, written, apc, pushed, flush_taken>>

(* _thread_run around run(). *)
Outside ==
  /\ \/ LeaveInit(LogThread) \/ LoopCheck(LogThread) \/ PauseCheck(LogThread)
     \/ AfterRun(LogThread) \/ Leave(LogThread)
  /\ UNCHANGED logVars
-----------------------------------------------------------------------------
(* logger::destroy(), the one call that gets past "initialized" and        *)
(* "destroying"; other calls return at once.  A thread that is waiting for *)
(* run_num would dereference the reset log_thread: destroy() is only       *)
(* called when none is.                                                    *)

DestroyLog ==     \* log_msg("killing logger ...")
  /\ dpc = "up"
  /\ Push(<<Dtor, 1>>)
  /\ dpc' = "logged"
  /\ UNCHANGED <<threadVars, synchronous, output_store, out_pos, written, rpc,
                 same_run, apc, flush_taken>>

DestroyReset ==   \* log_thread = nullptr
  /\ dpc = "logged"
  /\ \A c \in Callers : apc[c] = "idle"
  /\ dpc' = "flag"
  /\ UNCHANGED <<threadVars, synchronous, storeVars, rpc, same_run, apc, pushed,
                 flush_taken>>

DtorFlag ==       \* set_thread_should_finish()
  /\ dpc = "flag"
  /\ \/ ~should_finish[LogThread] /\ SetShouldFinish(LogThread) /\ UNCHANGED dpc
     \/ SetShouldFinishNotify(LogThread) /\ dpc' = "finish"
  /\ UNCHANGED <<synchronous, storeVars, rpc, same_run, apc, pushed,
                 flush_taken>>

DtorFinish ==     \* finish()
  /\ dpc = "finish"
  /\ FinishEnter(LogThread) \/ FinishStep(LogThread)
  /\ UNCHANGED logVars

\* Variant: the destructor does not execute run() once more.
DtorLastRun_skip ==
  /\ dpc = "finish" /\ call[LogThread] = "gone"
  /\ dpc' = "gone"
  /\ UNCHANGED <<threadVars, synchronous, storeVars, rpc, same_run, apc, pushed,
                 flush_taken>>

DtorLastRun ==    \* run()
  /\ dpc = "finish" /\ call[LogThread] = "gone"
  /\ dpc' = "last_run"
  /\ RunGoto(Dtor, "cv")
  /\ UNCHANGED <<threadVars, synchronous, storeVars, same_run, apc, pushed,
                 flush_taken>>
-----------------------------------------------------------------------------
LogRunStep(r) == WaitOver(r) \/ Swap(r) \/ WriteEntry(r) \/ FinishRun(r)
LogThreadStep == Outside \/ EnterRun \/ LogRunStep(LogThread)
DestroyStep == DestroyReset \/ DtorFlag \/ DtorFinish \/ DtorLastRun \/ LogRunStep(Dtor)

LogNext ==
  \/ \E c \in Callers : Log(c) \/ Flush(c) \/ WaitEnds(c)
  \/ LogThreadStep
  \/ DestroyLog \/ DestroyStep

LogSpec == LogInit /\ [][LogNext]_loggerVars
-----------------------------------------------------------------------------
(* Every message is output exactly once and in the order of logging: what  *)
(* is written, taken over and stored is, in this order, what was logged -  *)
(* whatever is logged between the swap and the end of a run. Once          *)
(* destroy() is done the last message it logged itself is written, and so  *)
(* are all messages logged before it.                                      *)
NothingLost ==
  /\ pushed = written \o SubSeq(output_store, out_pos + 1, Len(output_store)) \o store
  /\ dpc = "gone" => \E i \in 1 .. Len(written) : written[i] = <<Dtor, 1>>

(* When flush() returns, the messages that a run had already taken over    *)
(* when it was called have been written: run_num is counted at the end of  *)
(* run(), after the last entry.                                            *)
FlushWritesTaken ==
  [][\A c \in Callers :
       apc[c] = "flush" /\ apc'[c] = "idle" => Len(written) >= flush_taken[c]]_loggerVars

(* A message logged while the logger is up is eventually written, also     *)
(* when the logger is destroyed meanwhile; and flush() and synchronous     *)
(* logging return, also when nothing is logged any more: runs without      *)
(* anything to write are counted.  Callers differ in their names only: it  *)
(* is enough to follow one.                                                *)
LoggedIsWritten ==
  LET c == CHOOSE c \in Callers : TRUE
      m == <<c, 1>>
  IN  /\ (dpc = "up" /\ \E i \in 1 .. Len(pushed) : pushed[i] = m)
           ~> (\E i \in 1 .. Len(written) : written[i] = m)
      /\ (apc[c] # "idle") ~> (apc[c] = "idle")
=============================================================================
