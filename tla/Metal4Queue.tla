----------------------------- MODULE Metal4Queue -----------------------------
(***************************************************************************)
(* Command buffers of the Metal 4 backend (src/device/metal/               *)
(* metal4_queue.mm): per-thread pools, submission numbers that finish()    *)
(* waits for, the feedback of the device, and completion in the submitting *)
(* thread or a completion thread.                                          *)
(*                                                                         *)
(* Slot containers act as in SlotPool, the completion handler as in        *)
(* CompletionHandler. A handler of a command buffer may itself submit and  *)
(* wait (a blocking write of a buffer does). There is one queue.           *)
(***************************************************************************)
EXTENDS SmallRingBuffer, FiniteSets

CONSTANTS
  MetalThreads,  \* application threads
  MetalWorkers,  \* completion threads
  MetalSlots,    \* command buffers of a pool
  NoSlot,
  MaxNumbers,    \* bound: submissions
  MaxTimeouts    \* bound: waits that time out (60s for the device, 5s at thread exit)

ASSUME MetalAssumption ==
  MetalThreads \cap MetalWorkers = {} /\ NoSlot \notin MetalSlots
  /\ MetalSlots \subseteq Nat /\ MaxNumbers \in Nat /\ MaxTimeouts \in Nat

Actors == MetalThreads \cup MetalWorkers

VARIABLES
  metal_ctx,           \* "up", "handler_gone", "shutdown" (is_ctx_shutdown)
  destroyed,           \* threads whose pool is destroyed
  unused,              \* cmd_resources: free slots of each pool
  completed,           \* completed[a][s]
  submission_counter,
  pending_submissions, \* elements are [number, complete]
  step,                \* of each actor
  held,                \* the slot it records or submits
  call,                \* parameters of its submission, and its submission_number
  stack,               \* stack[a]: the command buffers it completes; the handlers of one
                       \* may have led to the next
  on_device,           \* committed, without feedback yet
  work_queue,
  last, finished,      \* of finish(): what each waits for; the last waited for (history)
  timed_out,           \* command buffers that were given up by a timeout (history)
  dropped,             \* command buffers nobody will release (history)
  undefined,           \* undefined behaviour was met: "pool" or "handler"
  timeouts

metalPool == <<destroyed, unused>>
metalNumbers == <<submission_counter, pending_submissions>>
metalActors == <<step, held, call, stack>>
metalFinish == <<last, finished>>
metalHistory == <<timed_out, dropped, timeouts>>
metalVars == <<metal_ctx, metalPool, completed, metalNumbers, metalActors, on_device, work_queue,
               metalFinish, metalHistory, undefined>>

NoCall == [blocking |-> TRUE, handler |-> "none", number |-> 0]
MetalInit ==
  /\ metal_ctx = "up" /\ destroyed = {}
  /\ unused = [a \in Actors |-> MetalSlots]
  /\ completed = [a \in Actors |-> [s \in MetalSlots |-> TRUE]]
  /\ submission_counter = 1 /\ pending_submissions = empty_buffer
  /\ step = [a \in Actors |-> "idle"] /\ held = [a \in Actors |-> NoSlot]
  /\ call = [a \in Actors |-> NoCall]
  /\ stack = [a \in Actors |-> <<>>]
  /\ on_device = {} /\ work_queue = <<>>
  /\ last = [t \in MetalThreads |-> 0] /\ finished = 0
  /\ timed_out = {} /\ dropped = {} /\ undefined = "no" /\ timeouts = 0

GoTo(a, label) == step' = [step EXCEPT ![a] = label]
Top(a) == stack[a][Len(stack[a])]
Id(b) == <<b.pool, b.slot>>
\* What an actor does after a submission: its own business, or the rest of the handlers
After(a) == IF stack[a] = <<>> THEN "idle" ELSE "handlers"

-----------------------------------------------------------------------------
\* Making and submitting command buffers, by a thread or by a handler

CallsHandler(a) == step[a] = "handlers" /\ Top(a).handler = "submit"
make_command_buffer(a) ==
  /\ (a \in MetalThreads /\ step[a] = "idle") \/ CallsHandler(a)
  /\ metal_ctx # "shutdown" /\ submission_counter <= MaxNumbers
  /\ \E s \in unused[a] :
       /\ \A other \in unused[a] : s <= other  \* only this thread acquires: the first free one
       /\ unused' = [unused EXCEPT ![a] = @ \ {s}]
       /\ held' = [held EXCEPT ![a] = s]
  /\ GoTo(a, "recording")
  /\ stack' = IF stack[a] = <<>> THEN stack ELSE [stack EXCEPT ![a][Len(stack[a])].handler = "none"]
  /\ UNCHANGED <<metal_ctx, destroyed, completed, metalNumbers, call, on_device, work_queue,
                 metalFinish, metalHistory, undefined>>

\* The context is shut down (or the bound is met): the handler goes on without
handler_gives_up(a) ==
  /\ CallsHandler(a)
  /\ metal_ctx = "shutdown" \/ submission_counter > MaxNumbers
  /\ stack' = [stack EXCEPT ![a][Len(stack[a])].handler = "none"]
  /\ UNCHANGED <<metal_ctx, metalPool, completed, metalNumbers, step, held, call, on_device, work_queue,
                 metalFinish, metalHistory, undefined>>

release_unsubmitted_command_buffer(t) ==
  /\ step[t] = "recording" /\ stack[t] = <<>>
  /\ unused' = [unused EXCEPT ![t] = @ \cup {held[t]}]
  /\ held' = [held EXCEPT ![t] = NoSlot]
  /\ GoTo(t, "idle")
  /\ UNCHANGED <<metal_ctx, destroyed, completed, metalNumbers, call, stack, on_device, work_queue,
                 metalFinish, metalHistory, undefined>>

submit_command_buffer(a, blocking, handler) ==
  /\ step[a] = "recording"
  /\ stack[a] # <<>> => blocking /\ handler = "none"
  /\ completed' = [completed EXCEPT ![a][held[a]] = FALSE]
  /\ call' = [call EXCEPT ![a] = [blocking |-> blocking, handler |-> handler, number |-> 0]]
  /\ GoTo(a, "enqueue")
  /\ UNCHANGED <<metal_ctx, metalPool, metalNumbers, held, stack, on_device, work_queue,
                 metalFinish, metalHistory, undefined>>

\* Under queue_lock, as soon as there is room
enqueue_number(a) ==
  /\ step[a] = "enqueue" /\ metal_ctx # "shutdown"
  /\ writable_elements(pending_submissions) > 0
  /\ call' = [call EXCEPT ![a].number = submission_counter]
  /\ pending_submissions' = enqueue(pending_submissions, [number |-> submission_counter, complete |-> FALSE])
  /\ submission_counter' = submission_counter + 1
  /\ GoTo(a, "commit")
  /\ UNCHANGED <<metal_ctx, metalPool, completed, held, stack, on_device, work_queue,
                 metalFinish, metalHistory, undefined>>
\* At the shutdown the function returns, and the command buffer with it is gone
enqueue_aborts(a) ==
  /\ step[a] = "enqueue" /\ metal_ctx = "shutdown"
  /\ dropped' = dropped \cup {<<a, held[a]>>}
  /\ held' = [held EXCEPT ![a] = NoSlot]
  /\ call' = [call EXCEPT ![a] = NoCall]
  /\ GoTo(a, After(a))
  /\ UNCHANGED <<metal_ctx, metalPool, completed, metalNumbers, stack, on_device, work_queue,
                 metalFinish, timed_out, timeouts, undefined>>

commit_to_queue(a) ==
  LET b == [pool |-> a, slot |-> held[a], number |-> call[a].number, handler |-> call[a].handler]
  IN
  /\ step[a] = "commit"
  /\ on_device' = on_device \cup {[b EXCEPT !.handler = "none"]}
  /\ held' = [held EXCEPT ![a] = NoSlot]
  /\ call' = [call EXCEPT ![a] = NoCall]
  /\ IF call[a].blocking
     THEN /\ stack' = [stack EXCEPT ![a] = Append(@, b)]
          /\ GoTo(a, "wait")
          /\ UNCHANGED <<work_queue, undefined>>
     ELSE /\ GoTo(a, After(a))
          /\ IF metal_ctx = "up" THEN work_queue' = Append(work_queue, b) /\ UNCHANGED undefined
             ELSE undefined' = "handler" /\ UNCHANGED work_queue  \* there is no handler any more
          /\ UNCHANGED stack
  /\ UNCHANGED <<metal_ctx, metalPool, completed, metalNumbers, metalFinish, metalHistory>>

-----------------------------------------------------------------------------
\* The device. Its feedback may come in any order.

feedback(b) ==
  /\ b \in on_device /\ b.pool \notin destroyed
  /\ completed' = [completed EXCEPT ![b.pool][b.slot] = TRUE]
  /\ on_device' = on_device \ {b}
  /\ UNCHANGED <<metal_ctx, metalPool, metalNumbers, metalActors, work_queue,
                 metalFinish, metalHistory, undefined>>

-----------------------------------------------------------------------------
\* Completion: metal4_complete_cmd_buffer

pick_up(w) ==
  /\ metal_ctx = "up" /\ w \in MetalWorkers /\ step[w] = "idle" /\ work_queue # <<>>
  /\ stack' = [stack EXCEPT ![w] = <<Head(work_queue)>>]
  /\ work_queue' = Tail(work_queue)
  /\ GoTo(w, "wait")
  /\ UNCHANGED <<metal_ctx, metalPool, completed, metalNumbers, held, call, on_device, metalFinish,
                 metalHistory, undefined>>

Alive(a) == Top(a).pool \notin destroyed
wait_ends(a) ==
  /\ step[a] = "wait" /\ Alive(a)
  /\ completed[Top(a).pool][Top(a).slot]
  /\ GoTo(a, "handlers")
  /\ UNCHANGED <<metal_ctx, metalPool, completed, metalNumbers, held, call, stack, on_device, work_queue,
                 metalFinish, metalHistory, undefined>>
\* After 60s, or at the shutdown, the command buffer is completed regardless.
wait_times_out(a) ==
  /\ step[a] = "wait" /\ Alive(a)
  /\ ~completed[Top(a).pool][Top(a).slot]
  /\ metal_ctx = "shutdown" \/ timeouts < MaxTimeouts
  /\ timeouts' = IF metal_ctx = "shutdown" THEN timeouts ELSE timeouts + 1
  /\ completed' = [completed EXCEPT ![Top(a).pool][Top(a).slot] = TRUE]
  /\ timed_out' = timed_out \cup {Id(Top(a))}
  /\ GoTo(a, "handlers")
  /\ UNCHANGED <<metal_ctx, metalPool, metalNumbers, held, call, stack, on_device,
                 work_queue, metalFinish, dropped, undefined>>

\* Leading elements that are complete are removed
LeadingComplete(rb) ==
  CHOOSE n \in 0..readable_elements(rb) :
    /\ \A k \in 1..n : contents(rb)[k].complete
    /\ n < readable_elements(rb) => ~contents(rb)[n + 1].complete
dequeue_completed_submissions(rb) == advance_read_index(rb, LeadingComplete(rb))

Flagged(rb, n) ==
  [rb EXCEPT !.data = [i \in DOMAIN @ |->
     IF i \in peek_iterate(rb) /\ @[i].number = n THEN [@[i] EXCEPT !.complete = TRUE] ELSE @[i]]]
\* Mutation: without the second clean-up.
completed_submission_once(rb, n) ==
  LET cleaned == dequeue_completed_submissions(rb) IN
  IF readable_elements(cleaned) > 0 /\ peek(cleaned).number = n THEN dequeue(cleaned) ELSE Flagged(cleaned, n)
\* A number at the front is removed, with the complete ones behind it; another is flagged
completed_submission(rb, n) ==
  LET cleaned == dequeue_completed_submissions(rb) IN
  IF readable_elements(cleaned) > 0 /\ peek(cleaned).number = n
  THEN dequeue_completed_submissions(dequeue(cleaned))
  ELSE Flagged(cleaned, n)

handlers_done(a) ==
  /\ step[a] = "handlers" /\ Top(a).handler = "none" /\ Alive(a)
  /\ pending_submissions' = completed_submission(pending_submissions, Top(a).number)
  /\ GoTo(a, "release")
  /\ UNCHANGED <<metal_ctx, metalPool, completed, submission_counter, held, call, stack, on_device, work_queue,
                 metalFinish, metalHistory, undefined>>
release_resource(a) ==
  /\ step[a] = "release" /\ Alive(a)
  /\ unused' = [unused EXCEPT ![Top(a).pool] = @ \cup {Top(a).slot}]
  /\ stack' = [stack EXCEPT ![a] = SubSeq(@, 1, Len(@) - 1)]
  /\ GoTo(a, IF Len(stack[a]) = 1 THEN "idle" ELSE "handlers")
  /\ UNCHANGED <<metal_ctx, destroyed, completed, metalNumbers, held, call, on_device, work_queue,
                 metalFinish, metalHistory, undefined>>

-----------------------------------------------------------------------------
\* finish(), thread exit, shutdown

finish(t) ==
  /\ step[t] = "idle" /\ readable_elements(pending_submissions) > 0
  /\ last' = [last EXCEPT ![t] = peek_back(pending_submissions).number]
  /\ GoTo(t, "finishing")
  /\ UNCHANGED <<metal_ctx, metalPool, completed, metalNumbers, held, call, stack, on_device, work_queue,
                 finished, metalHistory, undefined>>
finish_returns(t) ==
  /\ step[t] = "finishing"
  /\ \/ metal_ctx = "shutdown" /\ UNCHANGED finished
     \/ /\ readable_elements(pending_submissions) > 0 => peek(pending_submissions).number > last[t]
        /\ finished' = IF finished < last[t] THEN last[t] ELSE finished
  /\ last' = [last EXCEPT ![t] = 0]
  /\ GoTo(t, "idle")
  /\ UNCHANGED <<metal_ctx, metalPool, completed, metalNumbers, held, call, stack, on_device, work_queue,
                 metalHistory, undefined>>

\* The destructor of the pool waits for the device, at most 5s.
thread_exit(t) ==
  /\ step[t] = "idle"
  /\ IF metal_ctx = "shutdown" \/ \A s \in MetalSlots : completed[t][s] THEN UNCHANGED timeouts
     ELSE timeouts < MaxTimeouts /\ timeouts' = timeouts + 1
  /\ destroyed' = IF metal_ctx = "shutdown" THEN destroyed ELSE destroyed \cup {t}
  /\ GoTo(t, "exited")
  /\ UNCHANGED <<metal_ctx, unused, completed, metalNumbers, held, call, stack, on_device, work_queue,
                 metalFinish, timed_out, dropped, undefined>>

\* A completion thread or the feedback goes on with a pool that is destroyed.
use_of_destroyed_pool ==
  /\ \/ \E a \in Actors : step[a] \in {"wait", "release"} /\ ~Alive(a)
     \/ \E a \in Actors : step[a] = "handlers" /\ Top(a).handler = "none" /\ ~Alive(a)
     \/ \E b \in on_device : b.pool \in destroyed
  /\ undefined' = "pool"
  /\ UNCHANGED <<metal_ctx, metalPool, completed, metalNumbers, metalActors, on_device, work_queue,
                 metalFinish, metalHistory>>

\* metal4_queue::destroy: the handler joins its threads, which destroys their pools; then
\* the flag is set
destroy_handler ==
  /\ metal_ctx = "up" /\ \A w \in MetalWorkers : step[w] = "idle"
  /\ metal_ctx' = "handler_gone"
  /\ dropped' = dropped \cup {Id(work_queue[k]) : k \in 1..Len(work_queue)}
  /\ work_queue' = <<>>
  /\ destroyed' = destroyed \cup MetalWorkers
  /\ UNCHANGED <<unused, completed, metalNumbers, metalActors, on_device, metalFinish, timed_out,
                 timeouts, undefined>>
set_ctx_shutdown ==
  /\ metal_ctx = "handler_gone"
  /\ metal_ctx' = "shutdown"
  /\ UNCHANGED <<metalPool, completed, metalNumbers, metalActors, on_device, work_queue, metalFinish,
                 metalHistory, undefined>>

MetalStep(a) ==
  \/ handler_gives_up(a) \/ enqueue_number(a) \/ enqueue_aborts(a) \/ commit_to_queue(a)
  \/ pick_up(a) \/ wait_ends(a) \/ handlers_done(a) \/ release_resource(a)
MetalNext ==
  /\ undefined = "no"
  /\ \/ \E a \in Actors :
          \/ make_command_buffer(a) \/ MetalStep(a) \/ wait_times_out(a)
          \/ \E blocking \in BOOLEAN, handler \in {"none", "submit"} : submit_command_buffer(a, blocking, handler)
     \/ \E t \in MetalThreads :
          release_unsubmitted_command_buffer(t) \/ finish(t) \/ finish_returns(t) \/ thread_exit(t)
     \/ \E b \in on_device : feedback(b)
     \/ use_of_destroyed_pool \/ destroy_handler \/ set_ctx_shutdown

MetalSpec == MetalInit /\ [][MetalNext]_metalVars

\* A handler goes on with what it has begun.
HandlerStep(a) ==
  \/ CallsHandler(a) /\ make_command_buffer(a)
  \/ stack[a] # <<>> /\ submit_command_buffer(a, TRUE, "none")
\* The device executes what was committed; threads that have something to do are
\* scheduled. Nobody is bound to submit, to call finish, to exit, or to shut down.
MetalFairness ==
  /\ \A a \in Actors : WF_metalVars(undefined = "no" /\ (MetalStep(a) \/ HandlerStep(a)))
  /\ \A t \in MetalThreads : WF_metalVars(undefined = "no" /\ finish_returns(t))
  /\ WF_metalVars(undefined = "no" /\ \E b \in on_device : feedback(b))
  /\ WF_metalVars(undefined = "no" /\ use_of_destroyed_pool)

-----------------------------------------------------------------------------
\* Properties

MetalReleasers(p, s) ==
  {a \in Actors : a = p /\ held[a] = s}
  \cup {e \in Actors \X (1..2) : e[2] <= Len(stack[e[1]]) /\ Id(stack[e[1]][e[2]]) = <<p, s>>}
  \cup {k \in 1..Len(work_queue) : Id(work_queue[k]) = <<p, s>>}
  \cup {x \in {"dropped"} : <<p, s>> \in dropped}
Pending == contents(pending_submissions)
Incomplete == {Pending[k].number : k \in {i \in 1..Len(Pending) : ~Pending[i].complete}}
\* Numbers that were handed out and not reported as completed
Outstanding4 ==
  {call[a].number : a \in {x \in Actors : step[x] = "commit"}}
  \cup {work_queue[k].number : k \in 1..Len(work_queue)}
  \cup UNION {{stack[a][k].number : k \in 1..Len(stack[a]) - IF step[a] = "release" THEN 1 ELSE 0} : a \in Actors}

\* A command buffer on the device is not used again (unless a timeout gave it up: a late
\* feedback then also completes its next submission), one that can be acquired is
\* completed, as make_command_buffer asserts, and each other one has one releaser.
\* The ring holds the numbers in the order they were handed out, those not flagged are
\* the outstanding ones (or of command buffers the end of the handler dropped), and none
\* in front is flagged, so that finish() need only look there: when it has returned, no
\* earlier submission is outstanding. (Until undefined behaviour is met.)
MetalQueueIsSafe ==
  undefined = "no" =>
    /\ \A b \in on_device : Id(b) \notin timed_out =>
         b.slot \notin unused[b.pool] /\ held[b.pool] # b.slot
    /\ \A a \in Actors, s \in MetalSlots :
         /\ s \in unused[a] => completed[a][s]
         /\ Cardinality(MetalReleasers(a, s)) = IF s \in unused[a] THEN 0 ELSE 1
    /\ indices_are_sound(pending_submissions)
    /\ \A i, j \in 1..Len(Pending) : i < j => Pending[i].number < Pending[j].number
    /\ Pending # <<>> => ~Pending[1].complete
    /\ Outstanding4 \subseteq Incomplete
    /\ dropped = {} => Incomplete \subseteq Outstanding4
    /\ \A n \in Incomplete : n > finished

\* Room among the pending submissions comes from the first one only: it does not come
\* while those who could complete that one are in a handler that waits for room.
NoRoomEver ==
  /\ writable_elements(pending_submissions) = 0
  /\ \/ \A w \in MetalWorkers : step[w] = "enqueue"
     \/ \E a \in Actors : step[a] = "enqueue" /\ \E k \in 1..Len(stack[a]) : stack[a][k].number = Pending[1].number
\* finish() returns, unless there will be no more room, submissions were dropped with the
\* completion handler, or a pool was destroyed that is in use.
MetalFinishReturns ==
  \A t \in MetalThreads :
    step[t] = "finishing" ~> (step[t] # "finishing" \/ NoRoomEver \/ dropped # {} \/ undefined # "no")

\* ~metal4_command_pool waits for its command buffers "if this is still in use": without
\* a timeout nobody uses a pool after its destruction.
PoolsOutliveTheirUse == undefined # "pool"
=============================================================================
