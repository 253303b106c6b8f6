----------------------------- MODULE EventSystem -----------------------------
(***************************************************************************)
(* The event system (src/core/event.cpp): the main thread handles queued   *)
(* events and polled SDL events (handle_events), calling inline and        *)
(* internal handlers directly and passing each event on to the user queue; *)
(* the event thread swaps the user queue with a processing queue (run) and *)
(* calls the user's handlers.  Any thread adds events and adds or removes  *)
(* handlers, and a user's handler may add events itself, as                *)
(* floor::set_fullscreen and floor::set_fov do.                            *)
(*                                                                         *)
(* Locks: queued_events_lock is held while the queued events are handled,  *)
(* handler_lock while handlers are called; user_queue_lock and the other   *)
(* uses of the two locks protect a single step each.  All events have one  *)
(* type, so every handler is called for every event.                       *)
(***************************************************************************)
EXTENDS Naturals, Sequences, FiniteSets

CONSTANTS
  Clients,    \* threads that add events and handlers
  Handlers,   \* the user's event handlers
  MaxEvents,  \* bound: events per source
  NoHandler   \* no handler is being called

Sdl == "sdl"
HandlerAdds == "handler"
Sources == Clients \cup {Sdl, HandlerAdds}

ASSUME EventAssumption ==
  NoHandler \notin Handlers /\ MaxEvents \in Nat /\ {Sdl, HandlerAdds} \cap Clients = {}

VARIABLES
  queued_events,   \* added by add_event, not yet cleared by handle_events
  queued_lock,     \* queued_events_lock is held by handle_events
  queued_pos,      \* how many of the queued events are handled
  user_queue,      \* user_event_queue
  processing,      \* user_event_queue_processing
  handler_lock,    \* held by the event thread
  registered,      \* the user's handlers in "handlers"
  mpc,             \* where the main thread stands in handle_events
  epc,             \* where the event thread stands in run
  todo,            \* handlers still to be called for the current event
  calling,         \* the handler being called
  sources,         \* number of events made by each source
  added,           \* events in the order of add_event (history)
  handled,         \* events in the order of handle_event (history)
  dispatched       \* events passed to the user's handlers (history)

mainVars == <<queued_pos, queued_lock, mpc>>
eventThreadVars == <<processing, handler_lock, epc, todo, calling, dispatched>>
eventVars == <<queued_events, mainVars, user_queue, eventThreadVars, registered,
          sources, added, handled>>

Event == Sources \X (1 .. MaxEvents)
SeqElems(s) == {s[i] : i \in 1 .. Len(s)}

(* Types, and which of the two threads holds a lock across its steps. *)
EventTypeOK ==
  /\ queued_events \in Seq(Event) /\ user_queue \in Seq(Event)
  /\ processing \in Seq(Event)
  /\ registered \subseteq Handlers /\ todo \subseteq Handlers
  /\ mpc \in {"idle", "queued", "clear", "poll"}
  /\ epc \in {"run", "pop", "lock", "call", "add"}
  /\ queued_pos \in 0 .. Len(queued_events)
  /\ queued_lock = (mpc \in {"queued", "clear"})
  /\ handler_lock = (epc \in {"call", "add"})
  /\ calling \in Handlers \cup {NoHandler}
  /\ sources \in [Sources -> 0 .. MaxEvents]
  /\ added \in Seq(Event) /\ handled \in Seq(Event) /\ dispatched \in Seq(Event)

EventInit ==
  /\ queued_events = <<>> /\ user_queue = <<>> /\ processing = <<>>
  /\ queued_pos = 0
  /\ queued_lock = FALSE /\ handler_lock = FALSE
  /\ registered = {} /\ todo = {}
  /\ mpc = "idle" /\ epc = "run"
  /\ calling = NoHandler
  /\ sources = [s \in Sources |-> 0]
  /\ added = <<>> /\ handled = <<>> /\ dispatched = <<>>
-----------------------------------------------------------------------------
(* A source makes its next event. *)
NewEvent(s, e) ==
  /\ sources[s] < MaxEvents
  /\ e = <<s, sources[s] + 1>>
  /\ sources' = [sources EXCEPT ![s] = @ + 1]

\* Variant: queued_events_lock is not taken.
Enqueue_unlocked(s) ==
  \E e \in Event :
    /\ NewEvent(s, e)
    /\ queued_events' = Append(queued_events, e)
    /\ added' = Append(added, e)

(* add_event: waits for queued_events_lock. *)
Enqueue(s) ==
  /\ ~queued_lock
  /\ \E e \in Event :
       /\ NewEvent(s, e)
       /\ queued_events' = Append(queued_events, e)
       /\ added' = Append(added, e)

AddEvent(s) ==
  /\ Enqueue(s)
  /\ UNCHANGED <<mainVars, user_queue, eventThreadVars, registered, handled>>

AddHandler(h) ==
  /\ ~handler_lock
  /\ registered' = registered \cup {h}
  /\ UNCHANGED <<queued_events, mainVars, user_queue, eventThreadVars, sources,
                 added, handled>>

\* Variant: remove_event_handler does not take handler_lock.
RemoveHandler_unlocked(h) ==
  /\ registered' = registered \ {h}
  /\ UNCHANGED <<queued_events, mainVars, user_queue, eventThreadVars, sources,
                 added, handled>>

RemoveHandler(h) ==
  /\ ~handler_lock
  /\ registered' = registered \ {h}
  /\ UNCHANGED <<queued_events, mainVars, user_queue, eventThreadVars, sources,
                 added, handled>>
-----------------------------------------------------------------------------
(* The main thread: handle_events. *)

(* handle_event: with handler_lock, call the inline and internal handlers  *)
(* and push the event to the user queue.                                   *)
HandleEvent(e) ==
  /\ ~handler_lock
  /\ user_queue' = Append(user_queue, e)
  /\ handled' = Append(handled, e)

LockQueued ==
  /\ mpc = "idle"
  /\ mpc' = "queued" /\ queued_lock' = TRUE
  /\ UNCHANGED <<queued_events, queued_pos, user_queue, eventThreadVars,
                 registered, sources, added, handled>>

HandleQueued ==
  /\ mpc = "queued" /\ queued_pos < Len(queued_events)
  /\ queued_pos' = queued_pos + 1
  /\ HandleEvent(queued_events[queued_pos'])
  /\ UNCHANGED <<queued_events, queued_lock, mpc, eventThreadVars, registered,
                 sources, added>>

QueuedEnds ==
  /\ mpc = "queued" /\ queued_pos = Len(queued_events)
  /\ mpc' = "clear"
  /\ UNCHANGED <<queued_events, queued_pos, queued_lock, user_queue,
                 eventThreadVars, registered, sources, added, handled>>

\* Variant: queued_events_lock stays locked.
ClearQueued_locked ==
  /\ mpc = "clear"
  /\ queued_events' = <<>> /\ queued_pos' = 0
  /\ mpc' = "poll"
  /\ UNCHANGED <<queued_lock, user_queue, eventThreadVars, registered, sources,
                 added, handled>>

ClearQueued ==
  /\ mpc = "clear"
  /\ queued_events' = <<>> /\ queued_pos' = 0
  /\ queued_lock' = FALSE /\ mpc' = "poll"
  /\ UNCHANGED <<user_queue, eventThreadVars, registered, sources, added, handled>>

(* One event from SDL_PollEvent. *)
HandleSdl ==
  /\ mpc = "poll"
  /\ \E e \in Event : NewEvent(Sdl, e) /\ HandleEvent(e)
  /\ UNCHANGED <<queued_events, mainVars, eventThreadVars, registered, added>>

PollEmpty ==
  /\ mpc = "poll" /\ mpc' = "idle"
  /\ UNCHANGED <<queued_events, queued_pos, queued_lock, user_queue,
                 eventThreadVars, registered, sources, added, handled>>
-----------------------------------------------------------------------------
(* The event thread: run and handle_user_events. *)

\* Variant: the user queue is copied.
SwapQueues_copy ==
  /\ epc = "run" /\ epc' = "pop"
  /\ processing' = user_queue
  /\ UNCHANGED <<queued_events, mainVars, user_queue, handler_lock, todo, calling,
                 dispatched, registered, sources, added, handled>>

SwapQueues ==
  /\ epc = "run" /\ epc' = "pop"
  /\ processing' = user_queue /\ user_queue' = processing
  /\ UNCHANGED <<queued_events, mainVars, handler_lock, todo, calling, dispatched,
                 registered, sources, added, handled>>

RunEnds ==
  /\ epc = "pop" /\ processing = <<>>
  /\ epc' = "run"
  /\ UNCHANGED <<queued_events, mainVars, user_queue, processing, handler_lock,
                 todo, calling, dispatched, registered, sources, added, handled>>

Pop ==
  /\ epc = "pop" /\ processing # <<>>
  /\ epc' = "lock"
  /\ processing' = Tail(processing)
  /\ dispatched' = Append(dispatched, Head(processing))
  /\ UNCHANGED <<queued_events, mainVars, user_queue, handler_lock, todo, calling,
                 registered, sources, added, handled>>

LockHandlers ==
  /\ epc = "lock" /\ epc' = "call"
  /\ ~handler_lock /\ handler_lock' = TRUE
  /\ todo' = registered
  /\ UNCHANGED <<queued_events, mainVars, user_queue, processing, calling,
                 dispatched, registered, sources, added, handled>>

CallHandler ==
  /\ epc = "call" /\ calling = NoHandler
  /\ \E h \in todo : calling' = h /\ todo' = todo \ {h}
  /\ UNCHANGED <<queued_events, mainVars, user_queue, processing, handler_lock,
                 epc, dispatched, registered, sources, added, handled>>

(* A user's handler calls add_event and goes on when that has returned. *)
HandlerCallsAdd ==
  /\ epc = "call" /\ calling # NoHandler
  /\ sources[HandlerAdds] < MaxEvents
  /\ epc' = "add"
  /\ UNCHANGED <<queued_events, mainVars, user_queue, processing, handler_lock,
                 todo, calling, dispatched, registered, sources, added, handled>>

HandlerAdded ==
  /\ epc = "add" /\ epc' = "call"
  /\ Enqueue(HandlerAdds)
  /\ UNCHANGED <<mainVars, user_queue, processing, handler_lock, todo, calling,
                 dispatched, registered, handled>>

(* It returns; TRUE: the event is handled, no further handler is called. *)
HandlerReturns(is_handled) ==
  /\ epc = "call" /\ calling # NoHandler
  /\ calling' = NoHandler
  /\ todo' = IF is_handled THEN {} ELSE todo
  /\ UNCHANGED <<queued_events, mainVars, user_queue, processing, handler_lock,
                 epc, dispatched, registered, sources, added, handled>>

\* Variant: handler_lock stays locked after the last handler.
UnlockHandlers_missing ==
  /\ epc = "call" /\ calling = NoHandler /\ todo = {}
  /\ epc' = "pop"
  /\ UNCHANGED <<queued_events, mainVars, user_queue, processing, handler_lock,
                 todo, calling, dispatched, registered, sources, added, handled>>

UnlockHandlers ==
  /\ epc = "call" /\ calling = NoHandler /\ todo = {}
  /\ epc' = "pop" /\ handler_lock' = FALSE
  /\ UNCHANGED <<queued_events, mainVars, user_queue, processing, todo, calling,
                 dispatched, registered, sources, added, handled>>
-----------------------------------------------------------------------------
HandleEventsStep == LockQueued \/ HandleQueued \/ QueuedEnds \/ ClearQueued \/ PollEmpty

EventRunStep ==
  \/ SwapQueues \/ RunEnds \/ Pop \/ LockHandlers \/ CallHandler
  \/ HandlerAdded \/ UnlockHandlers

Returns == \E is_handled \in BOOLEAN : HandlerReturns(is_handled)

EventNext ==
  \/ \E s \in Clients : AddEvent(s)
  \/ \E h \in Handlers : AddHandler(h) \/ RemoveHandler(h)
  \/ HandleEventsStep \/ HandleSdl
  \/ EventRunStep \/ HandlerCallsAdd \/ Returns

EventSpec == EventInit /\ [][EventNext]_eventVars
-----------------------------------------------------------------------------
(* The handled events that were added with add_event, not polled from SDL, *)
(* by their places among the handled events, and their order.              *)
FromQueue == {i \in 1 .. Len(handled) : handled[i][1] # Sdl}
Rank(i) == Cardinality({j \in FromQueue : j <= i})

(* Added events are handled exactly once and in the order of add_event,    *)
(* also those added while the main thread handles earlier ones: the n-th   *)
(* of them that is handled is the n-th that was added, and what is not     *)
(* handled yet is queued.  And every handled event reaches the event       *)
(* thread once and in that order, through the two swapped queues.          *)
EventsInOrder ==
  /\ \A i \in FromQueue : handled[i] = added[Rank(i)]
  /\ Cardinality(FromQueue) + (Len(queued_events) - queued_pos) = Len(added)
  /\ \A i \in queued_pos + 1 .. Len(queued_events) :
       added[Cardinality(FromQueue) + (i - queued_pos)] = queued_events[i]
  /\ handled = dispatched \o processing \o user_queue

(* Once remove_event_handler has returned, the handler is not called any   *)
(* more (its owner may destroy it).                                        *)
RemovedIsNotCalled == calling # NoHandler => calling \in registered

(* The main thread waits for handler_lock in handle_event with             *)
(* queued_events_lock held, the event thread inside a handler for          *)
(* queued_events_lock with handler_lock held.                              *)
LockCycle ==
  /\ mpc = "queued" /\ queued_pos < Len(queued_events)
  /\ epc = "add"

(* That cycle is the only thing that keeps an added event from being       *)
(* handled and passed to the user's handlers.  Clients differ in their     *)
(* names only: it is enough to follow one of them, and the handlers.       *)
OnlyLockCycleBlocks ==
  \A e \in {CHOOSE c \in Clients : TRUE, HandlerAdds} \X (1 .. MaxEvents) :
    (e \in SeqElems(added)) ~> (e \in SeqElems(dispatched) \/ LockCycle)

(* The comment in add_event: "queue event, this will later be handled by   *)
(* handle_events()".                                                       *)
AddedIsHandled ==
  \A e \in Event : (e \in SeqElems(added)) ~> (e \in SeqElems(handled))
=============================================================================
