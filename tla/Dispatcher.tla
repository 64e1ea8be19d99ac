------------------------------ MODULE Dispatcher ------------------------------
(***************************************************************************)
(* pkg/dispatcher/dispatcher.go: the single channel every scheduling event  *)
(* goes through.  Goroutines that call Dispatch, the async senders that     *)
(* take over when the channel is full, the event loop with the handlers it  *)
(* calls, and the goroutine that calls Start and Stop interleave here at    *)
(* the granularity of their channel, atomic and lock operations.            *)
(*                                                                         *)
(* A handler runs on the loop's goroutine and calls Dispatch itself, so a   *)
(* caller is a sender or a loop.  A panic in asyncDispatch ends the process *)
(* and with it the behaviour.                                               *)
(***************************************************************************)
EXTENDS Integers, Sequences, FiniteSets

CONSTANTS
  Event,        \* event objects; each is dispatched at most once
  EventType,    \* app, task, node
  TypeOf,       \* TypeOf[e]: the type switch of the event loop
  HandlerID,    \* handler ids
  Sender,       \* goroutines other than the event loop that call Dispatch
  Capacity,     \* EventChannelCapacity
  AsyncLimit,   \* asyncDispatchLimit
  MaxTicks,     \* dispatchTimeout / asyncDispatchCheckInterval, rounded up
  MaxStarts,    \* bound on the calls of Start
  None

Loop   == 1 .. MaxStarts        \* the k-th successful Start spawns loop k
Caller == Sender \cup Loop

ASSUME DispatcherAssumption ==
  /\ TypeOf \in [Event -> EventType]
  /\ Capacity \in Nat /\ AsyncLimit \in Nat /\ MaxTicks \in Nat \ {0} /\ MaxStarts \in Nat
  /\ None \notin Event
  /\ Sender \cap Loop = {}

VARIABLES
  running,             \* atomic.Bool
  stopChan,            \* the current stop channel: number of Starts that made one
  closed,              \* the stop channels that are closed
  eventChan,           \* buffered channel
  asyncDispatchCount,  \* atomic.Int32
  handlers,            \* registered handler ids by event type
  control,             \* where Start and Stop are: "spawned" and "waiting" are inside a call,
                       \* "stopped" is after a Stop that saw the loop end, "idle" otherwise
  loop,                \* per loop: "unborn", "select", "handling", "leaving", "exited"
  current, todo,       \* per loop: event in hand, handlers it still has to call
  call, full,          \* per caller: event being dispatched; callers that took the default case
  async, stop, ticks,  \* per event: its async sender's position, stop channel and timer count
  panicked,            \* asyncDispatch panicked
  outcome,             \* history: what became of the event
  sent, handled, direct \* history: dispatch order per caller, handling order, events not sent async

handleVars  == <<loop, current, todo, handlers>>
asyncVars   == <<asyncDispatchCount, async, stop, ticks>>
controlVars == <<running, stopChan, closed, control>>
history     == <<outcome, sent, handled, direct>>
vars == <<handleVars, asyncVars, controlVars, history, eventChan, call, full, panicked>>

Room == Len(eventChan) < Capacity
-----------------------------------------------------------------------------
Init ==
  /\ running = FALSE /\ stopChan = 0 /\ closed = {} /\ control = "idle"
  /\ eventChan = <<>>
  /\ asyncDispatchCount = 0
  /\ handlers = [t \in EventType |-> {}]
  /\ loop = [k \in Loop |-> "unborn"]
  /\ current = [k \in Loop |-> None] /\ todo = [k \in Loop |-> {}]
  /\ call = [c \in Caller |-> None] /\ full = {}
  /\ async = [e \in Event |-> "none"]
  /\ stop = [e \in Event |-> 0] /\ ticks = [e \in Event |-> 0]
  /\ panicked = FALSE
  /\ outcome = [e \in Event |-> "new"]
  /\ sent = [c \in Caller |-> <<>>] /\ handled = <<>> /\ direct = {}

RegisterEventHandler(h, t) ==
  /\ handlers' = [handlers EXCEPT ![t] = @ \cup {h}]
  /\ UNCHANGED <<asyncVars, controlVars, history, loop, current, todo, eventChan, call, full, panicked>>
UnregisterEventHandler(h, t) ==
  /\ handlers' = [handlers EXCEPT ![t] = @ \ {h}]
  /\ UNCHANGED <<asyncVars, controlVars, history, loop, current, todo, eventChan, call, full, panicked>>

(* Dispatch, up to the isRunning check of dispatch. *)
MayDispatch(c) ==
  /\ call[c] = None
  /\ c \in Loop => loop[c] = "handling" /\ todo[c] # {}
Dispatch(c, e) ==
  /\ MayDispatch(c) /\ outcome[e] = "new"
  /\ sent' = [sent EXCEPT ![c] = Append(@, e)]
  /\ IF running THEN /\ call' = [call EXCEPT ![c] = e]
                     /\ outcome' = [outcome EXCEPT ![e] = "open"]
                ELSE /\ outcome' = [outcome EXCEPT ![e] = "dropped"]
                     /\ UNCHANGED call
  /\ UNCHANGED <<handleVars, asyncVars, controlVars, handled, direct, eventChan, full, panicked>>

(* The select of dispatch: send, or take the default case. *)
SendOrBlock(c) ==
  /\ call[c] # None /\ c \notin full
  /\ Room
  /\ eventChan' = Append(eventChan, call[c])
  /\ direct' = direct \cup {call[c]}
  /\ call' = [call EXCEPT ![c] = None]
  /\ UNCHANGED <<full, handleVars, asyncVars, controlVars, outcome, sent, handled, panicked>>
TrySend(c) ==
  /\ call[c] # None /\ c \notin full
  /\ IF Room THEN /\ eventChan' = Append(eventChan, call[c])
                  /\ direct' = direct \cup {call[c]}
                  /\ call' = [call EXCEPT ![c] = None]
                  /\ UNCHANGED full
             ELSE /\ full' = full \cup {c}
                  /\ UNCHANGED <<eventChan, direct, call>>
  /\ UNCHANGED <<handleVars, asyncVars, controlVars, outcome, sent, handled, panicked>>

(* asyncDispatch: count the async sender, or undo the count and panic. *)
OverLimit(count) == count > AsyncLimit
asyncDispatch(c) ==
  /\ c \in full
  /\ IF OverLimit(asyncDispatchCount + 1)
     THEN /\ panicked' = TRUE
          /\ UNCHANGED <<asyncVars, call, full>>
     ELSE /\ asyncDispatchCount' = asyncDispatchCount + 1
          /\ async' = [async EXCEPT ![call[c]] = "check"]
          /\ stop' = [stop EXCEPT ![call[c]] = stopChan]
          /\ full' = full \ {c}
          /\ call' = [call EXCEPT ![c] = None]
          /\ UNCHANGED <<ticks, panicked>>
  /\ UNCHANGED <<handleVars, controlVars, history, eventChan>>

(* The async sender of event e returns, its variables are gone, and its     *)
(* deferred Add(-1) runs.  result is what has become of the event.          *)
AsyncReturnUncounted(e, result) ==
  /\ async' = [async EXCEPT ![e] = "none"]
  /\ outcome' = [outcome EXCEPT ![e] = result]
  /\ asyncDispatchCount' = IF result = "open" THEN asyncDispatchCount - 1 ELSE asyncDispatchCount
  /\ stop' = [stop EXCEPT ![e] = 0] /\ ticks' = [ticks EXCEPT ![e] = 0]
AsyncReturn(e, result) ==
  /\ async' = [async EXCEPT ![e] = "none"]
  /\ outcome' = [outcome EXCEPT ![e] = result]
  /\ asyncDispatchCount' = asyncDispatchCount - 1
  /\ stop' = [stop EXCEPT ![e] = 0] /\ ticks' = [ticks EXCEPT ![e] = 0]

(* for p.isRunning() *)
AsyncCheck(e) ==
  /\ async[e] = "check"
  /\ IF running THEN /\ async' = [async EXCEPT ![e] = "select"]
                     /\ UNCHANGED <<asyncDispatchCount, outcome, stop, ticks>>
                ELSE AsyncReturn(e, "dropped")
  /\ UNCHANGED <<handleVars, controlVars, sent, handled, direct, eventChan, call, full, panicked>>

(* The three cases of the async sender's select. *)
AsyncStop(e) ==
  /\ async[e] = "select" /\ stop[e] \in closed
  /\ AsyncReturn(e, "dropped")
  /\ UNCHANGED <<handleVars, controlVars, sent, handled, direct, eventChan, call, full, panicked>>
AsyncSendAgain(e) ==
  /\ async[e] = "select" /\ Room
  /\ eventChan' = Append(eventChan, e)
  /\ async' = [async EXCEPT ![e] = "check"]
  /\ UNCHANGED <<asyncDispatchCount, outcome, stop, ticks, handleVars, controlVars,
                 sent, handled, direct, call, full, panicked>>
AsyncSend(e) ==
  /\ async[e] = "select" /\ Room
  /\ eventChan' = Append(eventChan, e)
  /\ AsyncReturn(e, "open")
  /\ UNCHANGED <<handleVars, controlVars, sent, handled, direct, call, full, panicked>>
AsyncTick(e) ==
  /\ async[e] = "select"
  /\ \/ AsyncReturn(e, "dropped")
     \/ /\ ticks[e] + 1 < MaxTicks
        /\ ticks' = [ticks EXCEPT ![e] = @ + 1]
        /\ async' = [async EXCEPT ![e] = "check"]
        /\ UNCHANGED <<asyncDispatchCount, outcome, stop>>
  /\ UNCHANGED <<handleVars, controlVars, sent, handled, direct, eventChan, call, full, panicked>>
-----------------------------------------------------------------------------
(* Start returns at once when running; otherwise a new stop channel and a   *)
(* new loop, and only then setRunning(true).                                *)
StartWhenClosed == stopChan \in closed \cup {0} /\ stopChan < MaxStarts
CanStart == ~running /\ stopChan < MaxStarts
Start ==
  /\ control \in {"idle", "stopped"} /\ CanStart
  /\ stopChan' = stopChan + 1
  /\ loop' = [loop EXCEPT ![stopChan + 1] = "select"]
  /\ control' = "spawned"
  /\ UNCHANGED <<running, closed, current, todo, handlers, asyncVars, history, eventChan, call, full, panicked>>
SetRunning ==
  /\ control = "spawned"
  /\ running' = TRUE /\ control' = "idle"
  /\ UNCHANGED <<stopChan, closed, handleVars, asyncVars, history, eventChan, call, full, panicked>>

(* Stop closes the stop channel unless it is closed, and waits for the      *)
(* WaitGroup "stopped" or for five seconds.                                 *)
NeverAdded == TRUE
Stopped == \A k \in Loop : loop[k] \in {"unborn", "exited"}
Stop ==
  /\ control \in {"idle", "stopped"} /\ stopChan \notin closed
  /\ closed' = closed \cup {stopChan}
  /\ control' = "waiting"
  /\ UNCHANGED <<running, stopChan, handleVars, asyncVars, history, eventChan, call, full, panicked>>
StopReturn(gaveUp) ==
  /\ control = "waiting"
  /\ gaveUp \/ Stopped
  /\ control' = IF gaveUp THEN "idle" ELSE "stopped"
  /\ UNCHANGED <<running, stopChan, closed, handleVars, asyncVars, history, eventChan, call, full, panicked>>
-----------------------------------------------------------------------------
(* The event loop.  Its select receives an event, and getEventHandler takes *)
(* a copy of the handlers registered for the event's type ...               *)
getEventHandler(t) == handlers[t]
Receive(k) ==
  /\ loop[k] = "select" /\ eventChan # <<>>
  /\ eventChan' = Tail(eventChan)
  /\ loop' = [loop EXCEPT ![k] = "handling"]
  /\ current' = [current EXCEPT ![k] = Head(eventChan)]
  /\ todo' = [todo EXCEPT ![k] = getEventHandler(TypeOf[Head(eventChan)])]
  /\ UNCHANGED <<handlers, asyncVars, controlVars, history, call, full, panicked>>

(* ... which are called one after the other, in any order. *)
HandlerReturn(k, h) ==
  /\ loop[k] = "handling" /\ h \in todo[k] /\ call[k] = None
  /\ todo' = [todo EXCEPT ![k] = @ \ {h}]
  /\ UNCHANGED <<loop, current, handlers, asyncVars, controlVars, history, eventChan, call, full, panicked>>
HandledAll(k) ==
  /\ loop[k] = "handling" /\ todo[k] = {}
  /\ loop' = [loop EXCEPT ![k] = "select"]
  /\ current' = [current EXCEPT ![k] = None]
  /\ outcome' = [outcome EXCEPT ![current[k]] = "handled"]
  /\ handled' = Append(handled, current[k])
  /\ UNCHANGED <<todo, handlers, asyncVars, controlVars, sent, direct, eventChan, call, full, panicked>>

(* The stop case reads the current stop channel; setRunning(false) comes    *)
(* before stopped.Done().                                                   *)
LoopStopStillRunning(k) ==
  /\ loop[k] = "select" /\ stopChan \in closed
  /\ loop' = [loop EXCEPT ![k] = "leaving"]
  /\ UNCHANGED <<running, stopChan, closed, control, current, todo, handlers, asyncVars, history, eventChan, call, full, panicked>>
LoopStop(k) ==
  /\ loop[k] = "select" /\ stopChan \in closed
  /\ loop' = [loop EXCEPT ![k] = "leaving"]
  /\ running' = FALSE
  /\ UNCHANGED <<stopChan, closed, control, current, todo, handlers, asyncVars, history, eventChan, call, full, panicked>>
LoopDone(k) ==
  /\ loop[k] = "leaving"
  /\ loop' = [loop EXCEPT ![k] = "exited"]
  /\ UNCHANGED <<current, todo, handlers, controlVars, asyncVars, history, eventChan, call, full, panicked>>
-----------------------------------------------------------------------------
CallerStep(c) == TrySend(c) \/ asyncDispatch(c)
AsyncStep(e)  == AsyncCheck(e) \/ AsyncStop(e) \/ AsyncSend(e) \/ AsyncTick(e)
LoopStep(k)   == Receive(k) \/ (\E h \in HandlerID : HandlerReturn(k, h)) \/ HandledAll(k)
                 \/ LoopStop(k) \/ LoopDone(k)
ControlStep   == Start \/ SetRunning \/ Stop \/ (\E gaveUp \in BOOLEAN : StopReturn(gaveUp))

Next ==
  /\ ~panicked
  /\ \/ \E c \in Caller, e \in Event : Dispatch(c, e)
     \/ \E c \in Caller : CallerStep(c)
     \/ \E e \in Event : AsyncStep(e)
     \/ \E k \in Loop : LoopStep(k)
     \/ ControlStep
     \/ \E h \in HandlerID, t \in EventType :
          RegisterEventHandler(h, t) \/ UnregisterEventHandler(h, t)

Spec == Init /\ [][Next]_vars

(* Goroutines that can run do run: every caller inside Dispatch, every      *)
(* async sender, the loop and its handlers.  Nobody has to call Dispatch,   *)
(* Start or Stop.                                                           *)
FairSpec ==
  /\ Spec
  /\ \A c \in Caller : WF_vars(~panicked /\ CallerStep(c))
  /\ \A e \in Event : WF_vars(~panicked /\ AsyncStep(e))
  /\ \A k \in Loop : WF_vars(~panicked /\ LoopStep(k))
  /\ WF_vars(~panicked /\ SetRunning)
-----------------------------------------------------------------------------
(* Types; the channel never holds more than its capacity. *)
TypeOK ==
  /\ running \in BOOLEAN /\ stopChan \in 0 .. MaxStarts /\ closed \in SUBSET (0 .. MaxStarts)
  /\ control \in {"idle", "spawned", "waiting", "stopped"}
  /\ eventChan \in Seq(Event) /\ Len(eventChan) <= Capacity
  /\ asyncDispatchCount \in Int
  /\ handlers \in [EventType -> SUBSET HandlerID]
  /\ loop \in [Loop -> {"unborn", "select", "handling", "leaving", "exited"}]
  /\ current \in [Loop -> Event \cup {None}] /\ todo \in [Loop -> SUBSET HandlerID]
  /\ call \in [Caller -> Event \cup {None}] /\ full \in SUBSET Caller
  /\ async \in [Event -> {"none", "check", "select"}]
  /\ stop \in [Event -> Nat] /\ ticks \in [Event -> Nat]
  /\ panicked \in BOOLEAN
  /\ outcome \in [Event -> {"new", "open", "handled", "dropped"}]
  /\ sent \in [Caller -> Seq(Event)] /\ handled \in Seq(Event) /\ direct \in SUBSET Event

(* An event is in exactly one place from its dispatch to its end: with one  *)
(* caller, once in the channel, with one async sender or with one loop.     *)
(* Nothing is delivered twice and nothing vanishes in the hand-over from    *)
(* dispatch to asyncDispatch to the channel to the loop, and                *)
(* asyncDispatchCount is the number of async senders, within its limit,     *)
(* whichever way each of them ends.                                         *)
InCall(e)  == \E c \in Caller : call[c] = e
InChan(e)  == \E i \in DOMAIN eventChan : eventChan[i] = e
InAsync(e) == async[e] # "none"
InLoop(e)  == \E k \in Loop : current[k] = e
EventsConserved ==
  /\ \A e \in Event :
       /\ outcome[e] = "open" <=> InCall(e) \/ InChan(e) \/ InAsync(e) \/ InLoop(e)
       /\ InCall(e)  => ~InChan(e) /\ ~InAsync(e) /\ ~InLoop(e)
       /\ InChan(e)  => ~InAsync(e) /\ ~InLoop(e)
       /\ InAsync(e) => ~InLoop(e)
  /\ \A c, d \in Caller : call[c] = call[d] /\ call[c] # None => c = d
  /\ \A i, j \in DOMAIN eventChan : eventChan[i] = eventChan[j] => i = j
  /\ \A k, m \in Loop : current[k] = current[m] /\ current[k] # None => k = m
  /\ asyncDispatchCount = Cardinality({e \in Event : async[e] # "none"})
  /\ asyncDispatchCount <= AsyncLimit

(* Handlers never run concurrently, even when Stop gave up waiting for a    *)
(* slow handler and Start is called again: two loops are never active, and  *)
(* running is true only while one is.                                       *)
Active(k) == loop[k] \in {"select", "handling"}
OneLoop ==
  /\ \A k, m \in Loop : Active(k) /\ Active(m) => k = m
  /\ running => \E k \in Loop : Active(k)

(* After a Stop that did not give up no handler runs and no event is taken. *)
StopQuiesces ==
  control = "stopped" => ~running /\ \A k \in Loop : ~Active(k) /\ current[k] = None

(* The dispatcher implements the event bus its users rely on; the event in  *)
(* hand is the one the active loop is handling.                             *)
InHand == IF \E k \in Loop : current[k] # None
          THEN current[CHOOSE k \in Loop : current[k] # None] ELSE None
Bus == INSTANCE EventBus WITH inHand <- InHand
ImplementsEventBus == Bus!Spec

Before(s, d, e) == \E i, j \in DOMAIN s : i < j /\ s[i] = d /\ s[j] = e
(* Events of one caller that went straight into the channel are handled in  *)
(* the order of their Dispatch calls.                                       *)
DirectInOrder ==
  \A c \in Caller : \A d, e \in direct : Before(sent[c], d, e) => ~Before(handled, e, d)

(* Dispatch never blocks its caller, not even a handler on the loop that    *)
(* fills the channel itself: the dispatcher catches up, and every event is  *)
(* handled or dropped, unless the loop is stopped or the async limit is     *)
(* hit.  (In a behaviour each event is dispatched once.)                    *)
EventsSettle ==
  (\E e \in Event : outcome[e] = "open") ~>
    ((\A e \in Event : outcome[e] # "open") \/ ~running \/ panicked)

(* Closing the stop channel ends the loop.                                  *)
StopEndsLoop == (stopChan \in closed /\ running) ~> (~running \/ panicked)
=============================================================================
