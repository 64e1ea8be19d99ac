--------------------------- MODULE DispatcherProofs ---------------------------
(***************************************************************************)
(* Proofs about Dispatcher for any events, handlers, callers, capacity and  *)
(* limits, and any number of calls of Start and Stop.                       *)
(***************************************************************************)
EXTENDS Dispatcher, FiniteSetTheorems, TLAPS

(* A caller in the default case of dispatch has an event in its hands, and  *)
(* so has a loop that is handling, and no other loop.                       *)
InHands ==
  /\ \A c \in full : call[c] # None
  /\ \A k \in Loop : current[k] # None <=> loop[k] = "handling"

(* What links stop channels, loops and the running flag.  Loops are born in *)
(* the order of their stop channels, and only the last one can be active.   *)
(* It is active without running being set only inside Start, and no Stop    *)
(* has closed its channel then.                                             *)
LoopInv ==
  /\ \A k \in Loop : k > stopChan <=> loop[k] = "unborn"
  /\ \A i \in closed : i <= stopChan
  /\ \A k \in Loop : Active(k) => k = stopChan
  /\ running => stopChan \in Loop /\ Active(stopChan)
  /\ \A k \in Loop : Active(k) /\ ~running => control = "spawned"
  /\ control = "spawned" => /\ stopChan \in Loop /\ Active(stopChan)
                            /\ stopChan \notin closed /\ ~running
  /\ control = "stopped" => Stopped

-----------------------------------------------------------------------------
(* The types hold at the start. *)
LEMMA InitTyped == Init => TypeOK /\ InHands
<1> SUFFICES ASSUME Init PROVE TypeOK /\ InHands
  OBVIOUS
<1> USE DispatcherAssumption
<1>1. /\ eventChan \in Seq(Event) /\ Len(eventChan) = 0 /\ handled \in Seq(Event)
      /\ sent \in [Caller -> Seq(Event)] /\ direct \in SUBSET Event
  BY DEF Init
<1>2. running \in BOOLEAN /\ panicked \in BOOLEAN
  BY ZenonT(60) DEF Init
<1>3. /\ stopChan \in 0 .. MaxStarts /\ closed \in SUBSET (0 .. MaxStarts)
      /\ asyncDispatchCount \in Int
      /\ stop \in [Event -> Nat] /\ ticks \in [Event -> Nat]
  BY DEF Init
<1>4. /\ control \in {"idle", "spawned", "waiting", "stopped"}
      /\ loop \in [Loop -> {"unborn", "select", "handling", "leaving", "exited"}]
      /\ async \in [Event -> {"none", "check", "select"}]
      /\ outcome \in [Event -> {"new", "open", "handled", "dropped"}]
  BY DEF Init
<1>5. /\ handlers \in [EventType -> SUBSET HandlerID]
      /\ current \in [Loop -> Event \cup {None}] /\ todo \in [Loop -> SUBSET HandlerID]
      /\ call \in [Caller -> Event \cup {None}] /\ full \in SUBSET Caller
  BY DEF Init
<1>6. TypeOK
  BY <1>1, <1>2, <1>3, <1>4, <1>5 DEF TypeOK
<1>7. InHands
  BY DEF Init, InHands
<1> QED BY <1>6, <1>7

(* A send on a channel with room keeps it within its capacity. *)
LEMMA SendFits ==
  ASSUME TypeOK, Room, NEW e \in Event
  PROVE  Append(eventChan, e) \in Seq(Event) /\ Len(Append(eventChan, e)) <= Capacity
<1>1. /\ Append(eventChan, e) \in Seq(Event) /\ Len(eventChan) \in Nat
      /\ Len(Append(eventChan, e)) = Len(eventChan) + 1
  BY DEF TypeOK
<1> QED BY <1>1, DispatcherAssumption DEF Room

(* Every step of the dispatcher keeps the types. *)
LEMMA StepTyped == TypeOK /\ InHands /\ LoopInv /\ [Next]_vars => TypeOK' /\ InHands'
<1> SUFFICES ASSUME TypeOK, InHands, LoopInv, [Next]_vars
             PROVE  TypeOK' /\ InHands'
  OBVIOUS
<1> USE DispatcherAssumption
<1>1. CASE UNCHANGED vars
  BY <1>1 DEF vars, handleVars, asyncVars, controlVars, history, TypeOK, InHands
<1>2. ASSUME NEW c \in Caller, NEW e \in Event, Dispatch(c, e) PROVE TypeOK' /\ InHands'
  <2>1. sent' \in [Caller -> Seq(Event)]
    BY <1>2 DEF Dispatch, TypeOK
  <2>2. /\ call' \in [Caller -> Event \cup {None}]
        /\ outcome' \in [Event -> {"new", "open", "handled", "dropped"}]
        /\ \A d \in Caller : call[d] # None => call'[d] # None
    <3>1. CASE running
      <4>1. /\ call' = [call EXCEPT ![c] = e] /\ outcome' = [outcome EXCEPT ![e] = "open"]
            /\ call \in [Caller -> Event \cup {None}]
            /\ outcome \in [Event -> {"new", "open", "handled", "dropped"}]
        BY <1>2, <3>1 DEF Dispatch, TypeOK
      <4> QED BY <4>1
    <3>2. CASE ~running
      BY <1>2, <3>2, ZenonT(60) DEF Dispatch, TypeOK
    <3> QED BY <3>1, <3>2
  <2>3. TypeOK'
    BY <1>2, <2>1, <2>2 DEF Dispatch, handleVars, asyncVars, controlVars, TypeOK
  <2>4. InHands'
    BY <1>2, <2>2 DEF Dispatch, handleVars, TypeOK, InHands
  <2> QED BY <2>3, <2>4
<1>3. ASSUME NEW c \in Caller, TrySend(c) PROVE TypeOK' /\ InHands'
  <2>1. call[c] \in Event
    BY <1>3 DEF TrySend, TypeOK
  <2>2. CASE Room
    <3>1. eventChan' \in Seq(Event) /\ Len(eventChan') <= Capacity
      BY <1>3, <2>1, <2>2, SendFits, ZenonT(60) DEF TrySend
    <3>2. /\ call' \in [Caller -> Event \cup {None}] /\ direct' \in SUBSET Event /\ full' = full
          /\ \A d \in Caller : d # c => call'[d] = call[d]
      BY <1>3, <2>1, <2>2, ZenonT(60) DEF TrySend, TypeOK
    <3>3. TypeOK'
      BY <1>3, <3>1, <3>2, ZenonT(60) DEF TrySend, handleVars, asyncVars, controlVars, TypeOK
    <3>4. InHands'
      BY <1>3, <3>2 DEF TrySend, handleVars, TypeOK, InHands
    <3> QED BY <3>3, <3>4
  <2>3. CASE ~Room
    BY <1>3, <2>1, <2>3 DEF TrySend, handleVars, asyncVars, controlVars, TypeOK, InHands
  <2> QED BY <2>2, <2>3
<1>4. ASSUME NEW c \in Caller, asyncDispatch(c) PROVE TypeOK' /\ InHands'
  <2>1. call[c] \in Event
    BY <1>4 DEF asyncDispatch, InHands, TypeOK
  <2>2. CASE OverLimit(asyncDispatchCount + 1)
    BY <1>4, <2>2 DEF asyncDispatch, handleVars, asyncVars, controlVars, history, TypeOK, InHands
  <2>3. CASE ~OverLimit(asyncDispatchCount + 1)
    <3>1. /\ call' \in [Caller -> Event \cup {None}] /\ full' \in SUBSET Caller
          /\ async' \in [Event -> {"none", "check", "select"}]
          /\ \A d \in full' : d \in full /\ call'[d] = call[d]
      BY <1>4, <2>1, <2>3, ZenonT(60) DEF asyncDispatch, TypeOK
    <3>2. stop' \in [Event -> Nat] /\ asyncDispatchCount' \in Int
      <4>1. /\ stop' = [stop EXCEPT ![call[c]] = stopChan]
            /\ asyncDispatchCount' = asyncDispatchCount + 1
        BY <1>4, <2>3 DEF asyncDispatch
      <4>2. stop \in [Event -> Nat] /\ stopChan \in Nat /\ asyncDispatchCount \in Int
        BY DEF TypeOK
      <4> QED BY <2>1, <4>1, <4>2
    <3>3. TypeOK'
      BY <1>4, <2>3, <3>1, <3>2 DEF asyncDispatch, handleVars, controlVars, history, TypeOK
    <3>4. InHands'
      BY <1>4, <3>1 DEF asyncDispatch, handleVars, InHands
    <3> QED BY <3>3, <3>4
  <2> QED BY <2>2, <2>3
<1>5. ASSUME NEW e \in Event, AsyncStep(e) PROVE TypeOK' /\ InHands'
  <2>1. /\ UNCHANGED <<handleVars, controlVars, sent, handled, direct, call, full, panicked>>
        /\ async' \in [Event -> {"none", "check", "select"}]
        /\ outcome' \in [Event -> {"new", "open", "handled", "dropped"}]
        /\ asyncDispatchCount' \in Int
        /\ stop' \in [Event -> Nat] /\ ticks' \in [Event -> Nat]
        /\ eventChan' \in Seq(Event) /\ Len(eventChan') <= Capacity
    <3>1. ASSUME NEW result \in {"open", "dropped"}, AsyncReturn(e, result)
          PROVE  /\ async' \in [Event -> {"none", "check", "select"}]
                 /\ outcome' \in [Event -> {"new", "open", "handled", "dropped"}]
                 /\ asyncDispatchCount' \in Int
                 /\ stop' \in [Event -> Nat] /\ ticks' \in [Event -> Nat]
      BY <3>1 DEF AsyncReturn, TypeOK
    <3>2. CASE AsyncCheck(e)
      <4>1. CASE running
        BY <3>2, <4>1, ZenonT(60) DEF AsyncCheck, TypeOK
      <4>2. CASE ~running
        BY <3>1, <3>2, <4>2 DEF AsyncCheck, TypeOK
      <4> QED BY <4>1, <4>2
    <3>3. CASE AsyncStop(e)
      BY <3>1, <3>3 DEF AsyncStop, TypeOK
    <3>4. CASE AsyncSend(e)
      BY <3>1, <3>4, SendFits, ZenonT(60) DEF AsyncSend, TypeOK
    <3>5. CASE AsyncTick(e)
      <4>1. CASE AsyncReturn(e, "dropped")
        BY <3>1, <3>5, <4>1 DEF AsyncTick, TypeOK
      <4>2. CASE ~AsyncReturn(e, "dropped")
        <5>1. ticks' = [ticks EXCEPT ![e] = ticks[e] + 1] /\ ticks[e] \in Nat
          BY <3>5, <4>2 DEF AsyncTick, TypeOK
        <5>2. ticks' \in [Event -> Nat]
          BY <5>1 DEF TypeOK
        <5> QED BY <3>5, <4>2, <5>2, ZenonT(60) DEF AsyncTick, TypeOK
      <4> QED BY <4>1, <4>2
    <3> QED BY <1>5, <3>2, <3>3, <3>4, <3>5 DEF AsyncStep
  <2>2. TypeOK'
    BY <1>5, <2>1 DEF handleVars, controlVars, TypeOK
  <2>3. InHands'
    BY <1>5, <2>1 DEF handleVars, InHands
  <2> QED BY <2>2, <2>3
<1>6. ASSUME NEW k \in Loop, LoopStep(k) PROVE TypeOK' /\ InHands'
  <2>1. CASE Receive(k)
    <3>1. /\ Head(eventChan) \in Event /\ Tail(eventChan) \in Seq(Event)
          /\ Len(Tail(eventChan)) = Len(eventChan) - 1 /\ Len(eventChan) \in Nat
      BY <2>1 DEF Receive, TypeOK
    <3>2. getEventHandler(TypeOf[Head(eventChan)]) \subseteq HandlerID
      BY <3>1 DEF getEventHandler, TypeOK
    <3>3. TypeOK'
      BY <2>1, <3>1, <3>2 DEF Receive, asyncVars, controlVars, history, TypeOK
    <3>4. InHands'
      BY <2>1, <3>1 DEF Receive, TypeOK, InHands
    <3> QED BY <3>3, <3>4
  <2>2. ASSUME NEW h \in HandlerID, HandlerReturn(k, h) PROVE TypeOK' /\ InHands'
    BY <2>2 DEF HandlerReturn, asyncVars, controlVars, history, TypeOK, InHands
  <2>3. CASE HandledAll(k)
    <3>1. current[k] \in Event
      BY <2>3 DEF HandledAll, InHands, TypeOK
    <3> QED
      BY <2>3, <3>1 DEF HandledAll, asyncVars, controlVars, TypeOK, InHands
  <2>4. CASE LoopStop(k)
    BY <2>4, ZenonT(60) DEF LoopStop, asyncVars, history, TypeOK, InHands
  <2>5. CASE LoopDone(k)
    BY <2>5 DEF LoopDone, asyncVars, controlVars, history, TypeOK, InHands
  <2> QED BY <1>6, <2>1, <2>2, <2>3, <2>4, <2>5 DEF LoopStep
<1>7. CASE ControlStep
  <2>1. CASE Start
    <3>1. stopChan + 1 \in Loop /\ stopChan' \in 0 .. MaxStarts
      BY <2>1 DEF Start, CanStart, Loop, TypeOK
    <3>2. TypeOK'
      BY <2>1, <3>1 DEF Start, asyncVars, history, TypeOK
    <3>3. current[stopChan + 1] = None
      BY <2>1, <3>1 DEF InHands, LoopInv, TypeOK
    <3>4. InHands'
      BY <2>1, <3>1, <3>3 DEF Start, TypeOK, InHands
    <3> QED BY <3>2, <3>4
  <2>2. CASE SetRunning
    BY <2>2 DEF SetRunning, handleVars, asyncVars, history, TypeOK, InHands
  <2>3. CASE Stop
    BY <2>3 DEF Stop, handleVars, asyncVars, history, TypeOK, InHands
  <2>4. ASSUME NEW gaveUp \in BOOLEAN, StopReturn(gaveUp) PROVE TypeOK' /\ InHands'
    BY <2>4 DEF StopReturn, handleVars, asyncVars, history, TypeOK, InHands
  <2> QED BY <1>7, <2>1, <2>2, <2>3, <2>4 DEF ControlStep
<1>8. ASSUME NEW h \in HandlerID, NEW t \in EventType,
             RegisterEventHandler(h, t) \/ UnregisterEventHandler(h, t)
      PROVE  TypeOK' /\ InHands'
  <2>1. handlers' \in [EventType -> SUBSET HandlerID]
    <3>1. handlers[t] \cup {h} \in SUBSET HandlerID /\ handlers[t] \ {h} \in SUBSET HandlerID
      BY DEF TypeOK
    <3>2. CASE RegisterEventHandler(h, t)
      BY <3>1, <3>2 DEF RegisterEventHandler, TypeOK
    <3>3. CASE UnregisterEventHandler(h, t)
      BY <3>1, <3>3 DEF UnregisterEventHandler, TypeOK
    <3> QED BY <1>8, <3>2, <3>3
  <2> QED
    BY <1>8, <2>1, ZenonT(60) DEF RegisterEventHandler, UnregisterEventHandler, asyncVars, controlVars, history, TypeOK, InHands
<1> QED
  BY <1>1, <1>2, <1>3, <1>4, <1>5, <1>6, <1>7, <1>8 DEF Next, CallerStep
-----------------------------------------------------------------------------
(* No loop, no stop channel and no Stop at the start. *)
LEMMA InitLoop == Init => LoopInv
BY DispatcherAssumption DEF Init, LoopInv, Active, Loop

(* Steps of callers and async senders leave the loops alone. *)
LEMMA LoopStutter ==
  ASSUME LoopInv, UNCHANGED <<loop, running, stopChan, closed, control>>
  PROVE  LoopInv'
BY DEF LoopInv, Active, Stopped

(* Start, Stop and the loops keep the link between stop channels and loops. *)
LEMMA StepLoop == TypeOK /\ LoopInv /\ [Next]_vars => LoopInv'
<1> SUFFICES ASSUME TypeOK, LoopInv, [Next]_vars
             PROVE  LoopInv'
  OBVIOUS
<1> USE DispatcherAssumption
<1>1. CASE UNCHANGED vars
  BY <1>1, LoopStutter DEF vars, handleVars, controlVars
<1>2. ASSUME NEW c \in Caller, NEW e \in Event, Dispatch(c, e) PROVE LoopInv'
  BY <1>2, LoopStutter DEF Dispatch, handleVars, controlVars
<1>3. ASSUME NEW c \in Caller, CallerStep(c) PROVE LoopInv'
  BY <1>3, LoopStutter DEF CallerStep, TrySend, asyncDispatch, handleVars, controlVars
<1>4. ASSUME NEW e \in Event, AsyncStep(e) PROVE LoopInv'
  BY <1>4, LoopStutter DEF AsyncStep, AsyncCheck, AsyncStop, AsyncSend, AsyncTick, handleVars, controlVars
<1>5. ASSUME NEW k \in Loop, LoopStep(k) PROVE LoopInv'
  <2>1. CASE Receive(k) \/ HandledAll(k)
    <3>1. /\ UNCHANGED <<running, stopChan, closed, control>> /\ Active(k)
          /\ loop' \in [Loop -> {"unborn", "select", "handling", "leaving", "exited"}]
          /\ \A m \in Loop : m # k => loop'[m] = loop[m]
          /\ loop'[k] \in {"select", "handling"}
      BY <2>1, ZenonT(60) DEF Receive, HandledAll, Active, controlVars, TypeOK
    <3>2. /\ \A m \in Loop : Active(m) <=> Active(m)'
          /\ \A m \in Loop : loop'[m] = "unborn" <=> loop[m] = "unborn"
          /\ \A m \in Loop : loop'[m] \in {"unborn", "exited"} <=> loop[m] \in {"unborn", "exited"}
      BY <3>1 DEF Active
    <3> QED BY <3>1, <3>2 DEF LoopInv, Stopped
  <2>2. ASSUME NEW h \in HandlerID, HandlerReturn(k, h) PROVE LoopInv'
    BY <2>2, LoopStutter DEF HandlerReturn, controlVars
  <2>3. CASE LoopStop(k)
    <3>1. Active(k) /\ k = stopChan /\ control # "spawned" /\ control # "stopped"
      BY <2>3 DEF LoopStop, LoopInv, Active, Stopped
    <3>2. \A m \in Loop : ~Active(m)'
      BY <2>3, <3>1 DEF LoopStop, LoopInv, Active, TypeOK
    <3> QED BY <2>3, <3>1, <3>2 DEF LoopStop, LoopInv, TypeOK
  <2>4. CASE LoopDone(k)
    <3>1. /\ \A m \in Loop : Active(m) <=> Active(m)'
          /\ \A m \in Loop : loop'[m] = "unborn" <=> loop[m] = "unborn"
          /\ Stopped => Stopped'
      BY <2>4 DEF LoopDone, Active, Stopped, TypeOK
    <3> QED BY <2>4, <3>1 DEF LoopDone, controlVars, LoopInv, TypeOK
  <2> QED BY <1>5, <2>1, <2>2, <2>3, <2>4 DEF LoopStep
<1>6. CASE ControlStep
  <2>1. CASE Start
    <3>1. stopChan + 1 \in Loop /\ ~running /\ control # "spawned"
      BY <2>1 DEF Start, CanStart, Loop, TypeOK
    <3>2. \A m \in Loop : ~Active(m)
      BY <3>1 DEF LoopInv
    <3>3. \A m \in Loop : Active(m)' <=> m = stopChan + 1
      BY <2>1, <3>1, <3>2 DEF Start, Active, TypeOK
    <3>4. \A m \in Loop : m > stopChan' <=> loop'[m] = "unborn"
      BY <2>1, <3>1 DEF Start, LoopInv, Loop, TypeOK
    <3>5. stopChan' \notin closed' /\ \A i \in closed' : i <= stopChan'
      BY <2>1 DEF Start, LoopInv, TypeOK
    <3> QED BY <2>1, <3>1, <3>3, <3>4, <3>5 DEF Start, LoopInv
  <2>2. CASE SetRunning
    BY <2>2 DEF SetRunning, handleVars, LoopInv, Active
  <2>3. CASE Stop
    BY <2>3 DEF Stop, handleVars, LoopInv, Active, TypeOK
  <2>4. ASSUME NEW gaveUp \in BOOLEAN, StopReturn(gaveUp) PROVE LoopInv'
    BY <2>4 DEF StopReturn, handleVars, LoopInv, Active, Stopped
  <2> QED BY <1>6, <2>1, <2>2, <2>3, <2>4 DEF ControlStep
<1>7. ASSUME NEW h \in HandlerID, NEW t \in EventType,
             RegisterEventHandler(h, t) \/ UnregisterEventHandler(h, t)
      PROVE  LoopInv'
  BY <1>7, LoopStutter DEF RegisterEventHandler, UnregisterEventHandler, controlVars
<1> QED
  BY <1>1, <1>2, <1>3, <1>4, <1>5, <1>6, <1>7 DEF Next
-----------------------------------------------------------------------------
(* The three parts together are inductive. *)
LEMMA DispatcherInvariant == Spec => [](TypeOK /\ InHands /\ LoopInv)
<1>1. Init => TypeOK /\ InHands /\ LoopInv
  BY InitTyped, InitLoop
<1>2. TypeOK /\ InHands /\ LoopInv /\ [Next]_vars => (TypeOK /\ InHands /\ LoopInv)'
  BY StepTyped, StepLoop
<1> QED BY <1>1, <1>2, PTL DEF Spec

(* dispatch and its async senders never overfill the event channel, and     *)
(* every variable keeps its type, for any capacity and any callers.         *)
THEOREM DispatcherTyped == Spec => []TypeOK
BY DispatcherInvariant, PTL

(* However Start, Stop, a Stop that gives up and a slow handler interleave, *)
(* runEventLoop is never active twice, and isRunning is true only while a   *)
(* loop is active.                                                          *)
THEOREM OneLoopAlways == Spec => []OneLoop
<1>1. LoopInv => OneLoop
  BY DEF LoopInv, OneLoop
<1> QED BY <1>1, DispatcherInvariant, PTL

(* Once Stop has returned without giving up, isRunning is false and no loop *)
(* is active or has an event in hand, until Start is called.                *)
THEOREM StopIsQuiet == Spec => []StopQuiesces
<1>1. InHands /\ LoopInv => StopQuiesces
  BY DEF InHands, LoopInv, StopQuiesces, Stopped, Active
<1> QED BY <1>1, DispatcherInvariant, PTL
-----------------------------------------------------------------------------
(* Where events are: each in one place, and the async senders are counted. *)
OnePlace(e) ==
  /\ outcome[e] = "open" <=> InCall(e) \/ InChan(e) \/ InAsync(e) \/ InLoop(e)
  /\ InCall(e)  => ~InChan(e) /\ ~InAsync(e) /\ ~InLoop(e)
  /\ InChan(e)  => ~InAsync(e) /\ ~InLoop(e)
  /\ InAsync(e) => ~InLoop(e)
CallOnce == \A c, d \in Caller : call[c] = call[d] /\ call[c] # None => c = d
ChanOnce == \A i, j \in DOMAIN eventChan : eventChan[i] = eventChan[j] => i = j
LoopOnce == \A k, m \in Loop : current[k] = current[m] /\ current[k] # None => k = m
AsyncSenders == {e \in Event : async[e] # "none"}
Counted ==
  /\ IsFiniteSet(AsyncSenders) /\ asyncDispatchCount = Cardinality(AsyncSenders)
  /\ asyncDispatchCount <= AsyncLimit

PlaceInv == (\A e \in Event : OnePlace(e)) /\ CallOnce /\ ChanOnce /\ LoopOnce /\ Counted

(* No event is anywhere at the start. *)
LEMMA InitPlace == Init => PlaceInv
<1> SUFFICES ASSUME Init PROVE PlaceInv
  OBVIOUS
<1> USE DispatcherAssumption
<1>1. \A e \in Event : OnePlace(e)
  BY DEF Init, OnePlace, InCall, InChan, InAsync, InLoop
<1>2. CallOnce /\ ChanOnce /\ LoopOnce
  BY DEF Init, CallOnce, ChanOnce, LoopOnce
<1>3. AsyncSenders = {} /\ asyncDispatchCount = 0
  BY DEF Init, AsyncSenders
<1>4. IsFiniteSet(AsyncSenders) /\ Cardinality(AsyncSenders) = 0
  BY <1>3, FS_EmptySet
<1>5. Counted
  BY <1>3, <1>4 DEF Counted
<1> QED BY <1>1, <1>2, <1>5 DEF PlaceInv

(* A caller that has no event takes one. *)
LEMMA CallGiven ==
  ASSUME TypeOK, CallOnce, NEW c \in Caller, NEW e \in Event, call[c] = None, ~InCall(e),
         call' = [call EXCEPT ![c] = e]
  PROVE  CallOnce' /\ \A d \in Event : InCall(d)' <=> InCall(d) \/ d = e
<1>1. call'[c] = e /\ \A b \in Caller : b # c => call'[b] = call[b]
  BY DEF TypeOK
<1> QED BY <1>1, DispatcherAssumption DEF CallOnce, InCall

(* A caller gives its event away. *)
LEMMA CallTaken ==
  ASSUME TypeOK, CallOnce, NEW c \in Caller, call[c] \in Event,
         call' = [call EXCEPT ![c] = None]
  PROVE  CallOnce' /\ \A d \in Event : InCall(d)' <=> InCall(d) /\ d # call[c]
<1>1. call'[c] = None /\ \A b \in Caller : b # c => call'[b] = call[b]
  BY DEF TypeOK
<1> QED BY <1>1, DispatcherAssumption DEF CallOnce, InCall

(* An event that is not in the channel is sent to it. *)
LEMMA ChanSent ==
  ASSUME TypeOK, ChanOnce, NEW e \in Event, ~InChan(e), eventChan' = Append(eventChan, e)
  PROVE  ChanOnce' /\ \A d \in Event : InChan(d)' <=> InChan(d) \/ d = e
<1>1. /\ Len(eventChan) \in Nat /\ DOMAIN eventChan = 1 .. Len(eventChan)
      /\ DOMAIN eventChan' = 1 .. Len(eventChan) + 1
      /\ eventChan'[Len(eventChan) + 1] = e
      /\ \A i \in 1 .. Len(eventChan) : eventChan'[i] = eventChan[i]
  BY DEF TypeOK
<1>2. \A i \in DOMAIN eventChan' : i \in DOMAIN eventChan \/ i = Len(eventChan) + 1
  BY <1>1
<1>3. Len(eventChan) + 1 \in DOMAIN eventChan' /\ \A i \in DOMAIN eventChan : i \in DOMAIN eventChan'
  BY <1>1
<1> HIDE DEF ChanOnce
<1>4. ChanOnce'
  BY <1>1, <1>2 DEF ChanOnce, InChan
<1>5. \A d \in Event : InChan(d)' <=> InChan(d) \/ d = e
  BY <1>1, <1>2, <1>3 DEF InChan
<1> QED BY <1>4, <1>5

(* The head of the channel is received, and is not in the channel any more. *)
LEMMA ChanReceived ==
  ASSUME TypeOK, ChanOnce, eventChan # <<>>, eventChan' = Tail(eventChan)
  PROVE  /\ Head(eventChan) \in Event /\ InChan(Head(eventChan)) /\ ChanOnce'
         /\ \A d \in Event : InChan(d)' <=> InChan(d) /\ d # Head(eventChan)
<1>1. /\ Len(eventChan) \in Nat /\ DOMAIN eventChan = 1 .. Len(eventChan)
      /\ 1 \in DOMAIN eventChan /\ Head(eventChan) = eventChan[1] /\ Head(eventChan) \in Event
      /\ DOMAIN eventChan' = 1 .. Len(eventChan) - 1
      /\ \A i \in 1 .. Len(eventChan) - 1 : eventChan'[i] = eventChan[i + 1]
  BY DEF TypeOK
<1>2. \A i \in DOMAIN eventChan' : i + 1 \in DOMAIN eventChan /\ i + 1 # 1 /\ i \in Int
  BY <1>1
<1>3. \A i \in DOMAIN eventChan : i # 1 => i - 1 \in DOMAIN eventChan' /\ (i - 1) + 1 = i
  BY <1>1
<1>4. ChanOnce'
  <2> SUFFICES ASSUME NEW i \in DOMAIN eventChan', NEW j \in DOMAIN eventChan', eventChan'[i] = eventChan'[j]
               PROVE  i = j
    BY DEF ChanOnce
  <2>1. i + 1 = j + 1
    BY <1>1, <1>2 DEF ChanOnce
  <2> QED BY <1>2, <2>1
<1>5. \A d \in Event : InChan(d)' <=> InChan(d) /\ d # Head(eventChan)
  <2> SUFFICES ASSUME NEW d \in Event PROVE InChan(d)' <=> InChan(d) /\ d # Head(eventChan)
    OBVIOUS
  <2>1. ASSUME InChan(d)' PROVE InChan(d) /\ d # Head(eventChan)
    <3>1. PICK i \in DOMAIN eventChan' : eventChan'[i] = d
      BY <2>1 DEF InChan
    <3>2. eventChan[i + 1] = d /\ i + 1 \in DOMAIN eventChan /\ i + 1 # 1
      BY <1>1, <1>2, <3>1
    <3> QED BY <1>1, <3>2 DEF InChan, ChanOnce
  <2>2. ASSUME InChan(d), d # Head(eventChan) PROVE InChan(d)'
    <3>1. PICK i \in DOMAIN eventChan : eventChan[i] = d
      BY <2>2 DEF InChan
    <3>2. i # 1
      BY <1>1, <2>2, <3>1
    <3>3. eventChan'[i - 1] = d /\ i - 1 \in DOMAIN eventChan'
      BY <1>1, <1>3, <3>1, <3>2
    <3> QED BY <3>3 DEF InChan
  <2> QED BY <2>1, <2>2
<1>6. InChan(Head(eventChan))
  BY <1>1 DEF InChan
<1> QED BY <1>1, <1>4, <1>5, <1>6

(* asyncDispatch counts the async sender it starts, within the limit. *)
LEMMA AsyncBegun ==
  ASSUME TypeOK, Counted, NEW e \in Event, ~InAsync(e), ~OverLimit(asyncDispatchCount + 1),
         async' = [async EXCEPT ![e] = "check"], asyncDispatchCount' = asyncDispatchCount + 1
  PROVE  Counted' /\ \A d \in Event : InAsync(d)' <=> InAsync(d) \/ d = e
<1>1. \A d \in Event : async'[d] = IF d = e THEN "check" ELSE async[d]
  BY DEF TypeOK
<1>2. AsyncSenders' = AsyncSenders \cup {e} /\ e \notin AsyncSenders
  BY <1>1 DEF AsyncSenders, InAsync
<1>3. IsFiniteSet(AsyncSenders) /\ asyncDispatchCount = Cardinality(AsyncSenders)
  BY DEF Counted
<1>4. IsFiniteSet(AsyncSenders') /\ Cardinality(AsyncSenders') = Cardinality(AsyncSenders) + 1
  BY <1>2, <1>3, FS_AddElement
<1>5. asyncDispatchCount' <= AsyncLimit
  BY DispatcherAssumption DEF OverLimit, TypeOK
<1>6. Counted'
  BY <1>3, <1>4, <1>5 DEF Counted
<1>7. \A d \in Event : InAsync(d)' <=> InAsync(d) \/ d = e
  BY <1>1 DEF InAsync
<1> QED BY <1>6, <1>7

(* The deferred Add(-1) of an async sender. *)
LEMMA AsyncEnded ==
  ASSUME TypeOK, Counted, NEW e \in Event, InAsync(e),
         async' = [async EXCEPT ![e] = "none"], asyncDispatchCount' = asyncDispatchCount - 1
  PROVE  Counted' /\ \A d \in Event : InAsync(d)' <=> InAsync(d) /\ d # e
<1>1. \A d \in Event : async'[d] = IF d = e THEN "none" ELSE async[d]
  BY DEF TypeOK
<1>2. AsyncSenders' = AsyncSenders \ {e} /\ e \in AsyncSenders
  BY <1>1 DEF AsyncSenders, InAsync
<1>3. IsFiniteSet(AsyncSenders) /\ asyncDispatchCount = Cardinality(AsyncSenders)
  BY DEF Counted
<1>4. IsFiniteSet(AsyncSenders') /\ Cardinality(AsyncSenders') = Cardinality(AsyncSenders) - 1
  BY <1>2, <1>3, FS_RemoveElement
<1>5. asyncDispatchCount' <= AsyncLimit
  BY DispatcherAssumption DEF Counted, TypeOK
<1>6. Counted'
  BY <1>3, <1>4, <1>5 DEF Counted
<1>7. \A d \in Event : InAsync(d)' <=> InAsync(d) /\ d # e
  BY <1>1 DEF InAsync
<1> QED BY <1>6, <1>7

(* An async sender that goes on is still one. *)
LEMMA AsyncGoesOn ==
  ASSUME TypeOK, Counted, NEW e \in Event, InAsync(e), NEW pc \in {"check", "select"},
         async' = [async EXCEPT ![e] = pc], UNCHANGED asyncDispatchCount
  PROVE  Counted' /\ \A d \in Event : InAsync(d)' <=> InAsync(d)
<1>1. \A d \in Event : async'[d] = IF d = e THEN pc ELSE async[d]
  BY DEF TypeOK
<1>2. \A d \in Event : InAsync(d)' <=> InAsync(d)
  BY <1>1 DEF InAsync
<1>3. AsyncSenders' = AsyncSenders
  BY <1>2 DEF AsyncSenders, InAsync
<1> QED BY <1>2, <1>3 DEF Counted

(* A loop that has no event takes one. *)
LEMMA LoopTakes ==
  ASSUME TypeOK, LoopOnce, NEW k \in Loop, NEW e \in Event, current[k] = None, ~InLoop(e),
         current' = [current EXCEPT ![k] = e]
  PROVE  LoopOnce' /\ \A d \in Event : InLoop(d)' <=> InLoop(d) \/ d = e
<1>1. current'[k] = e /\ \A m \in Loop : m # k => current'[m] = current[m]
  BY DEF TypeOK
<1> QED BY <1>1, DispatcherAssumption DEF LoopOnce, InLoop

(* A loop is done with its event. *)
LEMMA LoopFinishes ==
  ASSUME TypeOK, LoopOnce, NEW k \in Loop, current[k] \in Event,
         current' = [current EXCEPT ![k] = None]
  PROVE  LoopOnce' /\ \A d \in Event : InLoop(d)' <=> InLoop(d) /\ d # current[k]
<1>1. current'[k] = None /\ \A m \in Loop : m # k => current'[m] = current[m]
  BY DEF TypeOK
<1> QED BY <1>1, DispatcherAssumption DEF LoopOnce, InLoop

(* A place that is left alone holds what it held. *)
LEMMA Stay ==
  /\ UNCHANGED call => (CallOnce => CallOnce') /\ \A d \in Event : InCall(d)' <=> InCall(d)
  /\ UNCHANGED eventChan => (ChanOnce => ChanOnce') /\ \A d \in Event : InChan(d)' <=> InChan(d)
  /\ UNCHANGED current => (LoopOnce => LoopOnce') /\ \A d \in Event : InLoop(d)' <=> InLoop(d)
  /\ UNCHANGED <<async, asyncDispatchCount>> =>
       (Counted => Counted') /\ \A d \in Event : InAsync(d)' <=> InAsync(d)
BY DEF CallOnce, InCall, ChanOnce, InChan, LoopOnce, InLoop, Counted, AsyncSenders, InAsync

(* Every step moves an event from one place to the next, or ends it. *)
LEMMA StepPlace == TypeOK /\ InHands /\ PlaceInv /\ [Next]_vars => PlaceInv'
<1> SUFFICES ASSUME TypeOK, InHands, PlaceInv, [Next]_vars PROVE PlaceInv'
  OBVIOUS
<1> USE DispatcherAssumption
<1>1. ASSUME UNCHANGED <<call, eventChan, current, async, asyncDispatchCount, outcome>> PROVE PlaceInv'
  BY <1>1, Stay DEF PlaceInv, OnePlace
<1>2. ASSUME NEW c \in Caller, NEW e \in Event, Dispatch(c, e) PROVE PlaceInv'
  <2>1. /\ call[c] = None /\ outcome[e] = "new" /\ OnePlace(e)
        /\ UNCHANGED <<eventChan, current, async, asyncDispatchCount>>
    BY <1>2, ZenonT(60) DEF Dispatch, MayDispatch, PlaceInv, handleVars, asyncVars
  <2>2. CASE running
    <3>1. \A d \in Event : outcome'[d] = IF d = e THEN "open" ELSE outcome[d]
      BY <1>2, <2>2, ZenonT(60) DEF Dispatch, TypeOK
    <3>2. ~InCall(e)
      BY <2>1 DEF OnePlace
    <3>3. CallOnce' /\ \A d \in Event : InCall(d)' <=> InCall(d) \/ d = e
      BY <1>2, <2>1, <2>2, <3>2, CallGiven, ZenonT(60) DEF Dispatch, PlaceInv
    <3>4. \A d \in Event : OnePlace(d)'
      BY <2>1, <3>1, <3>3, Stay, ZenonT(60) DEF PlaceInv, OnePlace
    <3> QED BY <2>1, <3>3, <3>4, Stay, ZenonT(60) DEF PlaceInv
  <2>3. CASE ~running
    <3>1. UNCHANGED call /\ \A d \in Event : outcome'[d] = IF d = e THEN "dropped" ELSE outcome[d]
      BY <1>2, <2>3, ZenonT(60) DEF Dispatch, TypeOK
    <3>2. \A d \in Event : OnePlace(d)'
      BY <2>1, <3>1, Stay, ZenonT(60) DEF PlaceInv, OnePlace
    <3> QED BY <2>1, <3>1, <3>2, Stay, ZenonT(60) DEF PlaceInv
  <2> QED BY <2>2, <2>3, ZenonT(60)
<1>3. ASSUME NEW c \in Caller, TrySend(c) PROVE PlaceInv'
  <2>1. CASE Room
    <3>1. /\ call[c] \in Event /\ call' = [call EXCEPT ![c] = None]
          /\ eventChan' = Append(eventChan, call[c])
          /\ UNCHANGED <<current, async, asyncDispatchCount, outcome>>
      BY <1>3, <2>1 DEF TrySend, TypeOK, handleVars, asyncVars
    <3>2. InCall(call[c]) /\ ~InChan(call[c])
      BY <3>1 DEF PlaceInv, OnePlace, InCall
    <3>3. CallOnce' /\ \A d \in Event : InCall(d)' <=> InCall(d) /\ d # call[c]
      BY <3>1, CallTaken, ZenonT(60) DEF PlaceInv
    <3>4. ChanOnce' /\ \A d \in Event : InChan(d)' <=> InChan(d) \/ d = call[c]
      BY <3>1, <3>2, ChanSent DEF PlaceInv
    <3>5. \A d \in Event : OnePlace(d)'
      BY <3>1, <3>2, <3>3, <3>4, Stay DEF PlaceInv, OnePlace
    <3> QED BY <3>1, <3>3, <3>4, <3>5, Stay, ZenonT(60) DEF PlaceInv
  <2>2. CASE ~Room
    BY <1>1, <1>3, <2>2 DEF TrySend, handleVars, asyncVars
  <2> QED BY <2>1, <2>2
<1>4. ASSUME NEW c \in Caller, asyncDispatch(c) PROVE PlaceInv'
  <2>1. CASE OverLimit(asyncDispatchCount + 1)
    BY <1>1, <1>4, <2>1, ZenonT(60) DEF asyncDispatch, handleVars, asyncVars, history
  <2>2. CASE ~OverLimit(asyncDispatchCount + 1)
    <3>1. /\ call[c] \in Event /\ call' = [call EXCEPT ![c] = None]
          /\ async' = [async EXCEPT ![call[c]] = "check"]
          /\ asyncDispatchCount' = asyncDispatchCount + 1
          /\ UNCHANGED <<current, eventChan, outcome>>
      BY <1>4, <2>2, ZenonT(60) DEF asyncDispatch, TypeOK, InHands, handleVars, history
    <3>2. InCall(call[c]) /\ ~InAsync(call[c])
      BY <3>1 DEF PlaceInv, OnePlace, InCall
    <3>3. CallOnce' /\ \A d \in Event : InCall(d)' <=> InCall(d) /\ d # call[c]
      BY <3>1, CallTaken, ZenonT(60) DEF PlaceInv
    <3>4. Counted' /\ \A d \in Event : InAsync(d)' <=> InAsync(d) \/ d = call[c]
      BY <2>2, <3>1, <3>2, AsyncBegun, ZenonT(60) DEF PlaceInv
    <3>5. \A d \in Event : OnePlace(d)'
      BY <3>1, <3>2, <3>3, <3>4, Stay DEF PlaceInv, OnePlace
    <3> QED BY <3>1, <3>3, <3>4, <3>5, Stay, ZenonT(60) DEF PlaceInv
  <2> QED BY <2>1, <2>2
<1>5. ASSUME NEW e \in Event, AsyncStep(e) PROVE PlaceInv'
  <2>1. UNCHANGED <<call, current>> /\ InAsync(e)
    BY <1>5 DEF AsyncStep, AsyncCheck, AsyncStop, AsyncSend, AsyncTick, handleVars, InAsync
  <2>2. OnePlace(e)
    BY DEF PlaceInv
  <2>3. ASSUME AsyncReturn(e, "dropped"), UNCHANGED eventChan PROVE PlaceInv'
    <3>1. Counted' /\ \A d \in Event : InAsync(d)' <=> InAsync(d) /\ d # e
      BY <2>1, <2>3, AsyncEnded, ZenonT(60) DEF AsyncReturn, PlaceInv
    <3>2. \A d \in Event : outcome'[d] = IF d = e THEN "dropped" ELSE outcome[d]
      BY <2>3 DEF AsyncReturn, TypeOK
    <3>3. \A d \in Event : OnePlace(d)'
      BY <2>1, <2>2, <2>3, <3>1, <3>2, Stay, ZenonT(60) DEF PlaceInv, OnePlace
    <3> QED BY <2>1, <2>3, <3>1, <3>3, Stay DEF PlaceInv
  <2>4. ASSUME NEW pc \in {"check", "select"}, async' = [async EXCEPT ![e] = pc],
               UNCHANGED <<asyncDispatchCount, outcome, eventChan>>
        PROVE  PlaceInv'
    <3>1. Counted' /\ \A d \in Event : InAsync(d)' <=> InAsync(d)
      BY <2>1, <2>4, AsyncGoesOn, ZenonT(60) DEF PlaceInv
    <3>2. \A d \in Event : OnePlace(d)'
      BY <2>1, <2>4, <3>1, Stay DEF PlaceInv, OnePlace
    <3> QED BY <2>1, <2>4, <3>1, <3>2, Stay DEF PlaceInv
  <2>5. CASE AsyncSend(e)
    <3>1. AsyncReturn(e, "open") /\ eventChan' = Append(eventChan, e)
      BY <2>5 DEF AsyncSend
    <3>2. outcome[e] = "open" /\ ~InChan(e)
      BY <2>1, <2>2, ZenonT(60) DEF OnePlace
    <3>3. UNCHANGED outcome
      BY <3>1, <3>2 DEF AsyncReturn, TypeOK
    <3>4. Counted' /\ \A d \in Event : InAsync(d)' <=> InAsync(d) /\ d # e
      BY <2>1, <3>1, AsyncEnded, ZenonT(60) DEF AsyncReturn, PlaceInv
    <3>5. ChanOnce' /\ \A d \in Event : InChan(d)' <=> InChan(d) \/ d = e
      BY <3>1, <3>2, ChanSent DEF PlaceInv
    <3>6. \A d \in Event : OnePlace(d)'
      BY <2>1, <3>2, <3>3, <3>4, <3>5, Stay DEF PlaceInv, OnePlace
    <3> QED BY <2>1, <3>4, <3>5, <3>6, Stay DEF PlaceInv
  <2>6. CASE AsyncCheck(e) \/ AsyncStop(e) \/ AsyncTick(e)
    BY <2>3, <2>4, <2>6 DEF AsyncCheck, AsyncStop, AsyncTick
  <2> QED BY <1>5, <2>5, <2>6, ZenonT(60) DEF AsyncStep
<1>6. ASSUME NEW k \in Loop, LoopStep(k) PROVE PlaceInv'
  <2>1. CASE Receive(k)
    <3>1. /\ eventChan # <<>> /\ eventChan' = Tail(eventChan)
          /\ current' = [current EXCEPT ![k] = Head(eventChan)] /\ current[k] = None
          /\ UNCHANGED <<call, async, asyncDispatchCount, outcome>>
      BY <2>1 DEF Receive, asyncVars, history, InHands
    <3>2. /\ Head(eventChan) \in Event /\ InChan(Head(eventChan)) /\ ChanOnce'
          /\ \A d \in Event : InChan(d)' <=> InChan(d) /\ d # Head(eventChan)
      BY <3>1, ChanReceived DEF PlaceInv
    <3>3. ~InLoop(Head(eventChan))
      BY <3>2 DEF PlaceInv, OnePlace
    <3>4. LoopOnce' /\ \A d \in Event : InLoop(d)' <=> InLoop(d) \/ d = Head(eventChan)
      BY <3>1, <3>2, <3>3, LoopTakes, ZenonT(60) DEF PlaceInv
    <3>5. \A d \in Event : OnePlace(d)'
      BY <3>1, <3>2, <3>3, <3>4, Stay DEF PlaceInv, OnePlace
    <3> QED BY <3>1, <3>2, <3>4, <3>5, Stay, ZenonT(60) DEF PlaceInv
  <2>2. CASE HandledAll(k)
    <3>1. /\ current[k] \in Event /\ current' = [current EXCEPT ![k] = None]
          /\ UNCHANGED <<call, async, asyncDispatchCount, eventChan>>
      BY <2>2, ZenonT(60) DEF HandledAll, asyncVars, InHands, TypeOK
    <3>2. \A d \in Event : outcome'[d] = IF d = current[k] THEN "handled" ELSE outcome[d]
      BY <2>2, <3>1 DEF HandledAll, TypeOK
    <3>3. InLoop(current[k])
      BY DEF InLoop
    <3>4. LoopOnce' /\ \A d \in Event : InLoop(d)' <=> InLoop(d) /\ d # current[k]
      BY <3>1, LoopFinishes, ZenonT(60) DEF PlaceInv
    <3>5. \A d \in Event : OnePlace(d)'
      BY <3>1, <3>2, <3>3, <3>4, Stay, ZenonT(60) DEF PlaceInv, OnePlace
    <3> QED BY <3>1, <3>4, <3>5, Stay, ZenonT(60) DEF PlaceInv
  <2>3. CASE (\E h \in HandlerID : HandlerReturn(k, h)) \/ LoopStop(k) \/ LoopDone(k)
    BY <1>1, <2>3, ZenonT(60) DEF HandlerReturn, LoopStop, LoopDone, asyncVars, history
  <2> QED BY <1>6, <2>1, <2>2, <2>3, ZenonT(60) DEF LoopStep
<1>7. CASE ControlStep
  BY <1>1, <1>7 DEF ControlStep, Start, SetRunning, Stop, StopReturn, handleVars, asyncVars, history
<1>8. ASSUME NEW h \in HandlerID, NEW t \in EventType,
             RegisterEventHandler(h, t) \/ UnregisterEventHandler(h, t)
      PROVE  PlaceInv'
  BY <1>1, <1>8 DEF RegisterEventHandler, UnregisterEventHandler, asyncVars, history
<1>9. CASE UNCHANGED vars
  BY <1>1, <1>9 DEF vars, handleVars, asyncVars, history
<1> QED
  BY <1>2, <1>3, <1>4, <1>5, <1>6, <1>7, <1>8, <1>9 DEF Next, CallerStep

(* The four parts together are inductive. *)
LEMMA PlaceInvariant == Spec => [](TypeOK /\ InHands /\ LoopInv /\ PlaceInv)
<1>1. TypeOK /\ InHands /\ LoopInv /\ PlaceInv /\ [Next]_vars => PlaceInv'
  BY StepPlace
<1> QED BY <1>1, InitPlace, DispatcherInvariant, PTL DEF Spec

(* No event is lost or delivered twice on its way through dispatch,         *)
(* asyncDispatch, the channel and the event loop, and asyncDispatchCount is *)
(* the number of async senders, for any callers, capacity and limit.        *)
THEOREM NothingLostOrDoubled == Spec => []EventsConserved
<1>1. PlaceInv => EventsConserved
  BY DEF PlaceInv, OnePlace, CallOnce, ChanOnce, LoopOnce, Counted, AsyncSenders, EventsConserved
<1> QED BY <1>1, PlaceInvariant, PTL

(* At most one loop has an event in hand. *)
LEMMA HandIs ==
  ASSUME TypeOK, InHands, LoopInv
  PROVE  /\ \A k \in Loop : current[k] # None => InHand = current[k]
         /\ (\A k \in Loop : current[k] = None) => InHand = None
<1>1. \A k, m \in Loop : current[k] # None /\ current[m] # None => k = m
  BY DEF InHands, LoopInv, Active
<1>2. (\A k \in Loop : current[k] = None) => InHand = None
  BY DEF InHand
<1>3. ASSUME NEW k \in Loop, current[k] # None PROVE InHand = current[k]
  <2>1. (CHOOSE m \in Loop : current[m] # None) = k
    BY <1>1, <1>3
  <2> QED BY <1>3, <2>1, ZenonT(60) DEF InHand
<1> QED BY <1>2, <1>3

(* The event in hand is read off the loops. *)
LEMMA HandStays == UNCHANGED current => UNCHANGED InHand
BY DEF InHand

(* The dispatcher implements the event bus: each of its steps accepts,      *)
(* refuses, takes, loses or finishes an event, or is invisible to users.    *)
THEOREM DispatcherIsBus == Spec => ImplementsEventBus
<1>1. Init => Bus!Init
  <2> SUFFICES ASSUME Init PROVE Bus!Init
    OBVIOUS
  <2>1. \A k \in Loop : current[k] = None
    BY DEF Init
  <2>2. InHand = None
    BY <2>1, ZenonT(60) DEF InHand
  <2> QED BY <2>2 DEF Init, Bus!Init
<1> DEFINE Inv == TypeOK /\ InHands /\ LoopInv /\ PlaceInv
<1>2. Inv /\ Inv' /\ [Next]_vars => [Bus!Next]_(Bus!busVars)
  <2> SUFFICES ASSUME Inv, Inv', [Next]_vars PROVE [Bus!Next]_(Bus!busVars)
    OBVIOUS
  <2> USE DispatcherAssumption
  <2>1. ASSUME UNCHANGED <<current, outcome>> PROVE [Bus!Next]_(Bus!busVars)
    BY <2>1, HandStays DEF Bus!busVars
  <2>2. ASSUME NEW c \in Caller, NEW e \in Event, Dispatch(c, e) PROVE Bus!Next
    <3>1. UNCHANGED InHand /\ outcome[e] = "new"
      BY <2>2, HandStays, ZenonT(60) DEF Dispatch, handleVars
    <3>2. Bus!Accept(e) \/ Bus!Refuse(e)
      BY <2>2, <3>1 DEF Dispatch, Bus!Accept, Bus!Refuse
    <3> QED BY <3>2 DEF Bus!Next
  <2>3. ASSUME NEW e \in Event, InAsync(e), AsyncReturn(e, "dropped"), UNCHANGED current
        PROVE  Bus!Next
    <3>1. UNCHANGED InHand
      BY <2>3, HandStays, ZenonT(60)
    <3>2. outcome[e] = "open" /\ ~InLoop(e)
      BY <2>3, ZenonT(60) DEF PlaceInv, OnePlace
    <3>3. InHand # e
      <4>1. CASE \A k \in Loop : current[k] = None
        BY <4>1, HandIs
      <4>2. ASSUME NEW k \in Loop, current[k] # None PROVE InHand # e
        BY <3>2, <4>2, HandIs DEF InLoop
      <4> QED BY <4>1, <4>2
    <3>4. Bus!Lose(e)
      BY <2>3, <3>1, <3>2, <3>3 DEF AsyncReturn, Bus!Lose
    <3> QED BY <3>4 DEF Bus!Next
  <2>4. ASSUME NEW e \in Event, AsyncStep(e) PROVE [Bus!Next]_(Bus!busVars)
    <3>1. UNCHANGED current /\ InAsync(e)
      BY <2>4 DEF AsyncStep, AsyncCheck, AsyncStop, AsyncSend, AsyncTick, handleVars, InAsync
    <3>2. CASE AsyncSend(e)
      <4>1. outcome[e] = "open"
        BY <3>1, ZenonT(60) DEF PlaceInv, OnePlace
      <4>2. UNCHANGED outcome
        BY <3>2, <4>1 DEF AsyncSend, AsyncReturn, TypeOK
      <4> QED BY <2>1, <3>1, <4>2, ZenonT(60)
    <3>3. CASE AsyncCheck(e) \/ AsyncStop(e) \/ AsyncTick(e)
      <4>1. AsyncReturn(e, "dropped") \/ UNCHANGED outcome
        BY <3>3, ZenonT(60) DEF AsyncCheck, AsyncStop, AsyncTick
      <4> QED BY <2>1, <2>3, <3>1, <4>1, ZenonT(60)
    <3> QED BY <2>4, <3>2, <3>3, ZenonT(60) DEF AsyncStep
  <2>5. ASSUME NEW k \in Loop, Receive(k) PROVE Bus!Next
    <3> DEFINE e == Head(eventChan)
    <3>1. e \in Event /\ InChan(e)
      BY <2>5, ChanReceived, ZenonT(60) DEF Receive, PlaceInv
    <3>2. \A m \in Loop : current[m] = None
      BY <2>5, ZenonT(60) DEF Receive, InHands, LoopInv, Active
    <3>3. current'[k] = e /\ UNCHANGED outcome
      BY <2>5 DEF Receive, TypeOK, history
    <3>4. InHand = None
      BY <3>2, HandIs
    <3>5. InHand' = e
      <4>1. (TypeOK /\ InHands /\ LoopInv)'
        OBVIOUS
      <4>2. \A m \in Loop : current'[m] # None => m = k
        BY <2>5, <3>2, ZenonT(60) DEF Receive, TypeOK
      <4>3. (CHOOSE m \in Loop : current'[m] # None) = k
        BY <3>1, <3>3, <4>2
      <4> QED BY <3>1, <3>3, <4>3, ZenonT(60) DEF InHand
    <3>6. outcome[e] = "open"
      BY <3>1, ZenonT(60) DEF PlaceInv, OnePlace
    <3>7. Bus!Take(e)
      BY <3>3, <3>4, <3>5, <3>6 DEF Bus!Take
    <3> QED BY <3>1, <3>7 DEF Bus!Next
  <2>6. ASSUME NEW k \in Loop, HandledAll(k) PROVE Bus!Next
    <3>1. current[k] # None /\ outcome' = [outcome EXCEPT ![current[k]] = "handled"]
      BY <2>6 DEF HandledAll, InHands
    <3>2. InHand = current[k]
      BY <3>1, HandIs, ZenonT(60)
    <3>3. \A m \in Loop : current'[m] = None
      <4>1. \A m \in Loop : current[m] # None => m = k
        BY <3>1, ZenonT(60) DEF InHands, LoopInv, Active
      <4>2. current' = [current EXCEPT ![k] = None] /\ current \in [Loop -> Event \cup {None}]
        BY <2>6, ZenonT(60) DEF HandledAll, TypeOK
      <4> QED BY <4>1, <4>2, ZenonT(60)
    <3>4. InHand' = None
      BY <3>3 DEF InHand
    <3>5. Bus!Finish
      BY <3>1, <3>2, <3>4 DEF Bus!Finish
    <3> QED BY <3>5, ZenonT(60) DEF Bus!Next
  <2>7. ASSUME NEW c \in Caller, CallerStep(c) PROVE UNCHANGED <<current, outcome>>
    BY <2>7 DEF CallerStep, TrySend, asyncDispatch, handleVars, history
  <2>8. ASSUME NEW k \in Loop, (\E h \in HandlerID : HandlerReturn(k, h)) \/ LoopStop(k) \/ LoopDone(k)
        PROVE  UNCHANGED <<current, outcome>>
    BY <2>8 DEF HandlerReturn, LoopStop, LoopDone, history
  <2>9. ControlStep => UNCHANGED <<current, outcome>>
    BY DEF ControlStep, Start, SetRunning, Stop, StopReturn, handleVars, history
  <2>10. ASSUME NEW h \in HandlerID, NEW t \in EventType,
                RegisterEventHandler(h, t) \/ UnregisterEventHandler(h, t)
         PROVE  UNCHANGED <<current, outcome>>
    BY <2>10 DEF RegisterEventHandler, UnregisterEventHandler, history
  <2>11. UNCHANGED vars => UNCHANGED <<current, outcome>>
    BY DEF vars, handleVars, history
  <2> QED
    BY <2>1, <2>2, <2>4, <2>5, <2>6, <2>7, <2>8, <2>9, <2>10, <2>11, ZenonT(60) DEF Next, LoopStep
<1> QED
  BY <1>1, <1>2, PlaceInvariant, PTL DEF Spec, ImplementsEventBus, Bus!Spec
-----------------------------------------------------------------------------
(* The line every event passes: handled, in the hand of the loop, in the    *)
(* channel.  Ahead(d, e): d is further on it than e.                        *)
In(s, e) == \E i \in DOMAIN s : s[i] = e
Ahead(d, e) ==
  \/ Before(handled, d, e)
  \/ In(handled, d) /\ (InLoop(e) \/ InChan(e))
  \/ InLoop(d) /\ InChan(e)
  \/ Before(eventChan, d, e)

(* DirectInOrder, made inductive: no event of a caller that was sent        *)
(* directly is ahead of an earlier one of the same caller.  The event that  *)
(* a caller is dispatching is the last it sent, and nobody else sent it.    *)
LastSent ==
  /\ \A c \in Caller, e \in Event : In(sent[c], e) => outcome[e] # "new"
  /\ \A b, c \in Caller : call[b] # None /\ In(sent[c], call[b]) => b = c
  /\ \A c \in Caller, d \in Event : call[c] # None => ~Before(sent[c], call[c], d)
OnLine ==
  /\ \A e \in direct : outcome[e] # "new" /\ ~InCall(e) /\ ~InAsync(e)
  /\ \A e \in Event : In(handled, e) => outcome[e] = "handled"
Ordered == \A c \in Caller : \A d, e \in direct : Before(sent[c], d, e) => ~Ahead(e, d)
OrderInv == LastSent /\ OnLine /\ Ordered

(* What sending and receiving does to the order of a sequence.              *)
LEMMA OrderAppend ==
  ASSUME NEW s \in Seq(Event), NEW x \in Event
  PROVE  /\ \A e : In(Append(s, x), e) <=> In(s, e) \/ e = x
         /\ \A d, e : Before(Append(s, x), d, e) <=> Before(s, d, e) \/ (In(s, d) /\ e = x)
<1> DEFINE t == Append(s, x)
<1>1. /\ Len(s) \in Nat /\ DOMAIN s = 1 .. Len(s) /\ DOMAIN t = 1 .. Len(s) + 1
      /\ t[Len(s) + 1] = x /\ \A i \in 1 .. Len(s) : t[i] = s[i]
  OBVIOUS
<1> HIDE DEF t
<1>2. \A e : In(t, e) <=> In(s, e) \/ e = x
  BY <1>1 DEF In
<1>3. ASSUME NEW d, NEW e, Before(t, d, e) PROVE Before(s, d, e) \/ (In(s, d) /\ e = x)
  <2>1. PICK i \in DOMAIN t, j \in DOMAIN t : i < j /\ t[i] = d /\ t[j] = e
    BY <1>3 DEF Before
  <2>2. i \in DOMAIN s /\ s[i] = d
    BY <1>1, <2>1
  <2>3. CASE j = Len(s) + 1
    BY <1>1, <2>1, <2>2, <2>3 DEF In
  <2>4. CASE j # Len(s) + 1
    <3>1. j \in DOMAIN s /\ s[j] = e
      BY <1>1, <2>1, <2>4
    <3> QED BY <2>1, <2>2, <3>1 DEF Before
  <2> QED BY <2>3, <2>4
<1>4. ASSUME NEW d, NEW e, Before(s, d, e) PROVE Before(t, d, e)
  <2>1. PICK i \in DOMAIN s, j \in DOMAIN s : i < j /\ s[i] = d /\ s[j] = e
    BY <1>4 DEF Before
  <2>2. i \in DOMAIN t /\ j \in DOMAIN t /\ t[i] = d /\ t[j] = e
    BY <1>1, <2>1
  <2> QED BY <2>1, <2>2 DEF Before
<1>5. ASSUME NEW d, In(s, d) PROVE Before(t, d, x)
  <2>1. PICK i \in DOMAIN s : s[i] = d
    BY <1>5 DEF In
  <2>2. i \in DOMAIN t /\ t[i] = d /\ Len(s) + 1 \in DOMAIN t /\ i < Len(s) + 1
    BY <1>1, <2>1
  <2> QED BY <1>1, <2>2 DEF Before
<1> QED BY <1>2, <1>3, <1>4, <1>5 DEF t

LEMMA OrderTail ==
  ASSUME NEW s \in Seq(Event), s # << >>
  PROVE  /\ In(s, Head(s))
         /\ \A e : In(Tail(s), e) => In(s, e) /\ Before(s, Head(s), e)
         /\ \A d, e : Before(Tail(s), d, e) => Before(s, d, e)
<1> DEFINE t == Tail(s)
<1>1. /\ Len(s) \in Nat /\ DOMAIN s = 1 .. Len(s) /\ DOMAIN t = 1 .. Len(s) - 1
      /\ 1 \in DOMAIN s /\ s[1] = Head(s) /\ \A i \in DOMAIN t : t[i] = s[i + 1]
  OBVIOUS
<1> HIDE DEF t
<1>2. ASSUME NEW e, In(t, e) PROVE In(s, e) /\ Before(s, Head(s), e)
  <2>1. PICK i \in DOMAIN t : t[i] = e
    BY <1>2 DEF In
  <2>2. i + 1 \in DOMAIN s /\ s[i + 1] = e /\ 1 < i + 1
    BY <1>1, <2>1
  <2> QED BY <1>1, <2>2 DEF In, Before
<1>3. ASSUME NEW d, NEW e, Before(t, d, e) PROVE Before(s, d, e)
  <2>1. PICK i \in DOMAIN t, j \in DOMAIN t : i < j /\ t[i] = d /\ t[j] = e
    BY <1>3 DEF Before
  <2>2. i + 1 \in DOMAIN s /\ j + 1 \in DOMAIN s /\ i + 1 < j + 1 /\ s[i + 1] = d /\ s[j + 1] = e
    BY <1>1, <2>1
  <2> QED BY <2>2 DEF Before
<1>4. In(s, Head(s))
  BY <1>1 DEF In
<1> QED BY <1>2, <1>3, <1>4 DEF t

LEMMA OrderIn ==
  /\ \A s, d, e : Before(s, d, e) => In(s, d) /\ In(s, e)
  /\ \A e : InChan(e) <=> In(eventChan, e)
BY DEF Before, In, InChan

(* A step of the dispatcher that sends nothing new directly and lets no     *)
(* event overtake one that was.                                             *)
LEMMA OrderMoved ==
  ASSUME OrderInv, UNCHANGED <<sent, direct>>,
         \A c \in Caller : call'[c] \in {call[c], None},
         \A e \in direct : ~InCall(e)' /\ ~InAsync(e)',
         \A e \in Event : outcome[e] # "new" => outcome'[e] # "new",
         \A e \in Event : In(handled', e) => outcome'[e] = "handled",
         \A d, e \in Event : Ahead(d, e)' => Ahead(d, e) \/ e \notin direct,
         direct \subseteq Event
  PROVE  OrderInv'
<1>1. LastSent'
  BY DEF OrderInv, LastSent
<1>2. OnLine'
  BY DEF OrderInv, OnLine
<1>3. Ordered'
  BY DEF OrderInv, Ordered
<1> QED BY <1>1, <1>2, <1>3 DEF OrderInv

(* Dispatch: the new event comes last, and is not on the line yet.          *)
LEMMA DispatchOrder ==
  ASSUME TypeOK, PlaceInv, OrderInv, NEW c \in Caller, NEW e \in Event, Dispatch(c, e)
  PROVE  OrderInv'
<1>1. /\ call[c] = None /\ outcome[e] = "new" /\ OnePlace(e) /\ sent' = [sent EXCEPT ![c] = Append(@, e)]
      /\ UNCHANGED <<eventChan, current, async, handled, direct>> /\ sent \in [Caller -> Seq(Event)]
      /\ direct \subseteq Event /\ call \in [Caller -> Event \cup {None}] /\ outcome \in [Event -> {"new", "open", "handled", "dropped"}]
  BY ZenonT(60) DEF Dispatch, MayDispatch, PlaceInv, handleVars, asyncVars, TypeOK
<1>2. ~InCall(e) /\ \A b \in Caller : call'[b] = call[b] \/ (b = c /\ call'[b] = e)
  BY <1>1, ZenonT(60) DEF Dispatch, OnePlace
<1>3. /\ \A d \in Event : d # e => outcome'[d] = outcome[d]
      /\ outcome'[e] # "new"
  BY <1>1 DEF Dispatch
<1>4. sent[c] \in Seq(Event) /\ sent'[c] = Append(sent[c], e) /\ \A b \in Caller : b # c => sent'[b] = sent[b]
  BY <1>1
<1>5. /\ \A b \in Caller, d \in Event : In(sent'[b], d) => In(sent[b], d) \/ (b = c /\ d = e)
      /\ \A b \in Caller, d, f \in Event : Before(sent'[b], d, f) => Before(sent[b], d, f) \/ (b = c /\ In(sent[b], d) /\ f = e)
  <2>1. /\ \A d : In(sent'[c], d) <=> In(sent[c], d) \/ d = e
        /\ \A d, f : Before(sent'[c], d, f) <=> Before(sent[c], d, f) \/ (In(sent[c], d) /\ f = e)
    <3>1. /\ \A d : In(Append(sent[c], e), d) <=> In(sent[c], d) \/ d = e
          /\ \A d, f : Before(Append(sent[c], e), d, f) <=> Before(sent[c], d, f) \/ (In(sent[c], d) /\ f = e)
      BY <1>4, OrderAppend, ZenonT(60)
    <3>2. sent'[c] = Append(sent[c], e)
      BY <1>4
    <3> QED BY <3>1, <3>2, ZenonT(60)
  <2>2. ASSUME NEW b \in Caller, b # c
        PROVE  (\A d : In(sent'[b], d) <=> In(sent[b], d)) /\ (\A d, f : Before(sent'[b], d, f) <=> Before(sent[b], d, f))
    BY <1>4, <2>2
  <2> QED BY <2>1, <2>2
<1>6. \A b \in Caller : ~In(sent[b], e)
  BY <1>1 DEF OrderInv, LastSent
<1>7. e \notin direct /\ ~In(handled, e)
  BY <1>1 DEF OrderInv, OnLine
<1>8. LastSent'
  <2>1. \A b \in Caller, d \in Event : In(sent'[b], d) => outcome'[d] # "new"
    BY <1>3, <1>5 DEF OrderInv, LastSent
  <2>2. ASSUME NEW a \in Caller, NEW b \in Caller, call'[a] # None, In(sent'[b], call'[a]) PROVE a = b
    <3>1. CASE call'[a] = call[a]
      <4>1. call[a] \in Event /\ call[a] # e /\ In(sent[b], call[a])
        BY <1>1, <1>2, <1>5, <2>2, <3>1 DEF InCall
      <4> QED BY <2>2, <3>1, <4>1 DEF OrderInv, LastSent
    <3>2. CASE a = c /\ call'[a] = e
      BY <1>5, <1>6, <2>2, <3>2
    <3> QED BY <1>2, <3>1, <3>2
  <2>3. ASSUME NEW b \in Caller, NEW d \in Event, call'[b] # None, Before(sent'[b], call'[b], d) PROVE FALSE
    <3>1. CASE b = c
      <4>1. call'[b] = e
        BY <1>1, <1>2, <2>3, <3>1
      <4>2. Before(sent[b], e, d) \/ In(sent[b], e)
        BY <1>5, <2>3, <4>1
      <4> QED BY <1>6, <4>2, OrderIn
    <3>2. CASE b # c
      BY <1>2, <1>4, <2>3, <3>2 DEF OrderInv, LastSent
    <3> QED BY <3>1, <3>2
  <2> QED BY <2>1, <2>2, <2>3 DEF LastSent
<1>9. \A d, f \in Event : Ahead(d, f)' <=> Ahead(d, f)
  BY <1>1, Stay DEF Ahead
<1>10. Ordered'
  BY <1>1, <1>5, <1>7, <1>9 DEF OrderInv, Ordered
<1>11. OnLine'
  <2>1. \A d \in direct : InCall(d)' => InCall(d)
    BY <1>2, <1>7 DEF InCall
  <2>2. \A d \in direct : InAsync(d)' <=> InAsync(d)
    BY <1>1 DEF InAsync
  <2> QED BY <1>1, <1>3, <1>7, <2>1, <2>2 DEF OrderInv, OnLine
<1> QED BY <1>8, <1>10, <1>11 DEF OrderInv

(* dispatch sends: the event joins the end of the line, and no later event  *)
(* of its caller is on it.                                                  *)
LEMMA SendOrder ==
  ASSUME TypeOK, PlaceInv, OrderInv, NEW c \in Caller, TrySend(c)
  PROVE  OrderInv'
<1>0. direct \subseteq Event /\ eventChan \in Seq(Event) /\ call \in [Caller -> Event \cup {None}]
  BY DEF TypeOK
<1>1. CASE ~Room
  <2>1. UNCHANGED <<sent, direct, call, async, outcome, handled, eventChan, current>>
    BY <1>1 DEF TrySend, handleVars, asyncVars
  <2>2. \A d, e \in Event : Ahead(d, e)' <=> Ahead(d, e)
    BY <2>1, Stay DEF Ahead
  <2>3. \A e \in direct : ~InCall(e)' /\ ~InAsync(e)'
    BY <2>1 DEF OrderInv, OnLine, InCall, InAsync
  <2> QED BY <1>0, <2>1, <2>2, <2>3, OrderMoved DEF OrderInv, OnLine
<1>2. CASE Room
  <2>1. /\ call[c] \in Event /\ call' = [call EXCEPT ![c] = None]
        /\ eventChan' = Append(eventChan, call[c]) /\ direct' = direct \cup {call[c]}
        /\ UNCHANGED <<sent, current, async, outcome, handled>>
    BY <1>2 DEF TrySend, TypeOK, handleVars, asyncVars
  <2>2. PICK x \in Event : x = call[c]
    BY <2>1
  <2>3. InCall(x) /\ ~InChan(x) /\ ~InLoop(x) /\ ~InAsync(x) /\ outcome[x] = "open"
    BY <2>2 DEF PlaceInv, OnePlace, InCall
  <2>4. ~In(handled, x) /\ x \notin direct
    BY <2>3 DEF OrderInv, OnLine
  <2>5. \A e \in Event : InCall(e)' <=> InCall(e) /\ e # x
    BY <2>1, <2>2, CallTaken, ZenonT(60) DEF PlaceInv
  <2>6. /\ \A e : In(eventChan', e) <=> In(eventChan, e) \/ e = x
        /\ \A d, e : Before(eventChan', d, e) <=> Before(eventChan, d, e) \/ (In(eventChan, d) /\ e = x)
    BY <1>0, <2>1, <2>2, OrderAppend, ZenonT(60)
  <2>7. \A e \in Event : InChan(e)' <=> InChan(e) \/ e = x
    BY <2>6 DEF InChan, In
  <2>8. \A d, e \in Event : Ahead(d, e)' => Ahead(d, e) \/ (e = x /\ d # x)
    <3> TAKE d \in Event, e \in Event
    <3>1. CASE Before(handled, d, e)
      BY <3>1 DEF Ahead
    <3>2. CASE In(handled, d) /\ (InLoop(e) \/ InChan(e)')
      BY <2>4, <2>7, <3>2 DEF Ahead
    <3>3. CASE InLoop(d) /\ InChan(e)'
      BY <2>3, <2>7, <3>3 DEF Ahead
    <3>4. CASE Before(eventChan', d, e)
      <4>1. Before(eventChan, d, e) \/ (In(eventChan, d) /\ e = x)
        BY <2>6, <3>4
      <4>2. ~In(eventChan, x)
        BY <2>3, OrderIn
      <4> QED BY <4>1, <4>2 DEF Ahead
    <3>5. InLoop(d)' = InLoop(d) /\ InLoop(e)' = InLoop(e) /\ In(handled', d) = In(handled, d)
      BY <2>1 DEF InLoop
    <3> QED BY <2>1, <3>1, <3>2, <3>3, <3>4, <3>5 DEF Ahead
  <2>9. \A b \in Caller : \A e \in Event : ~Before(sent[b], x, e)
    <3> TAKE b \in Caller
    <3>1. CASE b = c
      BY <2>1, <2>2, <3>1, DispatcherAssumption DEF OrderInv, LastSent
    <3>2. CASE b # c
      BY <2>1, <2>2, <3>2, OrderIn, DispatcherAssumption DEF OrderInv, LastSent
    <3> QED BY <3>1, <3>2
  <2>10. \A e \in Event : ~Ahead(x, e)
    BY <2>3, <2>4, OrderIn DEF Ahead
  <2>11. Ordered'
    <3> SUFFICES ASSUME NEW b \in Caller, NEW d \in direct', NEW e \in direct', Before(sent[b], d, e), Ahead(e, d)' PROVE FALSE
      BY <2>1 DEF Ordered
    <3>1. d \in Event /\ e \in Event /\ d # x
      BY <1>0, <2>1, <2>2, <2>9
    <3>2. Ahead(e, d)
      BY <2>8, <3>1
    <3>3. d \in direct /\ e \in direct
      BY <2>1, <2>2, <2>10, <3>1, <3>2
    <3> QED BY <3>2, <3>3 DEF OrderInv, Ordered
  <2>12. OnLine'
    <3>1. \A e \in Event : InAsync(e)' <=> InAsync(e)
      BY <2>1 DEF InAsync
    <3> QED BY <1>0, <2>1, <2>2, <2>3, <2>5, <3>1 DEF OrderInv, OnLine
  <2>13. LastSent'
    <3>1. \A b \in Caller : call'[b] \in {call[b], None}
      BY <1>0, <2>1
    <3> QED BY <2>1, <3>1 DEF OrderInv, LastSent
  <2> QED BY <2>11, <2>12, <2>13 DEF OrderInv
<1> QED BY <1>1, <1>2

(* asyncDispatch takes the event over; it will not be a direct one.         *)
LEMMA AsyncDispatchOrder ==
  ASSUME TypeOK, InHands, PlaceInv, OrderInv, NEW c \in Caller, asyncDispatch(c)
  PROVE  OrderInv'
<1>0. direct \subseteq Event /\ UNCHANGED <<sent, direct, outcome, handled, eventChan, current>>
  BY DEF TypeOK, asyncDispatch, handleVars, history
<1>1. \A d, e \in Event : Ahead(d, e)' <=> Ahead(d, e)
  BY <1>0, Stay DEF Ahead
<1>2. CASE OverLimit(asyncDispatchCount + 1)
  <2>1. UNCHANGED <<call, async>>
    BY <1>2, ZenonT(60) DEF asyncDispatch, asyncVars
  <2>2. \A e \in direct : ~InCall(e)' /\ ~InAsync(e)'
    BY <2>1 DEF OrderInv, OnLine, InCall, InAsync
  <2> QED BY <1>0, <1>1, <2>1, <2>2, OrderMoved DEF OrderInv, OnLine
<1>3. CASE ~OverLimit(asyncDispatchCount + 1)
  <2>1. /\ call[c] \in Event /\ call' = [call EXCEPT ![c] = None]
        /\ async' = [async EXCEPT ![call[c]] = "check"]
        /\ async \in [Event -> {"none", "check", "select"}] /\ call \in [Caller -> Event \cup {None}]
    BY <1>3, ZenonT(60) DEF asyncDispatch, TypeOK, InHands
  <2>2. InCall(call[c])
    BY DEF InCall
  <2>3. call[c] \notin direct
    BY <2>2 DEF OrderInv, OnLine
  <2>4. \A e \in direct : ~InAsync(e)'
    BY <1>0, <2>1, <2>3 DEF OrderInv, OnLine, InAsync
  <2>5. \A b \in Caller : call'[b] \in {call[b], None}
    BY <2>1
  <2>6. \A e \in direct : ~InCall(e)'
    BY <1>0, <2>5, DispatcherAssumption DEF OrderInv, OnLine, InCall
  <2> QED BY <1>0, <1>1, <2>4, <2>5, <2>6, OrderMoved DEF OrderInv, OnLine
<1> QED BY <1>2, <1>3

(* An async sender puts its event behind all others.                        *)
LEMMA AsyncOrder ==
  ASSUME TypeOK, PlaceInv, OrderInv, NEW e \in Event, AsyncStep(e)
  PROVE  OrderInv'
<1>1. /\ direct \subseteq Event /\ UNCHANGED <<sent, direct, call, handled, current>> /\ InAsync(e)
      /\ async \in [Event -> {"none", "check", "select"}] /\ outcome \in [Event -> {"new", "open", "handled", "dropped"}]
      /\ eventChan \in Seq(Event)
  BY DEF TypeOK, AsyncStep, AsyncCheck, AsyncStop, AsyncSend, AsyncTick, handleVars, InAsync
<1>2. e \notin direct /\ outcome[e] = "open" /\ ~InChan(e) /\ ~In(handled, e)
  BY <1>1 DEF OrderInv, OnLine, PlaceInv, OnePlace
<1>3. \A d \in Event : d # e => async'[d] = async[d] /\ outcome'[d] = outcome[d]
  BY <1>1 DEF AsyncStep, AsyncCheck, AsyncStop, AsyncSend, AsyncTick, AsyncReturn
<1>4. outcome'[e] \in {"open", "dropped"}
  BY <1>1, <1>2 DEF AsyncStep, AsyncCheck, AsyncStop, AsyncSend, AsyncTick, AsyncReturn
<1>5. \A d, f \in Event : Ahead(d, f)' => Ahead(d, f) \/ f \notin direct
  <2>1. CASE UNCHANGED eventChan
    BY <1>1, <2>1, Stay DEF Ahead
  <2>2. CASE eventChan' = Append(eventChan, e)
    <3>1. /\ \A d : In(eventChan', d) <=> In(eventChan, d) \/ d = e
          /\ \A d, f : Before(eventChan', d, f) <=> Before(eventChan, d, f) \/ (In(eventChan, d) /\ f = e)
      BY <1>1, <2>2, OrderAppend, ZenonT(60)
    <3>2. \A d \in Event : InChan(d)' <=> InChan(d) \/ d = e
      BY <3>1 DEF InChan, In
    <3>3. \A d \in Event : InLoop(d)' <=> InLoop(d)
      BY <1>1, Stay
    <3> QED BY <1>1, <1>2, <3>1, <3>2, <3>3 DEF Ahead
  <2> QED BY <2>1, <2>2 DEF AsyncStep, AsyncCheck, AsyncStop, AsyncSend, AsyncTick
<1>6. \A d \in direct : ~InCall(d)' /\ ~InAsync(d)'
  BY <1>1, <1>2, <1>3 DEF OrderInv, OnLine, InCall, InAsync
<1>7. \A d \in Event : In(handled', d) => outcome'[d] = "handled"
  BY <1>1, <1>2, <1>3 DEF OrderInv, OnLine
<1>8. \A d \in Event : outcome[d] # "new" => outcome'[d] # "new"
  BY <1>3, <1>4
<1> QED BY <1>1, <1>5, <1>6, <1>7, <1>8, OrderMoved

(* The loop moves the first of the line on.                                 *)
LEMMA LoopOrder ==
  ASSUME TypeOK, InHands, LoopInv, PlaceInv, OrderInv, NEW k \in Loop, LoopStep(k)
  PROVE  OrderInv'
<1>0. /\ direct \subseteq Event /\ UNCHANGED <<sent, direct, call, async>> /\ eventChan \in Seq(Event) /\ handled \in Seq(Event)
      /\ current \in [Loop -> Event \cup {None}] /\ outcome \in [Event -> {"new", "open", "handled", "dropped"}]
  BY DEF TypeOK, LoopStep, Receive, HandlerReturn, HandledAll, LoopStop, LoopDone, asyncVars, history
<1>1. \A e \in direct : ~InCall(e)' /\ ~InAsync(e)'
  BY <1>0 DEF OrderInv, OnLine, InCall, InAsync
<1>2. \A m \in Loop : current[m] # None /\ loop[k] \in {"select", "handling"} => m = k
  BY DEF InHands, LoopInv, Active
<1>3. CASE Receive(k)
  <2>1. /\ eventChan # <<>> /\ eventChan' = Tail(eventChan) /\ UNCHANGED <<handled, outcome>>
        /\ current' = [current EXCEPT ![k] = Head(eventChan)] /\ current[k] = None /\ loop[k] = "select"
    BY <1>3 DEF Receive, history, InHands
  <2>2. PICK h \in Event : h = Head(eventChan)
    BY <1>0, <2>1
  <2>3. \A d \in Event : ~InLoop(d) /\ (InLoop(d)' <=> d = h)
    BY <1>0, <1>2, <2>1, <2>2, DispatcherAssumption DEF InLoop
  <2>4. /\ InChan(h) /\ \A d : InChan(d)' => InChan(d) /\ Before(eventChan, h, d)
        /\ \A d, e : Before(eventChan', d, e) => Before(eventChan, d, e)
    BY <1>0, <2>1, <2>2, OrderTail DEF InChan, In
  <2>5. \A d, e \in Event : Ahead(d, e)' => Ahead(d, e)
    BY <2>1, <2>3, <2>4 DEF Ahead
  <2> QED BY <1>0, <1>1, <2>1, <2>5, OrderMoved DEF OrderInv, OnLine
<1>4. CASE HandledAll(k)
  <2>1. /\ current[k] \in Event /\ current' = [current EXCEPT ![k] = None] /\ loop[k] = "handling"
        /\ handled' = Append(handled, current[k]) /\ UNCHANGED eventChan
    BY <1>4, ZenonT(60) DEF HandledAll, InHands, TypeOK
  <2>2. PICK x \in Event : x = current[k]
    BY <2>1
  <2>3. \A d \in Event : outcome'[d] = IF d = x THEN "handled" ELSE outcome[d]
    BY <1>0, <1>4, <2>2 DEF HandledAll
  <2>4. \A d \in Event : (InLoop(d) <=> d = x) /\ ~InLoop(d)'
    BY <1>0, <1>2, <2>1, <2>2, DispatcherAssumption DEF InLoop
  <2>5. /\ \A d : In(handled', d) <=> In(handled, d) \/ d = x
        /\ \A d, e : Before(handled', d, e) <=> Before(handled, d, e) \/ (In(handled, d) /\ e = x)
    BY <1>0, <2>1, <2>2, OrderAppend, ZenonT(60)
  <2>6. \A d \in Event : InChan(d)' <=> InChan(d)
    BY <2>1, Stay
  <2>7. \A d, e \in Event : Ahead(d, e)' => Ahead(d, e)
    BY <2>1, <2>4, <2>5, <2>6 DEF Ahead
  <2>8. \A d \in Event : In(handled', d) => outcome'[d] = "handled"
    BY <2>3, <2>5 DEF OrderInv, OnLine
  <2> QED BY <1>0, <1>1, <2>3, <2>7, <2>8, OrderMoved
<1>5. CASE (\E h \in HandlerID : HandlerReturn(k, h)) \/ LoopStop(k) \/ LoopDone(k)
  <2>1. UNCHANGED <<current, eventChan, handled, outcome>>
    BY <1>5, ZenonT(60) DEF HandlerReturn, LoopStop, LoopDone, history
  <2>2. \A d, e \in Event : Ahead(d, e)' <=> Ahead(d, e)
    BY <2>1, Stay DEF Ahead
  <2> QED BY <1>0, <1>1, <2>1, <2>2, OrderMoved DEF OrderInv, OnLine
<1> QED BY <1>3, <1>4, <1>5, ZenonT(60) DEF LoopStep

LEMMA StepOrder ==
  ASSUME TypeOK, InHands, LoopInv, PlaceInv, OrderInv, [Next]_vars
  PROVE  OrderInv'
<1>1. ASSUME UNCHANGED <<call, eventChan, current, async, outcome, sent, handled, direct>> PROVE OrderInv'
  <2>1. \A d, e \in Event : Ahead(d, e)' <=> Ahead(d, e)
    BY <1>1, Stay DEF Ahead
  <2>2. \A e \in direct : ~InCall(e)' /\ ~InAsync(e)'
    BY <1>1 DEF OrderInv, OnLine, InCall, InAsync
  <2> QED BY <1>1, <2>1, <2>2, OrderMoved DEF OrderInv, OnLine, TypeOK
<1>2. CASE ControlStep
  BY <1>1, <1>2 DEF ControlStep, Start, SetRunning, Stop, StopReturn, handleVars, asyncVars, history
<1>3. ASSUME NEW h \in HandlerID, NEW t \in EventType,
             RegisterEventHandler(h, t) \/ UnregisterEventHandler(h, t)
      PROVE  OrderInv'
  BY <1>1, <1>3 DEF RegisterEventHandler, UnregisterEventHandler, asyncVars, history
<1>4. CASE UNCHANGED vars
  BY <1>1, <1>4 DEF vars, handleVars, asyncVars, history
<1> QED BY <1>2, <1>3, <1>4, DispatchOrder, SendOrder, AsyncDispatchOrder, AsyncOrder, LoopOrder, ZenonT(60) DEF Next, CallerStep

(* Events of one caller that dispatch put straight into the channel are     *)
(* handled in the order of the Dispatch calls (DirectInOrder), however many *)
(* callers and async senders interleave, and over any restart of the loop.  *)
THEOREM DirectAlwaysInOrder == Spec => []DirectInOrder
<1>1. OrderInv => DirectInOrder
  BY DEF OrderInv, Ordered, Ahead, DirectInOrder
<1>2. Init => OrderInv
  <2> SUFFICES ASSUME Init PROVE OrderInv
    OBVIOUS
  <2>1. /\ \A c \in Caller : call[c] = None /\ sent[c] = << >>
        /\ handled = << >> /\ direct = {}
    BY DEF Init
  <2>2. \A e : ~In(<< >>, e)
    BY DEF In
  <2> QED BY <2>1, <2>2 DEF OrderInv, LastSent, OnLine, Ordered
<1>3. TypeOK /\ InHands /\ LoopInv /\ PlaceInv /\ OrderInv /\ [Next]_vars => OrderInv'
  BY StepOrder
<1> QED BY <1>1, <1>2, <1>3, PlaceInvariant, PTL DEF Spec
=============================================================================
