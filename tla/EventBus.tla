------------------------------- MODULE EventBus -------------------------------
(***************************************************************************)
(* What the dispatcher promises to the goroutines that use it: an event is  *)
(* accepted or refused when it is dispatched, an accepted event is handled  *)
(* at most once or lost, events are handled one at a time, and an event     *)
(* that is being handled is not lost any more.  There is no promise about   *)
(* the order.                                                               *)
(***************************************************************************)
CONSTANTS Event, None

VARIABLES
  outcome,      \* "new", "open", "handled" or "dropped" per event
  inHand        \* the event being handled, None when there is none
busVars == <<outcome, inHand>>

Init ==
  /\ outcome = [e \in Event |-> "new"]
  /\ inHand = None

Accept(e) ==
  /\ outcome[e] = "new"
  /\ outcome' = [outcome EXCEPT ![e] = "open"]
  /\ UNCHANGED inHand
Refuse(e) ==
  /\ outcome[e] = "new"
  /\ outcome' = [outcome EXCEPT ![e] = "dropped"]
  /\ UNCHANGED inHand
Lose(e) ==
  /\ outcome[e] = "open" /\ inHand # e
  /\ outcome' = [outcome EXCEPT ![e] = "dropped"]
  /\ UNCHANGED inHand
Take(e) ==
  /\ outcome[e] = "open" /\ inHand = None
  /\ inHand' = e
  /\ UNCHANGED outcome
Finish ==
  /\ inHand # None
  /\ outcome' = [outcome EXCEPT ![inHand] = "handled"]
  /\ inHand' = None

Next == Finish \/ \E e \in Event : Accept(e) \/ Refuse(e) \/ Lose(e) \/ Take(e)
Spec == Init /\ [][Next]_busVars
=============================================================================
