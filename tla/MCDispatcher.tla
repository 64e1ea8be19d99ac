----------------------------- MODULE MCDispatcher -----------------------------
(* Dispatcher with one sender besides the loop, events of one type, and a    *)
(* channel too small for all of them, so that the async path is taken.       *)
EXTENDS Dispatcher

MCTypeOf == [e \in Event |-> "task"]
=============================================================================
