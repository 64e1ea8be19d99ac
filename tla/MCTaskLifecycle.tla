--------------------------- MODULE MCTaskLifecycle ---------------------------
(* TaskLifecycle on two interchangeable nodes. *)
EXTENDS TaskLifecycle, TLC

Case(p, F) == [placeholder |-> p, faults |-> F]
NoFault == {Case(FALSE, {}), Case(TRUE, {})}
EveryFault == NoFault \cup {Case(FALSE, {"lostReply"}), Case(FALSE, {"assumeBound"}), Case(FALSE, {"resize"})}
NodeSymmetry == Permutations(Node)
=============================================================================
