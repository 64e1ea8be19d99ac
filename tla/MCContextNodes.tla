--------------------------- MODULE MCContextNodes ---------------------------
(* ContextNodes with every pod on the one node that changes most. *)
EXTENDS ContextNodes, TLC

MCNodeOf == [p \in Pod |-> CHOOSE n \in Node : TRUE]
PodSymmetry == Permutations(Pod)
=============================================================================
