---------------------------- MODULE MCApplication ----------------------------
(* Model-checking instances of Application. *)
EXTENDS Application, TLC

CONSTANT p1  \* a placeholder

Case(m, gang, hard, recovered, may) ==
  [minMember |-> m, gang |-> gang, hard |-> hard, recovered |-> recovered, may |-> may]

(* Soft, and only the creation of placeholders can fail; hard with every    *)
(* failure; restarted with a bound placeholder, one more than the task      *)
(* group needs, and disturbed by preemption and the API server, or by a     *)
(* user who deletes pods; soft, and a pod is resized at any point.          *)
AllConfigs ==
  {Case(2, TRUE, FALSE, {}, {"createError"}),
   Case(1, TRUE, FALSE, {p1}, {"createError", "preempt", "apiError"}),
   Case(1, TRUE, FALSE, {p1}, {"userDelete"}),
   Case(1, TRUE, FALSE, {}, {"resize"}),
   Case(1, TRUE, TRUE, {}, {"reject", "submitError", "createError", "elapsed", "apiError"})}
SoftConfigs == {Case(2, TRUE, FALSE, {}, {})}
RestartConfigs == {Case(2, TRUE, FALSE, Regular, {})}

PodSymmetry == Permutations(Regular) \cup Permutations(Placeholder)
=============================================================================
