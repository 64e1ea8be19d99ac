---------------------------- MODULE PodResources ----------------------------
(* common/resource.go: the size of a pod, which is what the shim asks the   *)
(* core for, against the kubelet that starts the containers of the pod and  *)
(* resizes them in place (KEP-1287).                                        *)
(*                                                                          *)
(* Add and updateMax work on each resource by itself, so the model has one  *)
(* resource at a time; an absent quantity is 0.                             *)
EXTENDS Integers, SequencesExt

CONSTANTS
  Pods,        \* the pods to look at
  Quantity,    \* the requests a container may be resized to
  Absent,      \* no such field in the pod
  MaxResizes   \* bound on resizes

VARIABLES
  sized,       \* the pod: [name, init, main, level, overhead, infeasible]
  started,     \* containers started so far, init containers first
  resizes

rvars == <<sized, started, resizes>>

(* A container as it is submitted: its request in the spec, and nothing yet *)
(* in AllocatedResources and Resources of its status.                       *)
Container(request, sidecar) ==
  [spec |-> request, allocated |-> 0, actual |-> Absent, sidecar |-> sidecar]
-----------------------------------------------------------------------------
UpdateMax(left, right) == IF right > left THEN right ELSE left

(* Mutant: the status of the container is not looked at.                    *)
SpecOnly(p, c) == c.spec

(* computeContainerResource: after a resize that is infeasible the current  *)
(* value counts, and otherwise the largest.                                 *)
ComputeContainerResource(p, c) ==
  IF p.infeasible /\ c.actual # Absent THEN c.actual
  ELSE UpdateMax(UpdateMax(c.spec, c.allocated), IF c.actual = Absent THEN 0 ELSE c.actual)

(* A round of the loop of checkInitContainerRequest.                        *)
InitContainer(p, acc, c) ==
  LET request == ComputeContainerResource(p, c) IN
  [initMax |-> UpdateMax(acc.initMax, request + acc.sidecars),
   sidecars |-> IF c.sidecar THEN acc.sidecars + request ELSE acc.sidecars]

(* The larger of what runs while the pod starts and of what runs then.      *)
CheckInitContainerRequest(p, containers) ==
  LET acc == FoldLeft(LAMBDA a, c : InitContainer(p, a, c), [initMax |-> 0, sidecars |-> 0], p.init)
  IN UpdateMax(containers + acc.sidecars, acc.initMax)

(* getPodLevelResource: the pod can have requests of its own for these.     *)
PodLevel(p) == p.level # Absent /\ p.name \in {"cpu", "memory"}

GetPodResource(p) ==
  LET containers == FoldLeft(LAMBDA sum, c : sum + ComputeContainerResource(p, c), 0, p.main)
  IN (IF PodLevel(p) THEN p.level ELSE CheckInitContainerRequest(p, containers)) + p.overhead
-----------------------------------------------------------------------------
(* External: the kubelet.  Init containers start one after the other, a     *)
(* sidecar keeps running, and then all containers run.                      *)
InitPods == sized \in Pods /\ started = 0 /\ resizes = 0

Update(p, i, c) ==
  IF i <= Len(p.init) THEN [p EXCEPT !.init[i] = c] ELSE [p EXCEPT !.main[i - Len(p.init)] = c]
All(p) == p.init \o p.main
Running(p, n) ==
  {i \in 1 .. n : i > Len(p.init) \/ p.init[i].sidecar \/ (i = n /\ n <= Len(p.init))}

StartContainer ==
  LET i == started + 1 IN
  /\ i <= Len(All(sized)) /\ started' = i
  /\ LET c == All(sized)[i]
     IN sized' = Update(sized, i, [c EXCEPT !.allocated = c.spec, !.actual = c.spec])
  /\ UNCHANGED resizes

(* A user asks for another request; the kubelet allocates what it can, or   *)
(* finds the request infeasible, and applies what it has allocated.         *)
Resize(i, q) ==
  /\ resizes < MaxResizes /\ resizes' = resizes + 1 /\ i \in Running(sized, started)
  /\ sized' = [Update(sized, i, [All(sized)[i] EXCEPT !.spec = q]) EXCEPT !.infeasible = FALSE]
  /\ UNCHANGED started
Decide(i) ==
  LET c == All(sized)[i] IN
  /\ i \in Running(sized, started) /\ c.spec # c.allocated /\ ~sized.infeasible
  /\ sized' \in {[sized EXCEPT !.infeasible = TRUE],
                 Update(sized, i, [c EXCEPT !.allocated = c.spec])}
  /\ UNCHANGED <<started, resizes>>
Actuate(i) ==
  LET c == All(sized)[i] IN
  /\ i \in Running(sized, started) /\ c.actual # c.allocated
  /\ sized' = Update(sized, i, [c EXCEPT !.actual = c.allocated])
  /\ UNCHANGED <<started, resizes>>

(* The pod runs on.                                                         *)
PodRuns == started = Len(All(sized)) /\ UNCHANGED rvars

NextPods ==
  \/ StartContainer \/ PodRuns
  \/ \E i \in 1 .. Len(All(sized)) : Decide(i) \/ Actuate(i) \/ \E q \in Quantity : Resize(i, q)
-----------------------------------------------------------------------------
Sum(S, f(_)) == FoldSet(LAMBDA i, sum : f(i) + sum, 0, S)
Usage(p, n) == Sum(Running(p, n), LAMBDA i : All(p)[i].actual) + p.overhead
Requested(p, n) == Sum(Running(p, n), LAMBDA i : All(p)[i].spec) + p.overhead

(* The size of a pod without requests of its own covers what its containers *)
(* use at any moment, also while resizes are under way or were refused.     *)
(* Without resizes it is no larger than that: the most that runs at a time, *)
(* in whatever order sidecars and other init containers come.               *)
SizeIsPeak ==
  ~PodLevel(sized) =>
    /\ Usage(sized, started) <= GetPodResource(sized)
    /\ resizes = 0 =>
         GetPodResource(sized) = Max({Requested(sized, n) : n \in 1 .. Len(All(sized))})
=============================================================================
