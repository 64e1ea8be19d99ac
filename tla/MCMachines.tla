----------------------------- MODULE MCMachines ----------------------------
(* The machines of the shim and of the admission controller that share no  *)
(* state.  A behaviour is one of a single machine, chosen by the value of   *)
(* machine; the others stay in an initial state.                            *)
EXTENDS SchedulerCache, PodResources, WebhookManager, ConfigMaps, Admission

CONSTANTS p1, c1,   \* a pod with affinity terms, a claim the pods share
          u, d, k,  \* a user, a user who may name others, the controllers
          g, h,     \* policy groups
          Machine   \* the machines to check

VARIABLE machine

(* The scheduler cache: two pods that share a claim.                        *)
MCPodClaims == [p \in Pod |-> {c1}]
MCAffinityPods == [affinity |-> {p1}, reqAntiAffinity |-> {}]

(* Pods with up to two init containers and two containers.                  *)
Containers(sidecars) == {Container(q, s) : q \in Quantity, s \in sidecars}
MCPods ==
  [name : {"cpu", "gpu"}, init : BoundedSeq(Containers(BOOLEAN), 2),
   main : BoundedSeq(Containers({FALSE}), 2) \ {<< >>},
   level : {Absent, 2}, overhead : {0, 1}, infeasible : {FALSE}]
IdlePods == sized = (CHOOSE p \in Pods : TRUE) /\ started = 0 /\ resizes = 0

(* Config maps: switch reloads off, a malformed switch, another group,      *)
(* malformed queues, compressed queues that win and that do not decompress. *)
MCYamlKey(group) == IF group = g THEN "g.yaml" ELSE "h.yaml"
NoKeys == << >>
Plain(data) == [plain |-> data, gzip |-> NoKeys]
MCContent ==
  { Plain("hot" :> FALSE), Plain("hot" :> Bad), Plain("group" :> h @@ "h.yaml" :> "q2"),
    Plain("g.yaml" :> Bad), [plain |-> "g.yaml" :> "q1", gzip |-> "g.yaml" :> "q3"],
    [plain |-> "g.yaml" :> "q1", gzip |-> "g.yaml" :> Bad] }

(* Configurations that differ from the default one in a setting or two.     *)
Default ==
  [bypassAuth |-> FALSE, trustControllers |-> TRUE, systemUsers |-> {k}, external |-> {d},
   process |-> {}, bypass |-> {}, label |-> {}, noLabel |-> {}, uniqueAppIds |-> FALSE]
MCAmConf ==
  { Default, [Default EXCEPT !.bypassAuth = TRUE, !.process = {"here"}], [Default EXCEPT !.bypass = {"here"}],
    [Default EXCEPT !.trustControllers = FALSE, !.label = {"there"}],
    [Default EXCEPT !.noLabel = {"here"}, !.uniqueAppIds = TRUE] }
MCNsFlags ==
  { [enable |-> "unset", generate |-> "unset"], [enable |-> "true", generate |-> "false"],
    [enable |-> "false", generate |-> "true"] }

(* Objects with and without user info, application, queue and preemption.   *)
Object(a, l) == [annotations |-> a, labels |-> l]
MCSubmission ==
  { Object("other" :> "x", << >>), Object("other" :> "x" @@ "user" :> d, "app" :> "web" @@ "sparkAppId" :> "app3"),
    Object("user" :> Bad, "canonicalAppId" :> "app1"),
    Object("user" :> u @@ "preempt" :> "false" @@ "appId" :> "app1", "appId" :> ""),
    Object("preempt" :> "junk", "canonicalAppId" :> "app1" @@ "appId" :> "app2" @@
                                "canonicalQueue" :> "q" @@ "queue" :> "p"),
    Object("other" :> "x", "app" :> "yunikorn") }

IdleReviews ==
  /\ amConf = Default /\ ns = [enable |-> "unset", generate |-> "unset"] /\ nsCache = None
  /\ class = None /\ classCache = None /\ worldChanges = 0
  /\ req = None /\ template = None /\ replicaSets = {} /\ pod = None

MCInit ==
  /\ machine \in Machine /\ Init /\ InitWebhooks /\ InitMaps
  /\ IF machine = "sizes" THEN InitPods ELSE IdlePods
  /\ IF machine = "reviews" THEN InitReviews ELSE IdleReviews

MCNext ==
  /\ UNCHANGED machine
  /\ \/ machine = "cache" /\ Next /\ UNCHANGED <<rvars, wvars, cvars, avars>>
     \/ machine = "sizes" /\ NextPods /\ UNCHANGED <<vars, wvars, cvars, avars>>
     \/ machine = "webhooks" /\ NextWebhooks /\ UNCHANGED <<vars, rvars, cvars, avars>>
     \/ machine = "maps" /\ NextMaps /\ UNCHANGED <<vars, rvars, wvars, avars>>
     \/ machine = "reviews" /\ NextReviews /\ UNCHANGED <<vars, rvars, wvars, cvars>>

MCSpec == MCInit /\ [][MCNext]_<<vars, rvars, wvars, cvars, avars, machine>>

Symmetry == Permutations(Replica) \cup Permutations(Node)

(* The types of the machines.                                               *)
MachinesTyped == TypeOK /\ WebhooksTyped /\ MapsTyped /\ ReviewsTyped
=============================================================================
