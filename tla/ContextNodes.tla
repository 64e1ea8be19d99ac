---------------------------- MODULE ContextNodes ----------------------------
(***************************************************************************)
(* Nodes and foreign pods in pkg/cache/context.go: InitializeState, the     *)
(* registration of nodes with the core, the adoption of orphaned pods, and  *)
(* the accounting of pods that other schedulers placed.  Actors: the        *)
(* goroutine of InitializeState, the node informer, the pod informer, the   *)
(* dispatcher, and the core.  The scheduler cache is reduced to the placing *)
(* of foreign pods (SchedulerCache has all of it); pods of applications are *)
(* in TaskLifecycle.                                                        *)
(*                                                                         *)
(* ctx.lock is held by one actor; registerNodesInternal gives it up while   *)
(* it waits for the core's answer, and finalizeNodes never takes it.        *)
(***************************************************************************)
EXTENDS Integers, Sequences, FiniteSets, Functions

CONSTANTS
  Node, Pod,      \* nodes; foreign pods, which the API server shows once they are assigned
  NodeOf,         \* NodeOf[p]: the node pod p is assigned to
  Recreates,      \* may a node come back while finalizeNodes works through its list
  MaxChanges,     \* bound on changes of API objects and on rejections by the core
  None

ASSUME NodesAssumption ==
  /\ NodeOf \in [Pod -> Node] /\ Node \cap Pod = {}
  /\ None \notin Node \cup Pod \cup {"absent", "ready", "cordoned", "init", "node"}
  /\ IsFiniteSet(Node) /\ IsFiniteSet(Pod) /\ MaxChanges \in Nat /\ Recreates \in BOOLEAN

VARIABLES
  changes,              \* changes made so far
  apiNode,              \* API server: "absent", "ready" or "cordoned"
  apiPod,               \* API server: "none", "running", "terminated" or "gone"
  handlers,             \* informers that have an event handler
  nodeQueue, podQueue,  \* informer events: [node, obj], [pod, obj, update]
  lock,                 \* the actor that holds ctx.lock between two steps, None if it is free
  cacheNode, cachePod,  \* scheduler cache: node object or None; "none", "assigned" or "orphan"
  init, loaded, listed, \* InitializeState: next step, nodes and pods it found
  todo, going,          \* nodes or pods InitializeState still has to work through; the node it removes
  inf,                  \* node informer: [at, node, obj, adopted]
  pending, accepted,    \* the registration in progress: nodes without an answer, accepted nodes
  events,               \* dispatcher: [name, node]
  toCore,               \* requests to the core: [type, of]
  coreNode, coreAlloc   \* the core: "none", "draining" or "schedulable"; foreign pods it accounts

apiVars   == <<changes, apiNode, apiPod>>
cacheVars == <<cacheNode, cachePod>>
initVars  == <<init, loaded, listed, todo, going>>
regVars   == <<pending, accepted>>
coreVars  == <<coreNode, coreAlloc>>
queueVars == <<handlers, nodeQueue, podQueue>>
vars == <<apiVars, queueVars, lock, cacheVars, initVars, inf, regVars, events, toCore, coreVars>>

Idle == [at |-> "idle", node |-> None, obj |-> None, adopted |-> {}]
(* A set in some order (SetToSeq of SequencesExt, whose other definitions   *)
(* would burden every proof about this module).                             *)
ListOf(S) == CHOOSE f \in [1 .. Cardinality(S) -> S] : IsInjective(f)
Req(type, x) == [type |-> type, of |-> x]
Reqs(type, S) == [i \in 1 .. Cardinality(S) |-> Req(type, ListOf(S)[i])]
NodeEv(n, obj) == [node |-> n, obj |-> obj]
PodEv(p, obj, update) == [pod |-> p, obj |-> obj, update |-> update]
-----------------------------------------------------------------------------
(* Any cluster, with the shim about to initialize its state. *)
Init ==
  /\ changes = 0
  /\ apiNode \in [Node -> {"absent", "ready", "cordoned"}] /\ apiPod \in [Pod -> {"none", "running"}]
  /\ handlers = {} /\ nodeQueue = <<>> /\ podQueue = <<>>
  /\ lock = None
  /\ cacheNode = [n \in Node |-> None] /\ cachePod = [p \in Pod |-> "none"]
  /\ init = "load" /\ loaded = [n \in Node |-> "absent"] /\ listed = {} /\ todo = {} /\ going = None
  /\ inf = Idle /\ pending = {} /\ accepted = {}
  /\ events = <<>> /\ toCore = <<>>
  /\ coreNode = [n \in Node |-> "none"] /\ coreAlloc = {}

(* API server (external).  Heartbeats update the node object all the time.  *)
Change == changes < MaxChanges /\ changes' = changes + 1
NodeChanges(n, obj) ==
  /\ Change /\ apiNode[n] # obj
  /\ apiNode[n] = "absent" /\ init = "removeNodes" => Recreates
  /\ apiNode' = [apiNode EXCEPT ![n] = obj]
  /\ nodeQueue' = IF "node" \in handlers THEN Append(nodeQueue, NodeEv(n, obj)) ELSE nodeQueue
  /\ UNCHANGED <<apiPod, handlers, podQueue, lock, cacheVars, initVars, inf, regVars, events, toCore, coreVars>>
Heartbeat(n) ==
  /\ apiNode[n] # "absent" /\ "node" \in handlers /\ nodeQueue = <<>>
  /\ nodeQueue' = <<NodeEv(n, apiNode[n])>>
  /\ UNCHANGED <<apiVars, handlers, podQueue, lock, cacheVars, initVars, inf, regVars, events, toCore, coreVars>>
PodChanges(p, obj) ==
  /\ Change
  /\ <<apiPod[p], obj>> \in {<<"none", "running">>, <<"running", "running">>, <<"running", "terminated">>,
                             <<"running", "gone">>, <<"terminated", "gone">>}
  /\ apiPod' = [apiPod EXCEPT ![p] = obj]
  /\ podQueue' = IF "pod" \in handlers THEN Append(podQueue, PodEv(p, obj, apiPod[p] # "none")) ELSE podQueue
  /\ UNCHANGED <<apiNode, handlers, nodeQueue, lock, cacheVars, initVars, inf, regVars, events, toCore, coreVars>>
(* An application or task event; its handler needs ctx.lock. *)
OtherEvent ==
  /\ Change /\ "pod" \in handlers
  /\ events' = Append(events, [name |-> "Other", node |-> None])
  /\ UNCHANGED <<apiNode, apiPod, queueVars, lock, cacheVars, initVars, inf, regVars, toCore, coreVars>>
-----------------------------------------------------------------------------
(* The scheduler cache. *)
Orphans(n) == {p \in Pod : cachePod[p] = "orphan" /\ NodeOf[p] = n}
CacheUpdateNode(n, obj) ==
  /\ cacheNode' = [cacheNode EXCEPT ![n] = obj]
  /\ cachePod' = [p \in Pod |-> IF cacheNode[n] = None /\ p \in Orphans(n) THEN "assigned" ELSE cachePod[p]]
CacheRemoveNode(n) ==
  /\ cacheNode' = [cacheNode EXCEPT ![n] = None]
  /\ cachePod' = [p \in Pod |-> IF cachePod[p] = "assigned" /\ NodeOf[p] = n THEN "orphan" ELSE cachePod[p]]
CacheUpdatePod(p) == cachePod' = [cachePod EXCEPT ![p] = IF cacheNode[NodeOf[p]] = None THEN "orphan" ELSE "assigned"]
CacheRemovePod(p) == cachePod' = [cachePod EXCEPT ![p] = "none"]

(* updateForeignPod; known: is there an old version of the pod.  Resources  *)
(* do not change, so a known pod is not sent to the core again.             *)
updateForeignPod(p, obj, known) ==
  IF obj = "running"
  THEN /\ CacheUpdatePod(p)
       /\ toCore' = IF cacheNode[NodeOf[p]] # None /\ ~known THEN Append(toCore, Req("alloc", p)) ELSE toCore
  ELSE IF known /\ cachePod[p] # "orphan"
  THEN CacheRemovePod(p) /\ toCore' = Append(toCore, Req("release", p))
  ELSE UNCHANGED <<cachePod, toCore>>
deleteForeignPod(p) == CacheRemovePod(p) /\ toCore' = Append(toCore, Req("release", p))

(* registerNodesInternal up to wg.Wait(): the handler is registered, the    *)
(* nodes are sent, ctx.lock is released.                                    *)
KeepsLock(who) == lock' = who
ReleasesLock(who) == lock' = None
registerNodes(who, S, sent) ==
  /\ pending' = S /\ accepted' = {}
  /\ toCore' = sent \o Reqs("create", S)
  /\ ReleasesLock(who)
-----------------------------------------------------------------------------
(* InitializeState, step by step.  Nodes ...                                *)
loadNodes ==
  /\ init = "load"
  /\ loaded' = apiNode /\ init' = "register"
  /\ UNCHANGED <<apiVars, queueVars, lock, cacheVars, listed, todo, going, inf, regVars, events, toCore, coreVars>>
RegisterNodes ==
  /\ init = "register" /\ lock = None
  /\ registerNodes("init", {n \in Node : loaded[n] # "absent"}, toCore)
  /\ init' = "add"
  /\ UNCHANGED <<apiVars, queueVars, cacheVars, loaded, listed, todo, going, inf, events, coreVars>>
(* ... addNodesWithoutRegistering enables them as well ...                  *)
Enabled(S) == {n \in S : loaded[n] = "ready"}
addNodesWithoutRegistering ==
  /\ init = "add" /\ pending = {} /\ lock \in {None, "init"} /\ lock' = None
  /\ cacheNode' = [n \in Node |-> IF n \in accepted THEN loaded[n] ELSE None]
  /\ toCore' = toCore \o Reqs("enable", Enabled(accepted))
  /\ init' = "list"
  /\ UNCHANGED <<apiVars, queueVars, cachePod, loaded, listed, todo, going, inf, regVars, events, coreVars>>
(* ... pods ...                                                             *)
listPods ==
  /\ init = "list"
  /\ listed' = {p \in Pod : apiPod[p] = "running"} /\ todo' = listed'
  /\ init' = "pods"
  /\ UNCHANGED <<apiVars, queueVars, lock, cacheVars, loaded, going, inf, regVars, events, toCore, coreVars>>
registerPods ==
  /\ init = "pods" /\ lock = None
  /\ \E p \in todo : todo' = todo \ {p} /\ updateForeignPod(p, "running", FALSE)
  /\ UNCHANGED <<apiVars, queueVars, lock, cacheNode, init, loaded, listed, going, inf, regVars, events, coreVars>>
enableNodes ==
  /\ init = "pods" /\ todo = {}
  /\ toCore' = toCore \o Reqs("enable", Enabled(accepted))
  /\ init' = "nodeHandlers"
  /\ UNCHANGED <<apiVars, queueVars, lock, cacheVars, loaded, listed, todo, going, inf, regVars, events, coreVars>>
(* ... AddSchedulingEventHandlers: a new handler gets everything there is   *)
(* as an add event ...                                                      *)
AddNodeHandlers ==
  /\ init = "nodeHandlers"
  /\ LET S == {n \in Node : apiNode[n] # "absent"} IN
     nodeQueue' = [i \in 1 .. Cardinality(S) |-> NodeEv(ListOf(S)[i], apiNode[ListOf(S)[i]])]
  /\ handlers' = handlers \cup {"node"} /\ init' = "podHandlers"
  /\ UNCHANGED <<apiVars, podQueue, lock, cacheVars, loaded, listed, todo, going, inf, regVars, events, toCore, coreVars>>
AddPodHandlers ==
  /\ init = "podHandlers"
  /\ LET S == {p \in Pod : apiPod[p] \in {"running", "terminated"}} IN
     podQueue' = [i \in 1 .. Cardinality(S) |-> PodEv(ListOf(S)[i], apiPod[ListOf(S)[i]], FALSE)]
  /\ handlers' = handlers \cup {"pod"} /\ init' = "listNodes"
  /\ UNCHANGED <<apiVars, nodeQueue, lock, cacheVars, loaded, listed, todo, going, inf, regVars, events, toCore, coreVars>>
(* ... and what went away before there was a handler is removed: nodes      *)
(* (deleteNodeInternal in two steps, without ctx.lock) and pods.            *)
finalizeNodes ==
  /\ init = "listNodes"
  /\ todo' = {n \in Node : loaded[n] # "absent" /\ apiNode[n] = "absent"}
  /\ init' = "removeNodes"
  /\ UNCHANGED <<apiVars, queueVars, lock, cacheVars, loaded, listed, going, inf, regVars, events, toCore, coreVars>>
FinalizeRemovesNode ==
  /\ init = "removeNodes" /\ going = None
  /\ \E n \in todo :
       /\ todo' = todo \ {n}
       /\ IF cacheNode[n] = None THEN UNCHANGED <<cacheVars, going>> ELSE CacheRemoveNode(n) /\ going' = n
  /\ UNCHANGED <<apiVars, queueVars, lock, init, loaded, listed, inf, regVars, events, toCore, coreVars>>
FinalizeDecommissions ==
  /\ going # None
  /\ toCore' = Append(toCore, Req("decommission", going)) /\ going' = None
  /\ UNCHANGED <<apiVars, queueVars, lock, cacheVars, init, loaded, listed, todo, inf, regVars, events, coreVars>>
finalizePods ==
  /\ init = "removeNodes" /\ todo = {} /\ going = None
  /\ todo' = {p \in listed : apiPod[p] # "running"}
  /\ init' = "removePods"
  /\ UNCHANGED <<apiVars, queueVars, lock, cacheVars, loaded, listed, going, inf, regVars, events, toCore, coreVars>>
FinalizeDeletesPod ==
  /\ init = "removePods" /\ lock = None
  /\ \E p \in todo : todo' = todo \ {p} /\ deleteForeignPod(p)
  /\ UNCHANGED <<apiVars, queueVars, lock, cacheNode, init, loaded, listed, going, inf, regVars, events, coreVars>>
Initialized ==
  /\ init = "removePods" /\ todo = {}
  /\ init' = "done"
  /\ UNCHANGED <<apiVars, queueVars, lock, cacheVars, loaded, listed, todo, going, inf, regVars, events, toCore, coreVars>>
-----------------------------------------------------------------------------
(* The node informer.  updateNodeInternal for a node the cache has: tell    *)
(* the core when it is cordoned or uncordoned.                              *)
updateNodeSchedulability(n, obj) ==
  IF cacheNode[n] = obj THEN <<>> ELSE <<Req(IF obj = "ready" THEN "enable" ELSE "drain", n)>>
updateKnownNode ==
  /\ inf = Idle /\ lock = None /\ nodeQueue # <<>>
  /\ LET ev == Head(nodeQueue) IN
     /\ ev.obj # "absent" /\ cacheNode[ev.node] # None
     /\ toCore' = toCore \o updateNodeSchedulability(ev.node, ev.obj)
     /\ CacheUpdateNode(ev.node, ev.obj)
  /\ nodeQueue' = Tail(nodeQueue)
  /\ UNCHANGED <<apiVars, handlers, podQueue, lock, initVars, inf, regVars, events, coreVars>>
(* For a new one: put it in the cache, which adopts its orphans, register   *)
(* it, and once the core has accepted it pass the adopted pods on and       *)
(* enable it.                                                               *)
updateNewNode ==
  /\ inf = Idle /\ lock = None /\ nodeQueue # <<>>
  /\ LET ev == Head(nodeQueue) IN
     /\ ev.obj # "absent" /\ cacheNode[ev.node] = None
     /\ CacheUpdateNode(ev.node, ev.obj)
     /\ inf' = [at |-> "waiting", node |-> ev.node, obj |-> ev.obj, adopted |-> Orphans(ev.node)]
     /\ registerNodes("node", {ev.node}, toCore)
  /\ nodeQueue' = Tail(nodeQueue)
  /\ UNCHANGED <<apiVars, handlers, podQueue, initVars, events, coreVars>>
NodeRejected ==
  /\ inf.at = "waiting" /\ pending = {} /\ lock \in {None, "node"} /\ inf.node \notin accepted
  /\ CacheRemoveNode(inf.node)
  /\ lock' = None /\ inf' = Idle
  /\ UNCHANGED <<apiVars, queueVars, initVars, regVars, events, toCore, coreVars>>
NodeAcceptedUnlocked ==
  /\ inf.at = "waiting" /\ pending = {} /\ lock \in {None, "node"} /\ inf.node \in accepted
  /\ inf' = [inf EXCEPT !.at = "adopting"]
  /\ UNCHANGED <<apiVars, queueVars, lock, cacheVars, initVars, regVars, events, toCore, coreVars>>
(* Mutant: the node is enabled before its pods are passed on. *)
NodeAcceptedEnables ==
  /\ inf.at = "waiting" /\ pending = {} /\ lock \in {None, "node"} /\ inf.node \in accepted
  /\ lock' = "node" /\ inf' = [inf EXCEPT !.at = "adopting", !.obj = "cordoned"]
  /\ toCore' = IF inf.obj = "ready" THEN Append(toCore, Req("enable", inf.node)) ELSE toCore
  /\ UNCHANGED <<apiVars, queueVars, cacheVars, initVars, regVars, events, coreVars>>
NodeAccepted ==
  /\ inf.at = "waiting" /\ pending = {} /\ lock \in {None, "node"} /\ inf.node \in accepted
  /\ lock' = "node" /\ inf' = [inf EXCEPT !.at = "adopting"]
  /\ UNCHANGED <<apiVars, queueVars, cacheVars, initVars, regVars, events, toCore, coreVars>>
AdoptNothing ==
  /\ inf.at = "adopting" /\ inf' = [inf EXCEPT !.adopted = {}]
  /\ UNCHANGED <<apiVars, queueVars, lock, cacheVars, initVars, regVars, events, toCore, coreVars>>
AdoptPod ==
  /\ inf.at = "adopting"
  /\ \E p \in inf.adopted :
       /\ inf' = [inf EXCEPT !.adopted = @ \ {p}]
       /\ updateForeignPod(p, "running", FALSE)
  /\ UNCHANGED <<apiVars, queueVars, lock, cacheNode, initVars, regVars, events, coreVars>>
enableNode ==
  /\ inf.at = "adopting" /\ inf.adopted = {}
  /\ toCore' = IF inf.obj = "ready" THEN Append(toCore, Req("enable", inf.node)) ELSE toCore
  /\ lock' = None /\ inf' = Idle
  /\ UNCHANGED <<apiVars, queueVars, cacheVars, initVars, regVars, events, coreVars>>
deleteNodeOnly ==
  /\ inf = Idle /\ lock = None /\ nodeQueue # <<>> /\ Head(nodeQueue).obj = "absent"
  /\ CacheRemoveNode(Head(nodeQueue).node)
  /\ nodeQueue' = Tail(nodeQueue)
  /\ UNCHANGED <<apiVars, handlers, podQueue, lock, initVars, inf, regVars, events, toCore, coreVars>>
deleteNode ==
  /\ inf = Idle /\ lock = None /\ nodeQueue # <<>>
  /\ LET ev == Head(nodeQueue) IN
     /\ ev.obj = "absent"
     /\ CacheRemoveNode(ev.node)
     /\ toCore' = IF cacheNode[ev.node] = None THEN toCore ELSE Append(toCore, Req("decommission", ev.node))
  /\ nodeQueue' = Tail(nodeQueue)
  /\ UNCHANGED <<apiVars, handlers, podQueue, lock, initVars, inf, regVars, events, coreVars>>

(* The pod informer: a pod the cache does not have is a new one, whatever   *)
(* the event.                                                               *)
UpdatePod ==
  /\ lock = None /\ podQueue # <<>>
  /\ LET ev == Head(podQueue) IN
     /\ ev.obj # "gone"
     /\ updateForeignPod(ev.pod, ev.obj, ev.update /\ cachePod[ev.pod] # "none")
  /\ podQueue' = Tail(podQueue)
  /\ UNCHANGED <<apiVars, handlers, nodeQueue, lock, cacheNode, initVars, inf, regVars, events, coreVars>>
DeletePod ==
  /\ lock = None /\ podQueue # <<>> /\ Head(podQueue).obj = "gone"
  /\ deleteForeignPod(Head(podQueue).pod)
  /\ podQueue' = Tail(podQueue)
  /\ UNCHANGED <<apiVars, handlers, nodeQueue, lock, cacheNode, initVars, inf, regVars, events, coreVars>>
-----------------------------------------------------------------------------
(* The dispatcher: answers go to the handler of the registration, other     *)
(* events need ctx.lock.                                                    *)
NodeEventHandler ==
  /\ events # <<>>
  /\ LET ev == Head(events) IN
     /\ ev.name # "Other"
     /\ pending' = pending \ {ev.node}
     /\ accepted' = IF ev.node \in pending /\ ev.name = "NodeAccepted" THEN accepted \cup {ev.node} ELSE accepted
  /\ events' = Tail(events)
  /\ UNCHANGED <<apiVars, queueVars, lock, cacheVars, initVars, inf, toCore, coreVars>>
ApplicationEventHandler ==
  /\ lock = None /\ events # <<>> /\ Head(events).name = "Other"
  /\ events' = Tail(events)
  /\ UNCHANGED <<apiVars, queueVars, lock, cacheVars, initVars, inf, regVars, toCore, coreVars>>

(* The core (external) works through the requests; it answers a "create"    *)
(* through UpdateNode of the callback, and rejects a node it has.           *)
CoreAnswers(n, ok) ==
  /\ events' = Append(events, [name |-> IF ok THEN "NodeAccepted" ELSE "NodeRejected", node |-> n])
  /\ coreNode' = IF ok THEN [coreNode EXCEPT ![n] = "draining"] ELSE coreNode
  /\ UNCHANGED coreAlloc
CoreReceives ==
  /\ toCore # <<>>
  /\ LET m == Head(toCore) IN
     \/ /\ m.type = "create"
        /\ \/ CoreAnswers(m.of, coreNode[m.of] = "none") /\ UNCHANGED changes
           \/ coreNode[m.of] = "none" /\ Change /\ CoreAnswers(m.of, FALSE)
     \/ /\ m.type \in {"enable", "drain"}
        /\ coreNode' = IF coreNode[m.of] = "none" THEN coreNode
                       ELSE [coreNode EXCEPT ![m.of] = IF m.type = "enable" THEN "schedulable" ELSE "draining"]
        /\ UNCHANGED <<coreAlloc, events, changes>>
     \/ /\ m.type = "decommission"
        /\ coreNode' = [coreNode EXCEPT ![m.of] = "none"]
        /\ coreAlloc' = {p \in coreAlloc : NodeOf[p] # m.of}
        /\ UNCHANGED <<events, changes>>
     \/ /\ m.type = "alloc"
        /\ coreAlloc' = IF coreNode[NodeOf[m.of]] = "none" THEN coreAlloc ELSE coreAlloc \cup {m.of}
        /\ UNCHANGED <<coreNode, events, changes>>
     \/ /\ m.type = "release"
        /\ coreAlloc' = coreAlloc \ {m.of}
        /\ UNCHANGED <<coreNode, events, changes>>
  /\ toCore' = Tail(toCore)
  /\ UNCHANGED <<apiNode, apiPod, queueVars, lock, cacheVars, initVars, inf, regVars>>
-----------------------------------------------------------------------------
ApiStep  == \/ \E n \in Node : Heartbeat(n) \/ \E obj \in {"absent", "ready", "cordoned"} : NodeChanges(n, obj)
            \/ \E p \in Pod, obj \in {"running", "terminated", "gone"} : PodChanges(p, obj)
            \/ OtherEvent
InitStep == \/ loadNodes \/ RegisterNodes \/ addNodesWithoutRegistering \/ listPods \/ registerPods \/ enableNodes
            \/ AddNodeHandlers \/ AddPodHandlers \/ finalizeNodes \/ FinalizeRemovesNode \/ FinalizeDecommissions
            \/ finalizePods \/ FinalizeDeletesPod \/ Initialized
NodeInformerStep == updateKnownNode \/ updateNewNode \/ NodeRejected \/ NodeAccepted \/ AdoptPod \/ enableNode \/ deleteNode
PodInformerStep  == UpdatePod \/ DeletePod
DispatcherStep   == NodeEventHandler \/ ApplicationEventHandler

Next == ApiStep \/ InitStep \/ NodeInformerStep \/ PodInformerStep \/ DispatcherStep \/ CoreReceives
Spec == Init /\ [][Next]_vars

(* Every goroutine that can go on does, and kubelets keep sending           *)
(* heartbeats.  ctx.lock is held only while pods are adopted, so weak       *)
(* fairness is enough for those who wait for it.                            *)
Fairness ==
  /\ WF_vars(InitStep) /\ WF_vars(NodeInformerStep) /\ WF_vars(PodInformerStep) /\ WF_vars(DispatcherStep)
  /\ WF_vars(CoreReceives)
  /\ \A n \in Node : WF_vars(Heartbeat(n))
FairSpec == Spec /\ Fairness
-----------------------------------------------------------------------------
(* Types; the node informer holds ctx.lock again while it passes on the     *)
(* adopted pods.                                                            *)
TypeOK ==
  /\ changes \in 0 .. MaxChanges
  /\ apiNode \in [Node -> {"absent", "ready", "cordoned"}] /\ loaded \in [Node -> {"absent", "ready", "cordoned"}]
  /\ apiPod \in [Pod -> {"none", "running", "terminated", "gone"}]
  /\ handlers \subseteq {"node", "pod"}
  /\ lock \in {None, "init", "node"} /\ (inf.at = "adopting" => lock = "node")
  /\ cacheNode \in [Node -> {None, "ready", "cordoned"}] /\ cachePod \in [Pod -> {"none", "assigned", "orphan"}]
  /\ listed \subseteq Pod /\ todo \subseteq Node \cup Pod /\ going \in Node \cup {None}
  /\ pending \subseteq Node /\ accepted \subseteq Node
  /\ coreNode \in [Node -> {"none", "draining", "schedulable"}] /\ coreAlloc \subseteq Pod

Quiet ==
  /\ init = "done" /\ inf = Idle
  /\ nodeQueue = <<>> /\ podQueue = <<>> /\ events = <<>> /\ toCore = <<>>

(* When nothing is in flight the scheduler cache and the core know the same *)
(* nodes, and the core schedules on exactly those the cache has uncordoned: *)
(* no registration, rejection, cordon or removal is half done.              *)
NodesAgree ==
  Quiet => \A n \in Node : coreNode[n] = CASE cacheNode[n] = None -> "none"
                                           [] cacheNode[n] = "ready" -> "schedulable"
                                           [] cacheNode[n] = "cordoned" -> "draining"

(* When nothing is in flight every running foreign pod on a node the core   *)
(* schedules on is accounted there: the core never overcommits a node       *)
(* because a pod was orphaned, adopted or seen before its node.             *)
LivePodsAccounted ==
  Quiet => \A p \in Pod : apiPod[p] = "running" /\ coreNode[NodeOf[p]] # "none" => p \in coreAlloc

(* At no time does the core schedule on a node while a foreign pod that the *)
(* cache has there is neither accounted nor on its way to be, or the node   *)
(* on its way out: whatever happens to pods and nodes while the node        *)
(* informer waits without ctx.lock, adopted pods are passed on before the   *)
(* node is enabled.                                                         *)
AccountedBeforeEnabled ==
  \A p \in Pod :
    cachePod[p] = "assigned" /\ coreNode[NodeOf[p]] = "schedulable" =>
      \/ p \in coreAlloc \/ going = NodeOf[p]
      \/ \E i \in DOMAIN toCore : toCore[i] \in {Req("alloc", p), Req("decommission", NodeOf[p])}

(* A node that stays in the cluster is in the cache and in the core in the  *)
(* end, whatever rejections, removals and restarts of its registration came *)
(* before: InitializeState, the informer and the dispatcher never wait for  *)
(* each other for ever.  It takes context.go:1468 on finalizeNodes, "remove *)
(* any that no longer exist", at its word: a node that exists is            *)
(* not removed for good.                                                    *)
NodesConverge ==
  \A n \in Node : <>[](apiNode[n] # "absent") => <>[](cacheNode[n] = apiNode[n] /\ coreNode[n] # "none")
=============================================================================
