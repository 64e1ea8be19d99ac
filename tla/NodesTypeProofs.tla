--------------------------- MODULE NodesTypeProofs ---------------------------
(***************************************************************************)
(* The steps of ContextNodes, for any nodes and foreign pods, and any       *)
(* number of changes of the cluster and of rejections by the core: each     *)
(* keeps the types, and orphans match nodes.  NodesProofs draws the         *)
(* conclusions.                                                             *)
(***************************************************************************)
EXTENDS ContextNodes, TLAPS

(* What the queues between the actors hold.                                 *)
Objs == {"absent", "ready", "cordoned"}
NodeEvents == [node : Node, obj : Objs]
PodEvents == [pod : Pod, obj : {"running", "terminated", "gone"}, update : BOOLEAN]
Answers == [name : {"NodeAccepted", "NodeRejected"}, node : Node]
Others == [name : {"Other"}, node : {None}]
NodeReqs == [type : {"create", "enable", "drain", "decommission"}, of : Node]
PodReqs == [type : {"alloc", "release"}, of : Pod]

ApiTyped ==
  /\ changes \in 0 .. MaxChanges /\ apiNode \in [Node -> Objs]
  /\ apiPod \in [Pod -> {"none", "running", "terminated", "gone"}]
QueueTyped ==
  /\ handlers \subseteq {"node", "pod"}
  /\ nodeQueue \in Seq(NodeEvents) /\ podQueue \in Seq(PodEvents)
CacheTyped == cacheNode \in [Node -> {None, "ready", "cordoned"}] /\ cachePod \in [Pod -> {"none", "assigned", "orphan"}]
(* The list InitializeState works through is one of pods or one of nodes.   *)
InitTyped ==
  /\ init \in {"load", "register", "add", "list", "pods", "nodeHandlers", "podHandlers", "listNodes",
               "removeNodes", "removePods", "done"}
  /\ loaded \in [Node -> Objs] /\ listed \subseteq Pod /\ going \in Node \cup {None}
  /\ todo \subseteq IF init \in {"pods", "removePods"} THEN Pod ELSE IF init = "removeNodes" THEN Node ELSE {}
RegTyped == pending \subseteq Node /\ accepted \subseteq Node
(* Who waits for an answer has an object, and ctx.lock while it adopts.     *)
InfTyped ==
  /\ \/ inf = Idle
     \/ inf \in [at : {"waiting", "adopting"}, node : Node, obj : {"ready", "cordoned"}, adopted : SUBSET Pod]
  /\ lock = IF inf.at = "adopting" THEN "node" ELSE None
CoreTyped ==
  /\ events \in Seq(Answers \cup Others) /\ toCore \in Seq(NodeReqs \cup PodReqs)
  /\ coreNode \in [Node -> {"none", "draining", "schedulable"}] /\ coreAlloc \subseteq Pod
(* The informers have nothing to do before InitializeState adds their       *)
(* handlers.                                                                *)
BeforeHandlers ==
  /\ init \in {"load", "register", "add", "list", "pods", "nodeHandlers"} =>
       handlers = {} /\ nodeQueue = << >> /\ podQueue = << >> /\ inf = Idle
  /\ init = "podHandlers" => "pod" \notin handlers /\ podQueue = << >>
  /\ going # None => init = "removeNodes"
Typed ==
  ApiTyped /\ QueueTyped /\ CacheTyped /\ InitTyped /\ RegTyped /\ InfTyped /\ CoreTyped /\ BeforeHandlers

(* A foreign pod is an orphan of the cache exactly while its node is not in *)
(* the cache: UpdateNode adopts and RemoveNode orphans with the change of   *)
(* the node, whoever makes it.                                              *)
OrphansMatchNodes ==
  \A p \in Pod : cachePod[p] # "none" => (cachePod[p] = "orphan" <=> cacheNode[NodeOf[p]] = None)

-----------------------------------------------------------------------------
(* What the steps take from nodes and pods being finitely many: ListOf      *)
(* lists sets of them, every member once.  NodesProofs shows it.            *)
AllListed(S) ==
  /\ Cardinality(S) \in Nat /\ ListOf(S) \in [1 .. Cardinality(S) -> S]
  /\ \A i, j \in 1 .. Cardinality(S) : ListOf(S)[i] = ListOf(S)[j] => i = j
  /\ \A x \in S : \E i \in 1 .. Cardinality(S) : ListOf(S)[i] = x
Countable ==
  /\ \A S \in SUBSET Node : AllListed(S)
  /\ \A S \in SUBSET Pod : AllListed(S)
  /\ \A n \in Node : Cardinality({n}) = 1

LEMMA Listed ==
  ASSUME Countable, NEW S, S \in SUBSET Node \/ S \in SUBSET Pod
  PROVE  /\ Cardinality(S) \in Nat /\ ListOf(S) \in [1 .. Cardinality(S) -> S]
         /\ \A i, j \in 1 .. Cardinality(S) : ListOf(S)[i] = ListOf(S)[j] => i = j
         /\ \A x \in S : \E i \in 1 .. Cardinality(S) : ListOf(S)[i] = x
BY DEF Countable, AllListed

LEMMA ReqsAre ==
  ASSUME Countable, NEW S \in SUBSET Node, NEW type \in {"create", "enable"}
  PROVE  /\ Reqs(type, S) \in Seq(NodeReqs)
         /\ \A i \in DOMAIN Reqs(type, S) : Reqs(type, S)[i].type = type /\ Reqs(type, S)[i].of \in S
         /\ \A i, j \in DOMAIN Reqs(type, S) : Reqs(type, S)[i].of = Reqs(type, S)[j].of => i = j
<1>2. /\ Cardinality(S) \in Nat /\ ListOf(S) \in [1 .. Cardinality(S) -> S]
      /\ \A i, j \in 1 .. Cardinality(S) : ListOf(S)[i] = ListOf(S)[j] => i = j
  BY Listed
<1> DEFINE r == Reqs(type, S)
           f == ListOf(S)
<1> HIDE DEF f
<1>3. r = [i \in 1 .. Cardinality(S) |-> [type |-> type, of |-> f[i]]]
  BY DEF Reqs, Req, f
<1>4. \A i \in 1 .. Cardinality(S) : [type |-> type, of |-> f[i]] \in NodeReqs
  BY <1>2 DEF NodeReqs, f
<1>5. r \in Seq(NodeReqs)
  BY <1>2, <1>3, <1>4
<1>6. DOMAIN r = 1 .. Cardinality(S) /\ \A i \in 1 .. Cardinality(S) : r[i].type = type /\ r[i].of = f[i] /\ f[i] \in S
  BY <1>2, <1>3 DEF f
<1> QED BY <1>2, <1>5, <1>6 DEF f

LEMMA SeqTyped ==
  ASSUME NEW S, NEW s \in Seq(S)
  PROVE  /\ \A x \in S : Append(s, x) \in Seq(S)
         /\ \A t \in Seq(S) : s \o t \in Seq(S)
         /\ s # << >> => Head(s) \in S /\ Tail(s) \in Seq(S)
OBVIOUS

(* The requests the shim sends.                                             *)
ToCore == Seq(NodeReqs \cup PodReqs)

LEMMA Sends ==
  ASSUME Countable, NEW s \in ToCore
  PROVE  /\ \A n \in Node, type \in {"create", "enable", "drain", "decommission"} : Append(s, Req(type, n)) \in ToCore
         /\ \A p \in Pod, type \in {"alloc", "release"} : Append(s, Req(type, p)) \in ToCore
         /\ \A S \in SUBSET Node, type \in {"create", "enable"} : s \o Reqs(type, S) \in ToCore
<1>1. /\ \A n \in Node, type \in {"create", "enable", "drain", "decommission"} : Req(type, n) \in NodeReqs \cup PodReqs
      /\ \A p \in Pod, type \in {"alloc", "release"} : Req(type, p) \in NodeReqs \cup PodReqs
  BY DEF Req, NodeReqs, PodReqs
<1>2. \A S \in SUBSET Node, type \in {"create", "enable"} : Reqs(type, S) \in Seq(NodeReqs)
  BY ReqsAre
<1>3. Seq(NodeReqs) \subseteq ToCore
  BY DEF ToCore
<1> QED BY <1>1, <1>2, <1>3, SeqTyped DEF ToCore

LEMMA SchedulabilityTyped ==
  ASSUME NEW n \in Node, NEW obj
  PROVE  updateNodeSchedulability(n, obj) \in Seq(NodeReqs \cup PodReqs)
<1>1. Req("enable", n) \in NodeReqs \cup PodReqs /\ Req("drain", n) \in NodeReqs \cup PodReqs
  BY DEF Req, NodeReqs
<1>2. <<Req("enable", n)>> \in Seq(NodeReqs \cup PodReqs) /\ <<Req("drain", n)>> \in Seq(NodeReqs \cup PodReqs)
  BY <1>1
<1>3. << >> \in Seq(NodeReqs \cup PodReqs)
  OBVIOUS
<1> QED BY <1>2, <1>3, Zenon DEF updateNodeSchedulability

(* The operations of the cache keep its types, and keep orphans and nodes   *)
(* in step.                                                                 *)
LEMMA UpdateNodeKeeps ==
  ASSUME CacheTyped, NEW n \in Node, NEW obj \in {"ready", "cordoned"}, CacheUpdateNode(n, obj)
  PROVE  CacheTyped' /\ (OrphansMatchNodes => OrphansMatchNodes') /\ Orphans(n) \subseteq Pod
<1>1. \A m \in Node : cacheNode'[m] = IF m = n THEN obj ELSE cacheNode[m]
  BY DEF CacheUpdateNode, CacheTyped
<1>2. \A p \in Pod : cachePod'[p] = IF cacheNode[n] = None /\ cachePod[p] = "orphan" /\ NodeOf[p] = n THEN "assigned" ELSE cachePod[p]
  BY DEF CacheUpdateNode, Orphans
<1>3. CacheTyped'
  BY DEF CacheUpdateNode, CacheTyped
<1> QED BY <1>1, <1>2, <1>3, NodesAssumption DEF OrphansMatchNodes, Orphans, CacheTyped

LEMMA RemoveNodeKeeps ==
  ASSUME CacheTyped, NEW n \in Node, CacheRemoveNode(n)
  PROVE  CacheTyped' /\ (OrphansMatchNodes => OrphansMatchNodes')
<1>1. \A m \in Node : cacheNode'[m] = IF m = n THEN None ELSE cacheNode[m]
  BY DEF CacheRemoveNode, CacheTyped
<1>2. \A p \in Pod : cachePod'[p] = IF cachePod[p] = "assigned" /\ NodeOf[p] = n THEN "orphan" ELSE cachePod[p]
  BY DEF CacheRemoveNode
<1>3. CacheTyped'
  BY DEF CacheRemoveNode, CacheTyped
<1> QED BY <1>1, <1>2, <1>3, NodesAssumption DEF OrphansMatchNodes, CacheTyped

LEMMA PodKeeps ==
  ASSUME Countable, CacheTyped, toCore \in ToCore, NEW p \in Pod, UNCHANGED cacheNode,
         deleteForeignPod(p) \/ \E obj, known : updateForeignPod(p, obj, known)
  PROVE  CacheTyped' /\ toCore' \in ToCore /\ (OrphansMatchNodes => OrphansMatchNodes')
<1>1. \/ cachePod' = [cachePod EXCEPT ![p] = IF cacheNode[NodeOf[p]] = None THEN "orphan" ELSE "assigned"]
      \/ cachePod' = [cachePod EXCEPT ![p] = "none"]
      \/ UNCHANGED cachePod
  BY DEF deleteForeignPod, updateForeignPod, CacheUpdatePod, CacheRemovePod
<1>2. toCore' = toCore \/ toCore' = Append(toCore, Req("alloc", p)) \/ toCore' = Append(toCore, Req("release", p))
  BY DEF deleteForeignPod, updateForeignPod
<1>3. CacheTyped'
  BY <1>1 DEF CacheTyped
<1>4. toCore' \in ToCore
  BY <1>2, Sends, ZenonT(60)
<1>5. OrphansMatchNodes => OrphansMatchNodes'
  BY <1>1 DEF OrphansMatchNodes, CacheTyped
<1> QED BY <1>3, <1>4, <1>5

(* No pod is in the cache before InitializeState lists them, and the nodes  *)
(* it registers are the ones it found.                                      *)
NoneListed ==
  /\ init \in {"load", "register", "add", "list"} => \A p \in Pod : cachePod[p] = "none"
  /\ init = "add" => \A n \in pending \cup accepted : loaded[n] # "absent"
Sound == Typed /\ NoneListed /\ OrphansMatchNodes

LEMMA ApiSound ==
  ASSUME Sound, ApiStep
  PROVE  Sound'
<1>0. ApiTyped /\ QueueTyped /\ CoreTyped /\ BeforeHandlers
  BY DEF Sound, Typed
<1>1. UNCHANGED <<handlers, lock, cacheVars, initVars, inf, regVars, toCore, coreVars>>
  BY DEF ApiStep, Heartbeat, NodeChanges, PodChanges, OtherEvent, queueVars
<1>2. CacheTyped' /\ InitTyped' /\ RegTyped' /\ InfTyped' /\ NoneListed' /\ OrphansMatchNodes'
  BY <1>1 DEF Sound, Typed, CacheTyped, InitTyped, RegTyped, InfTyped, NoneListed, OrphansMatchNodes, cacheVars, initVars, regVars
<1>3. SUFFICES ApiTyped' /\ QueueTyped' /\ events' \in Seq(Answers \cup Others)
               /\ (nodeQueue' # nodeQueue => "node" \in handlers) /\ (podQueue' # podQueue => "pod" \in handlers)
  BY <1>0, <1>1, <1>2 DEF Sound, Typed, CoreTyped, BeforeHandlers, initVars, coreVars
<1>4. Change => changes' \in 0 .. MaxChanges
  BY <1>0, NodesAssumption DEF Change, ApiTyped
<1>5. ASSUME NEW n \in Node, NEW obj \in Objs, NodeChanges(n, obj)
      PROVE  ApiTyped' /\ QueueTyped' /\ events' \in Seq(Answers \cup Others)
             /\ (nodeQueue' # nodeQueue => "node" \in handlers) /\ (podQueue' # podQueue => "pod" \in handlers)
  <2>1. NodeEv(n, obj) \in NodeEvents
    BY DEF NodeEv, NodeEvents
  <2>2. nodeQueue' \in Seq(NodeEvents)
    BY <1>0, <1>5, <2>1, SeqTyped DEF NodeChanges, QueueTyped
  <2> QED BY <1>0, <1>4, <1>5, <2>2 DEF NodeChanges, ApiTyped, QueueTyped, CoreTyped
<1>6. ASSUME NEW n \in Node, Heartbeat(n)
      PROVE  ApiTyped' /\ QueueTyped' /\ events' \in Seq(Answers \cup Others)
             /\ (nodeQueue' # nodeQueue => "node" \in handlers) /\ (podQueue' # podQueue => "pod" \in handlers)
  <2>1. NodeEv(n, apiNode[n]) \in NodeEvents
    BY <1>0 DEF NodeEv, NodeEvents, ApiTyped
  <2>2. <<NodeEv(n, apiNode[n])>> \in Seq(NodeEvents)
    BY <2>1
  <2> QED BY <1>0, <1>6, <2>2 DEF Heartbeat, apiVars, ApiTyped, QueueTyped, CoreTyped
<1>7. ASSUME NEW p \in Pod, NEW obj \in {"running", "terminated", "gone"}, PodChanges(p, obj)
      PROVE  ApiTyped' /\ QueueTyped' /\ events' \in Seq(Answers \cup Others)
             /\ (nodeQueue' # nodeQueue => "node" \in handlers) /\ (podQueue' # podQueue => "pod" \in handlers)
  <2>1. PodEv(p, obj, apiPod[p] # "none") \in PodEvents
    BY DEF PodEv, PodEvents
  <2>2. podQueue' \in Seq(PodEvents)
    BY <1>0, <1>7, <2>1, SeqTyped DEF PodChanges, QueueTyped
  <2> QED BY <1>0, <1>4, <1>7, <2>2 DEF PodChanges, ApiTyped, QueueTyped, CoreTyped
<1>8. CASE OtherEvent
  <2>1. [name |-> "Other", node |-> None] \in Answers \cup Others
    BY DEF Others
  <2>2. events' \in Seq(Answers \cup Others)
    BY <1>0, <1>8, <2>1, SeqTyped DEF OtherEvent, CoreTyped
  <2> QED BY <1>0, <1>4, <1>8, <2>2 DEF OtherEvent, ApiTyped, QueueTyped, queueVars
<1> QED BY <1>5, <1>6, <1>7, <1>8 DEF ApiStep, Objs

LEMMA CoreSound ==
  ASSUME Sound, CoreReceives
  PROVE  Sound'
<1>0. ApiTyped /\ QueueTyped /\ CoreTyped /\ BeforeHandlers
  BY DEF Sound, Typed
<1>1. UNCHANGED <<apiNode, apiPod, queueVars, lock, cacheVars, initVars, inf, regVars>> /\ toCore # << >> /\ toCore' = Tail(toCore)
  BY DEF CoreReceives
<1>2. QueueTyped' /\ CacheTyped' /\ InitTyped' /\ RegTyped' /\ InfTyped' /\ BeforeHandlers' /\ NoneListed' /\ OrphansMatchNodes'
  BY <1>1 DEF Sound, Typed, QueueTyped, CacheTyped, InitTyped, RegTyped, InfTyped, BeforeHandlers, NoneListed, OrphansMatchNodes,
              queueVars, cacheVars, initVars, regVars
<1>3. Head(toCore) \in NodeReqs \cup PodReqs /\ toCore' \in Seq(NodeReqs \cup PodReqs)
  BY <1>0, <1>1, SeqTyped DEF CoreTyped
<1>4. PICK m \in NodeReqs \cup PodReqs : m = Head(toCore)
  BY <1>3
<1>5. changes' \in 0 .. MaxChanges
  <2>1. Change \/ UNCHANGED changes
    BY Zenon DEF CoreReceives
  <2> QED BY <1>0, <2>1, NodesAssumption DEF Change, ApiTyped
<1>6. events' \in Seq(Answers \cup Others)
  <2>1. CASE UNCHANGED events
    BY <1>0, <2>1 DEF CoreTyped
  <2>2. ASSUME NEW ok \in BOOLEAN, CoreAnswers(m.of, ok), m.type = "create" PROVE events' \in Seq(Answers \cup Others)
    <3>1. [name |-> IF ok THEN "NodeAccepted" ELSE "NodeRejected", node |-> m.of] \in Answers \cup Others
      BY <2>2 DEF Answers, NodeReqs, PodReqs
    <3> QED BY <1>0, <2>2, <3>1, SeqTyped DEF CoreAnswers, CoreTyped
  <2> QED BY <1>4, <2>1, <2>2, ZenonT(60) DEF CoreReceives
<1>7. m.type \in {"create", "enable", "drain", "decommission"} => m.of \in Node
  BY DEF NodeReqs, PodReqs
<1>8. m.type \in {"alloc", "release"} => m.of \in Pod
  BY ZenonT(60) DEF NodeReqs, PodReqs
<1>9. coreNode' \in [Node -> {"none", "draining", "schedulable"}]
  BY <1>0, <1>4, <1>7 DEF CoreReceives, CoreAnswers, CoreTyped
<1>10. coreAlloc' \subseteq Pod
  BY <1>0, <1>4, <1>8 DEF CoreReceives, CoreAnswers, CoreTyped
<1> QED BY <1>0, <1>1, <1>2, <1>3, <1>5, <1>6, <1>9, <1>10 DEF Sound, Typed, ApiTyped, CoreTyped

LEMMA DispatcherSound ==
  ASSUME Sound, DispatcherStep
  PROVE  Sound'
<1>0. CoreTyped /\ RegTyped
  BY DEF Sound, Typed
<1>1. UNCHANGED <<apiVars, queueVars, lock, cacheVars, initVars, inf, toCore, coreVars>> /\ events # << >> /\ events' = Tail(events)
  BY DEF DispatcherStep, NodeEventHandler, ApplicationEventHandler
<1>2. /\ ApiTyped' /\ QueueTyped' /\ CacheTyped' /\ InitTyped' /\ InfTyped' /\ BeforeHandlers' /\ OrphansMatchNodes'
  BY <1>1 DEF Sound, Typed, ApiTyped, QueueTyped, CacheTyped, InitTyped, InfTyped, BeforeHandlers, OrphansMatchNodes,
              apiVars, queueVars, cacheVars, initVars
<1>3. CoreTyped'
  BY <1>0, <1>1, SeqTyped DEF CoreTyped, coreVars
<1>5. pending' \cup accepted' \subseteq pending \cup accepted
  BY DEF DispatcherStep, NodeEventHandler, ApplicationEventHandler, regVars
<1>6. NoneListed'
  BY <1>1, <1>5 DEF Sound, NoneListed, cacheVars, initVars
<1>4. RegTyped'
  BY <1>0 DEF DispatcherStep, NodeEventHandler, ApplicationEventHandler, RegTyped, regVars
<1> QED BY <1>2, <1>3, <1>4, <1>6 DEF Sound, Typed

LEMMA PodInformerSound ==
  ASSUME Countable, Sound, PodInformerStep
  PROVE  Sound'
<1>0. QueueTyped /\ CoreTyped /\ CacheTyped /\ BeforeHandlers
  BY DEF Sound, Typed
<1>1. /\ UNCHANGED <<apiVars, handlers, nodeQueue, lock, cacheNode, initVars, inf, regVars, events, coreVars>>
      /\ podQueue # << >> /\ podQueue' = Tail(podQueue)
  BY DEF PodInformerStep, UpdatePod, DeletePod
<1>2. Head(podQueue) \in PodEvents /\ podQueue' \in Seq(PodEvents)
  BY <1>0, <1>1, SeqTyped DEF QueueTyped
<1>3. Head(podQueue).pod \in Pod
  BY <1>2 DEF PodEvents
<1>4. CacheTyped' /\ toCore' \in ToCore /\ (OrphansMatchNodes => OrphansMatchNodes')
  BY <1>0, <1>1, <1>3, PodKeeps DEF PodInformerStep, UpdatePod, DeletePod, CoreTyped, ToCore
<1>5. ApiTyped' /\ InitTyped' /\ RegTyped' /\ InfTyped' /\ QueueTyped' /\ CoreTyped'
  BY <1>0, <1>1, <1>2, <1>4 DEF Sound, Typed, ApiTyped, InitTyped, RegTyped, InfTyped, QueueTyped, CoreTyped, ToCore,
                  apiVars, initVars, regVars, coreVars
<1>6. init \notin {"load", "register", "add", "list", "pods", "nodeHandlers", "podHandlers"}
  BY <1>0, <1>1 DEF BeforeHandlers
<1>7. BeforeHandlers' /\ NoneListed'
  BY <1>0, <1>1, <1>6 DEF BeforeHandlers, NoneListed, initVars
<1> QED BY <1>4, <1>5, <1>7 DEF Sound, Typed

LEMMA NodeInformerSound ==
  ASSUME Countable, Sound, NodeInformerStep
  PROVE  Sound'
<1>0. QueueTyped /\ CoreTyped /\ CacheTyped /\ BeforeHandlers /\ InfTyped /\ RegTyped /\ toCore \in ToCore /\ OrphansMatchNodes
  BY DEF Sound, Typed, CoreTyped, ToCore
<1>1. UNCHANGED <<apiVars, handlers, podQueue, initVars, events, coreVars>>
  BY ZenonT(60) DEF NodeInformerStep, updateKnownNode, updateNewNode, NodeRejected, NodeAccepted, AdoptPod, enableNode, deleteNode, queueVars
<1>2. ApiTyped' /\ InitTyped'
  BY <1>1 DEF Sound, Typed, ApiTyped, InitTyped, apiVars, initVars
<1>3. init \notin {"load", "register", "add", "list", "pods", "nodeHandlers"}
  <2>1. inf.at \in {"waiting", "adopting"} \/ nodeQueue # << >>
    BY ZenonT(60) DEF NodeInformerStep, updateKnownNode, updateNewNode, NodeRejected, NodeAccepted, AdoptPod, enableNode, deleteNode
  <2>2. Idle.at = "idle"
    BY DEF Idle
  <2> QED BY <1>0, <2>1, <2>2 DEF BeforeHandlers
<1>4. BeforeHandlers' /\ NoneListed'
  BY <1>0, <1>1, <1>3 DEF BeforeHandlers, NoneListed, initVars
<1>5. SUFFICES nodeQueue' \in Seq(NodeEvents) /\ CacheTyped' /\ RegTyped' /\ InfTyped' /\ toCore' \in ToCore /\ OrphansMatchNodes'
  BY <1>0, <1>1, <1>2, <1>4 DEF Sound, Typed, QueueTyped, CoreTyped, ToCore, coreVars
<1>6. nodeQueue # << >> => Head(nodeQueue).node \in Node /\ Head(nodeQueue).obj \in Objs /\ Tail(nodeQueue) \in Seq(NodeEvents)
  <2>1. nodeQueue # << >> => Head(nodeQueue) \in NodeEvents /\ Tail(nodeQueue) \in Seq(NodeEvents)
    BY <1>0, SeqTyped DEF QueueTyped
  <2> QED BY <2>1 DEF NodeEvents
<1> DEFINE ev == Head(nodeQueue)
<1>7. CASE updateKnownNode
  <2>1. /\ nodeQueue # << >> /\ nodeQueue' = Tail(nodeQueue) /\ CacheUpdateNode(ev.node, ev.obj) /\ ev.obj # "absent"
        /\ toCore' = toCore \o updateNodeSchedulability(ev.node, ev.obj) /\ UNCHANGED <<lock, inf, regVars>>
    BY <1>7 DEF updateKnownNode
  <2>2. updateNodeSchedulability(ev.node, ev.obj) \in Seq(NodeReqs \cup PodReqs)
    BY <1>6, <2>1, SchedulabilityTyped
  <2>3. toCore' \in ToCore
    BY <1>0, <2>1, <2>2, SeqTyped DEF ToCore
  <2>4. CacheTyped' /\ OrphansMatchNodes'
    BY <1>0, <1>6, <2>1, UpdateNodeKeeps DEF Objs
  <2> QED BY <1>0, <1>6, <2>1, <2>3, <2>4 DEF InfTyped, RegTyped, regVars
<1>8. CASE updateNewNode
  <2>1. /\ nodeQueue # << >> /\ nodeQueue' = Tail(nodeQueue) /\ CacheUpdateNode(ev.node, ev.obj) /\ ev.obj # "absent"
        /\ toCore' = toCore \o Reqs("create", {ev.node}) /\ pending' = {ev.node} /\ accepted' = {} /\ lock' = None
        /\ inf' = [at |-> "waiting", node |-> ev.node, obj |-> ev.obj, adopted |-> Orphans(ev.node)]
    BY <1>8 DEF updateNewNode, registerNodes, ReleasesLock
  <2>2. toCore' \in ToCore
    BY <1>0, <1>6, <2>1, Sends
  <2>3. CacheTyped' /\ OrphansMatchNodes' /\ Orphans(ev.node) \subseteq Pod
    BY <1>0, <1>6, <2>1, UpdateNodeKeeps DEF Objs
  <2>4. InfTyped'
    BY <1>6, <2>1, <2>3 DEF InfTyped, Objs
  <2> QED BY <1>6, <2>1, <2>2, <2>3, <2>4, ZenonT(60) DEF RegTyped
<1>9. CASE NodeRejected
  <2>1. inf.at = "waiting" /\ CacheRemoveNode(inf.node) /\ lock' = None /\ inf' = Idle /\ UNCHANGED <<nodeQueue, regVars, toCore>>
    BY <1>9 DEF NodeRejected, queueVars
  <2>2. inf.node \in Node
    BY <1>0, <2>1 DEF InfTyped, Idle
  <2>3. CacheTyped' /\ OrphansMatchNodes'
    BY <1>0, <2>1, <2>2, RemoveNodeKeeps
  <2> QED BY <1>0, <2>1, <2>3 DEF InfTyped, Idle, QueueTyped, RegTyped, regVars
<1>10. CASE NodeAccepted
  <2>1. /\ inf.at = "waiting" /\ lock' = "node" /\ inf' = [inf EXCEPT !.at = "adopting"]
        /\ UNCHANGED <<nodeQueue, regVars, toCore, cacheVars>>
    BY <1>10 DEF NodeAccepted, queueVars
  <2>2. InfTyped'
    BY <1>0, <2>1 DEF InfTyped, Idle
  <2> QED BY <1>0, <2>1, <2>2 DEF QueueTyped, RegTyped, regVars, CacheTyped, OrphansMatchNodes, cacheVars
<1>11. CASE AdoptPod
  <2>1. PICK p \in inf.adopted : inf' = [inf EXCEPT !.adopted = @ \ {p}] /\ updateForeignPod(p, "running", FALSE)
    BY <1>11, ZenonT(60) DEF AdoptPod
  <2>2. inf.at = "adopting" /\ UNCHANGED <<nodeQueue, lock, cacheNode, regVars>>
    BY <1>11 DEF AdoptPod, queueVars
  <2>3. inf \in [at : {"waiting", "adopting"}, node : Node, obj : {"ready", "cordoned"}, adopted : SUBSET Pod]
    BY <1>0, <2>2 DEF InfTyped, Idle
  <2>4. InfTyped' /\ p \in Pod
    BY <1>0, <2>1, <2>2, <2>3 DEF InfTyped
  <2>5. CacheTyped' /\ toCore' \in ToCore /\ OrphansMatchNodes'
    BY <1>0, <2>1, <2>2, <2>4, PodKeeps, ZenonT(60)
  <2> QED BY <1>0, <2>2, <2>4, <2>5 DEF QueueTyped, RegTyped, regVars
<1>12. CASE enableNode
  <2>1. /\ inf.at = "adopting" /\ lock' = None /\ inf' = Idle /\ UNCHANGED <<nodeQueue, regVars, cacheVars>>
        /\ toCore' = toCore \/ toCore' = Append(toCore, Req("enable", inf.node))
    BY <1>12 DEF enableNode, queueVars
  <2>2. inf.node \in Node
    BY <1>0, <2>1, SMTT(30) DEF InfTyped, Idle
  <2>3. toCore' \in ToCore
    BY <1>0, <2>1, <2>2, Sends, ZenonT(60)
  <2> QED BY <1>0, <2>1, <2>3 DEF InfTyped, Idle, QueueTyped, RegTyped, regVars, CacheTyped, OrphansMatchNodes, cacheVars
<1>13. CASE deleteNode
  <2>1. /\ nodeQueue # << >> /\ nodeQueue' = Tail(nodeQueue) /\ CacheRemoveNode(ev.node) /\ UNCHANGED <<lock, inf, regVars>>
        /\ toCore' = toCore \/ toCore' = Append(toCore, Req("decommission", ev.node))
    BY <1>13 DEF deleteNode
  <2>2. toCore' \in ToCore
    BY <1>0, <1>6, <2>1, Sends, ZenonT(60)
  <2>3. CacheTyped' /\ OrphansMatchNodes'
    BY <1>0, <1>6, <2>1, RemoveNodeKeeps
  <2> QED BY <1>0, <1>6, <2>1, <2>2, <2>3 DEF InfTyped, RegTyped, regVars
<1> QED BY <1>7, <1>8, <1>9, <1>10, <1>11, <1>12, <1>13 DEF NodeInformerStep

LEMMA InitSound ==
  ASSUME Countable, Sound, InitStep
  PROVE  Sound'
<1>0. /\ ApiTyped /\ QueueTyped /\ CoreTyped /\ CacheTyped /\ BeforeHandlers /\ InfTyped /\ RegTyped /\ InitTyped
      /\ NoneListed /\ OrphansMatchNodes /\ toCore \in ToCore
  BY DEF Sound, Typed, CoreTyped, ToCore
<1>1. UNCHANGED <<apiVars, inf, events, coreVars>>
  BY ZenonT(60) DEF InitStep, loadNodes, RegisterNodes, addNodesWithoutRegistering, listPods, registerPods, enableNodes, AddNodeHandlers,
         AddPodHandlers, finalizeNodes, FinalizeRemovesNode, FinalizeDecommissions, finalizePods, FinalizeDeletesPod, Initialized
<1>2. ApiTyped'
  BY <1>0, <1>1 DEF ApiTyped, apiVars
<1>3. ASSUME UNCHANGED queueVars PROVE QueueTyped'
  BY <1>0, <1>3 DEF QueueTyped, queueVars
<1>4. ASSUME UNCHANGED cacheVars PROVE CacheTyped' /\ OrphansMatchNodes'
  BY <1>0, <1>4 DEF CacheTyped, OrphansMatchNodes, cacheVars
<1>5. ASSUME UNCHANGED regVars PROVE RegTyped'
  BY <1>0, <1>5 DEF RegTyped, regVars
<1>6. ASSUME UNCHANGED lock PROVE InfTyped'
  BY <1>0, <1>1, <1>6 DEF InfTyped
<1>7. ASSUME toCore' \in ToCore PROVE CoreTyped'
  BY <1>0, <1>1, <1>7 DEF CoreTyped, ToCore, coreVars
<1>8. ASSUME UNCHANGED toCore PROVE CoreTyped'
  BY <1>0, <1>7, <1>8
<1>9. CASE loadNodes
  <2>1. InitTyped' /\ NoneListed' /\ BeforeHandlers'
    BY <1>0, <1>1, <1>9 DEF loadNodes, InitTyped, NoneListed, BeforeHandlers, ApiTyped, queueVars, cacheVars
  <2> QED BY <1>2, <1>3, <1>4, <1>5, <1>6, <1>8, <1>9, <2>1, Zenon DEF loadNodes, Sound, Typed
<1>10. CASE RegisterNodes
  <2>1. /\ init = "register" /\ init' = "add" /\ UNCHANGED <<queueVars, cacheVars, loaded, listed, todo, going>>
        /\ lock = None /\ lock' = None /\ accepted' = {}
    BY <1>10 DEF RegisterNodes, registerNodes, ReleasesLock
  <2>2. PICK S \in SUBSET Node : S = {n \in Node : loaded[n] # "absent"} /\ pending' = S /\ toCore' = toCore \o Reqs("create", S)
    BY <1>10, ZenonT(60) DEF RegisterNodes, registerNodes
  <2>3. InitTyped' /\ NoneListed' /\ BeforeHandlers'
    BY <1>0, <1>1, <2>1, <2>2 DEF InitTyped, NoneListed, BeforeHandlers, queueVars, cacheVars
  <2>4. toCore' \in ToCore
    BY <1>0, <2>2, Sends
  <2>5. RegTyped'
    BY <2>1, <2>2 DEF RegTyped
  <2> QED BY <1>2, <1>3, <1>4, <1>6, <1>7, <2>1, <2>3, <2>4, <2>5, Zenon DEF Sound, Typed
<1>11. CASE addNodesWithoutRegistering
  <2>1. /\ init = "add" /\ init' = "list" /\ UNCHANGED <<queueVars, cachePod, loaded, listed, todo, going, regVars>> /\ lock' = None
        /\ cacheNode' = [n \in Node |-> IF n \in accepted THEN loaded[n] ELSE None]
        /\ toCore' = toCore \o Reqs("enable", Enabled(accepted))
    BY <1>11 DEF addNodesWithoutRegistering
  <2>2. Enabled(accepted) \in SUBSET Node
    BY <1>0 DEF Enabled, RegTyped
  <2>3. toCore' \in ToCore
    BY <1>0, <2>1, <2>2, Sends
  <2>4. InitTyped' /\ NoneListed' /\ BeforeHandlers'
    BY <1>0, <1>1, <2>1 DEF InitTyped, NoneListed, BeforeHandlers, queueVars
  <2>5. CacheTyped' /\ OrphansMatchNodes'
    BY <1>0, <2>1 DEF CacheTyped, OrphansMatchNodes, NoneListed, InitTyped, RegTyped, Objs
  <2>6. InfTyped'
    <3>1. inf = Idle /\ inf' = Idle
      BY <1>0, <1>1, <2>1 DEF BeforeHandlers
    <3>2. Idle.at # "adopting"
      BY DEF Idle
    <3> QED BY <2>1, <3>1, <3>2, ZenonT(60) DEF InfTyped
  <2> QED BY <1>2, <1>3, <1>5, <1>7, <2>1, <2>3, <2>4, <2>5, <2>6, Zenon DEF Sound, Typed
<1>12. CASE listPods
  <2>1. InitTyped' /\ NoneListed' /\ BeforeHandlers'
    BY <1>0, <1>1, <1>12 DEF listPods, InitTyped, NoneListed, BeforeHandlers, queueVars, cacheVars
  <2> QED BY <1>2, <1>3, <1>4, <1>5, <1>6, <1>8, <1>12, <2>1, Zenon DEF listPods, Sound, Typed
<1>13. CASE registerPods
  <2>1. PICK p \in todo : todo' = todo \ {p} /\ updateForeignPod(p, "running", FALSE)
    BY <1>13, ZenonT(60) DEF registerPods
  <2>2. init = "pods" /\ UNCHANGED <<queueVars, lock, cacheNode, init, loaded, listed, going, regVars>>
    BY <1>13 DEF registerPods
  <2>3. p \in Pod
    BY <1>0, <2>1, <2>2 DEF InitTyped
  <2>4. CacheTyped' /\ toCore' \in ToCore /\ OrphansMatchNodes'
    BY <1>0, <2>1, <2>2, <2>3, PodKeeps, ZenonT(60)
  <2>5. InitTyped' /\ NoneListed' /\ BeforeHandlers'
    BY <1>0, <1>1, <2>1, <2>2 DEF InitTyped, NoneListed, BeforeHandlers, queueVars
  <2> QED BY <1>2, <1>3, <1>5, <1>6, <1>7, <2>2, <2>4, <2>5, Zenon DEF Sound, Typed
<1>14. CASE enableNodes
  <2>1. /\ init = "pods" /\ todo = {} /\ init' = "nodeHandlers" /\ toCore' = toCore \o Reqs("enable", Enabled(accepted))
        /\ UNCHANGED <<queueVars, lock, cacheVars, loaded, listed, todo, going, regVars>>
    BY <1>14 DEF enableNodes
  <2>2. Enabled(accepted) \in SUBSET Node
    BY <1>0 DEF Enabled, RegTyped
  <2>3. toCore' \in ToCore
    BY <1>0, <2>1, <2>2, Sends
  <2>4. InitTyped' /\ NoneListed' /\ BeforeHandlers'
    BY <1>0, <1>1, <2>1 DEF InitTyped, NoneListed, BeforeHandlers, queueVars
  <2> QED BY <1>2, <1>3, <1>4, <1>5, <1>6, <1>7, <2>1, <2>3, <2>4, Zenon DEF Sound, Typed
<1>15. CASE AddNodeHandlers
  <2>1. /\ init = "nodeHandlers" /\ init' = "podHandlers" /\ handlers' = handlers \cup {"node"}
        /\ UNCHANGED <<podQueue, lock, cacheVars, loaded, listed, todo, going, regVars, toCore>>
    BY <1>15 DEF AddNodeHandlers
  <2>2. PICK S \in SUBSET Node : nodeQueue' = [i \in 1 .. Cardinality(S) |-> NodeEv(ListOf(S)[i], apiNode[ListOf(S)[i]])]
    BY <1>15, ZenonT(60) DEF AddNodeHandlers
  <2>4. Cardinality(S) \in Nat /\ \A i \in 1 .. Cardinality(S) : ListOf(S)[i] \in Node
    BY Listed
  <2>5. \A i \in 1 .. Cardinality(S) : NodeEv(ListOf(S)[i], apiNode[ListOf(S)[i]]) \in NodeEvents
    BY <1>0, <2>4 DEF NodeEv, NodeEvents, ApiTyped
  <2>6. nodeQueue' \in Seq(NodeEvents)
    BY <2>2, <2>4, <2>5
  <2>7. InitTyped' /\ NoneListed' /\ BeforeHandlers' /\ QueueTyped'
    BY <1>0, <1>1, <2>1, <2>6 DEF InitTyped, NoneListed, BeforeHandlers, QueueTyped
  <2> QED BY <1>2, <1>4, <1>5, <1>6, <1>8, <2>1, <2>7, Zenon DEF Sound, Typed
<1>16. CASE AddPodHandlers
  <2>1. /\ init = "podHandlers" /\ init' = "listNodes" /\ handlers' = handlers \cup {"pod"}
        /\ UNCHANGED <<nodeQueue, lock, cacheVars, loaded, listed, todo, going, regVars, toCore>>
    BY <1>16 DEF AddPodHandlers
  <2>2. PICK S \in SUBSET Pod : /\ S = {p \in Pod : apiPod[p] \in {"running", "terminated"}}
                                /\ podQueue' = [i \in 1 .. Cardinality(S) |-> PodEv(ListOf(S)[i], apiPod[ListOf(S)[i]], FALSE)]
    BY <1>16, ZenonT(60) DEF AddPodHandlers
  <2>4. Cardinality(S) \in Nat /\ \A i \in 1 .. Cardinality(S) : ListOf(S)[i] \in S
    BY Listed
  <2>5. \A p \in S : PodEv(p, apiPod[p], FALSE) \in PodEvents
    BY <2>2 DEF PodEv, PodEvents
  <2>6. podQueue' \in Seq(PodEvents)
    <3>1. podQueue' = [i \in 1 .. Cardinality(S) |-> PodEv(ListOf(S)[i], apiPod[ListOf(S)[i]], FALSE)]
      BY <2>2
    <3>2. \A i \in 1 .. Cardinality(S) : PodEv(ListOf(S)[i], apiPod[ListOf(S)[i]], FALSE) \in PodEvents
      BY <2>4, <2>5, ZenonT(60)
    <3> DEFINE e(i) == PodEv(ListOf(S)[i], apiPod[ListOf(S)[i]], FALSE)
    <3> HIDE DEF e
    <3>3. podQueue' = [i \in 1 .. Cardinality(S) |-> e(i)] /\ \A i \in 1 .. Cardinality(S) : e(i) \in PodEvents
      BY <3>1, <3>2, Zenon DEF e
    <3> QED BY <2>4, <3>3
  <2>7. InitTyped' /\ NoneListed' /\ BeforeHandlers' /\ QueueTyped'
    BY <1>0, <1>1, <2>1, <2>6 DEF InitTyped, NoneListed, BeforeHandlers, QueueTyped
  <2> QED BY <1>2, <1>4, <1>5, <1>6, <1>8, <2>1, <2>7, Zenon DEF Sound, Typed
<1>17. CASE finalizeNodes
  <2>1. InitTyped' /\ NoneListed' /\ BeforeHandlers'
    BY <1>0, <1>1, <1>17 DEF finalizeNodes, InitTyped, NoneListed, BeforeHandlers, queueVars, cacheVars
  <2> QED BY <1>2, <1>3, <1>4, <1>5, <1>6, <1>8, <1>17, <2>1, Zenon DEF finalizeNodes, Sound, Typed
<1>18. CASE FinalizeRemovesNode
  <2>1. PICK n \in todo : /\ todo' = todo \ {n}
                          /\ \/ UNCHANGED <<cacheVars, going>>
                             \/ CacheRemoveNode(n) /\ going' = n
    BY <1>18 DEF FinalizeRemovesNode
  <2>2. init = "removeNodes" /\ UNCHANGED <<queueVars, lock, init, loaded, listed, regVars, toCore>>
    BY <1>18, ZenonT(60) DEF FinalizeRemovesNode
  <2>3. n \in Node
    BY <1>0, <2>1, <2>2 DEF InitTyped
  <2>4. CacheTyped' /\ OrphansMatchNodes'
    BY <1>0, <1>4, <2>1, <2>3, RemoveNodeKeeps
  <2>5. InitTyped' /\ NoneListed' /\ BeforeHandlers'
    BY <1>0, <1>1, <2>1, <2>2, <2>3 DEF InitTyped, NoneListed, BeforeHandlers, queueVars
  <2> QED BY <1>2, <1>3, <1>5, <1>6, <1>8, <2>2, <2>4, <2>5, Zenon DEF Sound, Typed
<1>19. CASE FinalizeDecommissions
  <2>1. /\ going # None /\ going' = None /\ toCore' = Append(toCore, Req("decommission", going))
        /\ UNCHANGED <<queueVars, lock, cacheVars, init, loaded, listed, todo, regVars>>
    BY <1>19 DEF FinalizeDecommissions
  <2>2. toCore' \in ToCore
    BY <1>0, <2>1, Sends DEF InitTyped
  <2>3. InitTyped' /\ NoneListed' /\ BeforeHandlers'
    BY <1>0, <1>1, <2>1 DEF InitTyped, NoneListed, BeforeHandlers, queueVars, cacheVars
  <2> QED BY <1>2, <1>3, <1>4, <1>5, <1>6, <1>7, <2>1, <2>2, <2>3, Zenon DEF Sound, Typed
<1>20. CASE finalizePods
  <2>1. InitTyped' /\ NoneListed' /\ BeforeHandlers'
    BY <1>0, <1>1, <1>20 DEF finalizePods, InitTyped, NoneListed, BeforeHandlers, queueVars, cacheVars
  <2> QED BY <1>2, <1>3, <1>4, <1>5, <1>6, <1>8, <1>20, <2>1, Zenon DEF finalizePods, Sound, Typed
<1>21. CASE FinalizeDeletesPod
  <2>1. PICK p \in todo : todo' = todo \ {p} /\ deleteForeignPod(p)
    BY <1>21 DEF FinalizeDeletesPod
  <2>2. init = "removePods" /\ UNCHANGED <<queueVars, lock, cacheNode, init, loaded, listed, going, regVars>>
    BY <1>21 DEF FinalizeDeletesPod
  <2>3. p \in Pod
    BY <1>0, <2>1, <2>2 DEF InitTyped
  <2>4. CacheTyped' /\ toCore' \in ToCore /\ OrphansMatchNodes'
    BY <1>0, <2>1, <2>2, <2>3, PodKeeps
  <2>5. InitTyped' /\ NoneListed' /\ BeforeHandlers'
    BY <1>0, <1>1, <2>1, <2>2 DEF InitTyped, NoneListed, BeforeHandlers, queueVars
  <2> QED BY <1>2, <1>3, <1>5, <1>6, <1>7, <2>2, <2>4, <2>5, Zenon DEF Sound, Typed
<1>22. CASE Initialized
  <2>1. InitTyped' /\ NoneListed' /\ BeforeHandlers'
    BY <1>0, <1>1, <1>22 DEF Initialized, InitTyped, NoneListed, BeforeHandlers, queueVars, cacheVars
  <2> QED BY <1>2, <1>3, <1>4, <1>5, <1>6, <1>8, <1>22, <2>1, Zenon DEF Initialized, Sound, Typed
<1> QED BY <1>9, <1>10, <1>11, <1>12, <1>13, <1>14, <1>15, <1>16, <1>17, <1>18, <1>19, <1>20, <1>21, <1>22, Zenon DEF InitStep

LEMMA SoundInductive ==
  ASSUME Countable, Sound, [Next]_vars
  PROVE  Sound'
<1>1. CASE UNCHANGED vars
  <2>1. UNCHANGED <<apiVars, queueVars, lock, cacheVars, initVars, inf, regVars, events, toCore, coreVars>>
    BY <1>1 DEF vars
  <2>2. (ApiTyped /\ QueueTyped /\ CacheTyped /\ InitTyped)'
    BY <2>1 DEF Sound, Typed, ApiTyped, QueueTyped, CacheTyped, InitTyped, apiVars, queueVars, cacheVars, initVars
  <2>3. (RegTyped /\ InfTyped /\ CoreTyped /\ BeforeHandlers)'
    BY <2>1, ZenonT(60) DEF Sound, Typed, RegTyped, InfTyped, CoreTyped, BeforeHandlers, regVars, coreVars, queueVars, initVars
  <2>4. NoneListed' /\ OrphansMatchNodes'
    BY <2>1 DEF Sound, NoneListed, OrphansMatchNodes, initVars, cacheVars, regVars
  <2> QED BY <2>2, <2>3, <2>4 DEF Sound, Typed
<1> QED BY <1>1, ApiSound, InitSound, NodeInformerSound, PodInformerSound, DispatcherSound, CoreSound DEF Next
=============================================================================
