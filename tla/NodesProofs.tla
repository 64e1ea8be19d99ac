----------------------------- MODULE NodesProofs -----------------------------
(***************************************************************************)
(* Theorems about ContextNodes for any nodes and foreign pods, and any      *)
(* number of changes of the cluster and of rejections by the core.          *)
(* NodesTypeProofs and NodesAgreeProofs have the steps of all invariants    *)
(* but the last one, the accounting of foreign pods, which comes first here.*)
(***************************************************************************)
EXTENDS NodesAgreeProofs
-----------------------------------------------------------------------------
(* Running foreign pods are accounted by the core.                          *)
AllocOf(p) == Req("alloc", p)
ReleaseOf(p) == Req("release", p)
Comes(p, obj) == \E update \in BOOLEAN : Sent(podQueue, PodEv(p, obj, update))
(* What the cluster does not have yet is nowhere, and nobody is told of the *)
(* end of a pod that has not ended.                                         *)
Unborn(p) ==
  apiPod[p] = "none" => cachePod[p] = "none" /\ p \notin listed /\ p \notin inf.adopted /\ ~Comes(p, "running")
Alive(p) ==
  apiPod[p] \in {"none", "running"} =>
    ~Comes(p, "terminated") /\ ~Comes(p, "gone") /\ ~Sent(toCore, ReleaseOf(p)) /\ ~(init = "removePods" /\ p \in todo)
(* The cache hears of every running pod ...                                 *)
Reported(p) == apiPod[p] = "running" /\ cachePod[p] = "none" /\ "pod" \in handlers => Comes(p, "running")
(* ... and for one that it has on a node, the node is going, or the pod is  *)
(* about to be adopted, or the core is told after it was told of the node,  *)
(* or has the pod for good.                                                 *)
Counting(p) ==
  \/ AbsentComing(NodeOf[p]) \/ Rejected(NodeOf[p])
  \/ p \in inf.adopted /\ inf.node = NodeOf[p]
  \/ Over(toCore, AllocOf(p), CreateOf(NodeOf[p])) /\ Over(toCore, AllocOf(p), Decommission(NodeOf[p]))
  \/ p \in coreAlloc /\ ~Sent(toCore, Decommission(NodeOf[p]))
Counted(p) == apiPod[p] = "running" /\ cachePod[p] = "assigned" => Counting(p)
PodOK(p) == Unborn(p) /\ Alive(p) /\ Reported(p) /\ Counted(p)
(* Pods to register or to remove were listed, and after the registration of *)
(* the handlers there is one for pods.                                      *)
Lists ==
  /\ todo \cap Pod \subseteq listed
  /\ init \in {"listNodes", "removeNodes", "removePods", "done"} => "pod" \in handlers
AccountInv == Lists /\ \A p \in Pod : PodOK(p)

LEMMA PodTypes ==
  ASSUME Sound
  PROVE  /\ podQueue \in Seq(PodEvents) /\ apiPod \in [Pod -> {"none", "running", "terminated", "gone"}]
         /\ cachePod \in [Pod -> {"none", "assigned", "orphan"}] /\ listed \subseteq Pod /\ coreAlloc \subseteq Pod
         /\ NodeOf \in [Pod -> Node]
         /\ \A p \in Pod : cachePod[p] = "assigned" => cacheNode[NodeOf[p]] # None
         /\ \A p \in Pod : cachePod[p] = "orphan" => cacheNode[NodeOf[p]] = None
<1>1. /\ podQueue \in Seq(PodEvents) /\ apiPod \in [Pod -> {"none", "running", "terminated", "gone"}]
      /\ cachePod \in [Pod -> {"none", "assigned", "orphan"}] /\ listed \subseteq Pod /\ coreAlloc \subseteq Pod
  BY DEF Sound, Typed, QueueTyped, ApiTyped, CacheTyped, InitTyped, CoreTyped
<1>2. OrphansMatchNodes
  BY DEF Sound
<1> QED BY <1>1, <1>2, NodesAssumption DEF OrphansMatchNodes

LEMMA PodEventsDiffer ==
  ASSUME NEW p, NEW q, NEW a, NEW b, NEW u, NEW v, PodEv(p, a, u) = PodEv(q, b, v)
  PROVE  p = q /\ a = b /\ u = v
<1>1. /\ PodEv(p, a, u).pod = p /\ PodEv(p, a, u).obj = a /\ PodEv(p, a, u).update = u
      /\ PodEv(q, b, v).pod = q /\ PodEv(q, b, v).obj = b /\ PodEv(q, b, v).update = v
  BY DEF PodEv
<1> QED BY <1>1

(* The requests about a pod and those about its node differ.                *)
LEMMA PodReqsDiffer ==
  ASSUME NEW p, NEW q, NEW n
  PROVE  /\ AllocOf(p) \notin Msgs(n) /\ ReleaseOf(p) \notin Msgs(n) /\ AllocOf(p) # ReleaseOf(q)
         /\ AllocOf(p) = AllocOf(q) => p = q
         /\ ReleaseOf(p) = ReleaseOf(q) => p = q
BY ReqsDiffer DEF AllocOf, ReleaseOf, Msgs, CreateOf, Enable, Drain, Decommission

(* Nothing is asked of a pod that has ended.                                *)
LEMMA EndedPod ==
  ASSUME NEW p, apiPod'[p] \notin {"none", "running"}
  PROVE  PodOK(p)'
BY DEF PodOK, Unborn, Alive, Reported, Counted

(* A step that does not concern the pod: at most its node is removed from   *)
(* the cache.                                                               *)
LEMMA PodAside ==
  ASSUME NEW p \in Pod, PodOK(p), UNCHANGED <<apiPod, podQueue>>, listed' = listed, "pod" \in handlers' <=> "pod" \in handlers,
         inf'.adopted \subseteq inf.adopted,
         cachePod'[p] = cachePod[p] \/ (cachePod[p] # "none" /\ cachePod'[p] = "orphan"),
         apiPod[p] \in {"none", "running"} /\ init' = "removePods" /\ p \in todo' => init = "removePods" /\ p \in todo,
         Sent(toCore', ReleaseOf(p)) => Sent(toCore, ReleaseOf(p)),
         cachePod'[p] = "assigned" /\ Counting(p) => Counting(p)'
  PROVE  PodOK(p)'
<1>1. \A obj : Comes(p, obj)' <=> Comes(p, obj)
  BY DEF Comes
<1>2. Unborn(p)'
  BY <1>1, ZenonT(60) DEF PodOK, Unborn
<1>3. Alive(p)'
  BY <1>1, ZenonT(60) DEF PodOK, Alive
<1>4. Reported(p)'
  <2>1. cachePod'[p] = "none" => cachePod[p] = "none"
    OBVIOUS
  <2> QED BY <1>1, <2>1, ZenonT(60) DEF PodOK, Reported
<1>5. Counted(p)'
  <2>1. cachePod'[p] = "assigned" => cachePod[p] = "assigned"
    OBVIOUS
  <2> QED BY <2>1, ZenonT(60) DEF PodOK, Counted
<1> QED BY <1>2, <1>3, <1>4, <1>5 DEF PodOK

(* Requests that leave the accounting of a pod alone.                       *)
SaysNothing(p) ==
  /\ Sent(toCore', ReleaseOf(p)) => Sent(toCore, ReleaseOf(p))
  /\ Sent(toCore', Decommission(NodeOf[p])) => Sent(toCore, Decommission(NodeOf[p]))
  /\ Over(toCore, AllocOf(p), CreateOf(NodeOf[p])) => Over(toCore', AllocOf(p), CreateOf(NodeOf[p]))
  /\ Over(toCore, AllocOf(p), Decommission(NodeOf[p])) => Over(toCore', AllocOf(p), Decommission(NodeOf[p]))

LEMMA StillCounting ==
  ASSUME NEW p, Counting(p), SaysNothing(p), p \in coreAlloc => p \in coreAlloc', AbsentComing(NodeOf[p]) => AbsentComing(NodeOf[p])',
         Rejected(NodeOf[p]) => Rejected(NodeOf[p])',
         p \in inf.adopted /\ inf.node = NodeOf[p] => p \in inf'.adopted /\ inf'.node = NodeOf[p]
  PROVE  Counting(p)'
BY ZenonT(60) DEF Counting, SaysNothing

LEMMA NothingRequested ==
  ASSUME UNCHANGED toCore
  PROVE  \A p : SaysNothing(p)
BY DEF SaysNothing

LEMMA OneRequested ==
  ASSUME toCore \in ToCore, NEW p, NEW x, toCore' = toCore \/ toCore' = Append(toCore, x),
         x # ReleaseOf(p), x # CreateOf(NodeOf[p]), x # Decommission(NodeOf[p])
  PROVE  SaysNothing(p)
<1>1. \A a, b : /\ Sent(Append(toCore, x), a) <=> Sent(toCore, a) \/ x = a
                /\ Over(Append(toCore, x), a, b) <=> x = a \/ (x # b /\ Over(toCore, a, b))
  BY QueueAppend DEF ToCore
<1>2. CASE toCore' = Append(toCore, x)
  BY <1>1, <1>2, ZenonT(60) DEF SaysNothing
<1> QED BY <1>2, NothingRequested

LEMMA EnablesRequested ==
  ASSUME Countable, toCore \in ToCore, NEW p \in Pod, NEW S \in SUBSET Node, toCore' = toCore \o Reqs("enable", S)
  PROVE  SaysNothing(p)
<1> DEFINE t == Reqs("enable", S)
<1>1. t \in Seq(NodeReqs) /\ \A i \in DOMAIN t : t[i].type = "enable"
  BY ReqsAre
<1> HIDE DEF t
<1>2. ReleaseOf(p).type = "release" /\ CreateOf(NodeOf[p]).type = "create" /\ Decommission(NodeOf[p]).type = "decommission"
  BY DEF ReleaseOf, CreateOf, Decommission, Req
<1>3. ~Sent(t, ReleaseOf(p)) /\ ~Sent(t, CreateOf(NodeOf[p])) /\ ~Sent(t, Decommission(NodeOf[p]))
  BY <1>1, <1>2, ZenonT(60) DEF Sent
<1>4. t \in Seq(NodeReqs \cup PodReqs) /\ toCore \in Seq(NodeReqs \cup PodReqs) /\ toCore' = toCore \o t
  BY <1>1 DEF ToCore, t
<1>5. \A a, b : /\ Sent(toCore \o t, a) <=> Sent(toCore, a) \/ Sent(t, a)
                /\ ~Sent(t, b) => (Over(toCore \o t, a, b) <=> Over(toCore, a, b) \/ Sent(t, a))
  BY <1>4, QueueBatch
<1> QED BY <1>3, <1>4, <1>5, ZenonT(60) DEF SaysNothing

(* A rejection waits for the informer, whatever other events come.          *)
LEMMA RejectedStays ==
  ASSUME events \in Seq(Answers \cup Others), UNCHANGED <<inf, regVars>>, NEW o, events' = events \/ events' = Append(events, o)
  PROVE  \A n : Rejected(n) => Rejected(n)'
<1>1. \A m : Sent(Append(events, o), m) <=> Sent(events, m) \/ o = m
  BY QueueAppend
<1> QED BY <1>1, ZenonT(60) DEF Rejected, regVars

LEMMA PodQueueGrows ==
  ASSUME podQueue \in Seq(PodEvents), NEW q, NEW obj, NEW u \in BOOLEAN, podQueue' = Append(podQueue, PodEv(q, obj, u))
  PROVE  \A p, o : Comes(p, o)' <=> Comes(p, o) \/ (p = q /\ o = obj)
<1>1. \A m : Sent(Append(podQueue, PodEv(q, obj, u)), m) <=> Sent(podQueue, m) \/ PodEv(q, obj, u) = m
  BY QueueAppend
<1> TAKE p, o
<1>2. ASSUME Comes(p, o)' PROVE Comes(p, o) \/ (p = q /\ o = obj)
  <2>1. PICK v \in BOOLEAN : Sent(podQueue', PodEv(p, o, v))
    BY <1>2 DEF Comes
  <2>2. Sent(podQueue, PodEv(p, o, v)) \/ PodEv(q, obj, u) = PodEv(p, o, v)
    BY <1>1, <2>1
  <2> QED BY <2>2, PodEventsDiffer DEF Comes
<1>3. Sent(podQueue', PodEv(q, obj, u)) /\ \A m : Sent(podQueue, m) => Sent(podQueue', m)
  BY <1>1
<1>4. Comes(q, obj)' /\ (Comes(p, o) => Comes(p, o)')
  BY <1>3 DEF Comes
<1> QED BY <1>2, <1>4

LEMMA PodQueueShrinks ==
  ASSUME podQueue \in Seq(PodEvents), podQueue # << >>, podQueue' = Tail(podQueue),
         NEW q, NEW obj, NEW u \in BOOLEAN, Head(podQueue) = PodEv(q, obj, u)
  PROVE  \A p, o : Comes(p, o) <=> Comes(p, o)' \/ (p = q /\ o = obj)
<1>1. \A m : Sent(podQueue, m) <=> Head(podQueue) = m \/ Sent(Tail(podQueue), m)
  BY QueueTail
<1> TAKE p, o
<1>2. ASSUME Comes(p, o) PROVE Comes(p, o)' \/ (p = q /\ o = obj)
  <2>1. PICK v \in BOOLEAN : Sent(podQueue, PodEv(p, o, v))
    BY <1>2 DEF Comes
  <2>2. Sent(podQueue', PodEv(p, o, v)) \/ PodEv(q, obj, u) = PodEv(p, o, v)
    BY <1>1, <2>1
  <2> QED BY <2>2, PodEventsDiffer DEF Comes
<1>3. Sent(podQueue, PodEv(q, obj, u)) /\ \A m : Sent(podQueue', m) => Sent(podQueue, m)
  BY <1>1
<1>4. Comes(q, obj) /\ (Comes(p, o)' => Comes(p, o))
  BY <1>3 DEF Comes
<1> QED BY <1>2, <1>4

(* A step of the cluster.                                                   *)
LEMMA PodChangesCounted ==
  ASSUME Sound, NEW p \in Pod, PodOK(p), NEW q \in Pod, NEW obj, PodChanges(q, obj)
  PROVE  PodOK(p)'
<1>1. /\ UNCHANGED <<handlers, cachePod, inf, regVars, events, toCore, coreAlloc, nodeQueue, init, listed, todo>>
      /\ apiPod' = [apiPod EXCEPT ![q] = obj]
      /\ <<apiPod[q], obj>> \in {<<"none", "running">>, <<"running", "running">>, <<"running", "terminated">>,
                                 <<"running", "gone">>, <<"terminated", "gone">>}
      /\ \/ podQueue' = podQueue /\ "pod" \notin handlers
         \/ podQueue' = Append(podQueue, PodEv(q, obj, apiPod[q] # "none")) /\ "pod" \in handlers
  BY ZenonT(60) DEF PodChanges, cacheVars, initVars, coreVars
<1>2. \A o : Comes(p, o)' <=> Comes(p, o) \/ (p = q /\ o = obj /\ "pod" \in handlers)
  <2>1. (apiPod[q] # "none") \in BOOLEAN
    OBVIOUS
  <2>2. CASE podQueue' = podQueue /\ "pod" \notin handlers
    BY <2>2 DEF Comes
  <2>3. CASE podQueue' = Append(podQueue, PodEv(q, obj, apiPod[q] # "none")) /\ "pod" \in handlers
    BY <2>1, <2>3, PodTypes, PodQueueGrows, ZenonT(60)
  <2> QED BY <1>1, <2>2, <2>3
<1>3. Counting(p) => Counting(p)'
  BY <1>1, ZenonT(60) DEF Counting, AbsentComing, Rejected, regVars
<1>4. CASE p # q
  <2>1. apiPod'[p] = apiPod[p]
    BY <1>1, <1>4, PodTypes
  <2>2. Unborn(p)' /\ Alive(p)' /\ Reported(p)' /\ Counted(p)'
    BY <1>1, <1>2, <1>3, <1>4, <2>1, ZenonT(60) DEF PodOK, Unborn, Alive, Reported, Counted
  <2> QED BY <2>2 DEF PodOK
<1>5. CASE p = q
  <2>1. apiPod'[p] = obj /\ (obj = "running" => apiPod[p] \in {"none", "running"}) /\ obj # "none"
    BY <1>1, <1>5, PodTypes
  <2>2. CASE obj = "running"
    <3>1. Unborn(p)' /\ Alive(p)'
      BY <1>1, <1>2, <1>5, <2>1, <2>2, ZenonT(60) DEF PodOK, Unborn, Alive
    <3>2. Reported(p)'
      BY <1>1, <1>2, <1>5, <2>1, <2>2, ZenonT(60) DEF Reported
    <3>3. Counted(p)'
      <4>1. cachePod[p] = "assigned" => apiPod[p] = "running"
        BY <2>1, <2>2 DEF PodOK, Unborn
      <4> QED BY <1>1, <1>3, <4>1, ZenonT(60) DEF PodOK, Counted
    <3> QED BY <3>1, <3>2, <3>3 DEF PodOK
  <2>3. CASE obj # "running"
    BY <2>1, <2>3, EndedPod
  <2> QED BY <2>2, <2>3
<1> QED BY <1>4, <1>5

LEMMA ApiCounted ==
  ASSUME Sound, NEW p \in Pod, PodOK(p), ApiStep
  PROVE  PodOK(p)'
<1>1. ASSUME NEW q \in Pod, NEW obj, PodChanges(q, obj) PROVE PodOK(p)'
  BY <1>1, PodChangesCounted
<1>2. CASE OtherEvent \/ \E n \in Node : Heartbeat(n) \/ \E obj \in Objs : NodeChanges(n, obj)
  <2>1. UNCHANGED <<apiPod, podQueue, listed, handlers, inf, regVars, cachePod, init, todo, toCore, coreAlloc>>
    BY <1>2, ZenonT(60) DEF OtherEvent, Heartbeat, NodeChanges, apiVars, queueVars, cacheVars, initVars, coreVars
  <2>2. AbsentComing(NodeOf[p]) => AbsentComing(NodeOf[p])'
    <3>1. \/ nodeQueue' = nodeQueue
          \/ nodeQueue = << >>
          \/ \E e : nodeQueue' = Append(nodeQueue, e)
      BY <1>2, ZenonT(60) DEF OtherEvent, Heartbeat, NodeChanges, queueVars
    <3>2. nodeQueue = << >> => ~AbsentComing(NodeOf[p])
      BY DEF AbsentComing, Sent
    <3>3. \A e, m : Sent(nodeQueue, m) => Sent(Append(nodeQueue, e), m)
      BY SoundTypes, QueueAppend
    <3> QED BY <3>1, <3>2, <3>3, ZenonT(60) DEF AbsentComing
  <2>3. PICK o : events' = events \/ events' = Append(events, o)
    BY <1>2, ZenonT(60) DEF OtherEvent, Heartbeat, NodeChanges
  <2>4. \A n : Rejected(n) => Rejected(n)'
    BY <2>1, <2>3, SoundTypes, RejectedStays
  <2>5. Counting(p) => Counting(p)'
    BY <2>1, <2>2, <2>4, NothingRequested, StillCounting, ZenonT(60)
  <2> QED BY <2>1, <2>5, PodAside, ZenonT(60)
<1> QED BY <1>1, <1>2, ZenonT(60) DEF ApiStep, Objs

(* What the cache and the core are told of one pod does not concern another.*)
LEMMA OtherPod ==
  ASSUME Sound, NEW p \in Pod, NEW q \in Pod, p # q, deleteForeignPod(q) \/ \E obj, known : updateForeignPod(q, obj, known)
  PROVE  cachePod'[p] = cachePod[p] /\ SaysNothing(p)
<1>1. \/ cachePod' = cachePod
      \/ cachePod' = [cachePod EXCEPT ![q] = IF cacheNode[NodeOf[q]] = None THEN "orphan" ELSE "assigned"]
      \/ cachePod' = [cachePod EXCEPT ![q] = "none"]
  BY DEF deleteForeignPod, updateForeignPod, CacheUpdatePod, CacheRemovePod
<1>2. cachePod'[p] = cachePod[p]
  BY <1>1, PodTypes
<1>3. PICK x \in {AllocOf(q), ReleaseOf(q)} : toCore' = toCore \/ toCore' = Append(toCore, x)
  BY ZenonT(60) DEF deleteForeignPod, updateForeignPod, AllocOf, ReleaseOf
<1>4. x # ReleaseOf(p) /\ x # CreateOf(NodeOf[p]) /\ x # Decommission(NodeOf[p])
  BY PodReqsDiffer, MsgsDiffer
<1> QED BY <1>2, <1>3, <1>4, SoundTypes, OneRequested

(* A running pod that is passed on.                                         *)
LEMMA PodPassedOn ==
  ASSUME Sound, NEW p \in Pod, NEW known, updateForeignPod(p, "running", known), apiPod[p] = "running" => ~Sent(toCore, ReleaseOf(p))
  PROVE  /\ cachePod'[p] # "none" /\ (apiPod[p] = "running" => ~Sent(toCore', ReleaseOf(p)))
         /\ cachePod'[p] = "assigned" => cacheNode[NodeOf[p]] # None
         /\ cachePod'[p] = "assigned" /\ ~known =>
              Over(toCore', AllocOf(p), CreateOf(NodeOf[p])) /\ Over(toCore', AllocOf(p), Decommission(NodeOf[p]))
         /\ known => UNCHANGED toCore
<1>1. /\ cachePod' = [cachePod EXCEPT ![p] = IF cacheNode[NodeOf[p]] = None THEN "orphan" ELSE "assigned"]
      /\ toCore' = IF cacheNode[NodeOf[p]] # None /\ ~known THEN Append(toCore, AllocOf(p)) ELSE toCore
  BY DEF updateForeignPod, CacheUpdatePod, AllocOf
<1>2. cachePod'[p] = IF cacheNode[NodeOf[p]] = None THEN "orphan" ELSE "assigned"
  BY <1>1, PodTypes
<1>3. \A a, b : /\ Sent(Append(toCore, AllocOf(p)), a) <=> Sent(toCore, a) \/ AllocOf(p) = a
                /\ AllocOf(p) = a => Over(Append(toCore, AllocOf(p)), a, b)
  BY SoundTypes, QueueAppend DEF ToCore
<1>4. AllocOf(p) # ReleaseOf(p)
  BY PodReqsDiffer
<1> QED BY <1>1, <1>2, <1>3, <1>4

LEMMA PodInformerCounted ==
  ASSUME Sound, NEW p \in Pod, PodOK(p), PodInformerStep
  PROVE  PodOK(p)'
<1>1. /\ UNCHANGED <<apiPod, handlers, nodeQueue, cacheNode, init, listed, todo, inf, regVars, events, coreAlloc>>
      /\ podQueue # << >> /\ podQueue' = Tail(podQueue)
  BY ZenonT(60) DEF PodInformerStep, UpdatePod, DeletePod, apiVars, initVars, coreVars
<1>2. PICK q \in Pod, obj \in {"running", "terminated", "gone"}, u \in BOOLEAN : Head(podQueue) = PodEv(q, obj, u)
  <2>1. Head(podQueue) \in PodEvents
    BY <1>1, PodTypes, SeqTyped
  <2> QED BY <2>1 DEF PodEvents, PodEv
<1>3. \A o : Comes(p, o) <=> Comes(p, o)' \/ (p = q /\ o = obj)
  BY <1>1, <1>2, PodTypes, PodQueueShrinks, ZenonT(60)
<1>4. IF obj = "gone" THEN deleteForeignPod(q) ELSE updateForeignPod(q, obj, u /\ cachePod[q] # "none")
  <2>1. PodEv(q, obj, u).pod = q /\ PodEv(q, obj, u).obj = obj /\ PodEv(q, obj, u).update = u
    BY DEF PodEv
  <2> QED BY <1>2, <2>1, ZenonT(60) DEF PodInformerStep, UpdatePod, DeletePod
<1>5. SaysNothing(p) /\ Counting(p) => Counting(p)'
  BY <1>1, StillCounting, ZenonT(60) DEF AbsentComing, Rejected, regVars
<1>6. CASE p # q
  <2>1. cachePod'[p] = cachePod[p] /\ SaysNothing(p)
    BY <1>4, <1>6, OtherPod, ZenonT(60)
  <2>2. \A o : Comes(p, o)' <=> Comes(p, o)
    BY <1>3, <1>6
  <2>3. Unborn(p)' /\ Alive(p)' /\ Reported(p)' /\ Counted(p)'
    BY <1>1, <1>5, <2>1, <2>2, ZenonT(60) DEF PodOK, Unborn, Alive, Reported, Counted, SaysNothing
  <2> QED BY <2>3 DEF PodOK
<1>7. CASE p = q /\ apiPod[p] = "running"
  <2>1. obj = "running"
    BY <1>3, <1>7, ZenonT(60) DEF PodOK, Alive
  <2>2. PICK known \in BOOLEAN : updateForeignPod(p, "running", known) /\ (known => cachePod[p] # "none")
    BY <1>4, <1>7, <2>1
  <2>3. ~Sent(toCore, ReleaseOf(p))
    BY <1>7, ZenonT(60) DEF PodOK, Alive
  <2>4. /\ cachePod'[p] # "none" /\ ~Sent(toCore', ReleaseOf(p))
        /\ cachePod'[p] = "assigned" => cacheNode[NodeOf[p]] # None
        /\ cachePod'[p] = "assigned" /\ ~known =>
             Over(toCore', AllocOf(p), CreateOf(NodeOf[p])) /\ Over(toCore', AllocOf(p), Decommission(NodeOf[p]))
        /\ known => UNCHANGED toCore
    BY <1>7, <2>2, <2>3, PodPassedOn, ZenonT(60)
  <2>5. Counted(p)'
    <3>1. ASSUME cachePod'[p] = "assigned", known PROVE Counting(p)'
      <4>1. cachePod[p] = "assigned"
        BY <2>2, <2>4, <3>1, PodTypes
      <4>2. Counting(p)
        BY <1>7, <4>1 DEF PodOK, Counted
      <4> QED BY <1>5, <2>4, <3>1, <4>2, NothingRequested
    <3>2. ASSUME cachePod'[p] = "assigned", ~known PROVE Counting(p)'
      BY <2>4, <3>2, ZenonT(60) DEF Counting
    <3> QED BY <3>1, <3>2 DEF Counted
  <2>6. Unborn(p)' /\ Alive(p)' /\ Reported(p)'
    BY <1>1, <1>3, <1>7, <2>4, ZenonT(60) DEF PodOK, Unborn, Alive, Reported
  <2> QED BY <2>5, <2>6 DEF PodOK
<1>8. CASE p = q /\ apiPod[p] = "none"
  BY <1>2, <1>3, <1>8, ZenonT(60) DEF PodOK, Unborn, Alive
<1> QED BY <1>1, <1>6, <1>7, <1>8, EndedPod

(* An answer to a registration, or another event.                           *)
LEMMA DispatcherCounted ==
  ASSUME Sound, Told, NEW p \in Pod, PodOK(p), DispatcherStep
  PROVE  PodOK(p)'
<1>1. /\ UNCHANGED <<apiPod, podQueue, listed, handlers, inf, cachePod, init, todo, toCore, coreAlloc, nodeQueue>>
      /\ events # << >> /\ events' = Tail(events)
  BY ZenonT(60) DEF DispatcherStep, NodeEventHandler, ApplicationEventHandler, apiVars, queueVars, cacheVars, initVars, coreVars
<1>2. ASSUME NEW n \in Node, Rejected(n) PROVE Rejected(n)'
  <2>1. Sent(events, Reject(n)) <=> Head(events) = Reject(n) \/ Sent(Tail(events), Reject(n))
    BY <1>1, SoundTypes, QueueTail
  <2>2. Reject(n).name = "NodeRejected" /\ Reject(n).node = n
    BY DEF Reject
  <2>3. RegInv
    BY DEF Told
  <2>4. CASE ApplicationEventHandler
    <3>1. Head(events).name = "Other" /\ UNCHANGED regVars
      BY <2>4 DEF ApplicationEventHandler
    <3> QED BY <1>1, <1>2, <2>1, <2>2, <3>1, ZenonT(60) DEF Rejected, regVars
  <2>5. CASE NodeEventHandler
    <3>1. PICK a : /\ a = Head(events) /\ pending' = pending \ {a.node}
                   /\ accepted' = IF a.node \in pending /\ a.name = "NodeAccepted" THEN accepted \cup {a.node} ELSE accepted
      BY <2>5, ZenonT(60) DEF NodeEventHandler
    <3>2. CASE Sent(Tail(events), Reject(n))
      BY <1>1, <1>2, <3>2, ZenonT(60) DEF Rejected
    <3>3. CASE a = Reject(n)
      <4>1. n \in pending /\ n \notin accepted
        BY <2>1, <2>3, <3>1, <3>3, ZenonT(60) DEF RegInv
      <4>2. n \notin pending' \cup accepted'
        BY <2>2, <3>1, <3>3, <4>1
      <4> QED BY <1>1, <1>2, <4>2 DEF Rejected
    <3>4. CASE n \notin pending \cup accepted
      BY <1>1, <1>2, <3>1, <3>4 DEF Rejected
    <3> QED BY <1>2, <2>1, <3>1, <3>2, <3>3, <3>4 DEF Rejected
  <2> QED BY <2>4, <2>5 DEF DispatcherStep
<1>3. NodeOf[p] \in Node
  BY PodTypes
<1>4. Counting(p) => Counting(p)'
  BY <1>1, <1>2, <1>3, NothingRequested, StillCounting, ZenonT(60) DEF AbsentComing
<1> QED BY <1>1, <1>4, PodAside, ZenonT(60)

LEMMA OverSent ==
  ASSUME NEW s, NEW a, NEW b
  PROVE  /\ Over(s, a, b) => Sent(s, a)
         /\ Sent(s, a) /\ ~Sent(s, b) => Over(s, a, b)
BY DEF Over, Sent

(* The core works through a request: an allocation that comes after the     *)
(* last registration and the last removal of its node finds the node.       *)
LEMMA CoreCounted ==
  ASSUME Sound, Told, NEW p \in Pod, PodOK(p), CoreReceives
  PROVE  PodOK(p)'
<1> DEFINE a == AllocOf(p)
           c == CreateOf(NodeOf[p])
           d == Decommission(NodeOf[p])
<1>1. /\ toCore # << >> /\ toCore' = Tail(toCore)
      /\ UNCHANGED <<apiPod, podQueue, listed, handlers, inf, regVars, cachePod, init, todo, nodeQueue>>
  BY ZenonT(60) DEF CoreReceives, cacheVars, initVars, queueVars
<1>2. PICK m \in NodeReqs \cup PodReqs : m = Head(toCore)
  BY <1>1, SoundTypes, SeqTyped DEF ToCore
<1>3. m = Req(m.type, m.of)
  BY DEF NodeReqs, PodReqs, Req
<1>4. \A x, y : /\ Sent(toCore, x) <=> m = x \/ Sent(toCore', x)
                /\ Over(toCore, x, y) <=> Over(toCore', x, y) \/ (m = x /\ ~Sent(toCore', y))
  <2>1. \A x, y : /\ Sent(toCore, x) <=> Head(toCore) = x \/ Sent(Tail(toCore), x)
                  /\ Over(toCore, x, y) <=> Over(Tail(toCore), x, y) \/ (Head(toCore) = x /\ ~Sent(Tail(toCore), y))
    BY <1>1, SoundTypes, QueueTail DEF ToCore
  <2> QED BY <1>1, <1>2, <2>1, ZenonT(60)
<1>5. \A n : Rejected(n) => Rejected(n)'
  <2>1. \E o : events' = events \/ events' = Append(events, o)
    BY ZenonT(60) DEF CoreReceives, CoreAnswers
  <2> QED BY <1>1, <2>1, SoundTypes, RejectedStays, ZenonT(60)
<1>6. CASE apiPod[p] \notin {"none", "running"}
  BY <1>1, <1>6, EndedPod
<1>7. ASSUME p \in coreAlloc, m # d, m # ReleaseOf(p) PROVE p \in coreAlloc'
  <2>1. m.type = "decommission" => m.of # NodeOf[p]
    BY <1>3, <1>7 DEF Decommission
  <2>2. m.type = "release" => m.of # p
    BY <1>3, <1>7 DEF ReleaseOf
  <2>3. \/ coreAlloc' = coreAlloc
        \/ m.type = "decommission" /\ coreAlloc' = {q \in coreAlloc : NodeOf[q] # m.of}
        \/ coreAlloc' = coreAlloc \cup {m.of}
        \/ m.type = "release" /\ coreAlloc' = coreAlloc \ {m.of}
    BY <1>2, ZenonT(60) DEF CoreReceives, CoreAnswers
  <2> QED BY <1>7, <2>1, <2>2, <2>3
<1>8. a # c /\ a # d /\ c # d
  BY PodReqsDiffer, MsgsDiffer
<1>9. ASSUME m = a, ~Sent(toCore', c), ~Sent(toCore', d), cachePod[p] = "assigned" PROVE Counting(p)'
  <2>1. ~Sent(toCore, c) /\ ~Sent(toCore, d)
    BY <1>4, <1>8, <1>9, ZenonT(60)
  <2>2. NodeOf[p] \in Node /\ cacheNode[NodeOf[p]] # None
    BY <1>9, PodTypes
  <2>3. init \notin {"load", "register", "add"}
    BY <1>9 DEF Sound, NoneListed
  <2>4. Settled(NodeOf[p])
    BY <2>1, <2>2, <2>3, ZenonT(60) DEF Told, AgreeInv, NodeOK
  <2>5. CASE Rejected(NodeOf[p]) \/ AbsentComing(NodeOf[p])
    BY <1>1, <1>5, <2>5, ZenonT(60) DEF Counting, AbsentComing
  <2>6. CASE coreNode[NodeOf[p]] # "none"
    <3>1. m.type = "alloc" /\ m.of = p
      BY <1>9 DEF AllocOf, Req
    <3>2. coreAlloc' = coreAlloc \cup {p}
      BY <1>2, <2>6, <3>1 DEF CoreReceives
    <3> QED BY <1>9, <3>2, ZenonT(60) DEF Counting
  <2> QED BY <2>2, <2>4, <2>5, <2>6, ZenonT(60) DEF Settled, Exists
<1>10. ASSUME cachePod[p] = "assigned", Counting(p), apiPod[p] \in {"none", "running"} PROVE Counting(p)'
  <2>1. CASE AbsentComing(NodeOf[p]) \/ Rejected(NodeOf[p]) \/ (p \in inf.adopted /\ inf.node = NodeOf[p])
    BY <1>1, <1>5, <2>1, ZenonT(60) DEF Counting, AbsentComing
  <2>2. CASE Over(toCore, a, c) /\ Over(toCore, a, d)
    <3>1. (Over(toCore', a, c) \/ (m = a /\ ~Sent(toCore', c))) /\ (Over(toCore', a, d) \/ (m = a /\ ~Sent(toCore', d)))
      BY <1>4, <2>2, ZenonT(60)
    <3>2. Over(toCore', a, c) /\ Over(toCore', a, d) => Counting(p)'
      BY ZenonT(60) DEF Counting
    <3> QED BY <1>9, <1>10, <3>1, <3>2, OverSent, ZenonT(60)
  <2>3. CASE p \in coreAlloc /\ ~Sent(toCore, d)
    <3>1. m # d /\ ~Sent(toCore', d)
      BY <1>4, <2>3, ZenonT(60)
    <3>2. m # ReleaseOf(p)
      BY <1>4, <1>10, ZenonT(60) DEF PodOK, Alive
    <3> QED BY <1>7, <2>3, <3>1, <3>2, ZenonT(60) DEF Counting
  <2> QED BY <1>10, <2>1, <2>2, <2>3, ZenonT(60) DEF Counting
<1>11. Sent(toCore', ReleaseOf(p)) => Sent(toCore, ReleaseOf(p))
  BY <1>4, ZenonT(60)
<1>12. CASE apiPod[p] \in {"none", "running"}
  BY <1>1, <1>10, <1>11, <1>12, PodAside, ZenonT(60)
<1> QED BY <1>6, <1>12

(* The node informer.                                                       *)
LEMMA FirstEvent ==
  ASSUME Sound, nodeQueue # << >>
  PROVE  \E k \in Node, obj \in Objs : Head(nodeQueue) = NodeEv(k, obj) /\ Head(nodeQueue).node = k /\ Head(nodeQueue).obj = obj
<1>1. Head(nodeQueue) \in NodeEvents
  BY SoundTypes, SeqTyped
<1> QED BY <1>1 DEF NodeEvents, NodeEv

LEMMA InformerLeaves ==
  ASSUME NodeInformerStep
  PROVE  UNCHANGED <<apiNode, apiPod, podQueue, listed, handlers, init, todo, events, coreAlloc>>
BY ZenonT(60) DEF NodeInformerStep, updateKnownNode, updateNewNode, NodeRejected, NodeAccepted, AdoptPod, enableNode, deleteNode,
     apiVars, queueVars, initVars, coreVars

LEMMA NodeReqsDiffer ==
  ASSUME NEW p, NEW k, NEW n
  PROVE  /\ \A x \in Msgs(k) : x # ReleaseOf(p)
         /\ Enable(k) # CreateOf(n) /\ Enable(k) # Decommission(n) /\ Drain(k) # CreateOf(n) /\ Drain(k) # Decommission(n)
         /\ CreateOf(k) # Decommission(n) /\ (CreateOf(k) = CreateOf(n) => k = n) /\ (Decommission(k) = Decommission(n) => k = n)
BY ReqsDiffer DEF ReleaseOf, Msgs, CreateOf, Enable, Drain, Decommission

LEMMA KnownNodeCounted ==
  ASSUME Sound, Told, NEW p \in Pod, PodOK(p), updateKnownNode
  PROVE  PodOK(p)'
<1>0. NodeInformerStep
  BY DEF NodeInformerStep
<1>1. inf = Idle /\ nodeQueue # << >> /\ nodeQueue' = Tail(nodeQueue) /\ UNCHANGED <<inf, regVars>>
  BY DEF updateKnownNode
<1>2. PICK k \in Node, obj \in Objs : Head(nodeQueue) = NodeEv(k, obj) /\ Head(nodeQueue).node = k /\ Head(nodeQueue).obj = obj
  BY <1>1, FirstEvent, ZenonT(60)
<1>3. obj # "absent" /\ cacheNode[k] # None /\ toCore' = toCore \o updateNodeSchedulability(k, obj) /\ CacheUpdateNode(k, obj)
  BY <1>2, ZenonT(60) DEF updateKnownNode
<1>4. cachePod'[p] = cachePod[p]
  BY <1>3 DEF CacheUpdateNode
<1>5. PICK x \in {Enable(k), Drain(k)} : toCore' = toCore \/ toCore' = Append(toCore, x)
  <2>1. toCore \in ToCore
    BY SoundTypes
  <2>2. CASE cacheNode[k] = obj
    BY <1>3, <2>1, <2>2 DEF updateNodeSchedulability, ToCore
  <2>3. CASE cacheNode[k] # obj
    <3>1. PICK x \in {Enable(k), Drain(k)} : x = Req(IF obj = "ready" THEN "enable" ELSE "drain", k)
      BY DEF Enable, Drain
    <3>2. toCore' = toCore \o <<x>> /\ x \in NodeReqs \cup PodReqs
      BY <1>3, <2>3, <3>1 DEF updateNodeSchedulability, Req, NodeReqs
    <3>3. toCore \o <<x>> = Append(toCore, x)
      BY <2>1, <3>2 DEF ToCore
    <3> QED BY <3>2, <3>3
  <2> QED BY <2>2, <2>3
<1>6. SaysNothing(p)
  <2>1. x \in Msgs(k)
    BY DEF Msgs
  <2>2. x # ReleaseOf(p) /\ x # CreateOf(NodeOf[p]) /\ x # Decommission(NodeOf[p])
    BY <2>1, NodeReqsDiffer
  <2> QED BY <1>5, <2>2, SoundTypes, OneRequested
<1>7. AbsentComing(NodeOf[p]) => AbsentComing(NodeOf[p])'
  BY <1>0, <1>1, <1>2, <1>3, EventTaken, InformerLeaves, ZenonT(60) DEF Told
<1>8. UNCHANGED events
  BY <1>0, InformerLeaves
<1>9. Counting(p) => Counting(p)'
  BY <1>0, <1>1, <1>6, <1>7, <1>8, InformerLeaves, StillCounting, ZenonT(60) DEF Rejected, regVars
<1>10. Sent(toCore', ReleaseOf(p)) => Sent(toCore, ReleaseOf(p))
  BY <1>6 DEF SaysNothing
<1> QED BY <1>0, <1>1, <1>4, <1>9, <1>10, InformerLeaves, PodAside, ZenonT(60)

(* The orphans of a new node are those it will pass on.                     *)
LEMMA NewNodeCounted ==
  ASSUME Countable, Sound, Told, NEW p \in Pod, PodOK(p), updateNewNode
  PROVE  PodOK(p)'
<1>0. NodeInformerStep
  BY DEF NodeInformerStep
<1>1. inf = Idle /\ nodeQueue # << >> /\ nodeQueue' = Tail(nodeQueue)
  BY DEF updateNewNode
<1>2. PICK k \in Node, obj \in Objs : Head(nodeQueue) = NodeEv(k, obj) /\ Head(nodeQueue).node = k /\ Head(nodeQueue).obj = obj
  BY <1>1, FirstEvent, ZenonT(60)
<1>3. /\ obj # "absent" /\ cacheNode[k] = None /\ CacheUpdateNode(k, obj) /\ registerNodes("node", {k}, toCore)
      /\ inf' = [at |-> "waiting", node |-> k, obj |-> obj, adopted |-> Orphans(k)]
  BY <1>2, ZenonT(60) DEF updateNewNode
<1>4. inf'.node = k /\ inf'.adopted = Orphans(k)
  BY <1>3
<1>5. cachePod'[p] = IF p \in Orphans(k) THEN "assigned" ELSE cachePod[p]
  BY <1>3 DEF CacheUpdateNode
<1>6. p \in Orphans(k) <=> cachePod[p] = "orphan" /\ NodeOf[p] = k
  BY DEF Orphans
<1>7. toCore' = Append(toCore, CreateOf(k))
  <2>1. toCore' = toCore \o Reqs("create", {k})
    BY <1>3 DEF registerNodes
  <2> QED BY <2>1, OneCreate, SoundTypes, ZenonT(60)
<1>8. Sent(toCore', ReleaseOf(p)) => Sent(toCore, ReleaseOf(p))
  <2>1. Sent(Append(toCore, CreateOf(k)), ReleaseOf(p)) <=> Sent(toCore, ReleaseOf(p)) \/ CreateOf(k) = ReleaseOf(p)
    BY SoundTypes, QueueAppend DEF ToCore
  <2>2. CreateOf(k) # ReleaseOf(p)
    BY NodeReqsDiffer, MsgsDiffer, ZenonT(60)
  <2> QED BY <1>7, <2>1, <2>2
<1>9. ASSUME NodeOf[p] # k, Counting(p) PROVE Counting(p)'
  <2>1. CreateOf(k) # ReleaseOf(p) /\ CreateOf(k) # CreateOf(NodeOf[p]) /\ CreateOf(k) # Decommission(NodeOf[p])
    BY <1>9, NodeReqsDiffer, MsgsDiffer, ZenonT(60)
  <2>2. SaysNothing(p)
    BY <1>7, <2>1, SoundTypes, OneRequested
  <2>3. AbsentComing(NodeOf[p]) => AbsentComing(NodeOf[p])'
    BY <1>0, <1>1, <1>2, <1>3, EventTaken, InformerLeaves, ZenonT(60) DEF Told
  <2>4. ~Rejected(NodeOf[p]) /\ inf.node # NodeOf[p]
    BY <1>1, PodTypes, IdleInformer
  <2> QED BY <1>0, <1>9, <2>2, <2>3, <2>4, InformerLeaves, StillCounting, ZenonT(60)
<1>10. Counted(p)'
  <2>1. CASE p \in Orphans(k)
    BY <1>4, <1>6, <2>1, ZenonT(60) DEF Counted, Counting
  <2>2. CASE p \notin Orphans(k)
    <3>1. cachePod[p] = "assigned" => NodeOf[p] # k
      BY <1>3, PodTypes
    <3> QED BY <1>0, <1>5, <1>9, <2>2, <3>1, InformerLeaves, ZenonT(60) DEF PodOK, Counted
  <2> QED BY <2>1, <2>2
<1>11. \A o : Comes(p, o)' <=> Comes(p, o)
  BY <1>0, InformerLeaves DEF Comes
<1>12. UNCHANGED <<apiPod, listed, handlers, init, todo>>
  BY <1>0, InformerLeaves
<1>13. cachePod'[p] = "none" <=> cachePod[p] = "none"
  BY <1>5, <1>6
<1>14. p \in inf'.adopted => cachePod[p] # "none"
  BY <1>4, <1>6
<1>15. Unborn(p)' /\ Alive(p)' /\ Reported(p)'
  BY <1>8, <1>11, <1>12, <1>13, <1>14, ZenonT(60) DEF PodOK, Unborn, Alive, Reported
<1> QED BY <1>10, <1>15 DEF PodOK

(* A node is taken out of the cache: its pods are orphans.                  *)
LEMMA RemovedFromCache ==
  ASSUME Sound, NEW p \in Pod, NEW k, CacheRemoveNode(k)
  PROVE  /\ cachePod'[p] = cachePod[p] \/ (cachePod[p] # "none" /\ cachePod'[p] = "orphan")
         /\ NodeOf[p] = k => cachePod'[p] # "assigned"
BY PodTypes DEF CacheRemoveNode

LEMMA AnsweredCounted ==
  ASSUME Sound, Told, NEW p \in Pod, PodOK(p), NodeRejected \/ NodeAccepted
  PROVE  PodOK(p)'
<1>0. NodeInformerStep
  BY DEF NodeInformerStep
<1>1. inf.at = "waiting" /\ pending = {} /\ UNCHANGED <<nodeQueue, toCore, regVars>>
  BY DEF NodeRejected, NodeAccepted, queueVars
<1>2. AbsentComing(NodeOf[p]) => AbsentComing(NodeOf[p])'
  BY <1>1 DEF AbsentComing
<1>3. SaysNothing(p)
  BY <1>1, NothingRequested
<1>4. CASE NodeRejected
  <2>1. CacheRemoveNode(inf.node) /\ inf' = Idle
    BY <1>4, ZenonT(60) DEF NodeRejected
  <2>2. inf'.adopted = {}
    BY <2>1 DEF Idle
  <2>3. ASSUME NodeOf[p] # inf.node, Counting(p) PROVE Counting(p)'
    <3>1. ~Rejected(NodeOf[p])
      BY <2>3, ZenonT(60) DEF Rejected
    <3> QED BY <1>0, <1>2, <1>3, <2>3, <3>1, InformerLeaves, StillCounting, ZenonT(60)
  <2>4. cachePod'[p] = "assigned" /\ Counting(p) => Counting(p)'
    BY <2>1, <2>3, RemovedFromCache, ZenonT(60)
  <2>5. cachePod'[p] = cachePod[p] \/ (cachePod[p] # "none" /\ cachePod'[p] = "orphan")
    BY <2>1, RemovedFromCache, ZenonT(60)
  <2> QED BY <1>0, <1>1, <2>2, <2>4, <2>5, InformerLeaves, PodAside, ZenonT(60)
<1>5. CASE NodeAccepted
  <2>1. inf' = [inf EXCEPT !.at = "adopting"] /\ inf.node \in accepted /\ UNCHANGED cachePod
    BY <1>5, ZenonT(60) DEF NodeAccepted, cacheVars
  <2>2. inf'.adopted = inf.adopted /\ inf'.node = inf.node
    BY <1>1, <2>1 DEF Sound, Typed, InfTyped, Idle
  <2>3. ~Rejected(NodeOf[p])
    <3>1. NodeOf[p] \in Node /\ ~Sent(events, Reject(NodeOf[p]))
      BY <1>1, PodTypes, NoneAsked, ZenonT(60) DEF Told
    <3> QED BY <2>1, <3>1, ZenonT(60) DEF Rejected
  <2>4. Counting(p) => Counting(p)'
    BY <1>0, <1>2, <1>3, <2>2, <2>3, InformerLeaves, StillCounting, ZenonT(60)
  <2> QED BY <1>0, <1>1, <2>1, <2>2, <2>4, InformerLeaves, PodAside, ZenonT(60)
<1> QED BY <1>4, <1>5

(* A pod is registered at start-up or adopted by its new node.              *)
LEMMA RegisteredCounted ==
  ASSUME Sound, NEW p \in Pod, PodOK(p), NEW q \in Pod, updateForeignPod(q, "running", FALSE), p = q => apiPod[p] # "none",
         UNCHANGED <<apiPod, podQueue, nodeQueue, listed, handlers, events, regVars, coreAlloc, init>>, todo' \subseteq todo,
         inf'.at = inf.at, inf'.node = inf.node, inf'.adopted \subseteq inf.adopted, p # q /\ p \in inf.adopted => p \in inf'.adopted
  PROVE  PodOK(p)'
<1>1. CASE p # q
  <2>1. cachePod'[p] = cachePod[p] /\ SaysNothing(p)
    BY <1>1, OtherPod, ZenonT(60)
  <2>2. Counting(p) => Counting(p)'
    BY <1>1, <2>1, StillCounting, ZenonT(60) DEF AbsentComing, Rejected, regVars
  <2>3. Sent(toCore', ReleaseOf(p)) => Sent(toCore, ReleaseOf(p))
    BY <2>1 DEF SaysNothing
  <2> QED BY <2>1, <2>2, <2>3, PodAside, ZenonT(60)
<1>2. CASE p = q /\ apiPod[p] = "running"
  <2>1. /\ cachePod'[p] # "none" /\ ~Sent(toCore', ReleaseOf(p))
        /\ cachePod'[p] = "assigned" =>
             Over(toCore', AllocOf(p), CreateOf(NodeOf[p])) /\ Over(toCore', AllocOf(p), Decommission(NodeOf[p]))
    <3>1. ~Sent(toCore, ReleaseOf(p))
      BY <1>2, ZenonT(60) DEF PodOK, Alive
    <3> QED BY <1>2, <3>1, PodPassedOn, ZenonT(60)
  <2>2. \A o : Comes(p, o)' <=> Comes(p, o)
    BY DEF Comes
  <2>3. Unborn(p)' /\ Alive(p)' /\ Reported(p)'
    BY <1>2, <2>1, <2>2, ZenonT(60) DEF PodOK, Unborn, Alive, Reported
  <2>4. Counted(p)'
    BY <2>1, ZenonT(60) DEF Counted, Counting
  <2> QED BY <2>3, <2>4 DEF PodOK
<1>3. CASE p = q /\ apiPod[p] # "running"
  BY <1>3, EndedPod
<1> QED BY <1>1, <1>2, <1>3

LEMMA AdoptPodCounted ==
  ASSUME Sound, NEW p \in Pod, PodOK(p), AdoptPod
  PROVE  PodOK(p)'
<1>0. NodeInformerStep
  BY DEF NodeInformerStep
<1>1. PICK q \in inf.adopted : inf' = [inf EXCEPT !.adopted = @ \ {q}] /\ updateForeignPod(q, "running", FALSE)
  BY ZenonT(60) DEF AdoptPod
<1>2. inf.at = "adopting" /\ UNCHANGED <<nodeQueue, regVars>>
  BY DEF AdoptPod, queueVars
<1>3. /\ inf'.at = inf.at /\ inf'.node = inf.node /\ inf'.adopted = inf.adopted \ {q} /\ q \in Pod
  BY <1>1, <1>2 DEF Sound, Typed, InfTyped, Idle
<1>4. p = q => apiPod[p] # "none"
  BY <1>1 DEF PodOK, Unborn
<1>5. inf'.adopted \subseteq inf.adopted /\ (p # q /\ p \in inf.adopted => p \in inf'.adopted)
  BY <1>3
<1>6. UNCHANGED <<apiPod, podQueue, nodeQueue, listed, handlers, events, regVars, coreAlloc, init>> /\ todo' \subseteq todo
  BY <1>0, <1>2, InformerLeaves
<1> QED BY <1>1, <1>3, <1>4, <1>5, <1>6, RegisteredCounted, ZenonT(60)

LEMMA EnableNodeCounted ==
  ASSUME Sound, NEW p \in Pod, PodOK(p), enableNode
  PROVE  PodOK(p)'
<1>0. NodeInformerStep
  BY DEF NodeInformerStep
<1>1. /\ inf.at = "adopting" /\ inf.adopted = {} /\ inf' = Idle /\ UNCHANGED <<nodeQueue, cachePod>>
      /\ toCore' = toCore \/ toCore' = Append(toCore, Enable(inf.node))
  BY ZenonT(60) DEF enableNode, queueVars, cacheVars, Enable
<1>2. inf'.adopted = {} /\ ~Rejected(NodeOf[p])
  BY <1>1 DEF Idle, Rejected
<1>3. SaysNothing(p)
  <2>1. Enable(inf.node) # ReleaseOf(p) /\ Enable(inf.node) # CreateOf(NodeOf[p]) /\ Enable(inf.node) # Decommission(NodeOf[p])
    BY NodeReqsDiffer, MsgsDiffer, ZenonT(60)
  <2> QED BY <1>1, <2>1, SoundTypes, OneRequested, ZenonT(60)
<1>4. AbsentComing(NodeOf[p]) => AbsentComing(NodeOf[p])'
  BY <1>1 DEF AbsentComing
<1>5. p \notin inf.adopted
  BY <1>1
<1>6. Counting(p) => Counting(p)'
  BY <1>0, <1>2, <1>3, <1>4, <1>5, InformerLeaves, StillCounting, ZenonT(60)
<1>7. Sent(toCore', ReleaseOf(p)) => Sent(toCore, ReleaseOf(p))
  BY <1>3 DEF SaysNothing
<1> QED BY <1>0, <1>1, <1>2, <1>6, <1>7, InformerLeaves, PodAside, ZenonT(60)

LEMMA DeleteNodeCounted ==
  ASSUME Sound, Told, NEW p \in Pod, PodOK(p), deleteNode
  PROVE  PodOK(p)'
<1>0. NodeInformerStep
  BY DEF NodeInformerStep
<1>1. inf = Idle /\ nodeQueue # << >> /\ nodeQueue' = Tail(nodeQueue) /\ UNCHANGED <<inf, regVars>>
  BY DEF deleteNode
<1>2. PICK k \in Node, obj \in Objs : Head(nodeQueue) = NodeEv(k, obj) /\ Head(nodeQueue).node = k /\ Head(nodeQueue).obj = obj
  BY <1>1, FirstEvent, ZenonT(60)
<1>3. CacheRemoveNode(k) /\ (toCore' = toCore \/ toCore' = Append(toCore, Decommission(k)))
  BY <1>2, ZenonT(60) DEF deleteNode, Decommission
<1>4. ASSUME NodeOf[p] # k, Counting(p) PROVE Counting(p)'
  <2>1. Decommission(k) # ReleaseOf(p) /\ Decommission(k) # CreateOf(NodeOf[p]) /\ Decommission(k) # Decommission(NodeOf[p])
    BY <1>4, NodeReqsDiffer, MsgsDiffer, ZenonT(60)
  <2>2. SaysNothing(p)
    BY <1>3, <2>1, SoundTypes, OneRequested, ZenonT(60)
  <2>3. AbsentComing(NodeOf[p]) => AbsentComing(NodeOf[p])'
    BY <1>0, <1>1, <1>2, <1>4, EventTaken, InformerLeaves, ZenonT(60) DEF Told
  <2>4. ~Rejected(NodeOf[p])
    BY <1>1, PodTypes, IdleInformer
  <2> QED BY <1>0, <1>1, <1>4, <2>2, <2>3, <2>4, InformerLeaves, StillCounting, ZenonT(60)
<1>5. Sent(toCore', ReleaseOf(p)) => Sent(toCore, ReleaseOf(p))
  <2>1. Sent(Append(toCore, Decommission(k)), ReleaseOf(p)) <=> Sent(toCore, ReleaseOf(p)) \/ Decommission(k) = ReleaseOf(p)
    BY SoundTypes, QueueAppend DEF ToCore
  <2>2. Decommission(k) # ReleaseOf(p)
    BY NodeReqsDiffer, MsgsDiffer, ZenonT(60)
  <2> QED BY <1>3, <2>1, <2>2
<1>6. cachePod'[p] = "assigned" /\ Counting(p) => Counting(p)'
  BY <1>3, <1>4, RemovedFromCache, ZenonT(60)
<1>7. cachePod'[p] = cachePod[p] \/ (cachePod[p] # "none" /\ cachePod'[p] = "orphan")
  BY <1>3, RemovedFromCache, ZenonT(60)
<1> QED BY <1>0, <1>1, <1>5, <1>6, <1>7, InformerLeaves, PodAside, ZenonT(60)

(* InitializeState: the steps that touch no pod.                            *)
LEMMA QuietInitCounted ==
  ASSUME Sound, NEW p \in Pod, PodOK(p),
         loadNodes \/ AddNodeHandlers \/ finalizeNodes \/ FinalizeRemovesNode \/ finalizePods \/ Initialized
  PROVE  PodOK(p)'
<1>1. UNCHANGED <<apiPod, podQueue, listed, inf, regVars, events, toCore, coreAlloc>>
  BY ZenonT(60) DEF loadNodes, AddNodeHandlers, finalizeNodes, FinalizeRemovesNode, finalizePods, Initialized,
       apiVars, queueVars, coreVars
<1>2. "pod" \in handlers' <=> "pod" \in handlers
  <2>1. handlers' = handlers \/ handlers' = handlers \cup {"node"}
    BY ZenonT(60) DEF loadNodes, AddNodeHandlers, finalizeNodes, FinalizeRemovesNode, finalizePods, Initialized, queueVars
  <2> QED BY <2>1
<1>3. AbsentComing(NodeOf[p]) => AbsentComing(NodeOf[p])'
  <2>1. nodeQueue' = nodeQueue \/ nodeQueue = << >>
    <3>1. nodeQueue' = nodeQueue \/ init = "nodeHandlers"
      BY ZenonT(60) DEF loadNodes, AddNodeHandlers, finalizeNodes, FinalizeRemovesNode, finalizePods, Initialized, queueVars
    <3> QED BY <3>1 DEF Sound, Typed, BeforeHandlers
  <2> QED BY <2>1 DEF AbsentComing, Sent
<1>4. Counting(p) => Counting(p)'
  BY <1>1, <1>3, NothingRequested, StillCounting, ZenonT(60) DEF Rejected, regVars
<1>5. cachePod'[p] = cachePod[p] \/ (cachePod[p] # "none" /\ cachePod'[p] = "orphan")
  <2>1. cachePod' = cachePod \/ \E k \in todo : CacheRemoveNode(k)
    BY ZenonT(60) DEF loadNodes, AddNodeHandlers, finalizeNodes, FinalizeRemovesNode, finalizePods, Initialized, cacheVars
  <2> QED BY <2>1, RemovedFromCache, ZenonT(60)
<1>6. ASSUME apiPod[p] \in {"none", "running"}, init' = "removePods", p \in todo' PROVE FALSE
  <2>1. finalizePods
    <3>1. loadNodes => init' = "register"
      BY DEF loadNodes
    <3>2. AddNodeHandlers => init' = "podHandlers"
      BY DEF AddNodeHandlers
    <3>3. FinalizeRemovesNode => init' = "removeNodes"
      BY DEF FinalizeRemovesNode
    <3> QED BY <1>6, <3>1, <3>2, <3>3 DEF finalizeNodes, Initialized
  <2>2. p \in listed /\ apiPod[p] # "running"
    BY <1>6, <2>1 DEF finalizePods
  <2> QED BY <1>6, <2>2 DEF PodOK, Unborn
<1> QED BY <1>1, <1>2, <1>4, <1>5, <1>6, PodAside, ZenonT(60)

(* The nodes are registered before any pod is in the cache, and enabled.    *)
LEMMA StartNodesCounted ==
  ASSUME Countable, Sound, NEW p \in Pod, PodOK(p), RegisterNodes \/ addNodesWithoutRegistering \/ enableNodes
  PROVE  PodOK(p)'
<1>1. UNCHANGED <<apiPod, podQueue, nodeQueue, listed, handlers, todo, inf, events, cachePod, coreAlloc>>
  BY ZenonT(60) DEF RegisterNodes, addNodesWithoutRegistering, enableNodes, apiVars, queueVars, cacheVars, coreVars
<1>2. init' # "removePods"
  <2>1. RegisterNodes => init' = "add"
    BY DEF RegisterNodes
  <2>2. addNodesWithoutRegistering => init' = "list"
    BY DEF addNodesWithoutRegistering
  <2>3. enableNodes => init' = "nodeHandlers"
    BY DEF enableNodes
  <2> QED BY <2>1, <2>2, <2>3
<1>3. CASE RegisterNodes
  <2>1. PICK S \in SUBSET Node : toCore' = toCore \o Reqs("create", S)
    BY <1>3, ZenonT(60) DEF RegisterNodes, registerNodes
  <2>2. cachePod[p] = "none"
    BY <1>3 DEF RegisterNodes, Sound, NoneListed
  <2>3. Sent(toCore', ReleaseOf(p)) => Sent(toCore, ReleaseOf(p))
    <3> DEFINE t == Reqs("create", S)
    <3>1. t \in ToCore /\ ~Sent(t, ReleaseOf(p))
      BY ReqsSent DEF ReleaseOf
    <3> HIDE DEF t
    <3>2. Sent(toCore \o t, ReleaseOf(p)) <=> Sent(toCore, ReleaseOf(p)) \/ Sent(t, ReleaseOf(p))
      BY <3>1, SoundTypes, QueueBatch DEF ToCore
    <3> QED BY <2>1, <3>1, <3>2 DEF t
  <2>4. cachePod'[p] # "assigned"
    BY <1>1, <2>2
  <2> QED BY <1>1, <1>2, <2>3, <2>4, PodAside, ZenonT(60)
<1>4. CASE addNodesWithoutRegistering \/ enableNodes
  <2>1. PICK S \in SUBSET Node : toCore' = toCore \o Reqs("enable", S)
    <3>1. toCore' = toCore \o Reqs("enable", Enabled(accepted))
      BY <1>4, ZenonT(60) DEF addNodesWithoutRegistering, enableNodes
    <3>2. Enabled(accepted) \in SUBSET Node
      BY SoundTypes DEF Enabled
    <3> QED BY <3>1, <3>2, ZenonT(60)
  <2>2. SaysNothing(p)
    BY <2>1, SoundTypes, EnablesRequested
  <2>3. UNCHANGED regVars
    BY <1>4, ZenonT(60) DEF addNodesWithoutRegistering, enableNodes
  <2>4. Counting(p) => Counting(p)'
    BY <1>1, <2>2, <2>3, StillCounting, ZenonT(60) DEF AbsentComing, Rejected, regVars
  <2>5. Sent(toCore', ReleaseOf(p)) => Sent(toCore, ReleaseOf(p))
    BY <2>2 DEF SaysNothing
  <2> QED BY <1>1, <1>2, <2>4, <2>5, PodAside, ZenonT(60)
<1> QED BY <1>3, <1>4

LEMMA ListPodsCounted ==
  ASSUME Sound, NEW p \in Pod, PodOK(p), listPods
  PROVE  PodOK(p)'
<1>1. /\ UNCHANGED <<apiPod, podQueue, handlers, inf, cachePod, toCore>> /\ init = "list" /\ init' = "pods"
      /\ listed' = {q \in Pod : apiPod[q] = "running"}
  BY ZenonT(60) DEF listPods, apiVars, queueVars, cacheVars
<1>2. cachePod[p] = "none" /\ handlers = {} /\ (apiPod[p] = "none" => p \notin listed')
  BY <1>1 DEF Sound, NoneListed, Typed, BeforeHandlers
<1>3. \A o : Comes(p, o)' <=> Comes(p, o)
  BY <1>1 DEF Comes
<1>4. Unborn(p)'
  BY <1>1, <1>2, <1>3, ZenonT(60) DEF PodOK, Unborn
<1>5. Alive(p)'
  BY <1>1, <1>3 DEF PodOK, Alive
<1>6. Reported(p)' /\ Counted(p)'
  BY <1>1, <1>2 DEF Reported, Counted
<1> QED BY <1>4, <1>5, <1>6 DEF PodOK

LEMMA RegisterPodsCounted ==
  ASSUME Sound, Lists, NEW p \in Pod, PodOK(p), registerPods
  PROVE  PodOK(p)'
<1>1. PICK q \in todo : todo' = todo \ {q} /\ updateForeignPod(q, "running", FALSE)
  BY ZenonT(60) DEF registerPods
<1>2. /\ init = "pods"
      /\ UNCHANGED <<apiPod, podQueue, nodeQueue, listed, handlers, events, regVars, coreAlloc, init, inf>>
  BY ZenonT(60) DEF registerPods, apiVars, queueVars, coreVars
<1>3. q \in Pod /\ q \in listed
  BY <1>1, <1>2 DEF Sound, Typed, InitTyped, Lists
<1>4. p = q => apiPod[p] # "none"
  BY <1>3 DEF PodOK, Unborn
<1>5. todo' \subseteq todo
  BY <1>1
<1> QED BY <1>1, <1>2, <1>3, <1>4, <1>5, RegisteredCounted, ZenonT(60)

(* The new handler hears of every pod there is.                             *)
LEMMA AddPodHandlersCounted ==
  ASSUME Countable, Sound, NEW p \in Pod, PodOK(p), AddPodHandlers
  PROVE  PodOK(p)'
<1>1. /\ UNCHANGED <<apiPod, nodeQueue, listed, inf, regVars, events, cachePod, toCore, coreAlloc>> /\ init' = "listNodes"
  BY ZenonT(60) DEF AddPodHandlers, apiVars, cacheVars, coreVars
<1>2. PICK S \in SUBSET Pod :
        /\ \A q \in Pod : q \in S <=> apiPod[q] \in {"running", "terminated"}
        /\ podQueue' = [i \in 1 .. Cardinality(S) |-> PodEv(ListOf(S)[i], apiPod[ListOf(S)[i]], FALSE)]
  <2>1. \E S \in SUBSET Pod : /\ S = {q \in Pod : apiPod[q] \in {"running", "terminated"}}
                              /\ podQueue' = [i \in 1 .. Cardinality(S) |-> PodEv(ListOf(S)[i], apiPod[ListOf(S)[i]], FALSE)]
    BY ZenonT(60) DEF AddPodHandlers
  <2> QED BY <2>1, ZenonT(60)
<1>4. /\ Cardinality(S) \in Nat /\ \A i \in 1 .. Cardinality(S) : ListOf(S)[i] \in S
      /\ \A x \in S : \E i \in 1 .. Cardinality(S) : ListOf(S)[i] = x
  BY Listed
<1>5. ASSUME NEW o, Comes(p, o)' PROVE apiPod[p] = o /\ o \in {"running", "terminated"}
  <2>1. PICK u \in BOOLEAN : Sent(podQueue', PodEv(p, o, u))
    BY <1>5 DEF Comes
  <2>2. PICK i \in 1 .. Cardinality(S) : PodEv(ListOf(S)[i], apiPod[ListOf(S)[i]], FALSE) = PodEv(p, o, u)
    BY <1>2, <1>4, <2>1 DEF Sent
  <2>3. ListOf(S)[i] = p /\ apiPod[ListOf(S)[i]] = o
    <3>1. /\ PodEv(ListOf(S)[i], apiPod[ListOf(S)[i]], FALSE).pod = ListOf(S)[i]
          /\ PodEv(ListOf(S)[i], apiPod[ListOf(S)[i]], FALSE).obj = apiPod[ListOf(S)[i]]
          /\ PodEv(p, o, u).pod = p /\ PodEv(p, o, u).obj = o
      BY DEF PodEv
    <3> QED BY <2>2, <3>1, ZenonT(60)
  <2> QED BY <1>2, <1>4, <2>3
<1>6. ASSUME apiPod[p] = "running" PROVE Comes(p, "running")'
  <2>1. PICK i \in 1 .. Cardinality(S) : ListOf(S)[i] = p
    BY <1>2, <1>4, <1>6
  <2>2. i \in DOMAIN podQueue' /\ podQueue'[i] = PodEv(p, "running", FALSE)
    BY <1>2, <1>6, <2>1
  <2>3. Sent(podQueue', PodEv(p, "running", FALSE))
    BY <2>2 DEF Sent
  <2> QED BY <2>3 DEF Comes
<1>7. Unborn(p)'
  BY <1>1, <1>5 DEF PodOK, Unborn
<1>8. Alive(p)'
  BY <1>1, <1>5 DEF PodOK, Alive
<1>9. Reported(p)'
  BY <1>1, <1>6 DEF Reported
<1>10. Counting(p) => Counting(p)'
  BY <1>1, NothingRequested, StillCounting, ZenonT(60) DEF AbsentComing, Rejected, regVars
<1>11. Counted(p)'
  BY <1>1, <1>10, ZenonT(60) DEF PodOK, Counted
<1> QED BY <1>7, <1>8, <1>9, <1>11 DEF PodOK

(* The node that finalizeNodes drops has no pods in the cache, or it is     *)
(* back there and on its way out again.                                     *)
LEMMA DecommissionsCounted ==
  ASSUME Sound, Told, NEW p \in Pod, PodOK(p), FinalizeDecommissions
  PROVE  PodOK(p)'
<1>1. /\ UNCHANGED <<apiPod, podQueue, nodeQueue, listed, handlers, init, todo, inf, regVars, events, cachePod, coreAlloc>>
      /\ going # None /\ toCore' = Append(toCore, Decommission(going))
  BY ZenonT(60) DEF FinalizeDecommissions, apiVars, queueVars, cacheVars, coreVars, Decommission
<1>2. init = "removeNodes"
  BY <1>1 DEF Sound, Typed, BeforeHandlers
<1>3. ASSUME NodeOf[p] # going, Counting(p) PROVE Counting(p)'
  <2>1. Decommission(going) # ReleaseOf(p) /\ Decommission(going) # CreateOf(NodeOf[p]) /\ Decommission(going) # Decommission(NodeOf[p])
    BY <1>3, NodeReqsDiffer, MsgsDiffer, ZenonT(60)
  <2>2. SaysNothing(p)
    BY <1>1, <2>1, SoundTypes, OneRequested, ZenonT(60)
  <2> QED BY <1>1, <1>3, <2>2, StillCounting, ZenonT(60) DEF AbsentComing, Rejected, regVars
<1>4. ASSUME NodeOf[p] = going, cachePod[p] = "assigned" PROVE Counting(p)'
  <2>1. NodeOf[p] \in Node /\ cacheNode[NodeOf[p]] # None
    BY <1>4, PodTypes
  <2>2. NodeOK(NodeOf[p])
    BY <1>2, <2>1 DEF Told, AgreeInv
  <2>3. Leaves(NodeOf[p])
    BY <1>4 DEF Leaves
  <2>4. AbsentComing(NodeOf[p]) \/ Rejected(NodeOf[p])
    BY <1>4, <2>1, <2>2, <2>3, ZenonT(60) DEF NodeOK, Asked, Settled
  <2> QED BY <1>1, <2>4, ZenonT(60) DEF Counting, AbsentComing, Rejected, regVars
<1>5. Sent(toCore', ReleaseOf(p)) => Sent(toCore, ReleaseOf(p))
  <2>1. \A x : Sent(Append(toCore, x), ReleaseOf(p)) <=> Sent(toCore, ReleaseOf(p)) \/ x = ReleaseOf(p)
    BY SoundTypes, QueueAppend DEF ToCore
  <2>2. Decommission(going) # ReleaseOf(p)
    BY NodeReqsDiffer, MsgsDiffer, ZenonT(60)
  <2> QED BY <1>1, <2>1, <2>2, ZenonT(60)
<1> QED BY <1>1, <1>3, <1>4, <1>5, PodAside, ZenonT(60)

LEMMA DeletesPodCounted ==
  ASSUME Sound, NEW p \in Pod, PodOK(p), FinalizeDeletesPod
  PROVE  PodOK(p)'
<1>1. PICK q \in todo : todo' = todo \ {q} /\ deleteForeignPod(q)
  BY ZenonT(60) DEF FinalizeDeletesPod
<1>2. /\ init = "removePods"
      /\ UNCHANGED <<apiPod, podQueue, nodeQueue, listed, handlers, events, regVars, coreAlloc, init, inf>>
  BY ZenonT(60) DEF FinalizeDeletesPod, apiVars, queueVars, coreVars
<1>3. q \in Pod
  BY <1>1, <1>2 DEF Sound, Typed, InitTyped
<1>4. CASE p = q
  <2>1. apiPod[p] \notin {"none", "running"}
    BY <1>1, <1>2, <1>4, ZenonT(60) DEF PodOK, Alive
  <2> QED BY <1>2, <2>1, EndedPod
<1>5. CASE p # q
  <2>1. cachePod'[p] = cachePod[p] /\ SaysNothing(p)
    BY <1>1, <1>3, <1>5, OtherPod, ZenonT(60)
  <2>2. Counting(p) => Counting(p)'
    BY <1>2, <2>1, StillCounting, ZenonT(60) DEF AbsentComing, Rejected, regVars
  <2>3. Sent(toCore', ReleaseOf(p)) => Sent(toCore, ReleaseOf(p))
    BY <2>1 DEF SaysNothing
  <2>4. p \in todo' => p \in todo
    BY <1>1
  <2> QED BY <1>2, <2>1, <2>2, <2>3, <2>4, PodAside, ZenonT(60)
<1> QED BY <1>4, <1>5

LEMMA InitStepCounted ==
  ASSUME Countable, Sound, Told, Lists, NEW p \in Pod, PodOK(p), InitStep
  PROVE  PodOK(p)'
<1>1. \/ loadNodes \/ AddNodeHandlers \/ finalizeNodes \/ FinalizeRemovesNode \/ finalizePods \/ Initialized
      \/ RegisterNodes \/ addNodesWithoutRegistering \/ enableNodes
      \/ listPods \/ registerPods \/ AddPodHandlers \/ FinalizeDecommissions \/ FinalizeDeletesPod
  BY ZenonT(60) DEF InitStep
<1> QED BY <1>1, QuietInitCounted, StartNodesCounted, ListPodsCounted, RegisterPodsCounted, AddPodHandlersCounted,
           DecommissionsCounted, DeletesPodCounted, ZenonT(60)

LEMMA NodeInformerCounted ==
  ASSUME Countable, Sound, Told, NEW p \in Pod, PodOK(p), NodeInformerStep
  PROVE  PodOK(p)'
<1>1. \/ updateKnownNode \/ updateNewNode \/ NodeRejected \/ NodeAccepted \/ AdoptPod \/ enableNode \/ deleteNode
  BY ZenonT(60) DEF NodeInformerStep
<1> QED BY <1>1, KnownNodeCounted, NewNodeCounted, AnsweredCounted, AdoptPodCounted, EnableNodeCounted, DeleteNodeCounted, ZenonT(60)

LEMMA ListsInductive ==
  ASSUME Sound, Lists, [Next]_vars
  PROVE  Lists'
<1>1. CASE ~InitStep
  <2>1. UNCHANGED <<handlers, init, listed, todo>>
    <3>1. UNCHANGED vars \/ ApiStep \/ PodInformerStep \/ DispatcherStep \/ CoreReceives \/ NodeInformerStep
      BY <1>1, ZenonT(60) DEF Next
    <3>2. CASE UNCHANGED vars
      BY <3>2 DEF vars, queueVars, initVars
    <3>3. CASE ApiStep
      BY <3>3, ZenonT(60) DEF ApiStep, Heartbeat, NodeChanges, PodChanges, OtherEvent, queueVars, initVars
    <3>4. CASE PodInformerStep \/ DispatcherStep \/ CoreReceives
      BY <3>4, ZenonT(60) DEF PodInformerStep, UpdatePod, DeletePod, DispatcherStep, NodeEventHandler, ApplicationEventHandler,
           CoreReceives, queueVars, initVars
    <3> QED BY <3>1, <3>2, <3>3, <3>4, InformerLeaves, ZenonT(60)
  <2> QED BY <2>1 DEF Lists
<1>2. CASE listPods
  BY <1>2 DEF Lists, listPods
<1>3. CASE finalizeNodes
  <2>1. todo' \subseteq Node /\ init = "listNodes" /\ UNCHANGED <<listed, handlers>>
    BY <1>3, ZenonT(60) DEF finalizeNodes, queueVars
  <2> QED BY <2>1, NodesAssumption DEF Lists
<1>4. CASE finalizePods
  <2>1. todo' \subseteq listed /\ init = "removeNodes" /\ UNCHANGED <<listed, handlers>>
    BY <1>4, ZenonT(60) DEF finalizePods, queueVars
  <2> QED BY <2>1 DEF Lists
<1>5. CASE AddPodHandlers
  <2>1. "pod" \in handlers' /\ UNCHANGED <<listed, todo>>
    BY <1>5 DEF AddPodHandlers
  <2> QED BY <2>1 DEF Lists
<1>6. CASE registerPods \/ FinalizeRemovesNode \/ FinalizeDecommissions \/ FinalizeDeletesPod
  <2>1. UNCHANGED <<handlers, listed, init>>
    BY <1>6, ZenonT(60) DEF registerPods, FinalizeRemovesNode, FinalizeDecommissions, FinalizeDeletesPod, queueVars
  <2>2. todo' = todo \/ \E x \in todo : todo' = todo \ {x}
    BY <1>6, ZenonT(60) DEF registerPods, FinalizeRemovesNode, FinalizeDecommissions, FinalizeDeletesPod
  <2> QED BY <2>1, <2>2 DEF Lists
<1>7. CASE loadNodes \/ RegisterNodes \/ addNodesWithoutRegistering \/ enableNodes \/ AddNodeHandlers
  <2>1. UNCHANGED <<listed, todo>>
    BY <1>7, ZenonT(60) DEF loadNodes, RegisterNodes, addNodesWithoutRegistering, enableNodes, AddNodeHandlers
  <2>2. init' = "register" \/ init' = "add" \/ init' = "list" \/ init' = "nodeHandlers" \/ init' = "podHandlers"
    BY <1>7, ZenonT(60) DEF loadNodes, RegisterNodes, addNodesWithoutRegistering, enableNodes, AddNodeHandlers
  <2> QED BY <2>1, <2>2 DEF Lists
<1>8. CASE Initialized
  <2>1. init = "removePods" /\ UNCHANGED <<listed, todo, handlers>>
    BY <1>8 DEF Initialized, queueVars
  <2> QED BY <2>1 DEF Lists
<1> QED BY <1>1, <1>2, <1>3, <1>4, <1>5, <1>6, <1>7, <1>8, ZenonT(60) DEF InitStep

LEMMA AccountInductive ==
  ASSUME Countable, Sound, Told, AccountInv, [Next]_vars
  PROVE  AccountInv'
<1>1. Lists /\ Lists'
  BY ListsInductive DEF AccountInv
<1>2. ASSUME NEW p \in Pod PROVE PodOK(p)'
  <2>1. PodOK(p)
    BY DEF AccountInv
  <2>2. CASE UNCHANGED vars
    <3>1. UNCHANGED <<apiPod, podQueue, nodeQueue, listed, handlers, init, todo, inf, pending, accepted, events, cachePod, toCore, coreAlloc>>
      BY <2>2 DEF vars, apiVars, queueVars, cacheVars, initVars, regVars, coreVars
    <3> QED BY <2>1, <3>1, ZenonT(60) DEF PodOK, Unborn, Alive, Reported, Counted, Counting, Comes, AbsentComing, Rejected
  <2> QED BY <1>1, <2>1, <2>2, ApiCounted, InitStepCounted, NodeInformerCounted, PodInformerCounted, DispatcherCounted, CoreCounted,
             ZenonT(60) DEF Next
<1> QED BY <1>1, <1>2 DEF AccountInv
-----------------------------------------------------------------------------
(* There are finitely many nodes and pods, so sets of them are listed; the  *)
(* library's theorems on finite sets are about the same two operators.      *)
Finite == INSTANCE FiniteSetTheorems

LEMMA SameFinite == \A S : (IsFiniteSet(S) <=> Finite!IsFiniteSet(S)) /\ Cardinality(S) = Finite!Cardinality(S)
BY DEF IsFiniteSet, Cardinality, Finite!IsFiniteSet, Finite!Cardinality

LEMMA SubsetsCounted ==
  ASSUME NEW S, IsFiniteSet(S), NEW T \in SUBSET S
  PROVE  IsFiniteSet(T) /\ Cardinality(T) \in Nat /\ Cardinality(T) <= Cardinality(S)
BY SameFinite, Finite!FS_Subset, Finite!FS_CardinalityType

(* ListOf lists every member of a finite set once.                          *)
LEMMA ListedOnce ==
  ASSUME NEW S, IsFiniteSet(S)
  PROVE  /\ Cardinality(S) \in Nat /\ ListOf(S) \in [1 .. Cardinality(S) -> S]
         /\ \A i, j \in 1 .. Cardinality(S) : ListOf(S)[i] = ListOf(S)[j] => i = j
         /\ \A x \in S : \E i \in 1 .. Cardinality(S) : ListOf(S)[i] = x
<1> DEFINE N == Cardinality(S)
<1>1. N \in Nat /\ Finite!ExistsBijection(1 .. N, S)
  BY SameFinite, Finite!FS_CardinalityType
<1>2. \E f \in [1 .. N -> S] : IsInjective(f)
  BY <1>1 DEF Finite!ExistsBijection, Finite!Bijection, Finite!Injection, Finite!IsInjective, IsInjective
<1>3. ListOf(S) \in [1 .. N -> S] /\ IsInjective(ListOf(S))
  BY <1>2 DEF ListOf
<1>4. ListOf(S) \in Finite!Injection(1 .. N, S)
  BY <1>3 DEF Finite!Injection, Finite!IsInjective, IsInjective
<1>5. IsFiniteSet(1 .. N) /\ Cardinality(1 .. N) = N
  BY <1>1, SameFinite, Finite!FS_Interval
<1>6. ListOf(S) \in Finite!Surjection(1 .. N, S)
  BY <1>4, <1>5, SameFinite, Finite!FS_Injection
<1> QED BY <1>1, <1>3, <1>6 DEF IsInjective, Finite!Surjection

LEMMA ClusterCountable == Countable
<1>1. ASSUME NEW S, S \in SUBSET Node \/ S \in SUBSET Pod PROVE AllListed(S)
  <2>1. IsFiniteSet(S)
    BY <1>1, SubsetsCounted, NodesAssumption
  <2> QED BY <2>1, ListedOnce DEF AllListed
<1>2. \A n \in Node : Cardinality({n}) = 1
  BY SameFinite, Finite!FS_Singleton
<1> QED BY <1>1, <1>2 DEF Countable
-----------------------------------------------------------------------------
LEMMA InitIsSound ==
  ASSUME Init
  PROVE  Sound
<1>1. ApiTyped /\ QueueTyped /\ CacheTyped /\ InitTyped
  BY NodesAssumption DEF Init, ApiTyped, QueueTyped, CacheTyped, InitTyped, Objs
<1>2. RegTyped /\ CoreTyped
  BY DEF Init, RegTyped, CoreTyped
<1>3. InfTyped /\ BeforeHandlers
  <2>1. Idle.at # "adopting" /\ inf = Idle /\ lock = None
    BY DEF Idle, Init
  <2>2. InfTyped
    BY <2>1, ZenonT(60) DEF InfTyped
  <2> QED BY <2>2, ZenonT(60) DEF Init, BeforeHandlers
<1>4. NoneListed /\ OrphansMatchNodes
  BY DEF Init, NoneListed, OrphansMatchNodes
<1> QED BY <1>1, <1>2, <1>3, <1>4 DEF Sound, Typed

LEMMA SoundNext == Sound /\ [Next]_vars => Sound'
BY ClusterCountable, SoundInductive

LEMMA AlwaysSound == Spec => []Sound
<1> QED BY InitIsSound, SoundNext, PTL DEF Spec

(* Every variable of the node handling keeps its type, and ctx.lock is held *)
(* whenever the node informer passes on adopted pods: updateNodeInternal    *)
(* takes it again after registerNodesInternal gave it up.                   *)
THEOREM NodesTypeSafety == Spec => []TypeOK
<1>1. Sound => TypeOK
  BY NodesAssumption DEF Sound, Typed, ApiTyped, QueueTyped, CacheTyped, InitTyped, RegTyped, InfTyped, CoreTyped, TypeOK, Objs
<1> QED BY <1>1, AlwaysSound, PTL

LEMMA InitIsTold ==
  ASSUME Init
  PROVE  Told
<1>1. /\ toCore = << >> /\ events = << >> /\ nodeQueue = << >> /\ pending = {} /\ accepted = {} /\ init = "load"
      /\ going = None /\ inf.at = "idle" /\ \A n \in Node : coreNode[n] = "none"
  BY DEF Init, Idle
<1>2. \A m : ~Sent(toCore, m) /\ ~Sent(events, m) /\ ~Sent(nodeQueue, m)
  BY <1>1 DEF Sent
<1>3. RegInv /\ StartInv /\ GoneInv /\ AgreeInv
  BY <1>1, <1>2, ZenonT(60) DEF RegInv, StartInv, GoneInv, AgreeInv
<1> QED BY <1>3 DEF Told

(* When nothing is in flight, what was told has arrived.                    *)
LEMMA ToldAgree ==
  ASSUME Sound, Told
  PROVE  NodesAgree
<1> SUFFICES ASSUME Quiet, NEW n \in Node
             PROVE  coreNode[n] = CASE cacheNode[n] = None -> "none"
                                    [] cacheNode[n] = "ready" -> "schedulable"
                                    [] cacheNode[n] = "cordoned" -> "draining"
  BY ZenonT(60) DEF NodesAgree
<1>1. /\ init = "done" /\ inf = Idle /\ toCore = << >> /\ nodeQueue = << >> /\ going # n
  BY NodesAssumption DEF Quiet, Sound, Typed, BeforeHandlers
<1>2. \A m : ~Sent(toCore, m) /\ ~Sent(nodeQueue, m)
  BY <1>1 DEF Sent
<1>3. NodeOK(n) /\ ~Rejected(n) /\ inf.node # n
  BY <1>1, IdleInformer DEF Told, AgreeInv
<1>4. Settled(n) /\ ~AbsentComing(n) /\ (Exists(n) <=> coreNode[n] # "none")
  BY <1>2, <1>3, ZenonT(60) DEF NodeOK, AbsentComing, Exists
<1>5. \A m1, m2 : ~Over(toCore, m1, m2)
  BY <1>1 DEF Over
<1>6. CASE cacheNode[n] = None
  <2>1. coreNode[n] = "none"
    BY <1>1, <1>4, <1>6, ZenonT(60) DEF Settled
  <2>2. None # "ready" /\ None # "cordoned"
    BY NodesAssumption
  <2> QED BY <1>6, <2>1, <2>2
<1>7. CASE cacheNode[n] # None
  <2>1. WillBe(n, cacheNode[n])
    BY <1>3, <1>4, <1>7, ZenonT(60) DEF Settled
  <2>2. \/ cacheNode[n] = "ready" /\ coreNode[n] = "schedulable"
        \/ cacheNode[n] = "cordoned" /\ coreNode[n] = "draining"
    BY <1>5, <2>1, ZenonT(60) DEF WillBe
  <2> QED BY <1>7, <2>2
<1> QED BY <1>6, <1>7, ZenonT(60)

(* When nothing is in flight the cache and the core know the same nodes and *)
(* the core schedules on the uncordoned ones, for any cluster and any       *)
(* number of changes and rejections, provided no node comes back while      *)
(* finalizeNodes works through its list of removed ones.                    *)
THEOREM NodesAlwaysAgree ==
  ASSUME ~Recreates
  PROVE  Spec => []NodesAgree
<1>1. Sound /\ Told => NodesAgree
  BY ToldAgree
<1>2. Init => Sound /\ Told
  BY InitIsSound, InitIsTold
<1>3. Sound /\ Told /\ [Next]_vars => (Sound /\ Told)'
  BY ClusterCountable, SoundNext, ToldInductive
<1> QED BY <1>1, <1>2, <1>3, PTL DEF Spec

LEMMA InitIsAccounted ==
  ASSUME Init
  PROVE  AccountInv
<1>1. /\ podQueue = << >> /\ toCore = << >> /\ handlers = {} /\ listed = {} /\ todo = {} /\ init = "load" /\ inf = Idle
      /\ cachePod = [p \in Pod |-> "none"]
  BY DEF Init
<1>2. Lists
  BY <1>1 DEF Lists
<1>3. ASSUME NEW p \in Pod PROVE PodOK(p)
  <2>1. cachePod[p] = "none" /\ inf.adopted = {} /\ \A m : ~Sent(toCore, m) /\ ~Sent(podQueue, m)
    BY <1>1 DEF Idle, Sent
  <2>2. \A o : ~Comes(p, o)
    BY <2>1 DEF Comes
  <2> QED BY <1>1, <2>1, <2>2 DEF PodOK, Unborn, Alive, Reported, Counted
<1> QED BY <1>2, <1>3 DEF AccountInv

(* When nothing is in flight, every running foreign pod on a node that the  *)
(* core has is accounted there, unless a node comes back between the steps  *)
(* of finalizeNodes (Recreates): orphaning, adoption by a node that         *)
(* registers, rejected registrations and the start-up list lose no pod.     *)
THEOREM LivePodsAlwaysAccounted ==
  ASSUME ~Recreates
  PROVE  Spec => []LivePodsAccounted
<1>1. Sound /\ Told /\ AccountInv => LivePodsAccounted
  <2> SUFFICES ASSUME Sound, Told, AccountInv, Quiet, NEW p \in Pod, apiPod[p] = "running", coreNode[NodeOf[p]] # "none"
               PROVE  p \in coreAlloc
    BY ZenonT(60) DEF LivePodsAccounted
  <2>1. init = "done" /\ inf = Idle /\ nodeQueue = << >> /\ podQueue = << >> /\ toCore = << >> /\ NodeOf[p] \in Node
    BY PodTypes DEF Quiet
  <2>2. \A m : ~Sent(toCore, m) /\ ~Sent(podQueue, m) /\ ~Sent(nodeQueue, m)
    BY <2>1 DEF Sent
  <2>3. cachePod[p] # "none"
    <3>1. "pod" \in handlers /\ Reported(p)
      BY <2>1 DEF AccountInv, Lists, PodOK
    <3> QED BY <2>2, <3>1 DEF Reported, Comes
  <2>4. cacheNode[NodeOf[p]] # None
    <3>1. NodesAgree
      BY ToldAgree
    <3>2. cacheNode[NodeOf[p]] = None => coreNode[NodeOf[p]] = "none"
      BY <2>1, <3>1, NodesAssumption DEF NodesAgree
    <3> QED BY <3>2
  <2>5. cachePod[p] = "assigned"
    BY <2>3, <2>4, PodTypes
  <2>6. Counting(p)
    BY <2>5 DEF AccountInv, PodOK, Counted
  <2>7. ~Rejected(NodeOf[p]) /\ inf.node # NodeOf[p]
    BY <2>1, IdleInformer
  <2> QED BY <2>2, <2>6, <2>7, OverSent, ZenonT(60) DEF Counting, AbsentComing
<1>2. Init => Sound /\ Told /\ AccountInv
  BY InitIsSound, InitIsTold, InitIsAccounted
<1>3. Sound /\ Told /\ AccountInv /\ [Next]_vars => (Sound /\ Told /\ AccountInv)'
  BY ClusterCountable, SoundNext, ToldInductive, AccountInductive
<1> QED BY <1>1, <1>2, <1>3, PTL DEF Spec
=============================================================================
