------------------------- MODULE SchedulerCacheProofs -------------------------
(***************************************************************************)
(* Proofs about SchedulerCache for any sets of pods, nodes and claims.      *)
(* Everything rests on one lemma about updatePod, the operator every        *)
(* operation of the cache goes through.                                    *)
(***************************************************************************)
EXTENDS SchedulerCache, TLAPS

(* An entry of the cache as the type invariant has it. *)
TypedEntry(e) == e \in Entry /\ Live(e.podsMap) /\ Live(e.orphanedPods)

(* What updatePod needs of the entry it replaces: the pod is counted on the *)
(* node it is assigned to, once, and nowhere else, and an unknown pod has   *)
(* no assignment to lose.  An orphan of a node that was just added has      *)
(* this, although its entry does not agree with the new set of nodes.       *)
Detachable(e, nodes) ==
  /\ \A n \in Node : e.nodeInfo[n] = IF e.assignedPods = n THEN 1 ELSE 0
  /\ e.assignedPods \in nodes \cup {None}
  /\ e.podsMap = None => e.assignedPods = None /\ e.orphanedPods = None

(* A consistent entry is detachable. *)
LEMMA AgreesDetachable ==
  ASSUME NEW e, TypedEntry(e), NEW nodes \in SUBSET Node, EntryAgrees(e, nodes)
  PROVE  Detachable(e, nodes)
BY CacheAssumption DEF Detachable, EntryAgrees, WantsNode, TypedEntry, Entry

(* updatePod takes a detachable entry to a consistent one, whatever the new *)
(* pod object says.                                                         *)
LEMMA UpdatePodAgrees ==
  ASSUME NEW e, TypedEntry(e), NEW nodes \in SUBSET Node, Detachable(e, nodes),
         NEW pod \in PodObj
  PROVE  /\ TypedEntry(updatePod(e, pod, nodes))
         /\ EntryAgrees(updatePod(e, pod, nodes), nodes)
<1> DEFINE new == updatePod(e, pod, nodes)
           s == Stored(e, pod)
           free == Freed(e, nodes)
<1> USE CacheAssumption
<1>1. s \in PodObj
  BY DEF Stored, OnNode, TypedEntry, Entry, PodObj
<1>2. free = [n \in Node |-> 0]
  <2>1. ASSUME NEW n \in Node PROVE free[n] = 0
    BY DEF Freed, Detachable, RemoveOnce, TypedEntry, Entry
  <2>2. QED BY <2>1 DEF Freed
<1>3. CASE IsPodTerminated(s)
  <2>1. new = NoEntry
    BY <1>2, <1>3 DEF updatePod, NoEntry
  <2>2. QED
    BY <2>1 DEF NoEntry, Deleted, TypedEntry, Entry, Live, EntryAgrees, WantsNode, isAssumedPod, Assumption
<1>4. CASE ~IsPodTerminated(s)
  <2>1. s.phase \in {"Pending", "Running"}
    BY <1>1, <1>4 DEF PodObj, Phase, IsPodTerminated
  <2>2. /\ new.podsMap = s
        /\ new.assumedPods \in Assumption
        /\ new.nodeInfo = [n \in Node |-> IF Placed(s, nodes) /\ s.nodeName = n THEN 1 ELSE 0]
    BY <1>2, <1>4 DEF updatePod, TypedEntry, Entry, Assumption
  <2>3. ~(e.podsMap # None) => e.assignedPods = None /\ e.orphanedPods = None
    BY DEF Detachable
  <2>4. new.assignedPods = IF Placed(s, nodes) THEN s.nodeName ELSE None
    BY <1>4, <2>3 DEF updatePod
  <2>5. new.orphanedPods = IF Orphan(s, nodes) THEN s ELSE None
    BY <1>4, <2>3 DEF updatePod
  <2>6. TypedEntry(new)
    <3>1. new = [podsMap |-> new.podsMap, assignedPods |-> new.assignedPods,
                 assumedPods |-> new.assumedPods, orphanedPods |-> new.orphanedPods,
                 nodeInfo |-> new.nodeInfo]
      BY <1>4 DEF updatePod
    <3>2. new.assignedPods \in Node \cup {None}
      BY <2>4, <1>1 DEF PodObj
    <3>3. new.nodeInfo \in [Node -> Nat]
      BY <2>2
    <3>4. new \in Entry
      BY <3>1, <3>2, <3>3, <2>2, <2>5, <1>1 DEF Entry
    <3>5. Live(new.podsMap) /\ Live(new.orphanedPods)
      BY <2>1, <2>2, <2>5 DEF Live
    <3>6. QED BY <3>4, <3>5 DEF TypedEntry
  <2>7. s # None /\ s.nodeName \in Node \cup {None}
    BY <1>1 DEF PodObj
  <2>8. EntryAgrees(new, nodes)
    <3>1. ASSUME NEW n \in Node
          PROVE /\ (new.assignedPods = n) <=> (WantsNode(new, n) /\ n \in nodes)
                /\ new.nodeInfo[n] = IF new.assignedPods = n THEN 1 ELSE 0
      BY <1>4, <2>2, <2>4, <2>7 DEF WantsNode, Placed, IsAssignedPod
    <3>2. new.orphanedPods =
            IF \E n \in Node \ nodes : WantsNode(new, n) THEN new.podsMap ELSE None
      BY <1>4, <2>2, <2>5, <2>7 DEF WantsNode, Orphan, IsAssignedPod
    <3>3. new.podsMap # None
      BY <2>2, <2>7
    <3>4. QED BY <3>1, <3>2, <3>3 DEF EntryAgrees
  <2>9. QED BY <2>6, <2>8
<1>5. QED BY <1>3, <1>4

(* LeaveNode, what RemoveNode does to the pods of the node, gives an entry  *)
(* that is consistent without the node; so is the entry of any other pod.   *)
LEMMA LeaveNodeAgrees ==
  ASSUME NEW e, TypedEntry(e), NEW nodes \in SUBSET Node, EntryAgrees(e, nodes),
         NEW n \in nodes
  PROVE  LET new == IF e.nodeInfo[n] > 0 THEN LeaveNode(e, n) ELSE e
         IN TypedEntry(new) /\ EntryAgrees(new, nodes \ {n})
<1> USE CacheAssumption
<1>1. CASE e.nodeInfo[n] > 0
  <2> DEFINE new == LeaveNode(e, n)
  <2>1. e.assignedPods = n /\ WantsNode(e, n) /\ e.orphanedPods = None
    BY <1>1 DEF EntryAgrees, WantsNode, TypedEntry, Entry
  <2>2. e.podsMap \in PodObj /\ e.podsMap.nodeName = n
    BY <2>1 DEF WantsNode, TypedEntry, Entry
  <2>3. OnNode(e.podsMap, None) \in PodObj /\ OnNode(e.podsMap, None).nodeName = None
        /\ OnNode(e.podsMap, None).phase = e.podsMap.phase
    BY <2>2 DEF OnNode, PodObj
  <2>4. TypedEntry(new)
    BY <2>1, <2>2, <2>3 DEF LeaveNode, TypedEntry, Entry, Assumption, Live
  <2>5. EntryAgrees(new, nodes \ {n})
    BY <2>1, <2>2, <2>3 DEF LeaveNode, EntryAgrees, WantsNode, isAssumedPod, TypedEntry, Entry
  <2>6. QED BY <1>1, <2>4, <2>5
<1>2. CASE ~(e.nodeInfo[n] > 0)
  <2>1. ~WantsNode(e, n)
    BY <1>2 DEF EntryAgrees
  <2>2. EntryAgrees(e, nodes \ {n})
    BY <2>1 DEF EntryAgrees
  <2>3. QED BY <1>2, <2>2
<1>3. QED BY <1>1, <1>2

(* Setting assumedPods of a stored pod keeps its entry consistent. *)
LEMMA WithAssumedAgrees ==
  ASSUME NEW e, TypedEntry(e), NEW nodes \in SUBSET Node, EntryAgrees(e, nodes),
         NEW a \in Assumption, e.podsMap # None
  PROVE  TypedEntry(WithAssumed(e, a)) /\ EntryAgrees(WithAssumed(e, a), nodes)
BY DEF WithAssumed, TypedEntry, Entry, EntryAgrees, WantsNode

(* The part of TypeOK that is about the cache's own variables. *)
CacheTyped ==
  /\ cache \in [Pod -> Entry]
  /\ \A p \in Pod : TypedEntry(cache[p])
  /\ nodesMap \in SUBSET Node
  /\ pvcRefCounts \in [Claim -> SUBSET Node]
  /\ nodesInfo \in {None} \cup SUBSET Node
  /\ affinityLists \in [ListKind -> {None} \cup SUBSET Node]

LEMMA TypeOKSplit ==
  TypeOK <=> CacheTyped /\ informer \in [Pod -> ApiObj \cup {None, Gone}]
BY DEF TypeOK, CacheTyped, TypedEntry

(* The tail shared by UpdatePod, AssumePod and ForgetPod. *)
LEMMA StorePodAgrees ==
  ASSUME CacheTyped, IndexesAgree, NEW p \in Pod, NEW old, NEW pod, NEW new,
         TypedEntry(new), EntryAgrees(new, nodesMap), StorePod(p, old, pod, new)
  PROVE  CacheTyped' /\ IndexesAgree'
<1>1. cache' = [cache EXCEPT ![p] = new] /\ nodesMap' = nodesMap
  BY DEF StorePod
<1>2. new \in Entry
  BY DEF TypedEntry
<1>3. cache' \in [Pod -> Entry] /\ \A q \in Pod : TypedEntry(cache'[q])
  BY <1>1, <1>2 DEF CacheTyped
<1>4. pvcRefCounts' \in [Claim -> SUBSET Node]
  BY DEF StorePod, updatePVCRefCounts, Touched, CacheTyped
<1>5. affinityLists' \in [ListKind -> {None} \cup SUBSET Node]
  BY DEF StorePod, Invalidate, CacheTyped
<1>6. CacheTyped'
  BY <1>1, <1>3, <1>4, <1>5, ZenonT(60) DEF CacheTyped, StorePod, TypedEntry
<1>7. IndexesAgree'
  BY <1>1 DEF IndexesAgree, CacheTyped
<1>8. QED BY <1>6, <1>7

(* The type invariant and the agreement of the indexes are inductive        *)
(* together: one step per action.                                           *)
LEMMA StepAgrees == TypeOK /\ IndexesAgree /\ [Next]_vars => TypeOK' /\ IndexesAgree'
<1> SUFFICES ASSUME TypeOK, IndexesAgree, [Next]_vars
             PROVE  TypeOK' /\ IndexesAgree'
  OBVIOUS
<1> DEFINE InformerTyped == informer \in [Pod -> ApiObj \cup {None, Gone}]
<1>0. CacheTyped /\ InformerTyped
  BY TypeOKSplit
<1>a. ASSUME CacheTyped', IndexesAgree', InformerTyped'
      PROVE  TypeOK' /\ IndexesAgree'
  BY <1>a DEF TypeOK, CacheTyped, TypedEntry
<1>b. \A p \in Pod : /\ TypedEntry(cache[p]) /\ EntryAgrees(cache[p], nodesMap)
                     /\ Detachable(cache[p], nodesMap)
  BY <1>0, AgreesDetachable DEF CacheTyped, IndexesAgree
<1>c. nodesMap \in SUBSET Node
  BY <1>0 DEF CacheTyped
<1>1. ASSUME NEW p \in Pod, NEW o \in ApiObj, UpdatePod(p, o)
      PROVE  TypeOK' /\ IndexesAgree'
  <2>1. o \in PodObj
    BY DEF ApiObj
  <2>2. /\ TypedEntry(updatePod(cache[p], o, nodesMap))
        /\ EntryAgrees(updatePod(cache[p], o, nodesMap), nodesMap)
    BY <1>b, <1>c, <2>1, UpdatePodAgrees
  <2>3. CacheTyped' /\ IndexesAgree'
    BY <1>0, <1>1, <2>2, StorePodAgrees DEF UpdatePod
  <2>4. InformerTyped'
    BY <1>0, <1>1 DEF UpdatePod
  <2>5. QED BY <1>a, <2>3, <2>4
<1>2. ASSUME NEW p \in Pod, RemovePod(p)
      PROVE  TypeOK' /\ IndexesAgree'
  <2>1. removePod(cache[p], nodesMap) = NoEntry
    <3> DEFINE e == cache[p]
               left(n) == IF e.assignedPods = n /\ n \in nodesMap
                          THEN RemoveOnce(e.nodeInfo[n]) ELSE e.nodeInfo[n]
    <3>1. ASSUME NEW n \in Node PROVE left(n) = 0
      BY <1>b, CacheAssumption DEF Detachable, RemoveOnce
    <3>2. [n \in Node |-> left(n)] = [n \in Node |-> 0]
      BY <3>1
    <3>3. QED BY <3>2 DEF removePod, NoEntry
  <2>2. cache' = [cache EXCEPT ![p] = NoEntry] /\ nodesMap' = nodesMap
    BY <1>2, <2>1, ZenonT(60) DEF RemovePod
  <2>3. NoEntry \in Entry /\ TypedEntry(NoEntry) /\ EntryAgrees(NoEntry, nodesMap)
    BY CacheAssumption
    DEF NoEntry, Deleted, TypedEntry, Entry, Live, Assumption, EntryAgrees, WantsNode, isAssumedPod
  <2>4. cache' \in [Pod -> Entry] /\ \A q \in Pod : TypedEntry(cache'[q])
    BY <1>0, <2>2, <2>3 DEF CacheTyped
  <2>5. pvcRefCounts' \in [Claim -> SUBSET Node]
    BY <1>0, <1>2, ZenonT(60) DEF RemovePod, updatePVCRefCounts, CacheTyped
  <2>6. CacheTyped'
    BY <1>0, <1>2, <2>2, <2>4, <2>5, ZenonT(60) DEF CacheTyped, RemovePod, NoLists, TypedEntry
  <2>7. IndexesAgree'
    BY <1>0, <2>2, <2>3 DEF IndexesAgree, CacheTyped
  <2>8. InformerTyped'
    BY <1>0, <1>2 DEF RemovePod
  <2>9. QED BY <1>a, <2>6, <2>7, <2>8
<1>3. ASSUME NEW p \in Pod, NEW n \in Node, NEW b \in {"unbound", "allBound"}, AssumePod(p, n, b)
      PROVE  TypeOK' /\ IndexesAgree'
  <2> DEFINE pod == OnNode(cache[p].podsMap, n)
             e == updatePod(cache[p], pod, nodesMap)
  <2>1. pod \in PodObj /\ ~IsPodTerminated(pod)
    BY <1>b, <1>3 DEF AssumePod, OnNode, PodObj, Phase, TypedEntry, Entry, Live, IsPodTerminated
  <2>2. TypedEntry(e) /\ EntryAgrees(e, nodesMap)
    BY <1>b, <1>c, <2>1, UpdatePodAgrees, ZenonT(60)
  <2>3. e.podsMap # None
    <3>1. Stored(cache[p], pod) = pod
      BY CacheAssumption DEF Stored, KeepsAssignment, IsAssignedPod, OnNode
    <3>2. QED BY <2>1, <3>1, CacheAssumption, ZenonT(60) DEF updatePod
  <2>4. TypedEntry(WithAssumed(e, b)) /\ EntryAgrees(WithAssumed(e, b), nodesMap)
    BY <1>c, <2>2, <2>3, WithAssumedAgrees DEF Assumption
  <2>5. StorePod(p, cache[p], pod, WithAssumed(e, b))
    BY <1>3 DEF AssumePod
  <2>6. CacheTyped' /\ IndexesAgree'
    BY <1>0, <2>4, <2>5, StorePodAgrees
  <2>7. InformerTyped'
    BY <1>0, <1>3 DEF AssumePod
  <2>8. QED BY <1>a, <2>6, <2>7
<1>4. ASSUME NEW p \in Pod, ForgetPod(p)
      PROVE  TypeOK' /\ IndexesAgree'
  <2> DEFINE e == WithAssumed(cache[p], "no")
             pod == IF isAssumedPod(cache[p]) THEN OnNode(e.podsMap, None) ELSE e.podsMap
  <2>1. TypedEntry(e) /\ EntryAgrees(e, nodesMap)
    BY <1>b, <1>c, <1>4, WithAssumedAgrees, ZenonT(60) DEF ForgetPod, Assumption
  <2>2. pod \in PodObj
    BY <1>b, <1>4, ZenonT(60) DEF ForgetPod, WithAssumed, OnNode, PodObj, TypedEntry, Entry
  <2>3. TypedEntry(updatePod(e, pod, nodesMap)) /\ EntryAgrees(updatePod(e, pod, nodesMap), nodesMap)
    BY <1>c, <2>1, <2>2, AgreesDetachable, UpdatePodAgrees
  <2>4. StorePod(p, e, pod, updatePod(e, pod, nodesMap))
    BY <1>4, ZenonT(60) DEF ForgetPod
  <2>5. CacheTyped' /\ IndexesAgree'
    BY <1>0, <2>3, <2>4, StorePodAgrees
  <2>6. InformerTyped'
    BY <1>0, <1>4 DEF ForgetPod
  <2>7. QED BY <1>a, <2>5, <2>6
<1>5. ASSUME NEW n \in Node, UpdateNode(n)
      PROVE  TypeOK' /\ IndexesAgree'
  <2> DEFINE adopt == IF n \in nodesMap THEN {} ELSE Adopted(n)
             new == nodesMap \cup {n}
  <2>1. /\ nodesMap' = new /\ new \in SUBSET Node
        /\ cache' = [p \in Pod |-> IF p \in adopt
                                   THEN updatePod(cache[p], cache[p].orphanedPods, new)
                                   ELSE cache[p]]
    BY <1>5, <1>c DEF UpdateNode
  <2>2. ASSUME NEW p \in Pod PROVE TypedEntry(cache'[p]) /\ EntryAgrees(cache'[p], new)
    <3>1. CASE p \in adopt
      <4>1. cache[p].orphanedPods \in PodObj
        BY <1>b, <3>1 DEF Adopted, TypedEntry, Entry
      <4>2. Detachable(cache[p], new)
        BY <1>b DEF Detachable
      <4>3. QED BY <1>b, <2>1, <3>1, <4>1, <4>2, UpdatePodAgrees
    <3>2. CASE p \notin adopt
      <4>1. cache'[p] = cache[p]
        BY <2>1, <3>2
      <4>2. ~WantsNode(cache[p], n) \/ n \in nodesMap
        BY <1>b, <3>2, CacheAssumption DEF Adopted, EntryAgrees, WantsNode
      <4>3. EntryAgrees(cache[p], new)
        BY <1>b, <4>2 DEF EntryAgrees
      <4>4. QED BY <1>b, <4>1, <4>3
    <3>3. QED BY <3>1, <3>2
  <2>3. cache' \in [Pod -> Entry]
    BY <2>1, <2>2, ZenonT(60) DEF TypedEntry
  <2>4. pvcRefCounts' \in [Claim -> SUBSET Node]
    BY <1>0, <1>5 DEF UpdateNode, updatePVCRefCounts, CacheTyped
  <2>5. CacheTyped'
    BY <1>0, <1>5, <2>1, <2>2, <2>3, <2>4, ZenonT(60) DEF CacheTyped, UpdateNode, NoLists, TypedEntry
  <2>6. IndexesAgree'
    BY <2>1, <2>2 DEF IndexesAgree
  <2>7. InformerTyped'
    BY <1>0, <1>5 DEF UpdateNode
  <2>8. QED BY <1>a, <2>5, <2>6, <2>7
<1>6. ASSUME NEW n \in Node, RemoveNode(n)
      PROVE  TypeOK' /\ IndexesAgree'
  <2>1. /\ n \in nodesMap /\ nodesMap' = nodesMap \ {n}
        /\ cache' = [p \in Pod |-> IF cache[p].nodeInfo[n] > 0 THEN LeaveNode(cache[p], n)
                                                               ELSE cache[p]]
    BY <1>6 DEF RemoveNode
  <2>2. ASSUME NEW p \in Pod
        PROVE  TypedEntry(cache'[p]) /\ EntryAgrees(cache'[p], nodesMap')
    BY <1>b, <1>c, <2>1, LeaveNodeAgrees, ZenonT(60)
  <2>3. cache' \in [Pod -> Entry]
    BY <2>1, <2>2 DEF TypedEntry
  <2>4. CacheTyped'
    BY <1>0, <1>6, <2>1, <2>2, <2>3 DEF CacheTyped, RemoveNode, NoLists, TypedEntry
  <2>5. IndexesAgree'
    BY <2>2 DEF IndexesAgree
  <2>6. InformerTyped'
    BY <1>0, <1>6 DEF RemoveNode
  <2>7. QED BY <1>a, <2>4, <2>5, <2>6
<1>7. ASSUME GetNodesInfo
      PROVE  TypeOK' /\ IndexesAgree'
  BY <1>7, <1>c, ZenonT(60) DEF GetNodesInfo, TypeOK, IndexesAgree
<1>8. ASSUME NEW k \in ListKind, GetNodesInfoPodsWith(k)
      PROVE  TypeOK' /\ IndexesAgree'
  BY <1>8, <1>c, ZenonT(60) DEF GetNodesInfoPodsWith, TypeOK, IndexesAgree
<1>9. CASE UNCHANGED vars
  BY <1>9, ZenonT(60) DEF vars, TypeOK, IndexesAgree
<1>10. QED
  BY <1>1, <1>2, <1>3, <1>4, <1>5, <1>6, <1>7, <1>8, <1>9 DEF Next

LEMMA InitAgrees == Init => TypeOK /\ IndexesAgree
BY CacheAssumption, SMTT(30)
DEF Init, TypeOK, IndexesAgree, NoEntry, Deleted, Entry, Live, Assumption, EntryAgrees, WantsNode,
    isAssumedPod, NoLists

(* Every state of the cache is well typed; no terminated pod is stored. *)
THEOREM TypeCorrect == Spec => []TypeOK
BY InitAgrees, StepAgrees, PTL DEF Spec

(* The five maps of the cache agree after every operation, for any number   *)
(* of pods and nodes: a pod is counted once, on the node its object names,  *)
(* or is an orphan of a node the cache does not have.                       *)
THEOREM CacheConsistent == Spec => []IndexesAgree
BY InitAgrees, StepAgrees, PTL DEF Spec
-----------------------------------------------------------------------------
(* updatePod changes the NodeInfo of no node outside Touched. *)
LEMMA UpdatePodTouches ==
  ASSUME NEW e, TypedEntry(e), NEW nodes \in SUBSET Node, Detachable(e, nodes),
         NEW pod \in PodObj, NEW n \in Node, n \notin Touched(e, pod, nodes)
  PROVE  updatePod(e, pod, nodes).nodeInfo[n] = e.nodeInfo[n]
<1> DEFINE s == Stored(e, pod)
<1> USE CacheAssumption
<1>1. e.nodeInfo[n] = 0
  BY DEF Touched, Detachable
<1>2. Freed(e, nodes)[n] = 0
  BY <1>1 DEF Freed, RemoveOnce
<1>3. ~(Placed(s, nodes) /\ s.nodeName = n)
  BY ZenonT(60) DEF Touched, Placed
<1>4. CASE IsPodTerminated(s)
  BY <1>1, <1>2, <1>4, ZenonT(60) DEF updatePod, Deleted
<1>5. CASE ~IsPodTerminated(s)
  BY <1>1, <1>2, <1>3, <1>5 DEF updatePod
<1>6. QED BY <1>4, <1>5

(* The nodes on which new differs from the entry of p are among Touched. *)
OnlyTouched(p, old, pod, new) ==
  \A n \in Node : n \notin Touched(old, pod, nodesMap) => new.nodeInfo[n] = cache[p].nodeInfo[n]

LEMMA StorePodCounts ==
  ASSUME CacheTyped, ClaimsCounted, ListsFresh, NEW p \in Pod, NEW old, NEW pod, NEW new,
         OnlyTouched(p, old, pod, new), StorePod(p, old, pod, new)
  PROVE  ClaimsCounted' /\ ListsFresh'
<1> DEFINE S == Touched(old, pod, nodesMap)
<1>1. /\ cache' = [cache EXCEPT ![p] = new] /\ nodesMap' = nodesMap /\ nodesInfo' = nodesInfo
      /\ S \subseteq nodesMap /\ nodesMap \subseteq Node
  BY ZenonT(60) DEF StorePod, CacheTyped, Touched
<1>2. ASSUME NEW n \in Node, n \notin S, NEW q \in Pod
      PROVE  cache'[q].nodeInfo[n] = cache[q].nodeInfo[n]
  BY <1>1, <1>2, ZenonT(60) DEF OnlyTouched, CacheTyped
<1>3. ClaimsCounted'
  <2> SUFFICES ASSUME NEW c \in Claim
               PROVE  pvcRefCounts'[c] = {n \in nodesMap : ClaimedOn(c, cache', n)}
    BY <1>1 DEF ClaimsCounted, ClaimedOn
  <2>1. pvcRefCounts'[c] = (pvcRefCounts[c] \ S) \cup {n \in S : ClaimedOn(c, cache', n)}
    BY <1>1 DEF StorePod, updatePVCRefCounts
  <2>2. pvcRefCounts[c] = {n \in nodesMap : ClaimedOn(c, cache, n)}
    BY DEF ClaimsCounted
  <2>3. ASSUME NEW n \in nodesMap, n \notin S
        PROVE  ClaimedOn(c, cache', n) <=> ClaimedOn(c, cache, n)
    BY <1>1, <1>2, <2>3 DEF ClaimedOn
  <2>4. QED BY <1>1, <2>1, <2>2, <2>3, ZenonT(60)
<1>4. ListsFresh'
  <2>1. nodesInfo' \in {None, nodesMap'}
    BY <1>1, ZenonT(60) DEF ListsFresh
  <2>2. ASSUME NEW k \in ListKind
        PROVE  affinityLists'[k] \in {None, {n \in nodesMap : WithPodIn(n, AffinityPods[k])'}}
    <3>1. CASE S # {} /\ p \in AffinityPods[k]
      BY <3>1 DEF StorePod, Invalidate
    <3>2. CASE ~(S # {} /\ p \in AffinityPods[k])
      <4>1. affinityLists'[k] = affinityLists[k]
        BY <3>2, ZenonT(60) DEF StorePod, Invalidate
      <4>2. ASSUME NEW n \in nodesMap
            PROVE  WithPodIn(n, AffinityPods[k])' <=> WithPodIn(n, AffinityPods[k])
        BY <1>1, <1>2, <3>2, CacheAssumption, ZenonT(60) DEF WithPodIn, CacheTyped
      <4>3. QED BY <4>1, <4>2 DEF ListsFresh
    <3>3. QED BY <3>1, <3>2, ZenonT(60)
  <2>3. QED BY <1>1, <2>1, <2>2, ZenonT(60) DEF ListsFresh
<1>5. QED BY <1>3, <1>4, ZenonT(60)

(* The derived structures stay exact: one step per action. *)
LEMMA StepCounts ==
  TypeOK /\ IndexesAgree /\ ClaimsCounted /\ ListsFresh /\ [Next]_vars
    => ClaimsCounted' /\ ListsFresh'
<1> SUFFICES ASSUME TypeOK, IndexesAgree, ClaimsCounted, ListsFresh, [Next]_vars
             PROVE  ClaimsCounted' /\ ListsFresh'
  OBVIOUS
<1>0. CacheTyped /\ nodesMap \in SUBSET Node
  BY TypeOKSplit DEF CacheTyped
<1>b. \A p \in Pod : /\ TypedEntry(cache[p]) /\ EntryAgrees(cache[p], nodesMap)
                     /\ Detachable(cache[p], nodesMap)
  BY <1>0, AgreesDetachable, ZenonT(60) DEF CacheTyped, IndexesAgree
<1>1. ASSUME NEW p \in Pod, NEW o \in ApiObj, UpdatePod(p, o)
      PROVE  ClaimsCounted' /\ ListsFresh'
  <2>1. OnlyTouched(p, cache[p], o, updatePod(cache[p], o, nodesMap))
    BY <1>0, <1>b, UpdatePodTouches DEF OnlyTouched, ApiObj
  <2>2. QED BY <1>0, <1>1, <2>1, StorePodCounts, ZenonT(60) DEF UpdatePod
<1>2. ASSUME NEW p \in Pod, RemovePod(p)
      PROVE  ClaimsCounted' /\ ListsFresh'
  <2> DEFINE S == {cache[p].assignedPods} \cap nodesMap
  <2>1. /\ nodesMap' = nodesMap /\ nodesInfo' = nodesInfo /\ affinityLists' = NoLists
        /\ cache' = [cache EXCEPT ![p] = removePod(cache[p], nodesMap)]
        /\ pvcRefCounts' = updatePVCRefCounts(cache', S)
    BY <1>2 DEF RemovePod
  <2>2. ListsFresh'
    BY <2>1 DEF ListsFresh, NoLists
  <2>3. ASSUME NEW c \in Claim
        PROVE  pvcRefCounts'[c] = {n \in nodesMap : ClaimedOn(c, cache', n)}
    <3>1. pvcRefCounts'[c] = (pvcRefCounts[c] \ S) \cup {n \in S : ClaimedOn(c, cache', n)}
      BY <2>1, ZenonT(60) DEF updatePVCRefCounts
    <3>2. ASSUME NEW n \in nodesMap, n \notin S, NEW q \in Pod
          PROVE  cache'[q].nodeInfo[n] = cache[q].nodeInfo[n]
      BY <1>0, <2>1, <3>2 DEF removePod, Deleted, CacheTyped
    <3>3. ASSUME NEW n \in nodesMap, n \notin S
          PROVE  ClaimedOn(c, cache', n) <=> ClaimedOn(c, cache, n)
      BY <3>2, <3>3, ZenonT(60) DEF ClaimedOn
    <3>4. QED BY <3>1, <3>3 DEF ClaimsCounted
  <2>4. QED BY <2>1, <2>2, <2>3, ZenonT(60) DEF ClaimsCounted, ClaimedOn
<1>3. ASSUME NEW p \in Pod, NEW n \in Node, NEW b \in {"unbound", "allBound"}, AssumePod(p, n, b)
      PROVE  ClaimsCounted' /\ ListsFresh'
  <2> DEFINE pod == OnNode(cache[p].podsMap, n)
             e == updatePod(cache[p], pod, nodesMap)
  <2>1. pod \in PodObj
    BY <1>b, <1>3, ZenonT(60) DEF AssumePod, OnNode, PodObj, TypedEntry, Entry
  <2>2. OnlyTouched(p, cache[p], pod, WithAssumed(e, b))
    BY <1>0, <1>b, <2>1, UpdatePodTouches, ZenonT(60) DEF OnlyTouched, WithAssumed
  <2>3. StorePod(p, cache[p], pod, WithAssumed(e, b))
    BY <1>3 DEF AssumePod
  <2>4. QED BY <1>0, <2>2, <2>3, StorePodCounts, ZenonT(60)
<1>4. ASSUME NEW p \in Pod, ForgetPod(p)
      PROVE  ClaimsCounted' /\ ListsFresh'
  <2> DEFINE e == WithAssumed(cache[p], "no")
             pod == IF isAssumedPod(cache[p]) THEN OnNode(e.podsMap, None) ELSE e.podsMap
  <2>1. TypedEntry(e) /\ Detachable(e, nodesMap)
    BY <1>0, <1>b, <1>4, WithAssumedAgrees, AgreesDetachable, ZenonT(60) DEF ForgetPod, Assumption
  <2>2. pod \in PodObj
    BY <1>b, <1>4, ZenonT(60) DEF ForgetPod, WithAssumed, OnNode, PodObj, TypedEntry, Entry
  <2>3. e.nodeInfo = cache[p].nodeInfo
    BY ZenonT(60) DEF WithAssumed
  <2>4. OnlyTouched(p, e, pod, updatePod(e, pod, nodesMap))
    <3> HIDE DEF e, pod
    <3>1. ASSUME NEW n \in Node, n \notin Touched(e, pod, nodesMap)
          PROVE  updatePod(e, pod, nodesMap).nodeInfo[n] = e.nodeInfo[n]
      BY <1>0, <2>1, <2>2, <3>1, UpdatePodTouches, ZenonT(60)
    <3> QED BY <2>3, <3>1, ZenonT(60) DEF OnlyTouched
  <2>5. StorePod(p, e, pod, updatePod(e, pod, nodesMap))
    BY <1>4 DEF ForgetPod
  <2>6. QED BY <1>0, <2>4, <2>5, StorePodCounts, ZenonT(60)
<1>5. ASSUME NEW n \in Node, UpdateNode(n)
      PROVE  ClaimsCounted' /\ ListsFresh'
  <2> DEFINE adopt == IF n \in nodesMap THEN {} ELSE Adopted(n)
             new == nodesMap \cup {n}
             S == {n} \cup ({cache[p].assignedPods : p \in adopt} \cap nodesMap)
  <2>1. /\ nodesMap' = new /\ affinityLists' = NoLists
        /\ nodesInfo' = (IF n \in nodesMap THEN nodesInfo ELSE None)
        /\ cache' = [p \in Pod |-> IF p \in adopt
                                   THEN updatePod(cache[p], cache[p].orphanedPods, new)
                                   ELSE cache[p]]
        /\ pvcRefCounts' = updatePVCRefCounts(cache', S)
    BY <1>5 DEF UpdateNode
  <2>2. ListsFresh'
    <3>1. n \in nodesMap => new = nodesMap
      OBVIOUS
    <3>2. QED BY <2>1, <3>1 DEF ListsFresh, NoLists
  <2>3. ASSUME NEW m \in Node, m \notin S, NEW q \in Pod
        PROVE  cache'[q].nodeInfo[m] = cache[q].nodeInfo[m]
    <3>1. CASE q \in adopt
      <4>1. /\ cache[q].orphanedPods \in PodObj /\ cache[q].orphanedPods.nodeName = n
            /\ cache[q].assignedPods = None
        BY <1>b, <3>1, CacheAssumption, ZenonT(60) DEF Adopted, TypedEntry, Entry, EntryAgrees, WantsNode
      <4>2. Detachable(cache[q], new)
        BY <1>b, ZenonT(60) DEF Detachable
      <4>3. m \notin Touched(cache[q], cache[q].orphanedPods, new)
        BY <2>3, <4>1, CacheAssumption, ZenonT(60) DEF Touched, Stored, KeepsAssignment
      <4>4. cache'[q] = updatePod(cache[q], cache[q].orphanedPods, new)
        BY <2>1, <3>1, ZenonT(60)
      <4>5. new \in SUBSET Node /\ TypedEntry(cache[q])
        BY <1>0, <1>b, ZenonT(60)
      <4>6. updatePod(cache[q], cache[q].orphanedPods, new).nodeInfo[m] = cache[q].nodeInfo[m]
        <5> HIDE DEF new, S, adopt
        <5> QED BY <2>3, <4>1, <4>2, <4>3, <4>5, UpdatePodTouches, ZenonT(60)
      <4>7. QED BY <4>4, <4>6, ZenonT(60)
    <3>2. CASE q \notin adopt
      BY <2>1, <3>2, ZenonT(60)
    <3>3. QED BY <3>1, <3>2, ZenonT(60)
  <2>4. ASSUME NEW c \in Claim
        PROVE  pvcRefCounts'[c] = {m \in new : ClaimedOn(c, cache', m)}
    <3>1. pvcRefCounts'[c] = (pvcRefCounts[c] \ S) \cup {m \in S : ClaimedOn(c, cache', m)}
      BY <2>1, ZenonT(60) DEF updatePVCRefCounts
    <3>2. ASSUME NEW m \in new, m \notin S
          PROVE  ClaimedOn(c, cache', m) <=> ClaimedOn(c, cache, m)
      BY <1>0, <2>3, <3>2 DEF ClaimedOn
    <3>3. pvcRefCounts[c] = {m \in nodesMap : ClaimedOn(c, cache, m)}
      BY ZenonT(60) DEF ClaimsCounted
    <3>4. QED BY <3>1, <3>2, <3>3, ZenonT(60)
  <2>5. QED BY <2>1, <2>2, <2>4, ZenonT(60) DEF ClaimsCounted, ClaimedOn
<1>6. ASSUME NEW n \in Node, RemoveNode(n)
      PROVE  ClaimsCounted' /\ ListsFresh'
  <2>1. /\ n \in nodesMap /\ nodesMap' = nodesMap \ {n}
        /\ nodesInfo' = None /\ affinityLists' = NoLists
        /\ pvcRefCounts' = [c \in Claim |-> pvcRefCounts[c] \ {n}]
        /\ cache' = [p \in Pod |-> IF cache[p].nodeInfo[n] > 0 THEN LeaveNode(cache[p], n)
                                                               ELSE cache[p]]
    BY <1>6, ZenonT(60) DEF RemoveNode
  <2>2. ListsFresh'
    BY <2>1, ZenonT(60) DEF ListsFresh, NoLists
  <2>3. ASSUME NEW m \in nodesMap \ {n}, NEW q \in Pod
        PROVE  cache'[q].nodeInfo[m] = cache[q].nodeInfo[m]
    BY <1>0, <1>b, <2>1, ZenonT(60) DEF LeaveNode, TypedEntry, Entry
  <2>4. ASSUME NEW c \in Claim
        PROVE  pvcRefCounts'[c] = {m \in nodesMap \ {n} : ClaimedOn(c, cache', m)}
    BY <2>1, <2>3, ZenonT(60) DEF ClaimsCounted, ClaimedOn
  <2>5. QED BY <2>1, <2>2, <2>4 DEF ClaimsCounted, ClaimedOn
<1>7. ASSUME GetNodesInfo
      PROVE  ClaimsCounted' /\ ListsFresh'
  BY <1>7, ZenonT(60) DEF GetNodesInfo, ClaimsCounted, ClaimedOn, ListsFresh, WithPodIn
<1>8. ASSUME NEW k \in ListKind, GetNodesInfoPodsWith(k)
      PROVE  ClaimsCounted' /\ ListsFresh'
  BY <1>0, <1>8, ZenonT(60) DEF GetNodesInfoPodsWith, ClaimsCounted, ClaimedOn, ListsFresh, WithPodIn, CacheTyped
<1>9. CASE UNCHANGED vars
  BY <1>9 DEF vars, ClaimsCounted, ClaimedOn, ListsFresh, WithPodIn
<1>10. QED
  BY <1>1, <1>2, <1>3, <1>4, <1>5, <1>6, <1>7, <1>8, <1>9 DEF Next

LEMMA InitCounts == Init => ClaimsCounted /\ ListsFresh
BY DEF Init, ClaimsCounted, ListsFresh, NoLists

(* IsPVCUsedByPods answers for exactly the claims of the pods on the nodes. *)
THEOREM ClaimCountsExact == Spec => []ClaimsCounted
BY InitAgrees, StepAgrees, InitCounts, StepCounts, PTL DEF Spec

(* The predicate lister never sees a stale list of nodes. *)
THEOREM NodeListsFresh == Spec => []ListsFresh
BY InitAgrees, StepAgrees, InitCounts, StepCounts, PTL DEF Spec
-----------------------------------------------------------------------------
(* Pod p is where an assumption or the informer put it. *)
Justified(e, nodes, o) ==
  \A n \in Node : WantsNode(e, n) => (isAssumedPod(e) /\ n \in nodes) \/ o.nodeName = n

(* The provenance of assignments is inductive given the agreement of the    *)
(* indexes; the interesting actions are the ones that drop an assumption.   *)
LEMMA StepJustified ==
  TypeOK /\ IndexesAgree /\ AssignmentJustified /\ [Next]_vars => AssignmentJustified'
<1> SUFFICES ASSUME TypeOK, IndexesAgree, AssignmentJustified, [Next]_vars
             PROVE  AssignmentJustified'
  OBVIOUS
<1> USE CacheAssumption
<1>0. cache \in [Pod -> Entry] /\ nodesMap \in SUBSET Node
      /\ informer \in [Pod -> ApiObj \cup {None, Gone}]
  BY ZenonT(60) DEF TypeOK
<1>a. \A p \in Pod : /\ TypedEntry(cache[p]) /\ EntryAgrees(cache[p], nodesMap)
                     /\ Justified(cache[p], nodesMap, informer[p])
  BY ZenonT(60) DEF TypeOK, TypedEntry, IndexesAgree, AssignmentJustified, Justified
<1>b. SUFFICES \A p \in Pod : Justified(cache'[p], nodesMap', informer'[p])
  BY ZenonT(60) DEF AssignmentJustified, Justified, WantsNode, isAssumedPod
<1>1. ASSUME NEW p \in Pod, NEW o \in ApiObj, UpdatePod(p, o)
      PROVE  \A q \in Pod : Justified(cache'[q], nodesMap', informer'[q])
  <2> DEFINE e == cache[p]
             new == updatePod(e, o, nodesMap)
             s == Stored(e, o)
  <2>1. /\ cache' = [cache EXCEPT ![p] = new] /\ nodesMap' = nodesMap
        /\ informer' = [informer EXCEPT ![p] = o]
    BY <1>1, ZenonT(60) DEF UpdatePod, StorePod
  <2>2. Justified(new, nodesMap, o)
    <3>1. CASE IsPodTerminated(s)
      BY <3>1, ZenonT(60) DEF updatePod, Deleted, Justified, WantsNode
    <3>2. CASE ~IsPodTerminated(s) /\ ~KeepsAssignment(e, o)
      BY <3>2, ZenonT(60) DEF updatePod, Stored, Justified, WantsNode
    <3>3. CASE ~IsPodTerminated(s) /\ KeepsAssignment(e, o)
      <4>1. e.assignedPods \in nodesMap /\ isAssumedPod(e) /\ o.nodeName = None
        BY <1>a, <3>3 DEF KeepsAssignment, IsAssignedPod, EntryAgrees, TypedEntry, Entry
      <4>2. o.phase # "Running"
        BY <4>1, ZenonT(60) DEF ApiObj
      <4>3. /\ new.podsMap.nodeName = e.assignedPods
            /\ new.assumedPods = e.assumedPods
        BY <3>3, <4>2 DEF updatePod, Stored, OnNode
      <4>4. QED BY <4>1, <4>3, ZenonT(60) DEF Justified, WantsNode, isAssumedPod
    <3>4. QED BY <3>1, <3>2, <3>3, ZenonT(60)
  <2>3. QED BY <1>0, <1>a, <2>1, <2>2, ZenonT(60)
<1>2. ASSUME NEW p \in Pod, RemovePod(p)
      PROVE  \A q \in Pod : Justified(cache'[q], nodesMap', informer'[q])
  <2>1. /\ cache' = [cache EXCEPT ![p] = removePod(cache[p], nodesMap)] /\ nodesMap' = nodesMap
        /\ informer' = [informer EXCEPT ![p] = Gone]
    BY <1>2, ZenonT(60) DEF RemovePod
  <2>2. Justified(removePod(cache[p], nodesMap), nodesMap, Gone)
    BY DEF removePod, Deleted, Justified, WantsNode
  <2>3. QED BY <1>0, <1>a, <2>1, <2>2
<1>3. ASSUME NEW p \in Pod, NEW n \in Node, NEW b \in {"unbound", "allBound"}, AssumePod(p, n, b)
      PROVE  \A q \in Pod : Justified(cache'[q], nodesMap', informer'[q])
  <2> DEFINE pod == OnNode(cache[p].podsMap, n)
             new == WithAssumed(updatePod(cache[p], pod, nodesMap), b)
  <2>1. /\ cache' = [cache EXCEPT ![p] = new] /\ nodesMap' = nodesMap
        /\ informer' = informer /\ n \in nodesMap
    BY <1>3 DEF AssumePod, StorePod
  <2>2. Stored(cache[p], pod) = pod /\ pod.nodeName = n
    BY ZenonT(60) DEF Stored, KeepsAssignment, IsAssignedPod, OnNode
  <2>3. updatePod(cache[p], pod, nodesMap).podsMap \in {None, pod}
    BY <2>2, ZenonT(60) DEF updatePod, Deleted
  <2>4. Justified(new, nodesMap, informer[p])
    BY <2>1, <2>2, <2>3 DEF WithAssumed, Justified, WantsNode, isAssumedPod
  <2>5. QED BY <1>0, <1>a, <2>1, <2>4
<1>4. ASSUME NEW p \in Pod, ForgetPod(p)
      PROVE  \A q \in Pod : Justified(cache'[q], nodesMap', informer'[q])
  <2> DEFINE e == WithAssumed(cache[p], "no")
             pod == IF isAssumedPod(cache[p]) THEN OnNode(e.podsMap, None) ELSE e.podsMap
             new == updatePod(e, pod, nodesMap)
  <2>1. /\ cache' = [cache EXCEPT ![p] = new] /\ nodesMap' = nodesMap
        /\ informer' = informer /\ cache[p].podsMap # None
    BY <1>4, ZenonT(60) DEF ForgetPod, StorePod
  <2>2. Stored(e, pod) = pod
    BY ZenonT(60) DEF Stored, KeepsAssignment, WithAssumed, isAssumedPod
  <2>3. new.podsMap \in {None, pod}
    BY <2>2, ZenonT(60) DEF updatePod, Deleted
  <2>4. Justified(new, nodesMap, informer[p])
    <3>1. CASE isAssumedPod(cache[p])
      <4>1. pod.nodeName = None
        BY <3>1 DEF OnNode
      <4> HIDE DEF new, pod
      <4> QED BY <2>3, <4>1, CacheAssumption DEF Justified, WantsNode
    <3>2. CASE ~isAssumedPod(cache[p])
      BY <1>a, <2>3, <3>2, ZenonT(60) DEF Justified, WantsNode, WithAssumed
    <3>3. QED BY <3>1, <3>2, ZenonT(60)
  <2>5. QED BY <1>0, <1>a, <2>1, <2>4, ZenonT(60)
<1>5. ASSUME NEW n \in Node, UpdateNode(n)
      PROVE  \A q \in Pod : Justified(cache'[q], nodesMap', informer'[q])
  <2> DEFINE adopt == IF n \in nodesMap THEN {} ELSE Adopted(n)
             all == nodesMap \cup {n}
  <2>1. /\ nodesMap' = all /\ informer' = informer
        /\ cache' = [p \in Pod |-> IF p \in adopt
                                   THEN updatePod(cache[p], cache[p].orphanedPods, all)
                                   ELSE cache[p]]
    BY <1>5 DEF UpdateNode
  <2>2. ASSUME NEW q \in adopt
        PROVE  Justified(updatePod(cache[q], cache[q].orphanedPods, all), all, informer[q])
    <3>1. /\ n \notin nodesMap /\ cache[q].orphanedPods.nodeName = n
          /\ WantsNode(cache[q], n) /\ q \in Pod
      BY <1>a DEF Adopted, EntryAgrees, WantsNode
    <3>2. informer[q].nodeName = n
      BY <1>a, <3>1 DEF Justified
    <3>3. Stored(cache[q], cache[q].orphanedPods) = cache[q].orphanedPods
      BY <3>1, ZenonT(60) DEF Stored, KeepsAssignment, IsAssignedPod
    <3>4. updatePod(cache[q], cache[q].orphanedPods, all).podsMap \in {None, cache[q].orphanedPods}
      BY <3>3, ZenonT(60) DEF updatePod, Deleted
    <3>5. QED BY <3>1, <3>2, <3>4 DEF Justified, WantsNode
  <2>3. ASSUME NEW q \in Pod \ adopt PROVE Justified(cache[q], all, informer[q])
    BY <1>a, ZenonT(60) DEF Justified
  <2>4. QED BY <2>1, <2>2, <2>3, ZenonT(60)
<1>6. ASSUME NEW n \in Node, RemoveNode(n)
      PROVE  \A q \in Pod : Justified(cache'[q], nodesMap', informer'[q])
  <2>1. /\ n \in nodesMap /\ nodesMap' = nodesMap \ {n} /\ informer' = informer
        /\ cache' = [p \in Pod |-> IF cache[p].nodeInfo[n] > 0 THEN LeaveNode(cache[p], n)
                                                               ELSE cache[p]]
    BY <1>6 DEF RemoveNode
  <2>2. ASSUME NEW q \in Pod, cache[q].nodeInfo[n] > 0
        PROVE  Justified(LeaveNode(cache[q], n), nodesMap \ {n}, informer[q])
    BY <1>a, <2>2 DEF LeaveNode, OnNode, Justified, WantsNode, isAssumedPod
  <2>3. ASSUME NEW q \in Pod, ~(cache[q].nodeInfo[n] > 0)
        PROVE  Justified(cache[q], nodesMap \ {n}, informer[q])
    <3>1. ~WantsNode(cache[q], n)
      BY <1>a, <2>1, <2>3 DEF EntryAgrees
    <3>2. QED BY <1>a, <3>1, ZenonT(60) DEF Justified
  <2>4. QED BY <2>1, <2>2, <2>3, ZenonT(60)
<1>7. CASE GetNodesInfo
  BY <1>7, <1>a DEF GetNodesInfo
<1>8. ASSUME NEW k \in ListKind, GetNodesInfoPodsWith(k)
      PROVE  \A q \in Pod : Justified(cache'[q], nodesMap', informer'[q])
  BY <1>8, <1>a DEF GetNodesInfoPodsWith
<1>9. CASE UNCHANGED vars
  BY <1>9, <1>a DEF vars
<1>10. QED
  BY <1>1, <1>2, <1>3, <1>4, <1>5, <1>6, <1>7, <1>8, <1>9 DEF Next

(* No assignment from nowhere: forgetting an assumption or losing its node  *)
(* reverts it, and nothing later brings it back.                            *)
THEOREM AssignmentsJustified == Spec => []AssignmentJustified
<1>1. Init => AssignmentJustified
  BY CacheAssumption DEF Init, AssignmentJustified, NoEntry, Deleted, WantsNode
<1>2. QED
  BY <1>1, InitAgrees, StepAgrees, StepJustified, PTL DEF Spec
-----------------------------------------------------------------------------
(* Every way to bring a pod back starts from something a deleted pod does    *)
(* not have: a stored object, an orphan record or a place in a NodeInfo.    *)
LEMMA StepDeleted ==
  TypeOK /\ IndexesAgree /\ DeletedStaysDeleted /\ [Next]_vars => DeletedStaysDeleted'
<1> SUFFICES ASSUME TypeOK, IndexesAgree, DeletedStaysDeleted, [Next]_vars,
                    NEW q \in Pod, informer'[q] = Gone
             PROVE  cache'[q] = NoEntry
  BY DEF DeletedStaysDeleted
<1> USE CacheAssumption
<1>0. cache \in [Pod -> Entry] /\ informer \in [Pod -> ApiObj \cup {None, Gone}]
  BY DEF TypeOK
<1>a. informer[q] = Gone => cache[q] = NoEntry
  BY DEF DeletedStaysDeleted
<1>b. Gone \notin ApiObj
  BY DEF Gone, ApiObj, PodObj, Phase
<1>c. /\ NoEntry.podsMap = None /\ NoEntry.orphanedPods = None
      /\ \A n \in Node : NoEntry.nodeInfo[n] = 0
  BY DEF NoEntry, Deleted
<1>1. ASSUME NEW p \in Pod, NEW o \in ApiObj, UpdatePod(p, o) PROVE cache'[q] = NoEntry
  <2>1. q # p /\ informer[q] = Gone
    BY <1>0, <1>1, <1>b DEF UpdatePod
  <2>2. QED BY <1>0, <1>1, <1>a, <2>1 DEF UpdatePod, StorePod
<1>2. ASSUME NEW p \in Pod, RemovePod(p) PROVE cache'[q] = NoEntry
  <2>1. CASE q # p
    BY <1>0, <1>2, <1>a, <2>1 DEF RemovePod
  <2>2. CASE q = p
    <3> DEFINE left == [n \in Node |-> IF cache[q].assignedPods = n /\ n \in nodesMap
                                      THEN RemoveOnce(cache[q].nodeInfo[n])
                                      ELSE cache[q].nodeInfo[n]]
    <3>1. cache'[q] = Deleted(left)
      BY <1>0, <1>2, <2>2, ZenonT(60) DEF RemovePod, removePod
    <3>2. ASSUME NEW n \in Node PROVE left[n] = 0
      BY DEF IndexesAgree, EntryAgrees, RemoveOnce
    <3>3. left = [n \in Node |-> 0]
      BY <3>2
    <3>4. QED BY <3>1, <3>3, ZenonT(60) DEF NoEntry
  <2>3. QED BY <2>1, <2>2
<1>3. ASSUME NEW p \in Pod, NEW n \in Node, NEW b \in {"unbound", "allBound"}, AssumePod(p, n, b)
      PROVE  cache'[q] = NoEntry
  <2>1. informer[q] = Gone /\ cache[p].podsMap # None
    BY <1>3, ZenonT(60) DEF AssumePod
  <2>2. QED BY <1>0, <1>3, <1>a, <1>c, <2>1 DEF AssumePod, StorePod
<1>4. ASSUME NEW p \in Pod, ForgetPod(p) PROVE cache'[q] = NoEntry
  <2>1. informer[q] = Gone /\ cache[p].podsMap # None
    BY <1>4, ZenonT(60) DEF ForgetPod
  <2>2. QED BY <1>0, <1>4, <1>a, <1>c, <2>1, ZenonT(60) DEF ForgetPod, StorePod
<1>5. ASSUME NEW n \in Node, UpdateNode(n) PROVE cache'[q] = NoEntry
  BY <1>5, <1>a, <1>c DEF UpdateNode, Adopted
<1>6. ASSUME NEW n \in Node, RemoveNode(n) PROVE cache'[q] = NoEntry
  BY <1>6, <1>a, <1>c DEF RemoveNode
<1>7. CASE GetNodesInfo
  BY <1>7, <1>a DEF GetNodesInfo
<1>8. ASSUME NEW k \in ListKind, GetNodesInfoPodsWith(k) PROVE cache'[q] = NoEntry
  BY <1>8, <1>a DEF GetNodesInfoPodsWith
<1>9. CASE UNCHANGED vars
  BY <1>9, <1>a DEF vars
<1>10. QED
  BY <1>1, <1>2, <1>3, <1>4, <1>5, <1>6, <1>7, <1>8, <1>9, ZenonT(60) DEF Next

(* A pod the informer reported deleted leaves nothing behind in any map, and *)
(* no later assume, forget, adoption or node removal resurrects it.         *)
THEOREM DeletedPodsStayDeleted == Spec => []DeletedStaysDeleted
<1>1. Init => DeletedStaysDeleted
  BY CacheAssumption, ZenonT(60) DEF Init, DeletedStaysDeleted
<1>2. QED
  BY <1>1, InitAgrees, StepAgrees, StepDeleted, PTL DEF Spec
-----------------------------------------------------------------------------
(* The cache knows no pod that the informer has not delivered. *)
Delivered == \A p \in Pod : informer[p] = None => cache[p].podsMap = None

(* Only UpdatePod brings in a new pod. *)
LEMMA StepDelivered == TypeOK /\ IndexesAgree /\ Delivered /\ [Next]_vars => Delivered'
<1> SUFFICES ASSUME TypeOK, IndexesAgree, Delivered, [Next]_vars,
                    NEW q \in Pod, informer'[q] = None
             PROVE  cache'[q].podsMap = None
  BY DEF Delivered
<1> USE CacheAssumption
<1>0. cache \in [Pod -> Entry] /\ informer \in [Pod -> ApiObj \cup {None, Gone}]
  BY DEF TypeOK
<1>a. informer[q] = None => cache[q].podsMap = None
  BY DEF Delivered
<1>1. ASSUME NEW p \in Pod, NEW o \in ApiObj, UpdatePod(p, o) PROVE cache'[q].podsMap = None
  <2>1. q # p /\ informer[q] = None
    BY <1>0, <1>1 DEF UpdatePod, ApiObj
  <2>2. QED BY <1>0, <1>1, <1>a, <2>1 DEF UpdatePod, StorePod
<1>2. ASSUME NEW p \in Pod, RemovePod(p) PROVE cache'[q].podsMap = None
  <2>1. q # p /\ informer[q] = None
    BY <1>0, <1>2 DEF RemovePod
  <2>2. QED BY <1>0, <1>2, <1>a, <2>1 DEF RemovePod
<1>3. ASSUME NEW p \in Pod, NEW n \in Node, NEW b \in {"unbound", "allBound"}, AssumePod(p, n, b)
      PROVE  cache'[q].podsMap = None
  <2>1. informer[q] = None /\ cache[p].podsMap # None
    BY <1>3, ZenonT(60) DEF AssumePod
  <2>2. QED BY <1>0, <1>3, <1>a, <2>1, ZenonT(60) DEF AssumePod, StorePod
<1>4. ASSUME NEW p \in Pod, ForgetPod(p) PROVE cache'[q].podsMap = None
  <2>1. informer[q] = None /\ cache[p].podsMap # None
    BY <1>4, ZenonT(60) DEF ForgetPod
  <2>2. QED BY <1>0, <1>4, <1>a, <2>1, ZenonT(60) DEF ForgetPod, StorePod
<1>5. ASSUME NEW n \in Node, UpdateNode(n) PROVE cache'[q].podsMap = None
  <2>1. informer[q] = None /\ cache[q].podsMap = None
    BY <1>5, <1>a, ZenonT(60) DEF UpdateNode
  <2>2. cache[q].orphanedPods = None
    BY <2>1 DEF IndexesAgree, EntryAgrees, WantsNode
  <2>3. QED BY <1>5, <2>1, <2>2, ZenonT(60) DEF UpdateNode, Adopted
<1>6. ASSUME NEW n \in Node, RemoveNode(n) PROVE cache'[q].podsMap = None
  <2>1. informer[q] = None /\ cache[q].podsMap = None
    BY <1>6, <1>a, ZenonT(60) DEF RemoveNode
  <2>2. ~(cache[q].nodeInfo[n] > 0)
    BY <2>1 DEF IndexesAgree, EntryAgrees, WantsNode
  <2>3. QED BY <1>6, <2>1, <2>2 DEF RemoveNode
<1>7. CASE GetNodesInfo
  BY <1>7, <1>a DEF GetNodesInfo
<1>8. ASSUME NEW k \in ListKind, GetNodesInfoPodsWith(k) PROVE cache'[q].podsMap = None
  BY <1>8, <1>a DEF GetNodesInfoPodsWith
<1>9. CASE UNCHANGED vars
  BY <1>9, <1>a, ZenonT(60) DEF vars
<1>10. QED
  BY <1>1, <1>2, <1>3, <1>4, <1>5, <1>6, <1>7, <1>8, <1>9 DEF Next

(* An assumed pod the informer has not placed is assigned, so updatePod's    *)
(* test of assignedPods and assumedPods finds the node to keep.             *)
LEMMA StepKeepsNode ==
  TypeOK /\ IndexesAgree /\ AssignmentJustified /\ Delivered /\ [Next]_vars => KeepsNode
<1> SUFFICES ASSUME TypeOK, IndexesAgree, AssignmentJustified, Delivered, [Next]_vars,
                    NEW q \in Pod, isAssumedPod(cache[q]), isAssumedPod(cache'[q]),
                    informer'[q].nodeName = None
             PROVE  \/ NodeOfPod(cache'[q]) = NodeOfPod(cache[q])
                    \/ \E n \in Node, b \in Assumption : AssumePod(q, n, b)
  BY DEF KeepsNode
<1> USE CacheAssumption
<1> DEFINE Same == NodeOfPod(cache'[q]) = NodeOfPod(cache[q])
<1>0. cache \in [Pod -> Entry] /\ informer \in [Pod -> ApiObj \cup {None, Gone}]
  BY ZenonT(60) DEF TypeOK
<1>a. /\ cache[q].podsMap # None /\ informer[q] # None /\ cache[q].podsMap \in PodObj
      /\ EntryAgrees(cache[q], nodesMap)
  BY <1>0 DEF IndexesAgree, EntryAgrees, Delivered, Entry
<1>1. ASSUME NEW p \in Pod, NEW o \in ApiObj, UpdatePod(p, o) PROVE Same
  <2>1. CASE q # p
    BY <1>0, <1>1, <2>1, ZenonT(60) DEF UpdatePod, StorePod
  <2>2. CASE q = p
    <3> DEFINE e == cache[q]
               new == updatePod(e, o, nodesMap)
    <3>1. cache'[q] = new /\ informer'[q] = o /\ o.nodeName = None
      BY <1>0, <1>1, <2>2, ZenonT(60) DEF UpdatePod, StorePod
    <3>2. informer[q].nodeName = None
      BY <1>1, <1>a, <2>2, <3>1, ZenonT(60) DEF UpdatePod, Later
    <3>3. new.podsMap = Stored(e, o)
      <4>1. ASSUME IsPodTerminated(Stored(e, o)) PROVE FALSE
        <5>1. new = Deleted(Freed(e, nodesMap))
          BY <4>1, ZenonT(60) DEF updatePod
        <5>2. new.assumedPods = "no"
          <6> HIDE DEF new, e
          <6> QED BY <5>1 DEF Deleted
        <5> QED BY <3>1, <5>2, ZenonT(60) DEF isAssumedPod
      <4> QED BY <4>1, ZenonT(60) DEF updatePod
    <3>4. CASE e.podsMap.nodeName = None
      <4>1. e.assignedPods = None
        BY <1>0, <1>a, <3>4 DEF EntryAgrees, WantsNode, Entry
      <4> QED BY <3>1, <3>3, <3>4, <4>1, ZenonT(60) DEF Stored, KeepsAssignment, NodeOfPod
    <3>5. CASE e.podsMap.nodeName # None
      <4>1. e.podsMap.nodeName \in Node
        BY <1>a, <3>5 DEF PodObj
      <4>2. e.podsMap.nodeName \in nodesMap
        BY <1>a, <3>2, <3>5, <4>1, ZenonT(60) DEF AssignmentJustified, WantsNode
      <4>3. e.assignedPods = e.podsMap.nodeName
        BY <1>a, <4>1, <4>2, ZenonT(60) DEF EntryAgrees, WantsNode
      <4>4. KeepsAssignment(e, o)
        BY <1>a, <3>1, <3>5, <4>3, ZenonT(60) DEF KeepsAssignment, IsAssignedPod
      <4> QED BY <3>1, <3>3, <4>3, <4>4 DEF Stored, OnNode, NodeOfPod
    <3> QED BY <3>4, <3>5, ZenonT(60)
  <2> QED BY <2>1, <2>2, ZenonT(60)
<1>2. ASSUME NEW p \in Pod, RemovePod(p) PROVE Same
  <2>1. q # p
    BY <1>0, <1>2, ZenonT(60) DEF RemovePod, removePod, Deleted, isAssumedPod
  <2> QED BY <1>0, <1>2, <2>1, ZenonT(60) DEF RemovePod
<1>3. ASSUME NEW p \in Pod, NEW n \in Node, NEW b \in {"unbound", "allBound"}, AssumePod(p, n, b)
      PROVE  Same \/ \E m \in Node, a \in Assumption : AssumePod(q, m, a)
  <2>1. CASE q # p
    BY <1>0, <1>3, <2>1, ZenonT(60) DEF AssumePod, StorePod
  <2>2. CASE q = p
    <3>1. b \in Assumption
      BY ZenonT(60) DEF Assumption
    <3> QED BY <1>3, <2>2, <3>1, ZenonT(60)
  <2> QED BY <2>1, <2>2, ZenonT(60)
<1>4. ASSUME NEW p \in Pod, ForgetPod(p) PROVE Same
  <2> DEFINE e == WithAssumed(cache[p], "no")
             pod == IF isAssumedPod(cache[p]) THEN OnNode(e.podsMap, None) ELSE e.podsMap
  <2>1. cache' = [cache EXCEPT ![p] = updatePod(e, pod, nodesMap)]
    BY <1>4, ZenonT(60) DEF ForgetPod, StorePod
  <2>2. updatePod(e, pod, nodesMap).assumedPods = "no"
    BY ZenonT(60) DEF updatePod, Deleted, WithAssumed
  <2>3. q # p
    BY <1>0, <2>1, <2>2 DEF isAssumedPod
  <2> QED BY <1>0, <2>1, <2>3, ZenonT(60)
<1>5. ASSUME NEW n \in Node, UpdateNode(n) PROVE Same
  <2> DEFINE e == cache[q]
             all == nodesMap \cup {n}
             new == updatePod(e, e.orphanedPods, all)
  <2>1. CASE n \in nodesMap \/ q \notin Adopted(n)
    BY <1>5, <2>1, ZenonT(60) DEF UpdateNode
  <2>2. CASE n \notin nodesMap /\ q \in Adopted(n)
    <3>1. cache'[q] = new
      BY <1>5, <2>2, ZenonT(60) DEF UpdateNode
    <3>2. e.orphanedPods = e.podsMap /\ e.podsMap.nodeName = n
      BY <1>a, <2>2, ZenonT(60) DEF Adopted, EntryAgrees
    <3>3. Stored(e, e.orphanedPods) = e.podsMap
      BY <3>2, ZenonT(60) DEF Stored, KeepsAssignment, IsAssignedPod
    <3>4. new.podsMap = e.podsMap
      <4>1. ASSUME IsPodTerminated(e.podsMap) PROVE FALSE
        <5>1. new = Deleted(Freed(e, all))
          BY <4>1, <3>3, ZenonT(60) DEF updatePod
        <5>2. new.assumedPods = "no"
          <6> HIDE DEF new, e
          <6> QED BY <5>1 DEF Deleted
        <5> QED BY <3>1, <5>2, ZenonT(60) DEF isAssumedPod
      <4> QED BY <3>3, <4>1, ZenonT(60) DEF updatePod
    <3> QED BY <3>1, <3>4, ZenonT(60) DEF NodeOfPod
  <2> QED BY <2>1, <2>2, ZenonT(60)
<1>6. ASSUME NEW n \in Node, RemoveNode(n) PROVE Same
  <2>1. ~(cache[q].nodeInfo[n] > 0)
    BY <1>6, ZenonT(60) DEF RemoveNode, LeaveNode, isAssumedPod
  <2> QED BY <1>6, <2>1, ZenonT(60) DEF RemoveNode
<1>7. CASE GetNodesInfo
  BY <1>7, ZenonT(60) DEF GetNodesInfo
<1>8. ASSUME NEW k \in ListKind, GetNodesInfoPodsWith(k) PROVE Same
  BY <1>8, ZenonT(60) DEF GetNodesInfoPodsWith
<1>9. CASE UNCHANGED vars
  BY <1>9, ZenonT(60) DEF vars
<1>10. QED
  BY <1>1, <1>2, <1>3, <1>4, <1>5, <1>6, <1>7, <1>8, <1>9, ZenonT(60) DEF Next

(* updatePod never frees or moves the node of an assumed pod on account of  *)
(* an informer event that is older than the bind.                           *)
THEOREM AssumedPodsKeepNode == Spec => AssumedKeepsNode
<1> DEFINE Inv == TypeOK /\ IndexesAgree /\ AssignmentJustified /\ Delivered
<1>1. Init => AssignmentJustified /\ Delivered
  BY CacheAssumption DEF Init, AssignmentJustified, Delivered, NoEntry, Deleted, WantsNode
<1>2. Inv /\ [Next]_vars => Inv'
  BY StepAgrees, StepJustified, StepDelivered
<1>3. Inv /\ [Next]_vars => [KeepsNode]_vars
  BY StepKeepsNode
<1>4. QED
  BY <1>1, <1>2, <1>3, InitAgrees, PTL DEF Spec, AssumedKeepsNode
=============================================================================
