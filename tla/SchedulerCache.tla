---------------------------- MODULE SchedulerCache ----------------------------
(***************************************************************************)
(* pkg/cache/external/scheduler_cache.go: the shim's picture of which pod   *)
(* sits on which node.  The core's predicates are evaluated against it, so  *)
(* its five maps have to agree with each other after every call.            *)
(*                                                                         *)
(* The Go maps keyed by pod UID become the fields of one record per pod,    *)
(* cache[p]; NodeInfo.Pods is a list a pod can be added to twice, so it is  *)
(* kept as a count, cache[p].nodeInfo[n].  Every exported method takes      *)
(* cache.lock for its whole body and is one action.                         *)
(***************************************************************************)
EXTENDS Integers, FiniteSets, GoValues

CONSTANTS
  Pod,              \* pod UIDs
  Node,             \* node names
  Claim,            \* persistent volume claims
  PodClaims,        \* PodClaims[p]: claims pod p mounts (spec is immutable)
  AffinityPods      \* AffinityPods[k]: pods the affinity list k is about

ListKind == {"affinity", "reqAntiAffinity"}
Phase    == {"Pending", "Running", "Terminated"}
(* v1.Pod as far as the cache looks at it: Spec.NodeName and Status.Phase. *)
PodObj   == [nodeName : Node \cup {None}, phase : Phase]
(* The informer's record of a deleted pod. *)
Gone     == [nodeName |-> None, phase |-> "Deleted"]

ASSUME CacheAssumption ==
  /\ PodClaims \in [Pod -> SUBSET Claim]
  /\ AffinityPods \in [ListKind -> SUBSET Pod]
  /\ None \notin Node
  /\ None \notin PodObj /\ None # Gone
  /\ \A S \in SUBSET Node : None # S

VARIABLES
  cache,            \* per pod: podsMap, assignedPods, assumedPods, orphanedPods, nodeInfo
  nodesMap,         \* names of the nodes that have a NodeInfo
  pvcRefCounts,     \* claim -> nodes with a positive count
  nodesInfo,        \* cached list of all nodes, None when invalidated
  affinityLists,    \* the two cached lists of nodes by affinity, None when invalidated
  informer          \* last pod object the pod informer delivered (external)

cacheVars == <<cache, nodesMap, pvcRefCounts, nodesInfo, affinityLists>>
vars == <<cache, nodesMap, pvcRefCounts, nodesInfo, affinityLists, informer>>

(* assumedPods maps a pod to "are all its volumes bound"; "no" is no entry. *)
Assumption == {"no", "unbound", "allBound"}
Entry == [podsMap      : PodObj \cup {None},
          assignedPods : Node \cup {None},
          assumedPods  : Assumption,
          orphanedPods : PodObj \cup {None},
          nodeInfo     : [Node -> Nat]]
Live(pod) == pod = None \/ pod.phase \in {"Pending", "Running"}

(* The pod is deleted from the maps; f is what is left in the NodeInfos. *)
Deleted(f) == [podsMap |-> None, assignedPods |-> None, assumedPods |-> "no",
               orphanedPods |-> None, nodeInfo |-> f]
NoEntry == Deleted([n \in Node |-> 0])

(* A pod object the API server can hold: only a bound pod runs. *)
ApiObj    == {o \in PodObj : o.phase = "Running" => o.nodeName # None}
Rank      == [Pending |-> 1, Running |-> 2, Terminated |-> 3]
Later(o, q) == /\ q \in ApiObj
               /\ o # None => /\ o # Gone
                              /\ o.nodeName \in {None, q.nodeName}
                              /\ Rank[o.phase] <= Rank[q.phase]
-----------------------------------------------------------------------------
isAssumedPod(e)   == e.assumedPods # "no"
IsPodTerminated(pod) == pod.phase = "Terminated"
IsAssignedPod(pod)   == pod.nodeName # None

(* A deep copy of the pod with Spec.NodeName set to n. *)
OnNode(pod, n) == [nodeName |-> n, phase |-> pod.phase]

(* NodeInfo.RemovePod of a pod that is not there is a logged no-op. *)
RemoveOnce(k) == IF k > 0 THEN k - 1 ELSE 0

(* updatePod keeps the node of an assumed pod whose new object has none. *)
KeepNever(e, pod) == FALSE
KeepAlways(e, pod) == e.podsMap # None /\ e.assignedPods # None /\ ~IsAssignedPod(pod)
KeepsAssignment(e, pod) ==
  /\ e.podsMap # None /\ e.assignedPods # None
  /\ ~IsAssignedPod(pod) /\ isAssumedPod(e)

(* The object updatePod goes on to store. *)
Stored(e, pod) ==
  IF KeepsAssignment(e, pod) THEN OnNode(pod, e.assignedPods) ELSE pod

Placed(pod, nodes) == IsAssignedPod(pod) /\ ~IsPodTerminated(pod) /\ pod.nodeName \in nodes
Orphan(pod, nodes) == IsAssignedPod(pod) /\ ~IsPodTerminated(pod) /\ pod.nodeName \notin nodes

(* The current version of the pod leaves the node it is assigned to ... *)
Freed(e, nodes) ==
  [n \in Node |-> IF e.podsMap # None /\ e.assignedPods = n /\ n \in nodes
                  THEN RemoveOnce(e.nodeInfo[n]) ELSE e.nodeInfo[n]]

(* ... and the new version is assigned, orphaned, dropped or just stored. *)
updatePod(e, newPod, nodes) ==
  LET pod  == Stored(e, newPod)
      free == Freed(e, nodes)
      known == e.podsMap # None
  IN IF IsPodTerminated(pod)
     THEN Deleted(free)
     ELSE [podsMap      |-> pod,
           assignedPods |-> IF Placed(pod, nodes) THEN pod.nodeName
                            ELSE IF known THEN None ELSE e.assignedPods,
           assumedPods  |-> IF pod.phase = "Running" THEN "no" ELSE e.assumedPods,
           orphanedPods |-> IF Orphan(pod, nodes) THEN pod
                            ELSE IF known THEN None ELSE e.orphanedPods,
           nodeInfo     |-> [n \in Node |-> IF Placed(pod, nodes) /\ pod.nodeName = n
                                            THEN free[n] + 1 ELSE free[n]]]

(* updatePVCRefCounts: the entries of the nodes in S are rebuilt from their NodeInfo. *)
ClaimedOn(c, newCache, n) == \E p \in Pod : c \in PodClaims[p] /\ newCache[p].nodeInfo[n] > 0
updatePVCRefCounts(newCache, S) ==
  [c \in Claim |-> (pvcRefCounts[c] \ S) \cup {n \in S : ClaimedOn(c, newCache, n)}]

(* Nodes whose NodeInfo an update of entry e with object pod changes. *)
TouchedByAdd(e, pod, nodes) ==
  {n \in nodes : Placed(Stored(e, pod), nodes) /\ Stored(e, pod).nodeName = n}
Touched(e, pod, nodes) ==
  {n \in nodes : \/ e.podsMap # None /\ e.assignedPods = n
                 \/ Placed(Stored(e, pod), nodes) /\ Stored(e, pod).nodeName = n}
InvalidateNone(lists, p, S) == lists
Invalidate(lists, p, S) ==
  [k \in ListKind |-> IF S # {} /\ p \in AffinityPods[k] THEN None ELSE lists[k]]
NoLists == [k \in ListKind |-> None]
-----------------------------------------------------------------------------
Init ==
  /\ cache = [p \in Pod |-> NoEntry]
  /\ nodesMap = {}
  /\ pvcRefCounts = [c \in Claim |-> {}]
  /\ nodesInfo = None
  /\ affinityLists = NoLists
  /\ informer = [p \in Pod |-> None]

(* What UpdatePod, AssumePod and ForgetPod do to the shared indexes once    *)
(* updatePod has taken the entry of pod p from old to new.                 *)
StorePod(p, old, pod, new) ==
  LET S == Touched(old, pod, nodesMap)
      c == [cache EXCEPT ![p] = new]
  IN /\ cache' = c
     /\ pvcRefCounts' = updatePVCRefCounts(c, S)
     /\ affinityLists' = Invalidate(affinityLists, p, S)
     /\ UNCHANGED <<nodesMap, nodesInfo>>

(* UpdatePod, called with the object an informer event carries. *)
UpdatePod(p, pod) ==
  /\ Later(informer[p], pod)
  /\ informer' = [informer EXCEPT ![p] = pod]
  /\ StorePod(p, cache[p], pod, updatePod(cache[p], pod, nodesMap))

(* RemovePod, called for a deleted or terminated pod. *)
removePod_KeepsOrphan(e, nodes) == [NoEntry EXCEPT !.orphanedPods = e.orphanedPods]
removePod(e, nodes) ==
  Deleted([n \in Node |-> IF e.assignedPods = n /\ n \in nodes
                          THEN RemoveOnce(e.nodeInfo[n]) ELSE e.nodeInfo[n]])
RemovePod(p) ==
  /\ informer[p] \notin {None, Gone}
  /\ informer' = [informer EXCEPT ![p] = Gone]
  /\ LET c == [cache EXCEPT ![p] = removePod(cache[p], nodesMap)]
     IN /\ cache' = c
        /\ pvcRefCounts' = updatePVCRefCounts(c, {cache[p].assignedPods} \cap nodesMap)
  /\ affinityLists' = NoLists
  /\ UNCHANGED <<nodesMap, nodesInfo>>

(* The entry with its assumedPods value set to a. *)
WithAssumed(e, a) ==
  [podsMap |-> e.podsMap, assignedPods |-> e.assignedPods, assumedPods |-> a,
   orphanedPods |-> e.orphanedPods, nodeInfo |-> e.nodeInfo]

(* AssumePod as Context.AssumePod calls it: a known pod, an existing node. *)
AssumePod(p, n, allBound) ==
  /\ cache[p].podsMap # None /\ n \in nodesMap
  /\ LET pod == OnNode(cache[p].podsMap, n)
     IN StorePod(p, cache[p], pod,
                 WithAssumed(updatePod(cache[p], pod, nodesMap), allBound))
  /\ UNCHANGED informer

(* ForgetPod as Context.ForgetPod calls it: with the object in the cache.  *)
(* The assumed state goes first, or updatePod would keep the assignment.   *)
ForgetPod(p) ==
  /\ cache[p].podsMap # None
  /\ LET e   == WithAssumed(cache[p], "no")
         pod == IF isAssumedPod(cache[p]) THEN OnNode(e.podsMap, None) ELSE e.podsMap
     IN StorePod(p, e, pod, updatePod(e, pod, nodesMap))
  /\ UNCHANGED informer

(* UpdateNode: a new node adopts every orphan that names it; updatePod     *)
(* touches only the entry of its pod, so the loop is a pointwise update.   *)
AdoptNobody(n) == {}
Adopted(n) == {p \in Pod : cache[p].orphanedPods # None /\ cache[p].orphanedPods.nodeName = n}
UpdateNode(n) ==
  /\ nodesMap' = nodesMap \cup {n}
  /\ LET adopt == IF n \in nodesMap THEN {} ELSE Adopted(n)
         c == [p \in Pod |-> IF p \in adopt
                             THEN updatePod(cache[p], cache[p].orphanedPods, nodesMap \cup {n})
                             ELSE cache[p]]
         S == {n} \cup ({cache[p].assignedPods : p \in adopt} \cap nodesMap)
     IN /\ cache' = c
        /\ pvcRefCounts' = updatePVCRefCounts(c, S)
  /\ nodesInfo' = IF n \in nodesMap THEN nodesInfo ELSE None
  /\ affinityLists' = NoLists
  /\ UNCHANGED informer

(* RemoveNode: a pod still assumed on the node is pending again, any other *)
(* pod of the node is orphaned.                                            *)
LeaveNode(e, n) ==
  [podsMap      |-> IF isAssumedPod(e) THEN OnNode(e.podsMap, None) ELSE e.podsMap,
   assignedPods |-> None,
   assumedPods  |-> "no",
   orphanedPods |-> IF isAssumedPod(e) THEN e.orphanedPods ELSE e.podsMap,
   nodeInfo     |-> [e.nodeInfo EXCEPT ![n] = 0]]
RemoveNode(n) ==
  /\ n \in nodesMap
  /\ nodesMap' = nodesMap \ {n}
  /\ cache' = [p \in Pod |-> IF cache[p].nodeInfo[n] > 0 THEN LeaveNode(cache[p], n) ELSE cache[p]]
  /\ pvcRefCounts' = [c \in Claim |-> pvcRefCounts[c] \ {n}]
  /\ nodesInfo' = None
  /\ affinityLists' = NoLists
  /\ UNCHANGED informer

(* The predicate lister's getters fill an invalidated list. *)
WithPodIn(n, S) == \E p \in S : cache[p].nodeInfo[n] > 0
GetNodesInfo ==
  /\ nodesInfo = None
  /\ nodesInfo' = nodesMap
  /\ UNCHANGED <<cache, nodesMap, pvcRefCounts, affinityLists, informer>>
GetNodesInfoPodsWith(k) ==
  /\ affinityLists[k] = None
  /\ affinityLists' = [affinityLists EXCEPT ![k] = {n \in nodesMap : WithPodIn(n, AffinityPods[k])}]
  /\ UNCHANGED <<cache, nodesMap, pvcRefCounts, nodesInfo, informer>>

Next ==
  \/ \E p \in Pod, o \in ApiObj : UpdatePod(p, o)
  \/ \E p \in Pod : RemovePod(p)
  \/ \E p \in Pod, n \in Node, b \in {"unbound", "allBound"} : AssumePod(p, n, b)
  \/ \E p \in Pod : ForgetPod(p)
  \/ \E n \in Node : UpdateNode(n)
  \/ \E n \in Node : RemoveNode(n)
  \/ GetNodesInfo
  \/ \E k \in ListKind : GetNodesInfoPodsWith(k)

Spec == Init /\ [][Next]_vars
-----------------------------------------------------------------------------
(* Types.  The cache never holds a terminated pod: updatePod drops one and *)
(* RemovePod is what the handlers call for it.                             *)
TypeOK ==
  /\ cache \in [Pod -> Entry]
  /\ \A p \in Pod : Live(cache[p].podsMap) /\ Live(cache[p].orphanedPods)
  /\ nodesMap \in SUBSET Node
  /\ pvcRefCounts \in [Claim -> SUBSET Node]
  /\ nodesInfo \in {None} \cup SUBSET Node
  /\ affinityLists \in [ListKind -> {None} \cup SUBSET Node]
  /\ informer \in [Pod -> ApiObj \cup {None, Gone}]

(* The indexes over pods say the same thing: a pod whose stored object      *)
(* names a node is assigned to it and counted exactly once in its NodeInfo  *)
(* if the cache has the node, and is an orphan if it has not; no other pod  *)
(* is assigned, counted or orphaned, and only a stored pod is assumed.      *)
(* removePod dereferences the NodeInfo of assignedPods without a check.     *)
WantsNode(e, n) == e.podsMap # None /\ e.podsMap.nodeName = n
EntryAgrees(e, nodes) ==
  /\ \A n \in Node :
       /\ (e.assignedPods = n) <=> (WantsNode(e, n) /\ n \in nodes)
       /\ e.nodeInfo[n] = IF e.assignedPods = n THEN 1 ELSE 0
  /\ e.orphanedPods =
       IF \E n \in Node \ nodes : WantsNode(e, n) THEN e.podsMap ELSE None
  /\ isAssumedPod(e) => e.podsMap # None
IndexesAgree == \A p \in Pod : EntryAgrees(cache[p], nodesMap)

(* IsPVCUsedByPods is right for every claim: updatePVCRefCounts is called   *)
(* for every NodeInfo that gained or lost a pod.                            *)
ClaimsCounted ==
  \A c \in Claim : pvcRefCounts[c] = {n \in nodesMap : ClaimedOn(c, cache, n)}

(* The lists the predicate lister hands out are invalidated by every step   *)
(* that changes what they would contain.                                    *)
ListsFresh ==
  /\ nodesInfo \in {None, nodesMap}
  /\ \A k \in ListKind :
       affinityLists[k] \in {None, {n \in nodesMap : WithPodIn(n, AffinityPods[k])}}

(* No assignment from nowhere: a pod the cache puts on a node (or keeps as  *)
(* an orphan of one) is either assumed there or was reported there by the   *)
(* informer.  forgetPod and removeNode revert what an assumption set.       *)
AssignmentJustified ==
  \A p \in Pod : \A n \in Node :
    WantsNode(cache[p], n) =>
      \/ isAssumedPod(cache[p]) /\ n \in nodesMap
      \/ informer[p].nodeName = n

(* A pod the informer reported deleted leaves nothing behind. *)
DeletedStaysDeleted == \A p \in Pod : informer[p] = Gone => cache[p] = NoEntry

(* A pod that stays assumed, and that the informer has not placed, keeps    *)
(* its node unless AssumePod is called for it again.                        *)
NodeOfPod(e) == e.podsMap.nodeName
KeepsNode ==
  \A p \in Pod :
    isAssumedPod(cache[p]) /\ isAssumedPod(cache'[p]) /\ informer'[p].nodeName = None
    => \/ NodeOfPod(cache'[p]) = NodeOfPod(cache[p])
       \/ \E n \in Node, b \in Assumption : AssumePod(p, n, b)

(* updatePod never frees or moves the node of an assumed pod on account of  *)
(* an informer event without a node, that is one older than the bind.       *)
AssumedKeepsNode == [][KeepsNode]_vars

(* scheduler_cache.go:210 "a pod that is still assumed was never bound to   *)
(* the node" and :490 "the pod was never bound to the node it was assumed   *)
(* on": reverting an assumption never takes away a node the informer has    *)
(* reported for the pod.                                                    *)
ReportedBindingKept ==
  \A p \in Pod : /\ cache[p].podsMap # None /\ informer[p] # None
                 /\ informer[p].nodeName # None
                 => cache[p].podsMap.nodeName # None
=============================================================================
