--------------------------- MODULE AdmissionProofs ---------------------------
(* Proofs about Admission, for any submissions, users, configurations and   *)
(* namespaces, and any number of changes of them during the reviews.        *)
EXTENDS Admission, FiniteSetTheorems, TLAPS

(* The system users of every configuration are the accounts of controllers, *)
(* as in the default of admissionController.accessControl.systemUsers: what *)
(* the review takes on trust from a controller is not open to a submitter.  *)
SystemUsersAreControllers == \A c \in AmConf : c.systemUsers \cap User = {Controller}
-----------------------------------------------------------------------------
(* The one operation on a path decides what is there; without one nothing   *)
(* changes.                                                                 *)
Decides(patch, i, path) ==
  /\ DOMAIN patch \subseteq Nat /\ i \in DOMAIN patch /\ patch[i].path = path
  /\ \A j \in DOMAIN patch : patch[j].path = path => j = i
Leaves(patch, path) == \A i \in DOMAIN patch : patch[i].path # path

LEMMA PatchedAt ==
  ASSUME NEW patch, NEW path, NEW default, NEW i, Decides(patch, i, path)
  PROVE  Patched(patch, path, default) = patch[i].value
<1> DEFINE ops == {j \in DOMAIN patch : patch[j].path = path}
<1>1. ops = {i} /\ i \in Nat
  BY DEF Decides
<1>2. \E x \in ops : \A y \in ops : x >= y
  BY <1>1
<1>3. Max(ops) = i
  BY <1>1, <1>2 DEF Max
<1> QED BY <1>1, <1>3 DEF Patched

LEMMA PatchedNot ==
  ASSUME NEW patch, NEW path, NEW default, Leaves(patch, path)
  PROVE  Patched(patch, path, default) = default
BY DEF Patched, Leaves

-----------------------------------------------------------------------------
(* What PatchesAddUp says of the annotations and of the labels.             *)
AnnotationsKept(b, a) ==
  /\ DOMAIN b \subseteq DOMAIN a /\ DOMAIN a \subseteq DOMAIN b \cup {"user", "preempt"}
  /\ \A k \in DOMAIN b : a[k] = b[k] \/ (k = "preempt" /\ b[k] \notin {"true", "false"})
LabelsKept(m, l) ==
  /\ DOMAIN m \subseteq DOMAIN l /\ DOMAIN l \subseteq DOMAIN m \cup {"canonicalAppId", "appId", "queue"}
  /\ \A k \in DOMAIN m : l[k] = m[k] \/ (k = "appId" /\ Get(m, "canonicalAppId") # "")
                                   \/ (k = "queue" /\ Get(m, "canonicalQueue") # "")
                                   \/ (k \in {"appId", "canonicalAppId"} /\ m[k] = "")
OneName(l) ==
  /\ Get(l, "canonicalAppId") # "" => Get(l, "appId") = l["canonicalAppId"]
  /\ Get(l, "canonicalQueue") # "" => Get(l, "queue") = l["canonicalQueue"]
AppKnown(a, l) ==
  (\E k \in {"canonicalAppId", "appId", "sparkAppId"} : Get(l, k) # "") \/ Get(a, "appId") # ""

(* The labels with the application id: kept, copied to the old label, or    *)
(* generated.                                                               *)
AppIds(l, a, generated) ==
  IF (\A k \in {"canonicalAppId", "sparkAppId", "appId"} : Get(l, k) = "") /\ Get(a, "appId") = ""
  THEN With(With(l, "canonicalAppId", generated), "appId", generated)
  ELSE IF Get(l, "canonicalAppId") # "" THEN With(l, "appId", l["canonicalAppId"]) ELSE l

AppIdSet(l, a, ids) ==
  /\ DOMAIN l \subseteq DOMAIN ids /\ DOMAIN ids \subseteq DOMAIN l \cup {"canonicalAppId", "appId"}
  /\ \A k \in DOMAIN l : ids[k] = l[k] \/ (k = "appId" /\ Get(l, "canonicalAppId") # "")
                                   \/ (k \in {"appId", "canonicalAppId"} /\ l[k] = "")
  /\ Get(ids, "canonicalAppId") # "" => Get(ids, "appId") = ids["canonicalAppId"]
  /\ AppKnown(a, ids)

(* It is there, under one name for old and new shims.                       *)
LEMMA AppIdLabels ==
  ASSUME NEW l, NEW a, NEW generated \in {"unique", "autogen"}
  PROVE  AppIdSet(l, a, AppIds(l, a, generated))
<1> DEFINE none == \A k \in {"canonicalAppId", "sparkAppId", "appId"} : Get(l, k) = ""
           two == With(With(l, "canonicalAppId", generated), "appId", generated)
<1>1. CASE none /\ Get(a, "appId") = ""
  <2>1. /\ DOMAIN two = DOMAIN l \cup {"canonicalAppId", "appId"}
        /\ two["appId"] = generated /\ two["canonicalAppId"] = generated
        /\ \A j \in DOMAIN l : j \notin {"canonicalAppId", "appId"} => two[j] = l[j]
    BY DEF With
  <2>2. \A k \in {"appId", "canonicalAppId"} : k \in DOMAIN l => l[k] = ""
    BY <1>1 DEF Get
  <2>3. Get(two, "canonicalAppId") = generated /\ Get(two, "appId") = generated
    BY <2>1 DEF Get
  <2>4. AppKnown(a, two)
    BY <2>3 DEF AppKnown
  <2>5. AppIds(l, a, generated) = two
    BY <1>1 DEF AppIds
  <2> QED BY <1>1, <2>1, <2>2, <2>3, <2>4, <2>5 DEF AppIdSet
<1>2. CASE ~(none /\ Get(a, "appId") = "") /\ Get(l, "canonicalAppId") # ""
  <2> DEFINE one == With(l, "appId", l["canonicalAppId"])
  <2>1. "canonicalAppId" \in DOMAIN l
    BY <1>2 DEF Get
  <2>2. /\ DOMAIN one = DOMAIN l \cup {"appId"} /\ one["appId"] = l["canonicalAppId"]
        /\ \A j \in DOMAIN l : j # "appId" => one[j] = l[j]
    BY DEF With
  <2>3. Get(one, "appId") = l["canonicalAppId"] /\ Get(one, "canonicalAppId") = Get(l, "canonicalAppId")
    BY <2>1, <2>2 DEF Get
  <2>4. AppKnown(a, one)
    BY <1>2, <2>3 DEF AppKnown
  <2>5. AppIds(l, a, generated) = one
    BY <1>2 DEF AppIds
  <2> QED BY <1>2, <2>1, <2>2, <2>3, <2>4, <2>5 DEF AppIdSet
<1>3. CASE ~(none /\ Get(a, "appId") = "") /\ Get(l, "canonicalAppId") = ""
  <2>1. AppKnown(a, l)
    BY <1>3 DEF AppKnown
  <2>2. AppIds(l, a, generated) = l
    BY <1>3 DEF AppIds
  <2> QED BY <1>3, <2>1, <2>2 DEF AppIdSet
<1> QED BY <1>1, <1>2, <1>3

(* updatePodLabel keeps the labels but for the ones YuniKorn owns, and      *)
(* leaves one application and one queue.                                    *)
LEMMA LabelsAddUp ==
  ASSUME NEW r
  PROVE  /\ LabelsKept(r.labels, UpdatePodLabel(r)) /\ OneName(UpdatePodLabel(r))
         /\ AppKnown(r.annotations, UpdatePodLabel(r))
<1> DEFINE l == r.labels
           generated == IF amConf.uniqueAppIds THEN "unique" ELSE "autogen"
           ids == AppIds(l, r.annotations, generated)
           both == With(ids, "queue", l["canonicalQueue"])
<1>1. generated \in {"unique", "autogen"}
  OBVIOUS
<1> HIDE DEF l, generated
<1>2. AppIdSet(l, r.annotations, ids)
  BY <1>1, AppIdLabels
<1>3. UpdatePodLabel(r) = IF Get(l, "canonicalQueue") # "" THEN both ELSE ids
  BY DEF UpdatePodLabel, AppIds, l, generated
<1> HIDE DEF ids
<1>4. Get(ids, "canonicalQueue") = Get(l, "canonicalQueue") /\ ("canonicalQueue" \in DOMAIN l => ids["canonicalQueue"] = l["canonicalQueue"])
  BY <1>2 DEF AppIdSet, Get
<1>5. CASE Get(l, "canonicalQueue") # ""
  <2>1. "canonicalQueue" \in DOMAIN l
    BY <1>5 DEF Get
  <2>2. /\ DOMAIN both = DOMAIN ids \cup {"queue"} /\ both["queue"] = l["canonicalQueue"]
        /\ \A j \in DOMAIN ids : j # "queue" => both[j] = ids[j]
        /\ Get(both, "queue") = l["canonicalQueue"]
        /\ \A j : j # "queue" => Get(both, j) = Get(ids, j)
    BY DEF With, Get
  <2>3. LabelsKept(l, both)
    BY <1>2, <1>5, <2>2 DEF AppIdSet, LabelsKept
  <2>4. OneName(both)
    BY <1>2, <1>4, <2>1, <2>2 DEF AppIdSet, OneName, Get
  <2>5. AppKnown(r.annotations, both)
    BY <1>2, <2>2 DEF AppIdSet, AppKnown
  <2> QED BY <1>3, <1>5, <2>3, <2>4, <2>5 DEF l
<1>6. CASE Get(l, "canonicalQueue") = ""
  <2>1. LabelsKept(l, ids) /\ OneName(ids)
    BY <1>2, <1>4, <1>6 DEF AppIdSet, LabelsKept, OneName
  <2> QED BY <1>2, <1>3, <1>6, <2>1 DEF AppIdSet, l
<1> QED BY <1>5, <1>6
-----------------------------------------------------------------------------
(* The operations a review of a pod can put into its patch.                 *)
UserOp(r) == [path |-> "annotations", value |-> With(r.annotations, "user", r.by)]
SchedulerOp == [path |-> "schedulerName", value |-> TRUE]
LabelOp(r) == [path |-> "labels", value |-> UpdatePodLabel(r)]
UserPatches(r) == {<< >>, <<UserOp(r)>>}

(* The annotations with such a patch of the user info.                      *)
WithUser(r, u) == IF u = << >> THEN r.annotations ELSE With(r.annotations, "user", r.by)

(* What is stored of an object allowed with a patch.                        *)
Stores(r, patch, a, l, yunikorn, labelled) ==
  /\ Patched(patch, "annotations", r.annotations) = a
  /\ Patched(patch, "labels", r.labels) = l
  /\ Patched(patch, "schedulerName", FALSE) = yunikorn
  /\ (\E i \in DOMAIN patch : patch[i].path = "labels") <=> labelled

(* With the patch of the user info alone ... *)
LEMMA StoresUser ==
  ASSUME NEW r, NEW u \in UserPatches(r)
  PROVE  Stores(r, u, WithUser(r, u), r.labels, FALSE, FALSE)
<1>1. CASE u = << >>
  <2>1. \A i \in DOMAIN u : FALSE
    BY <1>1
  <2>2. /\ Patched(u, "annotations", r.annotations) = r.annotations
        /\ Patched(u, "labels", r.labels) = r.labels /\ Patched(u, "schedulerName", FALSE) = FALSE
    BY <2>1 DEF Patched
  <2> QED BY <1>1, <2>1, <2>2 DEF Stores, WithUser
<1>2. CASE u = <<UserOp(r)>>
  <2>1. DOMAIN u = {1} /\ u[1].path = "annotations" /\ u[1].value = With(r.annotations, "user", r.by)
    BY <1>2 DEF UserOp
  <2>2. u # << >>
    BY <1>2
  <2>3. Decides(u, 1, "annotations")
    BY <2>1 DEF Decides
  <2>5. Patched(u, "annotations", r.annotations) = u[1].value
    BY <2>3, PatchedAt, Zenon
  <2>6. Leaves(u, "labels") /\ Leaves(u, "schedulerName")
    BY <2>1 DEF Leaves
  <2>4. Patched(u, "labels", r.labels) = r.labels /\ Patched(u, "schedulerName", FALSE) = FALSE
    BY <2>6, PatchedNot, Zenon
  <2> QED BY <2>1, <2>2, <2>4, <2>5 DEF Stores, WithUser
<1> QED BY <1>1, <1>2 DEF UserPatches

(* ... with the scheduler's name as well ... *)
LEMMA StoresScheduler ==
  ASSUME NEW r, NEW u \in UserPatches(r)
  PROVE  Stores(r, Append(u, SchedulerOp), WithUser(r, u), r.labels, TRUE, FALSE)
<1> DEFINE patch == Append(u, SchedulerOp)
<1>1. CASE u = << >>
  <2>1. DOMAIN patch = {1} /\ patch[1].path = "schedulerName" /\ patch[1].value = TRUE
    BY <1>1 DEF SchedulerOp
  <2> HIDE DEF patch
  <2>2. Decides(patch, 1, "schedulerName")
    BY <2>1 DEF Decides
  <2>4. Patched(patch, "schedulerName", FALSE) = TRUE
    <3>1. Patched(patch, "schedulerName", FALSE) = patch[1].value
      BY <2>2, PatchedAt, Zenon
    <3> QED BY <2>1, <3>1, Zenon
  <2>5. Leaves(patch, "labels") /\ Leaves(patch, "annotations")
    BY <2>1 DEF Leaves
  <2>3. Patched(patch, "labels", r.labels) = r.labels /\ Patched(patch, "annotations", r.annotations) = r.annotations
    BY <2>5, PatchedNot, Zenon
  <2> QED BY <1>1, <2>1, <2>3, <2>4 DEF Stores, WithUser, patch
<1>2. CASE u = <<UserOp(r)>>
  <2>1. /\ DOMAIN patch = {1, 2} /\ patch[2].path = "schedulerName" /\ patch[2].value = TRUE
        /\ patch[1].path = "annotations" /\ patch[1].value = With(r.annotations, "user", r.by)
    BY <1>2 DEF UserOp, SchedulerOp
  <2>2. u # << >>
    BY <1>2
  <2> HIDE DEF patch
  <2>3. Decides(patch, 2, "schedulerName") /\ Decides(patch, 1, "annotations")
    BY <2>1 DEF Decides
  <2>5. /\ Patched(patch, "schedulerName", FALSE) = patch[2].value
        /\ Patched(patch, "annotations", r.annotations) = patch[1].value
    BY <2>3, PatchedAt, Zenon
  <2>6. Leaves(patch, "labels")
    BY <2>1 DEF Leaves
  <2>4. Patched(patch, "labels", r.labels) = r.labels
    BY <2>6, PatchedNot
  <2> QED BY <2>1, <2>2, <2>4, <2>5 DEF Stores, WithUser, patch
<1> QED BY <1>1, <1>2 DEF UserPatches

(* ... and with the labels and the decision on preemption.                  *)
WithPreempt(r, a) ==
  IF Get(r.annotations, "preempt") \in {"true", "false"} THEN a
  ELSE With(a, "preempt", IF IsPreemptSelfAllowed THEN "true" ELSE "false")
Labelled(r, u) == UpdatePreemptionInfo(r, Append(Append(u, SchedulerOp), LabelOp(r)))

(* What an operation added at the end of a patch leaves of it.              *)
Grown(s, e, t) ==
  /\ t = Append(s, e)
  /\ Len(t) = Len(s) + 1
  /\ \A i \in 1..Len(s) : t[i] = s[i]
  /\ t[Len(s) + 1] = e

LEMMA AppendGrows ==
  ASSUME NEW S, NEW s \in Seq(S), NEW e \in S
  PROVE  \E t \in Seq(S) : Grown(s, e, t)
<1>1. Append(s, e) \in Seq(S)
  OBVIOUS
<1>2. Grown(s, e, Append(s, e))
  BY DEF Grown
<1> QED BY <1>1, <1>2, Zenon

(* The patches of two and of three operations that a review builds.         *)
LEMMA Appends ==
  ASSUME NEW x, NEW y, NEW z
  PROVE  LET two == Append(Append(<< >>, x), y)
             three == Append(Append(<<x>>, y), z)
         IN  /\ two \in Seq({x, y, z}) /\ Len(two) = 2 /\ two[1] = x /\ two[2] = y
             /\ Len(three) = 3 /\ three[1] = x /\ three[2] = y /\ three[3] = z
             /\ DOMAIN two = {1, 2} /\ DOMAIN three = {1, 2, 3}
<1> DEFINE S == {x, y, z}
<1>0. x \in S /\ y \in S /\ z \in S
  OBVIOUS
<1>1. << >> \in Seq(S) /\ Len(<< >>) = 0 /\ <<x>> \in Seq(S) /\ Len(<<x>>) = 1 /\ <<x>>[1] = x
  OBVIOUS
<1> HIDE DEF S
<1>2. PICK xs \in Seq(S) : Grown(<< >>, x, xs)
  BY <1>0, <1>1, AppendGrows, Zenon
<1>3. PICK two \in Seq(S) : Grown(xs, y, two)
  BY <1>0, <1>2, AppendGrows, Zenon
<1>4. PICK xy \in Seq(S) : Grown(<<x>>, y, xy)
  BY <1>0, <1>1, AppendGrows, Zenon
<1>5. PICK three \in Seq(S) : Grown(xy, z, three)
  BY <1>0, <1>4, AppendGrows, Zenon
<1>6. Len(xs) = 1 /\ xs[1] = x
  BY <1>1, <1>2 DEF Grown
<1>7. Len(two) = 2 /\ two[1] = x /\ two[2] = y
  BY <1>3, <1>6 DEF Grown
<1>8. Len(xy) = 2 /\ xy[1] = x /\ xy[2] = y
  BY <1>1, <1>4 DEF Grown
<1>9. Len(three) = 3 /\ three[1] = x /\ three[2] = y /\ three[3] = z
  BY <1>5, <1>8 DEF Grown
<1>10. two = Append(Append(<< >>, x), y) /\ three = Append(Append(<<x>>, y), z)
  BY <1>2, <1>3, <1>4, <1>5, Zenon DEF Grown
<1>11. DOMAIN two = {1, 2} /\ DOMAIN three = {1, 2, 3}
  BY <1>7, <1>9
<1> QED BY <1>7, <1>9, <1>10, <1>11 DEF S

LEMMA StoresLabelsPlain ==
  ASSUME NEW r
  PROVE  Stores(r, Labelled(r, << >>), WithPreempt(r, r.annotations), UpdatePodLabel(r), TRUE, TRUE)
<1> DEFINE base == Append(Append(<< >>, SchedulerOp), LabelOp(r))
           patch == Labelled(r, << >>)
<1>0. /\ base \in Seq({SchedulerOp, LabelOp(r)}) /\ Len(base) = 2 /\ DOMAIN base = {1, 2}
      /\ base[1] = SchedulerOp /\ base[2] = LabelOp(r)
  BY Appends
<1>1. /\ base[1].path = "schedulerName" /\ base[1].value = TRUE
      /\ base[2].path = "labels" /\ base[2].value = UpdatePodLabel(r)
  BY <1>0 DEF SchedulerOp, LabelOp
<1>2. CASE Get(r.annotations, "preempt") \in {"true", "false"}
  <2>1. patch = base
    BY <1>2 DEF Labelled, UpdatePreemptionInfo
  <2> HIDE DEF patch, base
  <2>2. Decides(patch, 1, "schedulerName") /\ Decides(patch, 2, "labels")
    BY <1>0, <1>1, <2>1 DEF Decides
  <2>3. Leaves(patch, "annotations")
    BY <1>0, <1>1, <2>1 DEF Leaves
  <2>4. /\ Patched(patch, "schedulerName", FALSE) = patch[1].value
        /\ Patched(patch, "labels", r.labels) = patch[2].value
    BY <2>2, PatchedAt, Zenon
  <2>5. Patched(patch, "annotations", r.annotations) = r.annotations
    BY <2>3, PatchedNot
  <2> QED BY <1>0, <1>1, <1>2, <2>1, <2>4, <2>5 DEF Stores, WithPreempt, patch
<1>3. CASE ~(Get(r.annotations, "preempt") \in {"true", "false"})
  <2> DEFINE op == [path |-> "annotations", value |-> WithPreempt(r, r.annotations)]
  <2>1. {i \in DOMAIN base : base[i].path = "annotations"} = {}
    BY <1>0, <1>1
  <2>2. patch = Append(base, op)
    BY <1>3, <2>1 DEF Labelled, UpdatePreemptionInfo, WithPreempt
  <2> HIDE DEF patch, base, op
  <2>3. DOMAIN patch = {1, 2, 3} /\ patch[1] = SchedulerOp /\ patch[2] = LabelOp(r) /\ patch[3] = op
    BY <1>0, <2>2
  <2>4. /\ DOMAIN patch = {1, 2, 3} /\ patch[1].path = "schedulerName" /\ patch[1].value = TRUE
        /\ patch[2].path = "labels" /\ patch[2].value = UpdatePodLabel(r)
        /\ patch[3].path = "annotations" /\ patch[3].value = WithPreempt(r, r.annotations)
    BY <2>3 DEF SchedulerOp, LabelOp, op
  <2>5. Decides(patch, 1, "schedulerName") /\ Decides(patch, 2, "labels") /\ Decides(patch, 3, "annotations")
    BY <2>4 DEF Decides
  <2>6. /\ Patched(patch, "schedulerName", FALSE) = patch[1].value
        /\ Patched(patch, "labels", r.labels) = patch[2].value
        /\ Patched(patch, "annotations", r.annotations) = patch[3].value
    BY <2>5, PatchedAt, ZenonT(60)
  <2> QED BY <2>4, <2>6 DEF Stores, patch
<1> QED BY <1>2, <1>3

LEMMA StoresLabelsUser ==
  ASSUME NEW r
  PROVE  LET a == With(r.annotations, "user", r.by)
         IN  Stores(r, Labelled(r, <<UserOp(r)>>), WithPreempt(r, a), UpdatePodLabel(r), TRUE, TRUE)
<1> DEFINE base == Append(Append(<<UserOp(r)>>, SchedulerOp), LabelOp(r))
           patch == Labelled(r, <<UserOp(r)>>)
           a == With(r.annotations, "user", r.by)
<1>1. DOMAIN base = {1, 2, 3} /\ base[1] = UserOp(r) /\ base[2] = SchedulerOp /\ base[3] = LabelOp(r)
  BY Appends
<1>2. /\ DOMAIN base = {1, 2, 3} /\ base[1].path = "annotations" /\ base[1].value = a
      /\ base[2].path = "schedulerName" /\ base[2].value = TRUE
      /\ base[3].path = "labels" /\ base[3].value = UpdatePodLabel(r)
  BY <1>1 DEF UserOp, SchedulerOp, LabelOp
<1>3. /\ DOMAIN patch = {1, 2, 3}
      /\ patch[1].path = "annotations" /\ patch[1].value = WithPreempt(r, a)
      /\ patch[2].path = "schedulerName" /\ patch[2].value = TRUE
      /\ patch[3].path = "labels" /\ patch[3].value = UpdatePodLabel(r)
  <2>1. CASE Get(r.annotations, "preempt") \in {"true", "false"}
    <3>1. patch = base /\ WithPreempt(r, a) = a
      BY <2>1 DEF Labelled, UpdatePreemptionInfo, WithPreempt
    <3> QED BY <1>2, <3>1
  <2>2. CASE ~(Get(r.annotations, "preempt") \in {"true", "false"})
    <3> DEFINE value == IF IsPreemptSelfAllowed THEN "true" ELSE "false"
               there == {i \in DOMAIN base : base[i].path = "annotations"}
    <3>1. there = {1} /\ there # {}
      BY <1>2
    <3>2. patch = [i \in DOMAIN base |-> IF i \in there
             THEN [path |-> "annotations", value |-> With(base[i].value, "preempt", value)]
             ELSE base[i]]
      BY <2>2, <3>1 DEF Labelled, UpdatePreemptionInfo
    <3>3. WithPreempt(r, a) = With(a, "preempt", value)
      BY <2>2 DEF WithPreempt
    <3> HIDE DEF patch, base, there, value, a
    <3> QED BY <1>2, <3>1, <3>2, <3>3
  <2> QED BY <2>1, <2>2
<1> HIDE DEF patch, a
<1>4. Decides(patch, 1, "annotations") /\ Decides(patch, 2, "schedulerName") /\ Decides(patch, 3, "labels")
  BY <1>3 DEF Decides
<1>5. /\ Patched(patch, "annotations", r.annotations) = patch[1].value
      /\ Patched(patch, "schedulerName", FALSE) = patch[2].value
      /\ Patched(patch, "labels", r.labels) = patch[3].value
  BY <1>4, PatchedAt, ZenonT(60)
<1> QED BY <1>3, <1>5 DEF Stores, patch, a

LEMMA StoresLabels ==
  ASSUME NEW r, NEW u \in UserPatches(r)
  PROVE  Stores(r, Labelled(r, u), WithPreempt(r, WithUser(r, u)), UpdatePodLabel(r), TRUE, TRUE)
<1>1. CASE u = << >>
  BY <1>1, StoresLabelsPlain DEF WithUser
<1>2. CASE u = <<UserOp(r)>>
  <2>1. WithUser(r, u) = With(r.annotations, "user", r.by)
    BY <1>2 DEF WithUser
  <2> QED BY <1>2, <2>1, StoresLabelsUser
<1> QED BY <1>1, <1>2 DEF UserPatches
-----------------------------------------------------------------------------
(* The fields of requests and of stored objects.                            *)
IsRequest(r) ==
  r = [kind |-> r.kind, by |-> r.by, origin |-> r.origin, annotations |-> r.annotations,
       labels |-> r.labels, vouched |-> r.vouched, step |-> r.step, patch |-> r.patch]
IsObject(o) ==
  /\ o = [annotations |-> o.annotations, labels |-> o.labels, yunikorn |-> o.yunikorn,
          labelled |-> o.labelled, asked |-> o.asked, by |-> o.by, origin |-> o.origin,
          vouched |-> o.vouched]
  /\ o.asked = [annotations |-> o.asked.annotations, labels |-> o.asked.labels]

(* The patch of the user info as SetUser made it: only for a pod without.   *)
UserPatch(r, u) == u \in UserPatches(r) /\ (u # << >> => "user" \notin DOMAIN r.annotations)

(* The patch of a pod at each stage of its review.                          *)
StagedPatch(r) ==
  /\ r.step = "namespace" => UserPatch(r, r.patch)
  /\ r.step = "label" => \E u \in UserPatches(r) : UserPatch(r, u) /\ r.patch = Append(u, SchedulerOp)

(* What PatchesAddUp says of a pod.                                         *)
AddsUp(o) ==
  /\ AnnotationsKept(o.asked.annotations, o.annotations) /\ LabelsKept(o.asked.labels, o.labels)
  /\ o.labelled => /\ Get(o.annotations, "preempt") \in {"true", "false"}
                   /\ OneName(o.labels) /\ AppKnown(o.annotations, o.labels)

(* PatchesAddUp, made inductive: the patch under way is that of its stage.  *)
PatchInv ==
  /\ req # None => IsRequest(req) /\ StagedPatch(req)
  /\ pod # None => IsObject(pod) /\ AddsUp(pod)
-----------------------------------------------------------------------------
(* The user of a pod is the one who submitted it, unless that user may name *)
(* others.                                                                  *)
MayName(origin) == \E c \in AmConf : origin \in c.external
Good(a, origin) == a["user"] = origin \/ MayName(origin)
Named(a, origin) == "user" \in DOMAIN a /\ Good(a, origin)
Submitter == User \ {Controller}

(* A deployment under review: vouched for once its template is checked.     *)
DeploymentInv ==
  /\ req.by = req.origin /\ req.step \in {"begin", "annotations", "user"}
  /\ template = None /\ replicaSets = {}
  /\ req.step # "user" => ~req.vouched
  /\ req.vouched /\ "user" \in DOMAIN req.annotations => Good(req.annotations, req.origin)

(* The replica set under review is the first, and a copy of the template.   *)
ReplicaSetInv ==
  /\ req.by = Controller /\ req.step = "begin" /\ template # None /\ replicaSets = {}
  /\ SameTemplate(req, template)
  /\ req.vouched => Named(req.annotations, req.origin)

(* A pod under review, from a user or from the controller.                  *)
PodInv ==
  /\ req.by = req.origin \/ (req.by = Controller /\ (req.vouched => Named(req.annotations, req.origin)))
  /\ req.step \in {"begin", "user", "namespace", "label"}
  /\ req.step # "begin" /\ req.vouched /\ "user" \in DOMAIN req.annotations => Good(req.annotations, req.origin)
  /\ req.step = "namespace" /\ req.vouched =>
       "user" \in DOMAIN req.annotations \/ req.patch = <<UserOp(req)>>
  /\ req.step = "label" /\ req.vouched =>
       "user" \in DOMAIN req.annotations \/ req.patch = Append(<<UserOp(req)>>, SchedulerOp)

RequestInv ==
  req # None =>
    /\ req.origin \in Submitter
    /\ \/ req.kind = "Deployment" /\ DeploymentInv
       \/ req.kind = "ReplicaSet" /\ ReplicaSetInv
       \/ req.kind = "Pod" /\ PodInv

StoredInv(o) == o.origin \in Submitter /\ (o.vouched => Named(o.annotations, o.origin))
ObjectsInv ==
  /\ template # None => StoredInv(template)
  /\ \A o \in replicaSets : StoredInv(o) /\ SameTemplate(o, template)
  /\ replicaSets # {} => template # None
  /\ \A o, q \in replicaSets : o = q

(* HonestUser and NoReplicaSetLoop, made inductive.                         *)
ReviewInv == amConf \in AmConf /\ PatchInv /\ RequestInv /\ ObjectsInv /\ HonestUser
-----------------------------------------------------------------------------
(* A review that goes on keeps the request.                                 *)
Continued(step, patch, vouched) ==
  /\ IsRequest(req)' /\ req'.kind = req.kind /\ req'.by = req.by /\ req'.origin = req.origin
  /\ req'.annotations = req.annotations /\ req'.labels = req.labels
  /\ req'.step = step /\ req'.patch = patch /\ req'.vouched = vouched
  /\ UNCHANGED <<amConf, template, replicaSets, pod>>

LEMMA ContinueIs ==
  ASSUME IsRequest(req), NEW step, NEW patch, NEW vouched, Continue(req, step, patch, vouched)
  PROVE  Continued(step, patch, vouched)
<1>1. req' = [kind |-> req.kind, by |-> req.by, origin |-> req.origin, annotations |-> req.annotations,
              labels |-> req.labels, vouched |-> vouched, step |-> step, patch |-> patch]
  BY DEF Continue, IsRequest
<1>2. UNCHANGED <<amConf, template, replicaSets, pod>>
  BY DEF Continue, world, objects
<1> QED BY <1>1, <1>2 DEF Continued, IsRequest

(* A review that ends well stores the object with its patch.                *)
Stored(o, r, a, l, yunikorn, labelled, vouched) ==
  /\ IsObject(o) /\ o.annotations = a /\ o.labels = l /\ (o.yunikorn <=> yunikorn)
  /\ (o.labelled <=> labelled) /\ o.asked.annotations = r.annotations /\ o.asked.labels = r.labels
  /\ o.by = r.by /\ o.origin = r.origin /\ (o.vouched <=> vouched)
Allowed(o) ==
  /\ req' = None /\ UNCHANGED amConf
  /\ \/ req.kind = "Deployment" /\ template' = o /\ UNCHANGED <<replicaSets, pod>>
     \/ req.kind = "ReplicaSet" /\ replicaSets' = replicaSets \cup {o} /\ UNCHANGED <<template, pod>>
     \/ req.kind = "Pod" /\ pod' = o /\ UNCHANGED <<template, replicaSets>>

LEMMA AllowIs ==
  ASSUME NEW patch, NEW a, NEW l, NEW yunikorn, NEW labelled, NEW vouched,
         Stores(req, patch, a, l, yunikorn, labelled), Allow(patch, vouched)
  PROVE  \E o : Stored(o, req, a, l, yunikorn, labelled, vouched) /\ Allowed(o)
<1> DEFINE o == [annotations |-> Patched(patch, "annotations", req.annotations),
                 labels |-> Patched(patch, "labels", req.labels),
                 yunikorn |-> Patched(patch, "schedulerName", FALSE),
                 labelled |-> \E i \in DOMAIN patch : patch[i].path = "labels",
                 asked |-> [annotations |-> req.annotations, labels |-> req.labels],
                 by |-> req.by, origin |-> req.origin, vouched |-> vouched]
<1>1. Allowed(o)
  BY DEF Allow, Allowed, world
<1>2. Stored(o, req, a, l, yunikorn, labelled, vouched)
  BY DEF Stored, Stores, IsObject
<1> QED BY <1>1, <1>2, Zenon

(* A patch without operations.                                              *)
LEMMA AllowUnchanged ==
  ASSUME NEW vouched, Allow(<< >>, vouched)
  PROVE  \E o : Stored(o, req, req.annotations, req.labels, FALSE, FALSE, vouched) /\ Allowed(o)
<1>1. << >> \in UserPatches(req) /\ WithUser(req, << >>) = req.annotations
  BY DEF UserPatches, WithUser
<1>2. Stores(req, << >>, req.annotations, req.labels, FALSE, FALSE)
  BY <1>1, StoresUser
<1> QED BY <1>2, AllowIs, Zenon

(* UserInfoPatch adds the submitter to annotations without a user.          *)
LEMMA UserInfoPatchIs ==
  ASSUME NEW r
  PROVE  /\ UserPatch(r, UserInfoPatch(r))
         /\ UserInfoKnown(r) => "user" \in DOMAIN r.annotations \/ UserInfoPatch(r) = <<UserOp(r)>>
BY DEF UserPatch, UserPatches, UserInfoPatch, UserOp, UserInfoKnown

(* The end of LabelPod.                                                     *)
LEMMA LabelPodStores ==
  ASSUME LabelPod, NEW u \in UserPatches(req), req.patch = Append(u, SchedulerOp)
  PROVE  \E o : /\ Allowed(o)
               /\ \/ Stored(o, req, WithUser(req, u), req.labels, TRUE, FALSE, req.vouched)
                  \/ Stored(o, req, WithPreempt(req, WithUser(req, u)), UpdatePodLabel(req), TRUE, TRUE, req.vouched)
<1>1. CASE ~ShouldLabelNamespace /\ Allow(req.patch, req.vouched)
  <2>1. Stores(req, req.patch, WithUser(req, u), req.labels, TRUE, FALSE)
    BY StoresScheduler, Zenon
  <2> QED BY <1>1, <2>1, AllowIs, Zenon
<1>2. CASE Allow(UpdatePreemptionInfo(req, Append(req.patch,
             [path |-> "labels", value |-> UpdatePodLabel(req)])), req.vouched)
  <2>1. Allow(Labelled(req, u), req.vouched)
    BY <1>2 DEF Labelled, LabelOp
  <2>2. Stores(req, Labelled(req, u), WithPreempt(req, WithUser(req, u)), UpdatePodLabel(req), TRUE, TRUE)
    BY StoresLabels
  <2> QED BY <2>1, <2>2, AllowIs, Zenon
<1> QED BY <1>1, <1>2, Zenon DEF LabelPod
-----------------------------------------------------------------------------
(* The annotations and labels of the pods a review stores.                  *)
LEMMA KeptAsTheyCame ==
  ASSUME NEW f
  PROVE  AnnotationsKept(f, f) /\ LabelsKept(f, f)
BY DEF AnnotationsKept, LabelsKept

LEMMA UserKept ==
  ASSUME NEW r, NEW u, UserPatch(r, u)
  PROVE  AnnotationsKept(r.annotations, WithUser(r, u))
BY DEF UserPatch, WithUser, AnnotationsKept, With, UserPatches

LEMMA PreemptKept ==
  ASSUME NEW r, NEW u, UserPatch(r, u)
  PROVE  /\ AnnotationsKept(r.annotations, WithPreempt(r, WithUser(r, u)))
         /\ Get(WithPreempt(r, WithUser(r, u)), "preempt") \in {"true", "false"}
         /\ Get(WithPreempt(r, WithUser(r, u)), "appId") = Get(r.annotations, "appId")
<1> DEFINE a == WithUser(r, u)
<1>1. AnnotationsKept(r.annotations, a)
  BY UserKept
<1>2. \A k : k # "user" => Get(a, k) = Get(r.annotations, k)
  BY DEF WithUser, With, Get
<1> HIDE DEF a
<1>3. CASE Get(r.annotations, "preempt") \in {"true", "false"}
  BY <1>1, <1>2, <1>3 DEF WithPreempt, a
<1>4. CASE ~(Get(r.annotations, "preempt") \in {"true", "false"})
  <2> DEFINE value == IF IsPreemptSelfAllowed THEN "true" ELSE "false"
             b == With(a, "preempt", value)
  <2>1. value \in {"true", "false"}
    OBVIOUS
  <2> HIDE DEF value
  <2>2. /\ DOMAIN b = DOMAIN a \cup {"preempt"}
        /\ \A j \in DOMAIN a : j # "preempt" => b[j] = a[j]
        /\ Get(b, "preempt") = value /\ Get(b, "appId") = Get(a, "appId")
    BY DEF With, Get
  <2>3. "preempt" \in DOMAIN r.annotations => r.annotations["preempt"] \notin {"true", "false"}
    BY <1>4 DEF Get
  <2>4. WithPreempt(r, a) = b
    BY <1>4 DEF WithPreempt, value
  <2> HIDE DEF b
  <2>5. AnnotationsKept(r.annotations, b)
    BY <1>1, <2>2, <2>3 DEF AnnotationsKept
  <2> QED BY <1>2, <2>1, <2>2, <2>4, <2>5 DEF a
<1> QED BY <1>3, <1>4

(* A pod that is allowed adds up.                                           *)
LEMMA StoredAddsUp ==
  ASSUME NEW o, NEW u, NEW vouched, UserPatch(req, u),
         \/ Stored(o, req, req.annotations, req.labels, FALSE, FALSE, vouched)
         \/ Stored(o, req, WithUser(req, u), req.labels, TRUE, FALSE, vouched)
         \/ Stored(o, req, WithPreempt(req, WithUser(req, u)), UpdatePodLabel(req), TRUE, TRUE, vouched)
  PROVE  IsObject(o) /\ AddsUp(o)
<1>1. CASE Stored(o, req, req.annotations, req.labels, FALSE, FALSE, vouched)
  BY <1>1, KeptAsTheyCame DEF Stored, AddsUp
<1>2. CASE Stored(o, req, WithUser(req, u), req.labels, TRUE, FALSE, vouched)
  <2>1. AnnotationsKept(req.annotations, WithUser(req, u)) /\ LabelsKept(req.labels, req.labels)
    BY UserKept, KeptAsTheyCame
  <2> QED BY <1>2, <2>1, Zenon DEF Stored, AddsUp
<1>3. CASE Stored(o, req, WithPreempt(req, WithUser(req, u)), UpdatePodLabel(req), TRUE, TRUE, vouched)
  <2> DEFINE a == WithPreempt(req, WithUser(req, u))
             l == UpdatePodLabel(req)
  <2>1. /\ AnnotationsKept(req.annotations, a) /\ Get(a, "preempt") \in {"true", "false"}
        /\ Get(a, "appId") = Get(req.annotations, "appId")
    BY PreemptKept
  <2>2. LabelsKept(req.labels, l) /\ OneName(l) /\ AppKnown(req.annotations, l)
    BY LabelsAddUp
  <2> HIDE DEF a, l
  <2>3. AppKnown(a, l)
    BY <2>1, <2>2 DEF AppKnown
  <2>4. Stored(o, req, a, l, TRUE, TRUE, vouched)
    BY <1>3 DEF a, l
  <2> QED BY <2>1, <2>2, <2>3, <2>4, Zenon DEF Stored, AddsUp
<1> QED BY <1>1, <1>2, <1>3, Zenon

(* An update is stored as it was asked for.                                 *)
LEMMA ChangedAddsUp ==
  ASSUME NEW new \in Updates, ChangePod(new), IsObject(pod)
  PROVE  IsObject(pod)' /\ AddsUp(pod)'
<1>1. /\ IsObject(pod)' /\ pod'.annotations = new.annotations /\ pod'.labels = new.labels
      /\ pod'.asked = new /\ pod'.labelled = FALSE
  BY DEF ChangePod, IsObject, Updates
<1>2. AnnotationsKept(new.annotations, new.annotations) /\ LabelsKept(new.labels, new.labels)
  BY DEF AnnotationsKept, LabelsKept
<1> QED BY <1>1, <1>2 DEF AddsUp

(* A new request is at its first stage.                                     *)
LEMMA RequestIs ==
  ASSUME NEW kind, NEW by, NEW origin, NEW o, NEW vouched
  PROVE  LET r == Request(kind, by, origin, o, vouched)
         IN  /\ IsRequest(r) /\ StagedPatch(r)
             /\ r.kind = kind /\ r.by = by /\ r.origin = origin /\ r.step = "begin"
             /\ r.annotations = o.annotations /\ r.labels = o.labels /\ r.vouched = vouched
BY DEF Request, IsRequest, StagedPatch

(* The invariant of the patches is kept by every step of a review ...       *)
LEMMA PatchInvReview ==
  ASSUME PatchInv, req # None,
         CheckPod \/ SetUser \/ ProcessNamespace \/ LabelPod \/ CheckWorkload \/ CheckTemplate \/ AnnotateWorkload
  PROVE  PatchInv'
<1>0. IsRequest(req) /\ StagedPatch(req) /\ (pod # None => IsObject(pod) /\ AddsUp(pod))
  BY DEF PatchInv
<1>1. CASE Deny
  BY <1>0, <1>1 DEF Deny, objects, PatchInv
<1>2. ASSUME NEW step \in {"user", "annotations"}, NEW vouched, Continue(req, step, << >>, vouched)
      PROVE  PatchInv'
  <2>1. Continued(step, << >>, vouched)
    BY <1>0, <1>2, ContinueIs
  <2>2. StagedPatch(req)'
    BY <2>1 DEF Continued, StagedPatch
  <2> QED BY <1>0, <2>1, <2>2 DEF Continued, PatchInv
<1>3. CASE SetUser
  <2> DEFINE u == UserInfoPatch(req)
  <2>1. Continued("namespace", u, req.vouched /\ UserInfoKnown(req))
    BY <1>0, <1>3, ContinueIs DEF SetUser
  <2>2. UserPatch(req, u)
    BY UserInfoPatchIs
  <2> HIDE DEF u
  <2>3. StagedPatch(req)'
    BY <2>1, <2>2 DEF Continued, StagedPatch, UserPatch, UserPatches, UserOp
  <2> QED BY <1>0, <2>1, <2>3 DEF Continued, PatchInv
<1>4. ASSUME NEW vouched, Allow(<< >>, vouched)
      PROVE  PatchInv'
  <2>1. PICK o : Stored(o, req, req.annotations, req.labels, FALSE, FALSE, vouched) /\ Allowed(o)
    BY <1>4, AllowUnchanged
  <2>2. UserPatch(req, << >>)
    BY DEF UserPatch, UserPatches
  <2>3. IsObject(o) /\ AddsUp(o)
    BY <2>1, <2>2, StoredAddsUp, Zenon
  <2> QED BY <1>0, <2>1, <2>3 DEF Allowed, PatchInv
<1>5. CASE ProcessNamespace /\ ~Allow(<< >>, req.vouched)
  <2>1. Continued("label", Append(req.patch, SchedulerOp), req.vouched)
    BY <1>0, <1>5, ContinueIs DEF ProcessNamespace, SchedulerOp
  <2>2. UserPatch(req, req.patch)
    BY <1>0, <1>5 DEF ProcessNamespace, StagedPatch
  <2>3. UserPatches(req)' = UserPatches(req) /\ UserPatch(req', req.patch)
    BY <2>1, <2>2 DEF Continued, UserPatches, UserPatch, UserOp
  <2>4. StagedPatch(req)'
    BY <2>1, <2>3 DEF Continued, StagedPatch, UserPatch
  <2> QED BY <1>0, <2>1, <2>4 DEF Continued, PatchInv
<1>6. CASE LabelPod
  <2>1. PICK u \in UserPatches(req) : UserPatch(req, u) /\ req.patch = Append(u, SchedulerOp)
    BY <1>0, <1>6 DEF LabelPod, StagedPatch
  <2>2. PICK o : /\ Allowed(o)
                 /\ \/ Stored(o, req, WithUser(req, u), req.labels, TRUE, FALSE, req.vouched)
                    \/ Stored(o, req, WithPreempt(req, WithUser(req, u)), UpdatePodLabel(req), TRUE, TRUE, req.vouched)
    BY <1>6, <2>1, LabelPodStores, Zenon
  <2>3. IsObject(o) /\ AddsUp(o)
    BY <2>1, <2>2, StoredAddsUp, Zenon
  <2> QED BY <1>0, <2>2, <2>3 DEF Allowed, PatchInv
<1>7. CASE AnnotateWorkload
  <2>1. req.kind # "Pod" /\ req' = None /\ pod' = pod
    BY <1>7 DEF AnnotateWorkload, Allow
  <2> QED BY <1>0, <2>1 DEF PatchInv
<1>8. CASE CheckPod
  BY <1>1, <1>2, <1>8, Zenon DEF CheckPod
<1>9. CASE CheckTemplate
  BY <1>1, <1>2, <1>9, Zenon DEF CheckTemplate
<1>10. CASE CheckWorkload
  BY <1>2, <1>4, <1>10, Zenon DEF CheckWorkload
<1> QED BY <1>3, <1>4, <1>5, <1>6, <1>7, <1>8, <1>9, <1>10, Zenon

(* ... and by every step outside of one.                                    *)
LEMMA PatchInvNext ==
  ASSUME PatchInv, [NextReviews]_avars
  PROVE  PatchInv'
<1>1. CASE UNCHANGED <<req, pod>>
  BY <1>1 DEF PatchInv
<1>2. ASSUME NEW kind, NEW by, NEW origin, NEW o, NEW vouched,
             req' = Request(kind, by, origin, o, vouched), UNCHANGED pod
      PROVE  PatchInv'
  <2>1. IsRequest(req') /\ StagedPatch(req')
    BY <1>2, RequestIs
  <2> QED BY <1>2, <2>1 DEF PatchInv
<1>3. ASSUME NEW new \in Updates, ChangePod(new)
      PROVE  PatchInv'
  <2>1. IsObject(pod) /\ req' = req /\ req = None
    BY <1>3 DEF PatchInv, ChangePod
  <2>2. IsObject(pod)' /\ AddsUp(pod)'
    BY <1>3, <2>1, ChangedAddsUp
  <2> QED BY <2>1, <2>2 DEF PatchInv
<1>4. ASSUME NEW kind, NEW by, NEW s, Submit(kind, by, s)
      PROVE  PatchInv'
  BY <1>2, <1>4 DEF Submit, objects
<1>5. CASE CreateReplicaSet
  BY <1>2, <1>5 DEF CreateReplicaSet, objects
<1>6. ASSUME NEW o \in replicaSets, CreatePod(o)
      PROVE  PatchInv'
  BY <1>2, <1>6 DEF CreatePod, objects
<1>7. CASE \/ \E c \in AmConf : ReloadConf(c)
           \/ \E f \in NsFlags : ChangeNamespace(f)
           \/ \E b \in Class : ChangeClass(b)
           \/ NotifyNamespace \/ NotifyClass \/ UNCHANGED avars
  BY <1>1, <1>7 DEF ReloadConf, ChangeNamespace, ChangeClass, NotifyNamespace, NotifyClass, avars, objects
<1>8. CASE CheckPod \/ SetUser \/ ProcessNamespace \/ LabelPod \/ CheckWorkload \/ CheckTemplate \/ AnnotateWorkload
  <2>1. req # None
    BY <1>8 DEF CheckPod, SetUser, ProcessNamespace, LabelPod, CheckWorkload, CheckTemplate, AnnotateWorkload
  <2> QED BY <1>8, <2>1, PatchInvReview
<1> QED BY <1>3, <1>4, <1>5, <1>6, <1>7, <1>8, Zenon DEF NextReviews

(* The patches of a review add up (PatchesAddUp), whatever is submitted and *)
(* whatever changes during the reviews: processPod, updateLabels and        *)
(* updatePreemptionInfo lose nothing, and leave one application and queue.  *)
THEOREM PatchesAddUpAlways == ReviewSpec => []PatchesAddUp
<1>1. InitReviews => PatchInv
  BY DEF InitReviews, PatchInv
<1>2. PatchInv /\ [NextReviews]_avars => PatchInv'
  BY PatchInvNext
<1>3. PatchInv => PatchesAddUp
  BY DEF PatchInv, PatchesAddUp, AddsUp, AnnotationsKept, LabelsKept, OneName, AppKnown
<1> QED BY <1>1, <1>2, <1>3, PTL DEF ReviewSpec
-----------------------------------------------------------------------------
(* A user info that a submitter wrote and that was checked is allowed.      *)
LEMMA CheckedIsGood ==
  ASSUME SystemUsersAreControllers, amConf \in AmConf, NEW r, r.by \in Submitter,
         ~UserInfoRefused(r), UserInfoChecked(r), "user" \in DOMAIN r.annotations
  PROVE  Good(r.annotations, r.by)
BY DEF SystemUsersAreControllers, UserInfoRefused, UserInfoChecked, IsAnnotationAllowed, Submitter, Good, MayName

(* The user info of annotations patched with the user.                      *)
LEMMA WithUserNamed ==
  ASSUME NEW r, NEW u, UserPatch(r, u),
         "user" \in DOMAIN r.annotations => Good(r.annotations, r.origin),
         "user" \in DOMAIN r.annotations \/ u = <<UserOp(r)>>
  PROVE  /\ "user" \in DOMAIN WithUser(r, u)
         /\ WithUser(r, u)["user"] = r.by \/ Good(WithUser(r, u), r.origin)
<1>1. CASE u = << >>
  <2>1. u # <<UserOp(r)>>
    BY <1>1
  <2> QED BY <1>1, <2>1 DEF WithUser
<1>2. CASE u # << >>
  BY <1>2 DEF WithUser, With
<1> QED BY <1>1, <1>2

LEMMA WithPreemptNamed ==
  ASSUME NEW r, NEW a, "user" \in DOMAIN a
  PROVE  "user" \in DOMAIN WithPreempt(r, a) /\ WithPreempt(r, a)["user"] = a["user"]
BY DEF WithPreempt, With

(* A pod stored by LabelPod runs for an honest user.                        *)
HonestPod(o) ==
  o.vouched => /\ "user" \in DOMAIN o.annotations
               /\ o.annotations["user"] \notin {o.origin, o.by} => MayName(o.origin)

LEMMA StoredHonest ==
  ASSUME NEW o, NEW u, UserPatch(req, u),
         req.vouched => /\ "user" \in DOMAIN req.annotations => Good(req.annotations, req.origin)
                        /\ "user" \in DOMAIN req.annotations \/ u = <<UserOp(req)>>,
         \/ Stored(o, req, WithUser(req, u), req.labels, TRUE, FALSE, req.vouched)
         \/ Stored(o, req, WithPreempt(req, WithUser(req, u)), UpdatePodLabel(req), TRUE, TRUE, req.vouched)
  PROVE  HonestPod(o)
<1> SUFFICES ASSUME req.vouched PROVE HonestPod(o)
  BY DEF Stored, HonestPod
<1> DEFINE a == WithUser(req, u)
<1>1. "user" \in DOMAIN a /\ (a["user"] = req.by \/ Good(a, req.origin))
  BY WithUserNamed
<1> HIDE DEF a
<1>2. "user" \in DOMAIN WithPreempt(req, a) /\ WithPreempt(req, a)["user"] = a["user"]
  BY <1>1, WithPreemptNamed
<1>3. CASE Stored(o, req, a, req.labels, TRUE, FALSE, req.vouched)
  BY <1>1, <1>3 DEF Stored, HonestPod, Good
<1>4. CASE Stored(o, req, WithPreempt(req, a), UpdatePodLabel(req), TRUE, TRUE, req.vouched)
  BY <1>1, <1>2, <1>4 DEF Stored, HonestPod, Good
<1> QED BY <1>3, <1>4 DEF a

(* The stages of a pod.                                                     *)
LEMMA CheckPodStep ==
  ASSUME SystemUsersAreControllers, ReviewInv, CheckPod
  PROVE  RequestInv' /\ ObjectsInv' /\ HonestUser'
<1>0. /\ req # None /\ IsRequest(req) /\ req.kind = "Pod" /\ req.step = "begin"
      /\ req.origin \in Submitter /\ PodInv
  BY DEF CheckPod, ReviewInv, PatchInv, RequestInv
<1>1. CASE Deny
  BY <1>1 DEF Deny, objects, ReviewInv, RequestInv, ObjectsInv, HonestUser
<1>2. CASE ~UserInfoRefused(req) /\ Continue(req, "user", << >>, req.vouched /\ UserInfoChecked(req))
  <2>1. Continued("user", << >>, req.vouched /\ UserInfoChecked(req))
    BY <1>0, <1>2, ContinueIs
  <2>2. req.vouched /\ UserInfoChecked(req) /\ "user" \in DOMAIN req.annotations
          => Good(req.annotations, req.origin)
    <3>1. CASE req.by = req.origin
      BY <1>0, <1>2, <3>1, CheckedIsGood DEF ReviewInv
    <3>2. CASE req.by # req.origin
      BY <1>0, <3>2 DEF PodInv, Named
    <3> QED BY <3>1, <3>2
  <2>3. PodInv'
    BY <1>0, <2>1, <2>2 DEF PodInv, Continued
  <2>4. RequestInv'
    BY <1>0, <2>1, <2>3 DEF RequestInv, Continued
  <2> QED BY <2>1, <2>4 DEF Continued, ReviewInv, ObjectsInv, HonestUser
<1> QED BY <1>1, <1>2 DEF CheckPod

LEMMA SetUserStep ==
  ASSUME ReviewInv, SetUser
  PROVE  RequestInv' /\ ObjectsInv' /\ HonestUser'
<1> DEFINE u == UserInfoPatch(req)
<1>0. /\ req # None /\ IsRequest(req) /\ req.kind = "Pod" /\ req.step = "user"
      /\ req.origin \in Submitter /\ PodInv
  BY DEF SetUser, ReviewInv, PatchInv, RequestInv
<1>1. Continued("namespace", u, req.vouched /\ UserInfoKnown(req))
  BY <1>0, ContinueIs DEF SetUser
<1>2. UserInfoKnown(req) => "user" \in DOMAIN req.annotations \/ u = <<UserOp(req)>>
  BY UserInfoPatchIs
<1> HIDE DEF u
<1>3. UserOp(req') = UserOp(req)
  BY <1>1 DEF Continued, UserOp
<1>4. PodInv'
  BY <1>0, <1>1, <1>2, <1>3 DEF PodInv, Continued
<1>5. RequestInv'
  BY <1>0, <1>1, <1>4 DEF RequestInv, Continued
<1> QED BY <1>1, <1>5 DEF Continued, ReviewInv, ObjectsInv, HonestUser

LEMMA ProcessNamespaceStep ==
  ASSUME ReviewInv, ProcessNamespace
  PROVE  RequestInv' /\ ObjectsInv' /\ HonestUser'
<1>0. /\ req # None /\ IsRequest(req) /\ req.kind = "Pod" /\ req.step = "namespace"
      /\ req.origin \in Submitter /\ PodInv
  BY DEF ProcessNamespace, ReviewInv, PatchInv, RequestInv, DeploymentInv, ReplicaSetInv
<1>1. CASE Allow(<< >>, req.vouched)
  <2>1. PICK o : Stored(o, req, req.annotations, req.labels, FALSE, FALSE, req.vouched) /\ Allowed(o)
    BY <1>1, AllowUnchanged
  <2>2. req' = None /\ pod' = o /\ ~o.yunikorn /\ UNCHANGED <<template, replicaSets>>
    BY <1>0, <2>1 DEF Allowed, Stored
  <2> QED BY <2>2 DEF ReviewInv, RequestInv, ObjectsInv, HonestUser
<1>2. CASE ~Allow(<< >>, req.vouched)
  <2>1. Continued("label", Append(req.patch, SchedulerOp), req.vouched)
    BY <1>0, <1>2, ContinueIs DEF ProcessNamespace, SchedulerOp
  <2>2. UserOp(req') = UserOp(req)
    BY <2>1 DEF Continued, UserOp
  <2>3. PodInv'
    BY <1>0, <2>1, <2>2 DEF PodInv, Continued
  <2>4. RequestInv'
    BY <1>0, <2>1, <2>3 DEF RequestInv, Continued
  <2> QED BY <2>1, <2>4 DEF Continued, ReviewInv, ObjectsInv, HonestUser
<1> QED BY <1>1, <1>2

LEMMA LabelPodStep ==
  ASSUME ReviewInv, LabelPod
  PROVE  RequestInv' /\ ObjectsInv' /\ HonestUser'
<1>0. /\ req # None /\ IsRequest(req) /\ req.kind = "Pod" /\ req.step = "label"
      /\ req.origin \in Submitter /\ PodInv
  BY DEF LabelPod, ReviewInv, PatchInv, RequestInv, DeploymentInv, ReplicaSetInv
<1>1. PICK u \in UserPatches(req) : UserPatch(req, u) /\ req.patch = Append(u, SchedulerOp)
  BY <1>0 DEF ReviewInv, PatchInv, StagedPatch
<1>2. PICK o : /\ Allowed(o)
               /\ \/ Stored(o, req, WithUser(req, u), req.labels, TRUE, FALSE, req.vouched)
                  \/ Stored(o, req, WithPreempt(req, WithUser(req, u)), UpdatePodLabel(req), TRUE, TRUE, req.vouched)
  BY <1>1, LabelPodStores, Zenon
<1>3. Append(<< >>, SchedulerOp) # Append(<<UserOp(req)>>, SchedulerOp)
  OBVIOUS
<1>4. req.vouched => /\ "user" \in DOMAIN req.annotations => Good(req.annotations, req.origin)
                     /\ "user" \in DOMAIN req.annotations \/ u = <<UserOp(req)>>
  BY <1>0, <1>1, <1>3 DEF PodInv, UserPatches
<1>5. HonestPod(o)
  BY <1>1, <1>2, <1>4, StoredHonest, Zenon
<1>6. req' = None /\ pod' = o /\ UNCHANGED <<template, replicaSets>>
  BY <1>0, <1>2 DEF Allowed
<1> QED BY <1>5, <1>6 DEF ReviewInv, RequestInv, ObjectsInv, HonestUser, HonestPod, MayName

(* The stages of a deployment; a replica set ends with the first.           *)
LEMMA CheckWorkloadStep ==
  ASSUME SystemUsersAreControllers, ReviewInv, CheckWorkload
  PROVE  RequestInv' /\ ObjectsInv' /\ HonestUser'
<1>0. /\ req # None /\ IsRequest(req) /\ req.kind # "Pod" /\ req.step = "begin"
      /\ req.origin \in Submitter
  BY DEF CheckWorkload, ReviewInv, PatchInv, RequestInv
<1>1. CASE Allow(<< >>, req.vouched)
  <2>1. PICK o : Stored(o, req, req.annotations, req.labels, FALSE, FALSE, req.vouched) /\ Allowed(o)
    BY <1>1, AllowUnchanged
  <2>2. CASE req.kind = "Deployment" /\ DeploymentInv
    <3>1. req' = None /\ template' = o /\ UNCHANGED <<replicaSets, pod>> /\ replicaSets = {}
      BY <2>1, <2>2 DEF Allowed, DeploymentInv
    <3>2. StoredInv(o)
      BY <1>0, <2>1, <2>2 DEF Stored, StoredInv, DeploymentInv
    <3> QED BY <3>1, <3>2 DEF ReviewInv, RequestInv, ObjectsInv, HonestUser
  <2>3. CASE req.kind = "ReplicaSet" /\ ReplicaSetInv
    <3>1. /\ req' = None /\ replicaSets' = {o} /\ UNCHANGED <<template, pod>>
          /\ template # None /\ SameTemplate(req, template)
      BY <2>1, <2>3 DEF Allowed, ReplicaSetInv
    <3>2. StoredInv(o) /\ SameTemplate(o, template)
      BY <1>0, <2>1, <2>3, <3>1 DEF Stored, StoredInv, ReplicaSetInv, SameTemplate
    <3> QED BY <3>1, <3>2 DEF ReviewInv, RequestInv, ObjectsInv, HonestUser
  <2> QED BY <1>0, <2>2, <2>3 DEF ReviewInv, RequestInv
<1>2. CASE ShouldProcessWorkload(req) /\ Continue(req, "annotations", << >>, req.vouched)
  <2>1. ~(req.kind = "ReplicaSet" /\ ReplicaSetInv)
    BY <1>2, ControllerAssumption DEF ShouldProcessWorkload, ReplicaSetInv, SystemUsersAreControllers, ReviewInv
  <2>2. req.kind = "Deployment" /\ DeploymentInv
    BY <1>0, <2>1 DEF ReviewInv, RequestInv
  <2>3. Continued("annotations", << >>, req.vouched)
    BY <1>0, <1>2, ContinueIs
  <2>4. DeploymentInv'
    BY <1>0, <2>2, <2>3 DEF DeploymentInv, Continued
  <2>5. RequestInv'
    BY <1>0, <2>2, <2>3, <2>4 DEF RequestInv, Continued
  <2> QED BY <2>3, <2>5 DEF Continued, ReviewInv, ObjectsInv, HonestUser
<1> QED BY <1>1, <1>2 DEF CheckWorkload

LEMMA CheckTemplateStep ==
  ASSUME SystemUsersAreControllers, ReviewInv, CheckTemplate
  PROVE  RequestInv' /\ ObjectsInv' /\ HonestUser'
<1>0. /\ req # None /\ IsRequest(req) /\ req.kind = "Deployment" /\ req.step = "annotations"
      /\ req.origin \in Submitter /\ DeploymentInv
  BY DEF CheckTemplate, ReviewInv, PatchInv, RequestInv, ReplicaSetInv, PodInv
<1>1. CASE Deny
  BY <1>1 DEF Deny, objects, ReviewInv, RequestInv, ObjectsInv, HonestUser
<1>2. CASE ~UserInfoRefused(req) /\ Continue(req, "user", << >>, UserInfoChecked(req))
  <2>1. Continued("user", << >>, UserInfoChecked(req))
    BY <1>0, <1>2, ContinueIs
  <2>2. UserInfoChecked(req) /\ "user" \in DOMAIN req.annotations => Good(req.annotations, req.origin)
    BY <1>0, <1>2, CheckedIsGood DEF ReviewInv, DeploymentInv
  <2>3. DeploymentInv'
    BY <1>0, <2>1, <2>2 DEF DeploymentInv, Continued
  <2>4. RequestInv'
    BY <1>0, <2>1, <2>3 DEF RequestInv, Continued
  <2> QED BY <2>1, <2>4 DEF Continued, ReviewInv, ObjectsInv, HonestUser
<1> QED BY <1>1, <1>2 DEF CheckTemplate

LEMMA AnnotateWorkloadStep ==
  ASSUME ReviewInv, AnnotateWorkload
  PROVE  RequestInv' /\ ObjectsInv' /\ HonestUser'
<1> DEFINE u == UserInfoPatch(req)
           v == req.vouched /\ UserInfoKnown(req)
<1>0. /\ req # None /\ IsRequest(req) /\ req.kind = "Deployment" /\ req.step = "user"
      /\ req.origin \in Submitter /\ DeploymentInv
  BY DEF AnnotateWorkload, ReviewInv, PatchInv, RequestInv, ReplicaSetInv
<1>1. UserPatch(req, u) /\ (UserInfoKnown(req) => "user" \in DOMAIN req.annotations \/ u = <<UserOp(req)>>)
  BY UserInfoPatchIs
<1>2. Allow(u, v)
  BY DEF AnnotateWorkload
<1>3. v => req.vouched /\ UserInfoKnown(req)
  OBVIOUS
<1> HIDE DEF u, v
<1>4. Stores(req, u, WithUser(req, u), req.labels, FALSE, FALSE)
  BY <1>1, StoresUser DEF UserPatch
<1>5. PICK o : Stored(o, req, WithUser(req, u), req.labels, FALSE, FALSE, v) /\ Allowed(o)
  BY <1>2, <1>4, AllowIs, Zenon
<1>6. req' = None /\ template' = o /\ UNCHANGED <<replicaSets, pod>> /\ replicaSets = {}
  BY <1>0, <1>5 DEF Allowed, DeploymentInv
<1>7. v => Named(WithUser(req, u), req.origin)
  <2> HAVE v
  <2>1. /\ "user" \in DOMAIN req.annotations => Good(req.annotations, req.origin)
        /\ "user" \in DOMAIN req.annotations \/ u = <<UserOp(req)>>
    BY <1>0, <1>1, <1>3 DEF DeploymentInv
  <2>2. /\ "user" \in DOMAIN WithUser(req, u)
        /\ WithUser(req, u)["user"] = req.by \/ Good(WithUser(req, u), req.origin)
    BY <1>1, <2>1, WithUserNamed
  <2> QED BY <1>0, <2>2 DEF DeploymentInv, Named, Good
<1>8. StoredInv(o)
  BY <1>0, <1>5, <1>7 DEF Stored, StoredInv
<1> QED BY <1>6, <1>8 DEF ReviewInv, RequestInv, ObjectsInv, HonestUser

(* The requests of users and of the controller.                             *)
LEMMA SubmitStep ==
  ASSUME ReviewInv, NEW by \in Submitter, NEW s, NEW kind \in {"Pod", "Deployment"}, Submit(kind, by, s)
  PROVE  RequestInv' /\ ObjectsInv' /\ HonestUser'
<1>1. /\ req'.kind = kind /\ req'.by = by /\ req'.origin = by /\ req'.step = "begin"
      /\ req'.vouched = (kind = "Pod")
  BY RequestIs DEF Submit
<1>2. UNCHANGED <<template, replicaSets, pod>> /\ template = None /\ replicaSets = {}
  BY DEF Submit, objects, ReviewInv, ObjectsInv
<1>3. CASE kind = "Pod"
  <2>1. PodInv'
    BY <1>1 DEF PodInv
  <2> QED BY <1>1, <1>2, <1>3, <2>1 DEF RequestInv, ReviewInv, ObjectsInv, HonestUser
<1>4. CASE kind = "Deployment"
  <2>1. DeploymentInv'
    BY <1>1, <1>2, <1>4 DEF DeploymentInv
  <2> QED BY <1>1, <1>2, <1>4, <2>1 DEF RequestInv, ReviewInv, ObjectsInv, HonestUser
<1> QED BY <1>3, <1>4

LEMMA CreateReplicaSetStep ==
  ASSUME ReviewInv, CreateReplicaSet
  PROVE  RequestInv' /\ ObjectsInv' /\ HonestUser'
<1>1. /\ req'.kind = "ReplicaSet" /\ req'.by = Controller /\ req'.origin = template.origin
      /\ req'.step = "begin" /\ req'.annotations = template.annotations
      /\ req'.labels = template.labels /\ req'.vouched = template.vouched
  BY RequestIs DEF CreateReplicaSet
<1>2. UNCHANGED <<template, replicaSets, pod>> /\ template # None /\ replicaSets = {} /\ StoredInv(template)
  BY DEF CreateReplicaSet, objects, ReviewInv, ObjectsInv
<1>3. ReplicaSetInv'
  BY <1>1, <1>2 DEF ReplicaSetInv, StoredInv, SameTemplate
<1> QED BY <1>1, <1>2, <1>3 DEF RequestInv, StoredInv, ReviewInv, ObjectsInv, HonestUser

LEMMA CreatePodStep ==
  ASSUME ReviewInv, NEW o \in replicaSets, CreatePod(o)
  PROVE  RequestInv' /\ ObjectsInv' /\ HonestUser'
<1>1. /\ req'.kind = "Pod" /\ req'.by = Controller /\ req'.origin = o.origin
      /\ req'.step = "begin" /\ req'.annotations = o.annotations /\ req'.vouched = o.vouched
  BY RequestIs DEF CreatePod
<1>2. UNCHANGED <<template, replicaSets, pod>> /\ StoredInv(o)
  BY DEF CreatePod, objects, ReviewInv, ObjectsInv
<1>3. PodInv'
  BY <1>1, <1>2 DEF PodInv, StoredInv
<1> QED BY <1>1, <1>2, <1>3 DEF RequestInv, StoredInv, ReviewInv, ObjectsInv, HonestUser

(* processPodUpdate: as long as the pod is vouched for, its user stays.     *)
LEMMA ChangePodStep ==
  ASSUME ReviewInv, NEW new \in Updates, ChangePod(new)
  PROVE  RequestInv' /\ ObjectsInv' /\ HonestUser'
<1> DEFINE a == pod.annotations
           b == new.annotations
<1>1. IsObject(pod) /\ pod # None /\ req = None
  BY DEF ReviewInv, PatchInv, ChangePod
<1>2. /\ pod'.annotations = b /\ pod'.yunikorn = pod.yunikorn
      /\ pod'.origin = pod.origin /\ pod'.by = pod.by
      /\ pod'.vouched = (pod.vouched /\ (SameUserInfo(new) \/ PodReviewed(new.labels)))
  BY <1>1 DEF ChangePod, IsObject
<1>3. UNCHANGED <<req, template, replicaSets>> /\ ~UpdateRefused(new)
  BY DEF ChangePod
<1>4. b = a \/ \E u \in User : b = With(a, "user", u)
  BY DEF Updates
<1>5. ASSUME pod.yunikorn, pod.vouched, SameUserInfo(new) \/ PodReviewed(new.labels)
      PROVE  "user" \in DOMAIN b /\ b["user"] = a["user"]
  <2>1. "user" \in DOMAIN a
    BY <1>1, <1>5 DEF ReviewInv, HonestUser
  <2>2. Get(a, "user") = Get(b, "user")
    BY <1>3, <1>5 DEF UpdateRefused, SameUserInfo
  <2>3. "user" \in DOMAIN b
    BY <1>4, <2>1 DEF With
  <2> QED BY <2>1, <2>2, <2>3 DEF Get
<1>6. HonestUser'
  BY <1>1, <1>2, <1>5 DEF ReviewInv, HonestUser
<1> QED BY <1>1, <1>3, <1>6 DEF ReviewInv, RequestInv, ObjectsInv

LEMMA ReviewInvNext ==
  ASSUME SystemUsersAreControllers, ReviewInv, [NextReviews]_avars
  PROVE  ReviewInv'
<1>1. PatchInv'
  BY PatchInvNext DEF ReviewInv
<1>2. amConf' \in AmConf
  BY DEF NextReviews, Submit, CreateReplicaSet, CreatePod, CheckPod, SetUser, ProcessNamespace, LabelPod,
     CheckWorkload, CheckTemplate, AnnotateWorkload, ChangePod, ReloadConf, ChangeNamespace, ChangeClass,
     NotifyNamespace, NotifyClass, Allow, Deny, Continue, world, avars, ReviewInv
<1>3. RequestInv' /\ ObjectsInv' /\ HonestUser'
  <2>1. CASE \/ \E c \in AmConf : ReloadConf(c)
             \/ \E f \in NsFlags : ChangeNamespace(f)
             \/ \E b \in Class : ChangeClass(b)
             \/ NotifyNamespace \/ NotifyClass \/ UNCHANGED avars
    <3>1. UNCHANGED <<req, template, replicaSets, pod>>
      BY <2>1 DEF ReloadConf, ChangeNamespace, ChangeClass, NotifyNamespace, NotifyClass, avars, objects
    <3>2. RequestInv'
      BY <3>1 DEF ReviewInv, RequestInv, DeploymentInv, ReplicaSetInv, PodInv
    <3> QED BY <3>1, <3>2 DEF ReviewInv, ObjectsInv, HonestUser
  <2>2. ASSUME NEW by \in User \ {Controller}, NEW s \in Submission, NEW kind \in {"Pod", "Deployment"},
               Submit(kind, by, s)
        PROVE  RequestInv' /\ ObjectsInv' /\ HonestUser'
    BY <2>2, SubmitStep DEF Submitter
  <2> QED BY <2>1, <2>2, CreateReplicaSetStep, CreatePodStep, CheckPodStep, SetUserStep, ProcessNamespaceStep,
             LabelPodStep, CheckWorkloadStep, CheckTemplateStep, AnnotateWorkloadStep, ChangePodStep, ZenonT(60)
          DEF NextReviews
<1> QED BY <1>1, <1>2, <1>3 DEF ReviewInv

(* Where the system users are the accounts of the controllers, a pod vouched*)
(* for at every stage runs for its submitter, for its creator, or for one   *)
(* named by a user who may (HonestUser): checkUserInfoAnnotation, the       *)
(* patches of the user info, and processPodUpdate leave no other way.       *)
THEOREM HonestUserAlways ==
  ASSUME SystemUsersAreControllers PROVE ReviewSpec => []HonestUser
<1>1. InitReviews => ReviewInv
  BY DEF InitReviews, ReviewInv, PatchInv, RequestInv, ObjectsInv, HonestUser
<1>2. ReviewInv /\ [NextReviews]_avars => ReviewInv'
  BY ReviewInvNext
<1>3. ReviewInv => HonestUser
  BY DEF ReviewInv
<1> QED BY <1>1, <1>2, <1>3, PTL DEF ReviewSpec

(* There is never more than one replica set (NoReplicaSetLoop), as          *)
(* shouldProcessWorkload leaves those of the controllers as they came.      *)
THEOREM NoReplicaSetLoopEver ==
  ASSUME SystemUsersAreControllers PROVE ReviewSpec => []NoReplicaSetLoop
<1>1. InitReviews => ReviewInv
  BY DEF InitReviews, ReviewInv, PatchInv, RequestInv, ObjectsInv, HonestUser
<1>2. ReviewInv /\ [NextReviews]_avars => ReviewInv'
  BY ReviewInvNext
<1>3. ReviewInv => NoReplicaSetLoop
  <2> HAVE ReviewInv
  <2>1. replicaSets = {} \/ \E o : replicaSets = {o}
    BY DEF ReviewInv, ObjectsInv
  <2>2. Cardinality({}) = 0 /\ \A o : Cardinality({o}) = 1
    BY FS_EmptySet, FS_Singleton
  <2>3. Cardinality(replicaSets) \in {0, 1}
    BY <2>1, <2>2, Zenon
  <2> QED BY <2>3 DEF NoReplicaSetLoop
<1> QED BY <1>1, <1>2, <1>3, PTL DEF ReviewSpec
=============================================================================
