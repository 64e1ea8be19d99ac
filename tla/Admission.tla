------------------------------ MODULE Admission -----------------------------
(* The reviews of the admission controller: admission/admission_controller, *)
(* admission/util.go, admission/metadata, the namespace and priority class  *)
(* caches, and what the controllers of Kubernetes make of a workload.       *)
(*                                                                          *)
(* A user submits a pod, or a deployment from whose template a controller   *)
(* makes a replica set and then a pod; each of these is reviewed on its     *)
(* own.  The handlers read the configuration and the caches at several      *)
(* points, between which both may change, so a review takes several steps.  *)
(*                                                                          *)
(* Annotations and labels are functions from keys to values.  A patch is a  *)
(* sequence of JSON patch operations [path, value], each of which replaces  *)
(* what is at its path.                                                     *)
EXTENDS Naturals, Sequences, FiniteSetsExt, Functions, GoValues

CONSTANTS
  Submission,   \* [annotations, labels] of what users submit
  User,         \* submitters
  Controller,   \* the service account of the workload controllers
  AmConf,       \* configurations of the admission controller
  NsFlags,      \* annotations of the namespace
  Class,        \* the priority class of the pods: its allow-preemption value, or None
  MaxWorldChanges,  \* bound on changes of configuration, namespace and class
  MaxReplicaSets    \* bound on the replica sets of the deployment

ASSUME ControllerAssumption == Controller \in User /\ Class \subseteq BOOLEAN \cup {None}

VARIABLES
  amConf,      \* AdmissionControllerConf
  ns, nsCache, \* the namespace in the API server and in the cache
  class, classCache, \* the priority class in the API server and in the cache
  worldChanges,
  req,         \* the request under review, or None
  template,    \* the admitted deployment, or None
  replicaSets, \* the admitted replica sets
  pod          \* the admitted pod, or None

avars == <<amConf, ns, nsCache, class, classCache, worldChanges, req, template, replicaSets, pod>>
world == <<amConf, ns, nsCache, class, classCache, worldChanges>>
objects == <<template, replicaSets, pod>>

InitReviews ==
  /\ amConf \in AmConf /\ ns \in NsFlags /\ nsCache = None
  /\ class \in Class /\ classCache = None /\ worldChanges = 0
  /\ req = None /\ template = None /\ replicaSets = {} /\ pod = None
-----------------------------------------------------------------------------
With(f, k, v) == [j \in DOMAIN f \cup {k} |-> IF j = k THEN v ELSE f[j]]
Get(f, k) == IF k \in DOMAIN f THEN f[k] ELSE ""

(* enableYuniKorn, generateAppID, isPreemptSelfAllowed: defaults for what   *)
(* the cache does not have.                                                 *)
EnableYuniKorn == IF nsCache = None THEN "unset" ELSE nsCache.enable
GenerateAppID == IF nsCache = None THEN "unset" ELSE nsCache.generate
IsPreemptSelfAllowed == IF classCache = None THEN TRUE ELSE classCache

(* shouldProcessNamespace, shouldLabelNamespace: the flag of the namespace, *)
(* or the lists of the configuration; an empty list matches.                *)
ShouldProcessNamespace ==
  IF EnableYuniKorn # "unset" THEN EnableYuniKorn = "true"
  ELSE (amConf.process = {} \/ "here" \in amConf.process) /\ "here" \notin amConf.bypass
ShouldLabelNamespace ==
  IF GenerateAppID # "unset" THEN GenerateAppID = "true"
  ELSE (amConf.label = {} \/ "here" \in amConf.label) /\ "here" \notin amConf.noLabel

(* shouldProcessAdmissionReview                                             *)
ShouldProcessAdmissionReview(labels) ==
  /\ ShouldProcessNamespace
  /\ \/ \E k \in {"canonicalAppId", "appId", "sparkAppId"} : Get(labels, k) # ""
     \/ ShouldLabelNamespace

(* Mutant: replica sets are no special case.                                *)
ProcessEveryWorkload(r) == TRUE

(* shouldProcessWorkload                                                    *)
ShouldProcessWorkload(r) == ~(r.kind = "ReplicaSet" /\ r.by \in amConf.systemUsers)

(* IsAnnotationAllowed: amConf.external are the users allowed by name or by *)
(* one of their groups.                                                     *)
IsAnnotationAllowed(user) ==
  (amConf.trustControllers /\ user \in amConf.systemUsers) \/ user \in amConf.external

(* checkUserInfoAnnotation                                                  *)
UserInfoRefused(r) ==
  /\ "user" \in DOMAIN r.annotations /\ ~amConf.bypassAuth
  /\ ~IsAnnotationAllowed(r.by) \/ r.annotations["user"] = Bad

(* GetPatchForPod, GetPatchForWorkload and getPatchOperation, when the      *)
(* callers ask for them.                                                    *)
UserInfoPatch(r) ==
  IF "user" \in DOMAIN r.annotations \/ amConf.bypassAuth THEN << >>
  ELSE <<[path |-> "annotations", value |-> With(r.annotations, "user", r.by)]>>

(* The user info was checked as it came; it is there when the review ends.  *)
UserInfoChecked(r) == "user" \in DOMAIN r.annotations => ~amConf.bypassAuth
UserInfoKnown(r) == "user" \notin DOMAIN r.annotations => ~amConf.bypassAuth

(* Mutant: the old label is not set from the canonical one.                 *)
CanonicalLabelOnly(r) ==
  LET l == r.labels
      none == \A k \in {"canonicalAppId", "sparkAppId", "appId"} : Get(l, k) = ""
      generated == IF amConf.uniqueAppIds THEN "unique" ELSE "autogen"
      ids == IF none /\ Get(r.annotations, "appId") = ""
             THEN With(With(l, "canonicalAppId", generated), "appId", generated) ELSE l
  IN IF Get(l, "canonicalQueue") # "" THEN With(ids, "queue", l["canonicalQueue"]) ELSE ids

(* updatePodLabel with GenerateApplicationID                                *)
UpdatePodLabel(r) ==
  LET l == r.labels
      none == \A k \in {"canonicalAppId", "sparkAppId", "appId"} : Get(l, k) = ""
      generated == IF amConf.uniqueAppIds THEN "unique" ELSE "autogen"
      ids == IF none /\ Get(r.annotations, "appId") = ""
             THEN With(With(l, "canonicalAppId", generated), "appId", generated)
             ELSE IF Get(l, "canonicalAppId") # "" THEN With(l, "appId", l["canonicalAppId"]) ELSE l
  IN IF Get(l, "canonicalQueue") # "" THEN With(ids, "queue", l["canonicalQueue"]) ELSE ids

(* updatePreemptionInfo: a value that is set is kept, and a patch of the    *)
(* annotations that is there already is extended.                           *)
UpdatePreemptionInfo(r, patch) ==
  LET value == IF IsPreemptSelfAllowed THEN "true" ELSE "false"
      there == {i \in DOMAIN patch : patch[i].path = "annotations"}
  IN IF Get(r.annotations, "preempt") \in {"true", "false"} THEN patch
     ELSE IF there # {}
     THEN [i \in DOMAIN patch |-> IF i \in there
             THEN [path |-> "annotations", value |-> With(patch[i].value, "preempt", value)]
             ELSE patch[i]]
     ELSE Append(patch, [path |-> "annotations", value |-> With(r.annotations, "preempt", value)])
-----------------------------------------------------------------------------
(* External: the API server applies the patch of an allowed request, of     *)
(* which the last operation on a path counts, and stores the object.        *)
Patched(patch, path, default) ==
  LET ops == {i \in DOMAIN patch : patch[i].path = path}
  IN IF ops = {} THEN default ELSE patch[Max(ops)].value

Allow(patch, vouched) ==
  LET o == [annotations |-> Patched(patch, "annotations", req.annotations),
            labels |-> Patched(patch, "labels", req.labels),
            yunikorn |-> Patched(patch, "schedulerName", FALSE),
            labelled |-> \E i \in DOMAIN patch : patch[i].path = "labels",
            asked |-> [annotations |-> req.annotations, labels |-> req.labels],
            by |-> req.by, origin |-> req.origin, vouched |-> vouched]
  IN /\ req' = None
     /\ \/ req.kind = "Deployment" /\ template' = o /\ UNCHANGED <<replicaSets, pod>>
        \/ req.kind = "ReplicaSet" /\ replicaSets' = replicaSets \cup {o} /\ UNCHANGED <<template, pod>>
        \/ req.kind = "Pod" /\ pod' = o /\ UNCHANGED <<template, replicaSets>>
     /\ UNCHANGED world

Deny == req' = None /\ UNCHANGED <<world, objects>>

Continue(r, step, patch, vouched) ==
  /\ req' = [r EXCEPT !.step = step, !.patch = patch, !.vouched = vouched]
  /\ UNCHANGED <<world, objects>>

(* processPod: the check of the user info.                                  *)
CheckPod ==
  /\ req # None /\ req.kind = "Pod" /\ req.step = "begin"
  /\ \/ UserInfoRefused(req) /\ Deny
     \/ ~UserInfoRefused(req) /\ Continue(req, "user", << >>, req.vouched /\ UserInfoChecked(req))

(* processPod: a pod without user info gets that of the submitter.          *)
SetUser ==
  /\ req # None /\ req.kind = "Pod" /\ req.step = "user"
  /\ Continue(req, "namespace", UserInfoPatch(req), req.vouched /\ UserInfoKnown(req))

(* processPod: pods of YuniKorn itself and of other namespaces are left     *)
(* alone, also by the patch made so far; the others change their scheduler. *)
ProcessNamespace ==
  LET bypass == Get(req.labels, "app") = "yunikorn" \/ ~ShouldProcessNamespace IN
  /\ req # None /\ req.step = "namespace"
  /\ \/ bypass /\ Allow(<< >>, req.vouched)
     \/ ~bypass /\ Continue(req, "label", Append(req.patch, [path |-> "schedulerName", value |-> TRUE]),
                            req.vouched)

(* processPod: updateLabels and updatePreemptionInfo.                       *)
LabelPod ==
  /\ req # None /\ req.step = "label"
  /\ \/ ~ShouldLabelNamespace /\ Allow(req.patch, req.vouched)
     \/ /\ ShouldLabelNamespace
        /\ Allow(UpdatePreemptionInfo(req, Append(req.patch,
                   [path |-> "labels", value |-> UpdatePodLabel(req)])), req.vouched)

(* processWorkload up to shouldProcessAdmissionReview.                      *)
CheckWorkload ==
  LET process == ShouldProcessWorkload(req) /\ ShouldProcessAdmissionReview(req.labels) IN
  /\ req # None /\ req.kind # "Pod" /\ req.step = "begin"
  /\ \/ ~process /\ Allow(<< >>, req.vouched)
     \/ process /\ Continue(req, "annotations", << >>, req.vouched)

(* processWorkload: the annotations of the pod template are checked ...     *)
CheckTemplate ==
  /\ req # None /\ req.step = "annotations"
  /\ \/ UserInfoRefused(req) /\ Deny
     \/ ~UserInfoRefused(req) /\ Continue(req, "user", << >>, UserInfoChecked(req))

(* ... and get the user info of the submitter when they have none.          *)
AnnotateWorkload ==
  /\ req # None /\ req.kind # "Pod" /\ req.step = "user"
  /\ Allow(UserInfoPatch(req), req.vouched /\ UserInfoKnown(req))
-----------------------------------------------------------------------------
Request(kind, by, origin, o, vouched) ==
  [kind |-> kind, by |-> by, origin |-> origin, annotations |-> o.annotations, labels |-> o.labels,
   vouched |-> vouched, step |-> "begin", patch |-> << >>]

(* External: a user submits a pod or a deployment.                          *)
Submit(kind, by, s) ==
  /\ req = None /\ template = None /\ pod = None
  /\ req' = Request(kind, by, by, s, kind = "Pod") /\ UNCHANGED <<world, objects>>

(* External: the controller creates a replica set while there is none with  *)
(* the template of the deployment, and a pod from a replica set.            *)
SameTemplate(a, b) == a.annotations = b.annotations /\ a.labels = b.labels
CreateReplicaSet ==
  /\ req = None /\ template # None /\ pod = None /\ Cardinality(replicaSets) < MaxReplicaSets
  /\ ~\E o \in replicaSets : SameTemplate(o, template)
  /\ req' = Request("ReplicaSet", Controller, template.origin, template, template.vouched)
  /\ UNCHANGED <<world, objects>>
CreatePod(o) ==
  /\ req = None /\ pod = None
  /\ req' = Request("Pod", Controller, o.origin, o, o.vouched) /\ UNCHANGED <<world, objects>>

(* processPodUpdate: the user info is not changed by an update that, going  *)
(* by the labels the pod has after it, is under review.                     *)
PodReviewed(labels) == Get(labels, "app") # "yunikorn" /\ ShouldProcessAdmissionReview(labels)
SameUserInfo(new) == Get(pod.annotations, "user") = Get(new.annotations, "user")
NothingRefused(new) == FALSE
UpdateRefused(new) == PodReviewed(new.labels) /\ ~SameUserInfo(new)

(* A user changes annotations and labels of the pod in one update, which is *)
(* not patched.  One that changes the user info and is not under review     *)
(* ends what the reviews vouched for.                                       *)
ChangePod(new) ==
  /\ req = None /\ pod # None /\ ~UpdateRefused(new)
  /\ pod' = [pod EXCEPT !.annotations = new.annotations, !.labels = new.labels,
                        !.asked = new, !.labelled = FALSE,
                        !.vouched = @ /\ (SameUserInfo(new) \/ PodReviewed(new.labels))]
  /\ UNCHANGED <<world, req, template, replicaSets>>
(* The updates considered: the user info is set or not, and the labels      *)
(* stay, become those of a pod of YuniKorn, or lose all that a review looks *)
(* at.                                                                      *)
Updates ==
  [annotations : {pod.annotations} \cup {With(pod.annotations, "user", u) : u \in User},
   labels : {pod.labels, With(pod.labels, "app", "yunikorn"),
             Restrict(pod.labels, DOMAIN pod.labels \ {"app", "canonicalAppId", "appId", "sparkAppId"})}]

(* updateConfigMaps of the configuration.                                   *)
ReloadConf(c) ==
  /\ worldChanges < MaxWorldChanges /\ worldChanges' = worldChanges + 1 /\ c # amConf /\ amConf' = c
  /\ UNCHANGED <<ns, nsCache, class, classCache, req, objects>>

(* External: the namespace or the priority class is changed.                *)
ChangeNamespace(f) ==
  /\ worldChanges < MaxWorldChanges /\ worldChanges' = worldChanges + 1 /\ f # ns /\ ns' = f
  /\ UNCHANGED <<amConf, nsCache, class, classCache, req, objects>>
ChangeClass(b) ==
  /\ worldChanges < MaxWorldChanges /\ worldChanges' = worldChanges + 1 /\ b # class /\ class' = b
  /\ UNCHANGED <<amConf, ns, nsCache, classCache, req, objects>>

(* OnAdd, OnUpdate and OnDelete of the two caches.  A deletion that comes   *)
(* as a tombstone is ignored and leaves the entry: for the model, an event  *)
(* that does not come.                                                      *)
NotifyNamespace ==
  nsCache # ns /\ nsCache' = ns /\ UNCHANGED <<amConf, ns, class, classCache, worldChanges, req, objects>>
NotifyClass ==
  classCache # class /\ classCache' = class /\ UNCHANGED <<amConf, ns, nsCache, class, worldChanges, req, objects>>

NextReviews ==
  \/ \E by \in User \ {Controller}, s \in Submission, kind \in {"Pod", "Deployment"} : Submit(kind, by, s)
  \/ CreateReplicaSet \/ \E o \in replicaSets : CreatePod(o)
  \/ CheckPod \/ SetUser \/ ProcessNamespace \/ LabelPod
  \/ CheckWorkload \/ CheckTemplate \/ AnnotateWorkload
  \/ pod # None /\ \E new \in Updates : ChangePod(new)
  \/ \E c \in AmConf : ReloadConf(c)
  \/ \E f \in NsFlags : ChangeNamespace(f)
  \/ \E b \in Class : ChangeClass(b)
  \/ NotifyNamespace \/ NotifyClass

ReviewSpec == InitReviews /\ [][NextReviews]_avars
-----------------------------------------------------------------------------
ReviewsTyped ==
  /\ amConf \in AmConf /\ {ns, nsCache} \subseteq NsFlags \cup {None}
  /\ {class, classCache} \subseteq Class \cup {None} /\ worldChanges \in 0 .. MaxWorldChanges
  /\ req # None => req.by \in User /\ req.step \in {"begin", "annotations", "user", "namespace", "label"}

(* A pod whose user info was checked at every stage, from the deployment    *)
(* on, runs for the user who submitted it or for the account that created   *)
(* it, and for someone else only when that user may name others; whatever   *)
(* reloads and changes of the namespace happen between and within reviews.  *)
(* An update may change the user info of a pod only if its new labels put   *)
(* it outside the review (processPodUpdate); the pod is then no longer one  *)
(* whose user info was checked at every stage.                              *)
HonestUser ==
  pod # None /\ pod.yunikorn /\ pod.vouched =>
    /\ "user" \in DOMAIN pod.annotations
    /\ pod.annotations["user"] \notin {pod.origin, pod.by} =>
         \E c \in AmConf : pod.origin \in c.external

(* The patches of a review add up: nothing the pod came with is lost or     *)
(* changed but for the values YuniKorn owns, and a labelled pod has one     *)
(* application, known under one name to old and new shims, one queue, and a *)
(* decision on preemption.                                                  *)
PatchesAddUp ==
  pod # None =>
    LET a == pod.annotations  l == pod.labels  b == pod.asked.annotations  m == pod.asked.labels IN
    /\ DOMAIN b \subseteq DOMAIN a /\ DOMAIN m \subseteq DOMAIN l
    /\ \A k \in DOMAIN b : a[k] = b[k] \/ (k = "preempt" /\ b[k] \notin {"true", "false"})
    /\ \A k \in DOMAIN m : l[k] = m[k] \/ (k = "appId" /\ Get(m, "canonicalAppId") # "")
                                     \/ (k = "queue" /\ Get(m, "canonicalQueue") # "")
                                     \/ (k \in {"appId", "canonicalAppId"} /\ m[k] = "")
    /\ DOMAIN l \subseteq DOMAIN m \cup {"canonicalAppId", "appId", "queue"}
    /\ DOMAIN a \subseteq DOMAIN b \cup {"user", "preempt"}
    /\ pod.labelled =>
         /\ Get(a, "preempt") \in {"true", "false"}
         /\ Get(l, "canonicalAppId") # "" => Get(l, "appId") = l["canonicalAppId"]
         /\ Get(l, "canonicalQueue") # "" => Get(l, "queue") = l["canonicalQueue"]
         /\ \/ \E k \in {"canonicalAppId", "appId", "sparkAppId"} : Get(l, k) # ""
            \/ Get(a, "appId") # ""

(* "we must not touch the spec otherwise we'll end up having an infinite    *)
(* loop of replicaset creation" (shouldProcessWorkload): the controller     *)
(* recognises the replica set it created, so it does not create another.    *)
(* The controller is one of the system users of every configuration.        *)
NoReplicaSetLoop == Cardinality(replicaSets) <= 1
=============================================================================
