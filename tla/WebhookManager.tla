--------------------------- MODULE WebhookManager ---------------------------
(* The certificates and webhooks of the admission controller:               *)
(* admission/webhook_manager.go, admission/pki/certs.go and the life of a   *)
(* replica in cmd/admissioncontroller/main.go.                              *)
(*                                                                          *)
(* Replicas share a secret with two CA certificates and two webhook         *)
(* configurations that carry both certificates as the CA bundle.  The API   *)
(* server trusts a replica when the CA that signed its server certificate   *)
(* is in the bundle.  Nothing coordinates the replicas but the optimistic   *)
(* concurrency of the API server: a write is refused when the object has    *)
(* changed since it was read.                                               *)
(*                                                                          *)
(* Time is in months.  A certificate is its expiry date and a pair maps the *)
(* slots to dates, 0 for a missing one: the dates of a slot only grow, so a *)
(* slot and a date name a certificate.  A webhook configuration is its CA   *)
(* bundle and the rules it holds.                                           *)
EXTENDS Integers, FiniteSets, GoValues

CONSTANTS
  Replica,           \* processes of the admission controller
  conflictAttempts,  \* webhookManagerImpl.conflictAttempts, 10 in the code
  Lifetime,          \* AddDate(1, 0, 0): 12
  Stagger,           \* AddDate(0, -6, 0): 6
  Cutoff,            \* 90 days: 3
  RenewLead,         \* 30 days: 1
  MaxMonth,          \* bound on the clock
  MaxFaults          \* bound on months that begin during an update and on
                     \* changes of the webhooks by an administrator, together

ASSUME TimesAssumption ==
  /\ Lifetime \in Nat /\ Stagger \in Nat /\ Cutoff \in Nat /\ RenewLead \in Nat /\ MaxMonth \in Nat
  /\ 0 < RenewLead /\ RenewLead < Cutoff /\ Cutoff + Stagger <= Lifetime

ASSUME AttemptsAssumption == conflictAttempts \in Nat \ {0}

Hook == {"validating", "mutating"}
Slot == {1, 2}
Pairs == [Slot -> Nat]
NoPair == [s \in Slot |-> 0]
Settled == {"down", "serve"}
Certs == [pair : Pairs, notAfter : Nat]
NoCert == [pair |-> NoPair, notAfter |-> 0]
Rules == {"configmaps", "workloads", "edited"}
Webhooks == [rules : Rules, bundle : Pairs]

ASSUME NoneAssumption == None \notin Webhooks \cup Certs

VARIABLES
  now,        \* the month
  secret,     \* admission-controller-secrets: a pair
  hook,       \* [Hook -> Webhooks \cup {None}]: the webhook configurations
  pc,         \* [Replica -> where UpdateWebhookConfiguration is]
  target,     \* [Replica -> Hook]: the webhook being installed
  read,       \* [Replica -> the object read before a write: no such object,
              \* or one that is "current" or "stale" by now]
  attempts,   \* [Replica -> Nat]: the loops' counters
  draft,      \* [Replica -> Pairs]: the certificates to be saved
  cert,       \* [Replica -> Certs]: caCert1 and caCert2, and the expiry of the
              \* server certificate made from them
  serving,    \* [Replica -> Certs \cup {None}]: what the running server uses
  overruns, edits

cluster == <<now, secret, hook>>
progress == <<target, read, attempts, draft, cert>>
wvars == <<now, secret, hook, pc, target, read, attempts, draft, cert, serving, overruns, edits>>

InitWebhooks ==
  /\ now = 1 /\ secret = NoPair /\ hook = [v \in Hook |-> None]
  /\ pc = [r \in Replica |-> "down"] /\ target = [r \in Replica |-> "validating"]
  /\ read = [r \in Replica |-> "none"] /\ attempts = [r \in Replica |-> 0]
  /\ draft = [r \in Replica |-> NoPair] /\ cert = [r \in Replica |-> NoCert]
  /\ serving = [r \in Replica |-> None] /\ overruns = 0 /\ edits = 0
-----------------------------------------------------------------------------
(* getAndValidateCertificate: absent certificates and those that expire     *)
(* within 90 days are not used.                                             *)
Valid(notAfter) == notAfter >= now + Cutoff

BothValid(p) == \A s \in Slot : Valid(p[s])

(* Mutant: both certificates are replaced when one is not valid.            *)
RenewedBoth(p) ==
  [s \in Slot |-> IF BothValid(p) THEN p[s]
                  ELSE IF s = 1 THEN now + Lifetime - Stagger ELSE now + Lifetime]

(* loadCaCertificatesInternal generates what is not valid; when both are    *)
(* new, #1 expires earlier.                                                 *)
Renewed(p) ==
  [s \in Slot |-> IF Valid(p[s]) THEN p[s]
                  ELSE IF s = 1 /\ ~Valid(p[2]) THEN now + Lifetime - Stagger
                  ELSE now + Lifetime]

(* getBestCACertificate: the slot of the later expiry signs.                *)
Best(p) == IF p[2] > p[1] THEN 2 ELSE 1

(* loadCaCertificatesInternal: expiration is the earlier of the two.        *)
Expiration(p) == IF p[2] < p[1] THEN p[2] ELSE p[1]

(* WaitForCertificateExpiration: 30 days before the expiration.             *)
RenewTime(p) == Expiration(p) - RenewLead

(* GenerateServerCertificate: signed by the best CA of the pair, for a year.*)
ServerCertificate(p) == [pair |-> p, notAfter |-> now + Lifetime]

(* populateValidatingWebhook, populateMutatingWebhook.                      *)
PopulateValidating(p) == [rules |-> "configmaps", bundle |-> p]
PopulateMutating(p) == [rules |-> "workloads", bundle |-> p]

(* checkValidatingWebhook, checkMutatingWebhook, validateCaBundle.          *)
CheckCaBundle(h, p) == \A s \in Slot : h.bundle[s] = p[s]
CheckValidating(h, p) == h # None /\ h.rules = "configmaps" /\ CheckCaBundle(h, p)
CheckMutating(h, p) == h # None /\ h.rules = "workloads" /\ CheckCaBundle(h, p)
-----------------------------------------------------------------------------
(* log.Fatal, a signal or a crash: the process and its server are gone.     *)
Exit(r) ==
  /\ pc' = [pc EXCEPT ![r] = "down"] /\ serving' = [serving EXCEPT ![r] = None]
  /\ target' = [target EXCEPT ![r] = "validating"] /\ attempts' = [attempts EXCEPT ![r] = 0]
  /\ draft' = [draft EXCEPT ![r] = NoPair] /\ cert' = [cert EXCEPT ![r] = NoCert]

(* A loop of LoadCACertificates or InstallWebhooks goes round again, or     *)
(* gives up when its attempts are used.                                     *)
Again(r, where) ==
  \/ attempts[r] + 1 >= conflictAttempts /\ Exit(r)
  \/ /\ attempts[r] + 1 < conflictAttempts
     /\ attempts' = [attempts EXCEPT ![r] = @ + 1] /\ pc' = [pc EXCEPT ![r] = where]
     /\ draft' = [draft EXCEPT ![r] = NoPair] /\ UNCHANGED <<target, cert, serving>>

(* A write of r has used up its read; if it changed the object, the reads   *)
(* of the others are stale.                                                 *)
ReadsAfter(r, changed, readers) ==
  [q \in Replica |-> IF q = r THEN "none"
                     ELSE IF changed /\ q \in readers /\ read[q] = "current" THEN "stale"
                     ELSE read[q]]

(* main and the SIGUSR1 case: UpdateWebhookConfiguration begins with        *)
(* LoadCACertificates.                                                      *)
UpdateWebhookConfiguration(r) ==
  /\ pc' = [pc EXCEPT ![r] = "load"]
  /\ UNCHANGED <<cluster, progress, serving, overruns, edits>>

Start(r) == pc[r] = "down" /\ UpdateWebhookConfiguration(r)

(* The goroutine of WaitForCertExpiration raises SIGUSR1.                   *)
Renew(r) == pc[r] = "serve" /\ now >= RenewTime(cert[r].pair) /\ UpdateWebhookConfiguration(r)

(* Mutant: the loops share one counter.                                     *)
LoadWithoutReset(r) ==
  /\ pc[r] = "load"
  /\ \/ /\ BothValid(secret)
        /\ cert' = [cert EXCEPT ![r] = ServerCertificate(secret)]
        /\ pc' = [pc EXCEPT ![r] = "check"] /\ UNCHANGED <<attempts, draft, read>>
     \/ /\ ~BothValid(secret)
        /\ draft' = [draft EXCEPT ![r] = Renewed(secret)]
        /\ read' = [read EXCEPT ![r] = "current"] /\ pc' = [pc EXCEPT ![r] = "save"]
        /\ UNCHANGED <<cert, attempts>>
  /\ UNCHANGED <<cluster, target, serving, overruns, edits>>

(* loadCaCertificatesInternal up to the update of the secret.  With two     *)
(* valid certificates LoadCACertificates ends, and so does                  *)
(* GenerateServerCertificate.                                               *)
LoadCertificates(r) ==
  /\ pc[r] = "load"
  /\ \/ /\ BothValid(secret)
        /\ cert' = [cert EXCEPT ![r] = ServerCertificate(secret)]
        /\ pc' = [pc EXCEPT ![r] = "check"] /\ attempts' = [attempts EXCEPT ![r] = 0]
        /\ UNCHANGED <<draft, read>>
     \/ /\ ~BothValid(secret)
        /\ draft' = [draft EXCEPT ![r] = Renewed(secret)]
        /\ read' = [read EXCEPT ![r] = "current"] /\ pc' = [pc EXCEPT ![r] = "save"]
        /\ UNCHANGED <<cert, attempts>>
  /\ UNCHANGED <<cluster, target, serving, overruns, edits>>

Savers == {q \in Replica : pc[q] = "save"}
WritersOf(v) == {q \in Replica : pc[q] = "write" /\ target[q] = v}

(* The update of the secret: after success and after a conflict the caller  *)
(* loads again.                                                             *)
SaveSecret(r) ==
  /\ pc[r] = "save"
  /\ secret' = IF read[r] = "current" THEN draft[r] ELSE secret
  /\ read' = ReadsAfter(r, read[r] = "current", Savers)
  /\ Again(r, "load")
  /\ UNCHANGED <<now, hook, overruns, edits>>

(* The Get of installValidatingWebhook and installMutatingWebhook, for a    *)
(* webhook that has to be created or updated.                               *)
ReadWebhook(r) ==
  /\ pc' = [pc EXCEPT ![r] = "write"]
  /\ read' = [read EXCEPT ![r] = IF hook[target[r]] = None THEN "absent" ELSE "current"]
  /\ UNCHANGED <<cluster, target, attempts, draft, cert, serving, overruns, edits>>

(* installValidatingWebhook up to the write; an accepted webhook ends the   *)
(* loop, and the loop of the other webhook begins.                          *)
InstallValidating(r) ==
  /\ pc[r] = "check" /\ target[r] = "validating"
  /\ \/ /\ CheckValidating(hook["validating"], cert[r].pair)
        /\ target' = [target EXCEPT ![r] = "mutating"] /\ attempts' = [attempts EXCEPT ![r] = 0]
        /\ UNCHANGED <<cluster, pc, read, draft, cert, serving, overruns, edits>>
     \/ ~CheckValidating(hook["validating"], cert[r].pair) /\ ReadWebhook(r)

(* installMutatingWebhook up to the write.                                  *)
InstallMutating(r) ==
  /\ pc[r] = "check" /\ target[r] = "mutating"
  /\ \/ /\ CheckMutating(hook["mutating"], cert[r].pair)
        /\ pc' = [pc EXCEPT ![r] = "start"]
        /\ UNCHANGED <<cluster, progress, serving, overruns, edits>>
     \/ ~CheckMutating(hook["mutating"], cert[r].pair) /\ ReadWebhook(r)

(* Create is refused when the webhook exists by now, Update when it has     *)
(* changed or is gone.                                                      *)
Accepted(r) == IF read[r] = "absent" THEN hook[target[r]] = None ELSE read[r] = "current"

Populate(v, p) == IF v = "validating" THEN PopulateValidating(p) ELSE PopulateMutating(p)

(* The Create or Update of either webhook; whatever comes of it, the        *)
(* webhook is checked again.                                                *)
WriteWebhook(r) ==
  LET v == target[r] IN
  /\ pc[r] = "write"
  /\ hook' = IF Accepted(r) THEN [hook EXCEPT ![v] = Populate(v, cert[r].pair)] ELSE hook
  /\ read' = ReadsAfter(r, Accepted(r), WritersOf(v))
  /\ Again(r, "check")
  /\ UNCHANGED <<now, secret, overruns, edits>>

(* WebHook.Shutdown of the old server and Startup with the new certificate. *)
StartServer(r) ==
  /\ pc[r] = "start"
  /\ pc' = [pc EXCEPT ![r] = "serve"] /\ serving' = [serving EXCEPT ![r] = cert[r]]
  /\ attempts' = [attempts EXCEPT ![r] = 0] /\ target' = [target EXCEPT ![r] = "validating"]
  /\ UNCHANGED <<cluster, read, draft, cert, overruns, edits>>

(* A signal, a crash, or an API error that ends in log.Fatal.               *)
StopReplica(r) ==
  /\ pc[r] # "down" /\ Exit(r) /\ read' = [read EXCEPT ![r] = "none"]
  /\ UNCHANGED <<cluster, overruns, edits>>

(* External: an administrator removes a webhook configuration or changes    *)
(* its rules.                                                               *)
EditWebhook(v) ==
  /\ overruns + edits < MaxFaults /\ edits' = edits + 1
  /\ hook[v] # None
  /\ \E h \in {None, [rules |-> "edited", bundle |-> hook[v].bundle]} : hook' = [hook EXCEPT ![v] = h]
  /\ read' = [q \in Replica |-> IF q \in WritersOf(v) /\ read[q] = "current" THEN "stale" ELSE read[q]]
  /\ UNCHANGED <<now, secret, pc, target, attempts, draft, cert, serving, overruns>>

(* A month passes.  Sleeping replicas wake up in time.  An update takes     *)
(* seconds, so that a month begins during one is counted.                   *)
Tick ==
  /\ now < MaxMonth /\ now' = now + 1
  /\ \A r \in Replica : pc[r] = "serve" => now < RenewTime(cert[r].pair)
  /\ \/ (\A r \in Replica : pc[r] \in Settled) /\ UNCHANGED overruns
     \/ /\ \E r \in Replica : pc[r] \notin Settled
        /\ overruns + edits < MaxFaults /\ overruns' = overruns + 1
  /\ UNCHANGED <<secret, hook, pc, progress, serving, edits>>

UpdateStep(r) ==
  \/ LoadCertificates(r) \/ SaveSecret(r)
  \/ InstallValidating(r) \/ InstallMutating(r) \/ WriteWebhook(r) \/ StartServer(r)

NextWebhooks ==
  \/ \E r \in Replica : UpdateStep(r) \/ Start(r) \/ Renew(r) \/ StopReplica(r)
  \/ \E v \in Hook : EditWebhook(v)
  \/ Tick

WebhookSpec == InitWebhooks /\ [][NextWebhooks]_wvars
-----------------------------------------------------------------------------
WebhooksTyped ==
  /\ now \in Nat /\ secret \in Pairs /\ hook \in [Hook -> Webhooks \cup {None}]
  /\ pc \in [Replica -> Settled \cup {"load", "save", "check", "write", "start"}]
  /\ target \in [Replica -> Hook] /\ read \in [Replica -> {"none", "absent", "current", "stale"}]
  /\ attempts \in [Replica -> Nat] /\ draft \in [Replica -> Pairs]
  /\ cert \in [Replica -> Certs] /\ serving \in [Replica -> Certs \cup {None}]
  /\ overruns \in Nat /\ edits \in Nat

(* The two certificates of a pair expire so far apart that the later one is *)
(* not replaced before the replica renews.                                  *)
Staggered(p) ==
  Cutoff - RenewLead <= (IF p[1] < p[2] THEN p[2] - p[1] ELSE p[1] - p[2])

(* A server whose certificate was made from a staggered pair is trusted     *)
(* through both webhooks by an unexpired CA, whatever restarts and renewals *)
(* of other replicas do to the secret and the bundle, and also while the    *)
(* replica itself renews: that is what the second certificate is for.       *)
ServingTrusted ==
  overruns = 0 => \A r \in Replica :
    serving[r] # None /\ Staggered(serving[r].pair) =>
      LET p == serving[r].pair  s == Best(p) IN
      /\ now < p[s] /\ now < serving[r].notAfter
      /\ \A v \in Hook : hook[v] # None => hook[v].bundle[s] = p[s]

(* The attempts are enough: within a month a replica is sent round a loop   *)
(* once, by its own write or by that of another replica that wrote the      *)
(* same, and once more by each change an administrator makes.  "max         *)
(* attempts reached" stops no healthy replica, however many there are.      *)
RetriesSuffice ==
  overruns = 0 => \A r \in Replica : attempts[r] <= 1 + edits
=============================================================================
