---------------------------- MODULE WebhookProofs ----------------------------
(***************************************************************************)
(* For any number of replicas, any number of attempts and any lengths that  *)
(* TimesAssumption allows: a server is trusted while it serves              *)
(* (ServingTrusted), and one attempt more than there are edits is enough to *)
(* get through every loop (RetriesSuffice).                                 *)
(*                                                                         *)
(* Both rest on what an update may count on while it runs.  A replica that  *)
(* installs webhooks works with the pair in the secret, since a save of     *)
(* another one is refused or repeats what is there; and the slot that       *)
(* signed a certificate in use is not renewed before the certificate is.    *)
(***************************************************************************)
EXTENDS WebhookManager, TLAPS

Updating == {"check", "write", "start"}

(* r has found webhook v in order in this update.                           *)
Passed(r, v) ==
  \/ pc[r] = "start"
  \/ pc[r] \in {"check", "write"} /\ target[r] = "mutating" /\ v = "validating"

(* A certificate in use is renewed in time, and the CA that signed it stays *)
(* where the API server looks for it.                                       *)
InUse(c) ==
  /\ now <= RenewTime(c.pair) /\ Expiration(c.pair) <= c.notAfter
  /\ Staggered(c.pair) =>
       LET s == Best(c.pair) IN
       /\ secret[s] = c.pair[s]
       /\ \A v \in Hook : hook[v] # None => hook[v].bundle[s] = c.pair[s]

CertInv(r) ==
  /\ pc[r] = "down" => serving[r] = None
  /\ pc[r] = "serve" => serving[r] = cert[r]
  /\ pc[r] \in {"down", "load", "save", "serve"} => target[r] = "validating"
  /\ pc[r] = "save" /\ read[r] = "current" => draft[r] = Renewed(secret) /\ ~BothValid(secret)
  /\ pc[r] \in Updating =>
       cert[r].pair = secret /\ BothValid(secret) /\ Expiration(secret) <= cert[r].notAfter
  /\ \A v \in Hook : Passed(r, v) /\ hook[v] # None => CheckCaBundle(hook[v], secret)
  /\ serving[r] # None => InUse(serving[r])

(* Within a month, a conflict means that somebody else has done the work,   *)
(* or that an administrator has undone it.                                  *)
InOrder(v) ==
  IF v = "validating" THEN CheckValidating(hook[v], secret) ELSE CheckMutating(hook[v], secret)

RetryInv(r) ==
  /\ pc[r] \in {"down", "serve"} => attempts[r] = 0
  /\ pc[r] = "load" => attempts[r] = 0 \/ (attempts[r] = 1 /\ BothValid(secret))
  /\ pc[r] = "save" => attempts[r] = 0 /\ (read[r] # "current" => BothValid(secret))
  /\ pc[r] = "check" =>
       attempts[r] <= edits \/ (attempts[r] <= 1 + edits /\ InOrder(target[r]))
  /\ pc[r] = "write" =>
       /\ attempts[r] <= edits
       /\ Accepted(r) \/ InOrder(target[r]) \/ attempts[r] + 1 <= edits
  /\ pc[r] = "start" => attempts[r] <= 1 + edits

WebhookInv ==
  overruns = 0 =>
    /\ \A s \in Slot : secret[s] <= now + Lifetime
    /\ \A r \in Replica : CertInv(r) /\ RetryInv(r)
-----------------------------------------------------------------------------
(* A certificate that is used until it must be renewed, from a pair that is *)
(* staggered, is signed by a CA that is not due for renewal.                *)
LEMMA BestOutlives ==
  ASSUME WebhooksTyped, NEW p \in Pairs, now <= RenewTime(p), Staggered(p)
  PROVE  Best(p) \in Slot /\ Valid(p[Best(p)]) /\ now < p[Best(p)]
<1>1. p[1] \in Nat /\ p[2] \in Nat /\ now \in Nat
  BY DEF Pairs, Slot, WebhooksTyped
<1>2. CASE p[2] > p[1]
  BY <1>1, <1>2, TimesAssumption DEF Best, Slot, Valid, RenewTime, Expiration, Staggered
<1>3. CASE ~(p[2] > p[1])
  BY <1>1, <1>3, TimesAssumption DEF Best, Slot, Valid, RenewTime, Expiration, Staggered
<1>4. QED BY <1>2, <1>3

(* A time of renewal is a number.                                           *)
LEMMA RenewTimeType ==
  ASSUME NEW p \in Pairs
  PROVE  RenewTime(p) \in Int
BY TimesAssumption DEF RenewTime, Expiration, Pairs, Slot

(* A pair of valid certificates need not be renewed yet.                    *)
LEMMA ValidInTime ==
  ASSUME WebhooksTyped, NEW p \in Pairs, BothValid(p)
  PROVE  now <= RenewTime(p)
<1>1. p[1] \in Nat /\ p[2] \in Nat /\ now \in Nat /\ Valid(p[1]) /\ Valid(p[2])
  BY DEF Pairs, Slot, WebhooksTyped, BothValid
<1>2. QED BY <1>1, TimesAssumption DEF Valid, RenewTime, Expiration

(* Renewal keeps what is valid, leaves two valid certificates and makes     *)
(* none that lasts longer than a lifetime.                                  *)
LEMMA RenewedPair ==
  ASSUME WebhooksTyped, NEW p \in Pairs
  PROVE  /\ Renewed(p) \in Pairs /\ BothValid(Renewed(p))
         /\ \A s \in Slot : Valid(p[s]) => Renewed(p)[s] = p[s]
         /\ (\A s \in Slot : p[s] <= now + Lifetime) => \A s \in Slot : Renewed(p)[s] <= now + Lifetime
<1>1. now \in Nat /\ \A s \in Slot : p[s] \in Nat
  BY DEF Pairs, WebhooksTyped
<1>2. now + Lifetime - Stagger \in Nat /\ now + Lifetime \in Nat
  BY <1>1, TimesAssumption
<1>3. ASSUME NEW s \in Slot
      PROVE  /\ Renewed(p)[s] \in Nat /\ Valid(Renewed(p)[s])
             /\ Valid(p[s]) => Renewed(p)[s] = p[s]
             /\ p[s] <= now + Lifetime => Renewed(p)[s] <= now + Lifetime
  BY <1>1, <1>2, TimesAssumption DEF Renewed, Valid
<1>4. Renewed(p) \in Pairs
  BY <1>3 DEF Renewed, Pairs
<1>5. QED BY <1>3, <1>4 DEF BothValid

(* The earlier expiry is that of one of the certificates.                   *)
LEMMA ExpirationBound ==
  ASSUME NEW p \in Pairs, NEW b \in Nat, \A s \in Slot : p[s] <= b
  PROVE  Expiration(p) \in Nat /\ Expiration(p) <= b
BY DEF Expiration, Pairs, Slot
-----------------------------------------------------------------------------
(* WebhooksTyped is inductive.                                              *)
LEMMA TypedStep ==
  ASSUME WebhooksTyped, [NextWebhooks]_wvars
  PROVE  WebhooksTyped'
<1> USE DEF WebhooksTyped
<1>1. ASSUME NEW r \in Replica, Start(r) \/ Renew(r) PROVE WebhooksTyped'
  BY <1>1 DEF Start, Renew, UpdateWebhookConfiguration, cluster, progress
<1>2. ASSUME NEW r \in Replica, Exit(r)
      PROVE  /\ pc' \in [Replica -> Settled \cup {"load", "save", "check", "write", "start"}]
             /\ serving' \in [Replica -> Certs \cup {None}] /\ target' \in [Replica -> Hook]
             /\ attempts' \in [Replica -> Nat] /\ draft' \in [Replica -> Pairs]
             /\ cert' \in [Replica -> Certs]
  <2>1. NoPair \in Pairs /\ NoCert \in Certs
    BY DEF NoPair, Pairs, NoCert, Certs
  <2>2. QED BY <1>2, <2>1 DEF Exit, Settled, Hook
<1>3. ASSUME NEW r \in Replica, NEW w \in {"load", "check"}, Again(r, w)
      PROVE  /\ pc' \in [Replica -> Settled \cup {"load", "save", "check", "write", "start"}]
             /\ serving' \in [Replica -> Certs \cup {None}] /\ target' \in [Replica -> Hook]
             /\ attempts' \in [Replica -> Nat] /\ draft' \in [Replica -> Pairs]
             /\ cert' \in [Replica -> Certs]
  <2>1. NoPair \in Pairs
    BY DEF NoPair, Pairs
  <2>2. QED BY <1>2, <1>3, <2>1 DEF Again
<1>4. ASSUME NEW r \in Replica, NEW c, NEW S
      PROVE  ReadsAfter(r, c, S) \in [Replica -> {"none", "absent", "current", "stale"}]
  BY DEF ReadsAfter
<1>5. ASSUME NEW r \in Replica, LoadCertificates(r) PROVE WebhooksTyped'
  <2>1. ServerCertificate(secret) \in Certs /\ Renewed(secret) \in Pairs
    BY RenewedPair, TimesAssumption DEF ServerCertificate, Certs
  <2>2. QED BY <1>5, <2>1 DEF LoadCertificates, cluster
<1>6. ASSUME NEW r \in Replica, SaveSecret(r) PROVE WebhooksTyped'
  BY <1>3, <1>4, <1>6 DEF SaveSecret
<1>7. ASSUME NEW r \in Replica, ReadWebhook(r) PROVE WebhooksTyped'
  BY <1>7 DEF ReadWebhook, cluster
<1>8. ASSUME NEW r \in Replica, InstallValidating(r) \/ InstallMutating(r) PROVE WebhooksTyped'
  BY <1>7, <1>8 DEF InstallValidating, InstallMutating, cluster, progress, Hook
<1>9. ASSUME NEW r \in Replica, WriteWebhook(r) PROVE WebhooksTyped'
  <2>1. Populate(target[r], cert[r].pair) \in Webhooks
    BY DEF Populate, PopulateValidating, PopulateMutating, Webhooks, Rules, Certs
  <2>2. hook' \in [Hook -> Webhooks \cup {None}]
    BY <1>9, <2>1 DEF WriteWebhook
  <2>3. QED BY <1>3, <1>4, <1>9, <2>2 DEF WriteWebhook
<1>10. ASSUME NEW r \in Replica, StartServer(r) PROVE WebhooksTyped'
  BY <1>10 DEF StartServer, cluster, Settled, Hook
<1>11. ASSUME NEW r \in Replica, StopReplica(r) PROVE WebhooksTyped'
  BY <1>2, <1>11 DEF StopReplica, cluster
<1>12. ASSUME NEW v \in Hook, EditWebhook(v) PROVE WebhooksTyped'
  <2>1. [rules |-> "edited", bundle |-> hook[v].bundle] \in Webhooks
    BY <1>12 DEF EditWebhook, Webhooks, Rules
  <2>2. hook' \in [Hook -> Webhooks \cup {None}]
    BY <1>12, <2>1 DEF EditWebhook
  <2>3. QED BY <1>12, <2>2 DEF EditWebhook
<1>13. CASE Tick
  BY <1>13 DEF Tick, progress
<1>14. CASE UNCHANGED wvars
  BY <1>14 DEF wvars
<1>15. QED
  BY <1>1, <1>5, <1>6, <1>8, <1>9, <1>10, <1>11, <1>12, <1>13, <1>14 DEF NextWebhooks, UpdateStep
-----------------------------------------------------------------------------
(* What a replica counts on is about its own state and the cluster's.       *)
LEMMA OthersUnmoved ==
  ASSUME NEW q \in Replica, CertInv(q), RetryInv(q), UNCHANGED <<now, secret, hook, edits>>,
         pc'[q] = pc[q], target'[q] = target[q], read'[q] = read[q], attempts'[q] = attempts[q],
         draft'[q] = draft[q], cert'[q] = cert[q], serving'[q] = serving[q]
  PROVE  CertInv(q)' /\ RetryInv(q)'
<1>1. CertInv(q)'
  BY SMTT(30) DEF CertInv, Passed, InUse, CheckCaBundle, BothValid, Valid, Renewed
<1>2. RetryInv(q)'
  BY DEF RetryInv, InOrder, Accepted, CheckValidating, CheckMutating, CheckCaBundle, BothValid, Valid
<1>3. QED BY <1>1, <1>2

(* A process that ends leaves nothing behind that its next life counts on.  *)
LEMMA ExitInv ==
  ASSUME WebhooksTyped, NEW r \in Replica, Exit(r)
  PROVE  CertInv(r)' /\ RetryInv(r)'
<1>1. pc'[r] = "down" /\ serving'[r] = None /\ target'[r] = "validating" /\ attempts'[r] = 0
  BY ZenonT(60) DEF Exit, WebhooksTyped
<1>2. CertInv(r)'
  BY <1>1 DEF CertInv, Updating, Passed
<1>3. RetryInv(r)'
  BY <1>1 DEF RetryInv
<1>4. QED BY <1>2, <1>3

(* The invariant of the replicas, for the steps of r that change nothing    *)
(* but the state of r.                                                      *)
Private(r) ==
  /\ UNCHANGED <<now, secret, hook, edits, overruns>>
  /\ \A q \in Replica \ {r} :
       /\ pc'[q] = pc[q] /\ target'[q] = target[q] /\ read'[q] = read[q] /\ attempts'[q] = attempts[q]
       /\ draft'[q] = draft[q] /\ cert'[q] = cert[q] /\ serving'[q] = serving[q]

LEMMA PrivateStep ==
  ASSUME WebhookInv, NEW r \in Replica, Private(r), overruns = 0 => CertInv(r)' /\ RetryInv(r)'
  PROVE  WebhookInv'
<1>1. SUFFICES ASSUME overruns' = 0
      PROVE /\ \A s \in Slot : secret'[s] <= now' + Lifetime
            /\ \A q \in Replica : CertInv(q)' /\ RetryInv(q)'
  BY DEF WebhookInv
<1>2. overruns = 0 /\ \A s \in Slot : secret'[s] <= now' + Lifetime
  BY <1>1 DEF Private, WebhookInv
<1>3. ASSUME NEW q \in Replica PROVE CertInv(q)' /\ RetryInv(q)'
  <2>1. CASE q = r
    BY <1>2, <2>1, ZenonT(60)
  <2>2. CASE q # r
    BY <1>2, <2>2, OthersUnmoved, ZenonT(60) DEF Private, WebhookInv
  <2>3. QED BY <2>1, <2>2
<1>4. QED BY <1>2, <1>3

(* Start and Renew: the loops begin with nothing used up.                   *)
LEMMA UpdateBegins ==
  ASSUME WebhooksTyped, WebhookInv, NEW r \in Replica, Start(r) \/ Renew(r)
  PROVE  WebhookInv'
<1>1. pc[r] \in Settled /\ UpdateWebhookConfiguration(r)
  BY DEF Start, Renew, Settled
<1>2. /\ pc'[r] = "load"
      /\ UNCHANGED <<now, secret, hook, target, read, attempts, draft, cert, serving, overruns, edits>>
  BY <1>1 DEF UpdateWebhookConfiguration, cluster, progress, WebhooksTyped
<1>3. Private(r)
  BY <1>1 DEF UpdateWebhookConfiguration, cluster, progress, Private
<1>4. ASSUME overruns = 0 PROVE CertInv(r)' /\ RetryInv(r)'
  <2>1. CertInv(r) /\ RetryInv(r)
    BY <1>4 DEF WebhookInv
  <2>2. CertInv(r)'
    BY <1>1, <1>2, <2>1, ZenonT(60) DEF CertInv, Settled, Updating, Passed, InUse
  <2>3. RetryInv(r)'
    BY <1>1, <1>2, <2>1 DEF RetryInv, Settled
  <2>4. QED BY <2>2, <2>3
<1>5. QED BY <1>3, <1>4, PrivateStep

(* LoadCertificates makes a certificate from a valid pair, or a draft from  *)
(* the pair it has read.                                                    *)
LEMMA LoadStep ==
  ASSUME WebhooksTyped, WebhookInv, NEW r \in Replica, LoadCertificates(r)
  PROVE  WebhookInv'
<1>1. UNCHANGED <<now, secret, hook, target, serving, overruns, edits>> /\ pc[r] = "load"
  BY DEF LoadCertificates, cluster
<1>2. Private(r)
  BY DEF LoadCertificates, cluster, Private, WebhooksTyped
<1>3. ASSUME overruns = 0 PROVE CertInv(r)' /\ RetryInv(r)'
  <2>1. CertInv(r) /\ RetryInv(r) /\ \A s \in Slot : secret[s] <= now + Lifetime
    BY <1>3 DEF WebhookInv
  <2>2. target'[r] = "validating" /\ (serving'[r] # None => InUse(serving[r])')
    BY <1>1, <2>1 DEF CertInv, InUse
  <2>3. CASE BothValid(secret)
    <3>1. /\ pc'[r] = "check" /\ attempts'[r] = 0
          /\ cert'[r].pair = secret /\ cert'[r].notAfter = now + Lifetime
      BY <2>3 DEF LoadCertificates, ServerCertificate, WebhooksTyped
    <3>2. Expiration(secret) <= now + Lifetime
      BY <2>1, ExpirationBound, TimesAssumption DEF WebhooksTyped
    <3>3. BothValid(secret)'
      BY <1>1, <2>3, ZenonT(60) DEF BothValid, Valid
    <3>4. CertInv(r)'
      BY <1>1, <2>2, <3>1, <3>2, <3>3 DEF CertInv, Updating, Passed, Expiration
    <3>5. RetryInv(r)'
      BY <1>1, <3>1 DEF RetryInv, WebhooksTyped
    <3>6. QED BY <3>4, <3>5
  <2>4. CASE ~BothValid(secret)
    <3>1. /\ pc'[r] = "save" /\ read'[r] = "current" /\ draft'[r] = Renewed(secret)
          /\ attempts'[r] = attempts[r]
      BY <2>4 DEF LoadCertificates, WebhooksTyped
    <3>2. Renewed(secret)' = Renewed(secret) /\ ~BothValid(secret)'
      BY <1>1, <2>4, ZenonT(60) DEF BothValid, Valid, Renewed
    <3>3. attempts'[r] = 0
      BY <1>1, <2>1, <2>4, <3>1, ZenonT(60) DEF RetryInv
    <3>4. CertInv(r)'
      BY <1>1, <2>2, <3>1, <3>2, ZenonT(60) DEF CertInv, Updating, Passed
    <3>5. RetryInv(r)'
      BY <3>1, <3>3, ZenonT(60) DEF RetryInv
    <3>6. QED BY <3>4, <3>5
  <2>5. QED BY <2>3, <2>4
<1>4. QED BY <1>2, <1>3, PrivateStep

(* SaveSecret: a draft that is accepted was made from the secret as it is,  *)
(* so nobody is installing webhooks and no CA in use is replaced.  A draft  *)
(* that is refused was overtaken by one that made the secret valid.         *)
LEMMA SaveStep ==
  ASSUME WebhooksTyped, WebhookInv, NEW r \in Replica, SaveSecret(r)
  PROVE  WebhookInv'
<1>1. pc[r] = "save" /\ UNCHANGED <<now, hook, overruns, edits>> /\ Again(r, "load")
  BY DEF SaveSecret
<1>2. ASSUME NEW q \in Replica, q # r
      PROVE  /\ pc'[q] = pc[q] /\ target'[q] = target[q] /\ attempts'[q] = attempts[q]
             /\ draft'[q] = draft[q] /\ cert'[q] = cert[q] /\ serving'[q] = serving[q]
  BY <1>1, <1>2 DEF Again, Exit, WebhooksTyped
<1>3. SUFFICES ASSUME overruns = 0
      PROVE /\ \A s \in Slot : secret'[s] <= now + Lifetime
            /\ \A q \in Replica : CertInv(q)' /\ RetryInv(q)'
  BY <1>1 DEF WebhookInv
<1>4. /\ \A s \in Slot : secret[s] <= now + Lifetime
      /\ \A q \in Replica : CertInv(q) /\ RetryInv(q)
  BY <1>3 DEF WebhookInv
<1>5. Exit(r) \/ /\ pc'[r] = "load" /\ attempts'[r] = 1
                 /\ target'[r] = "validating" /\ serving'[r] = serving[r]
  BY <1>1, <1>4, SMTT(30) DEF Again, RetryInv, CertInv, WebhooksTyped
<1>6. CASE read[r] = "current"
  <2>1. secret' = Renewed(secret) /\ ~BothValid(secret)
    BY <1>1, <1>4, <1>6, ZenonT(60) DEF SaveSecret, CertInv
  <2>2. BothValid(secret)'
    BY <1>1, <2>1, RenewedPair DEF BothValid, Valid, WebhooksTyped
  <2>3. \A s \in Slot : secret'[s] <= now + Lifetime
    BY <1>4, <2>1, RenewedPair DEF WebhooksTyped
  <2>4. ASSUME NEW q \in Replica, serving[q] # None, serving'[q] = serving[q]
        PROVE  InUse(serving[q])'
    <3> DEFINE p == serving[q].pair
    <3>1. p \in Pairs /\ InUse(serving[q])
      BY <1>4, <2>4 DEF CertInv, Certs, WebhooksTyped
    <3>2. Staggered(p) => secret'[Best(p)] = secret[Best(p)]
      BY <2>1, <3>1, BestOutlives, RenewedPair DEF InUse, WebhooksTyped
    <3>3. QED BY <1>1, <2>4, <3>1, <3>2 DEF InUse
  <2>5. ASSUME NEW q \in Replica, q # r PROVE CertInv(q)' /\ RetryInv(q)'
    <3>1. pc[q] \notin Updating
      BY <1>4, <2>1 DEF CertInv
    <3>2. pc[q] = "save" => read'[q] # "current"
      BY <1>6, <2>5 DEF SaveSecret, ReadsAfter, Savers
    <3>3. CertInv(q)'
      BY <1>2, <1>4, <2>4, <2>5, <3>1, <3>2, ZenonT(60) DEF CertInv, Updating, Passed
    <3>4. RetryInv(q)'
      BY <1>2, <1>4, <2>2, <2>5, <3>1, ZenonT(60) DEF RetryInv, Updating
    <3>5. QED BY <3>3, <3>4, ZenonT(60)
  <2>6. CertInv(r)' /\ RetryInv(r)'
    <3>1. CASE Exit(r)
      BY <3>1, ExitInv
    <3>2. CASE /\ pc'[r] = "load" /\ attempts'[r] = 1
               /\ target'[r] = "validating" /\ serving'[r] = serving[r]
      <4>1. CertInv(r)'
        BY <2>4, <3>2, ZenonT(60) DEF CertInv, Updating, Passed
      <4>2. RetryInv(r)'
        BY <2>2, <3>2 DEF RetryInv
      <4>3. QED BY <4>1, <4>2
    <3>3. QED BY <1>5, <3>1, <3>2, ZenonT(60)
  <2>7. QED BY <2>3, <2>5, <2>6, ZenonT(60)
<1>7. CASE read[r] # "current"
  <2>1. secret' = secret /\ BothValid(secret)
    BY <1>1, <1>4, <1>7 DEF SaveSecret, RetryInv
  <2>2. ASSUME NEW q \in Replica, q # r PROVE read'[q] = read[q]
    BY <1>7, <2>2 DEF SaveSecret, ReadsAfter
  <2>3. CertInv(r)' /\ RetryInv(r)'
    <3>1. CASE Exit(r)
      BY <3>1, ExitInv
    <3>2. CASE /\ pc'[r] = "load" /\ attempts'[r] = 1
               /\ target'[r] = "validating" /\ serving'[r] = serving[r]
      <4>1. CertInv(r)'
        BY <1>1, <1>4, <2>1, <3>2, ZenonT(60) DEF CertInv, Updating, Passed, InUse
      <4>2. RetryInv(r)'
        BY <1>1, <2>1, <3>2 DEF RetryInv, BothValid, Valid
      <4>3. QED BY <4>1, <4>2
    <3>3. QED BY <1>5, <3>1, <3>2, ZenonT(60)
  <2>4. \A q \in Replica : CertInv(q)' /\ RetryInv(q)'
    BY <1>1, <1>2, <1>4, <2>1, <2>2, <2>3, OthersUnmoved, ZenonT(60)
  <2>5. QED BY <1>4, <2>1, <2>4
<1>8. QED BY <1>6, <1>7

(* The Get of a webhook that is not in order.                               *)
LEMMA ReadStep ==
  ASSUME WebhooksTyped, WebhookInv, NEW r \in Replica, pc[r] = "check",
         overruns = 0 => ~InOrder(target[r]), ReadWebhook(r)
  PROVE  WebhookInv'
<1>1. /\ UNCHANGED <<now, secret, hook, target, attempts, draft, cert, serving, overruns, edits>>
      /\ pc'[r] = "write"
      /\ read'[r] = IF hook[target[r]] = None THEN "absent" ELSE "current"
  BY DEF ReadWebhook, cluster, WebhooksTyped
<1>2. Private(r)
  BY SMTT(30) DEF ReadWebhook, cluster, Private
<1>3. ASSUME overruns = 0 PROVE CertInv(r)' /\ RetryInv(r)'
  <2>1. CertInv(r) /\ RetryInv(r) /\ ~InOrder(target[r])
    BY <1>3 DEF WebhookInv
  <2>2. CertInv(r)'
    BY <1>1, <2>1 DEF CertInv, Updating, Passed, InUse, CheckCaBundle, BothValid, Valid
  <2>3. attempts[r] <= edits
    BY <2>1 DEF RetryInv
  <2>4. Accepted(r)'
    BY <1>1 DEF Accepted
  <2>5. RetryInv(r)'
    BY <1>1, <2>3, <2>4 DEF RetryInv
  <2>6. QED BY <2>2, <2>5
<1>4. QED BY <1>2, <1>3, PrivateStep

(* InstallValidating and InstallMutating: what r finds in order has the     *)
(* bundle of the secret.                                                    *)
LEMMA InstallStep ==
  ASSUME WebhooksTyped, WebhookInv, NEW r \in Replica, InstallValidating(r) \/ InstallMutating(r)
  PROVE  WebhookInv'
<1>1. pc[r] = "check"
  BY ZenonT(60) DEF InstallValidating, InstallMutating
<1>2. overruns = 0 => CertInv(r) /\ RetryInv(r) /\ cert[r].pair = secret
  BY <1>1 DEF WebhookInv, CertInv, Updating
<1>3. CASE ReadWebhook(r)
  <2>1. overruns = 0 => ~InOrder(target[r])
    BY <1>2, <1>3 DEF InstallValidating, InstallMutating, InOrder, ReadWebhook, WebhooksTyped
  <2>2. QED BY <1>1, <1>3, <2>1, ReadStep
<1>4. CASE InstallValidating(r) /\ ~ReadWebhook(r)
  <2>1. /\ target[r] = "validating" /\ CheckValidating(hook["validating"], cert[r].pair)
        /\ UNCHANGED <<now, secret, hook, pc, read, draft, cert, serving, overruns, edits>>
        /\ target'[r] = "mutating" /\ attempts'[r] = 0
    BY <1>4 DEF InstallValidating, cluster, WebhooksTyped
  <2>2. Private(r)
    BY <1>4, ZenonT(60) DEF InstallValidating, cluster, Private, WebhooksTyped
  <2>3. ASSUME overruns = 0 PROVE CertInv(r)' /\ RetryInv(r)'
    <3>1. CheckCaBundle(hook["validating"], secret)
      BY <1>2, <2>1, <2>3 DEF CheckValidating
    <3>2. CertInv(r)'
      BY <1>1, <1>2, <2>1, <2>3, <3>1, ZenonT(60)
      DEF CertInv, Updating, Passed, InUse, CheckCaBundle, BothValid, Valid
    <3>3. attempts'[r] <= edits' /\ pc'[r] = "check"
      BY <1>1, <2>1 DEF WebhooksTyped
    <3>4. RetryInv(r)'
      BY <3>3 DEF RetryInv
    <3>5. QED BY <3>2, <3>4
  <2>4. QED BY <2>2, <2>3, PrivateStep
<1>5. CASE InstallMutating(r) /\ ~ReadWebhook(r)
  <2>1. /\ target[r] = "mutating" /\ CheckMutating(hook["mutating"], cert[r].pair)
        /\ UNCHANGED <<now, secret, hook, target, read, attempts, draft, cert, serving, overruns, edits>>
        /\ pc'[r] = "start"
    BY <1>5 DEF InstallMutating, cluster, progress, WebhooksTyped
  <2>2. Private(r)
    BY <1>5 DEF InstallMutating, cluster, progress, Private, WebhooksTyped
  <2>3. ASSUME overruns = 0 PROVE CertInv(r)' /\ RetryInv(r)'
    <3>1. CheckCaBundle(hook["mutating"], secret)
      BY <1>2, <2>1, <2>3 DEF CheckMutating
    <3>2. hook["validating"] # None => CheckCaBundle(hook["validating"], secret)
      BY <1>1, <1>2, <2>1, <2>3, ZenonT(60) DEF CertInv, Passed, Hook
    <3>3. CertInv(r)'
      BY <1>1, <1>2, <2>1, <2>3, <3>1, <3>2, ZenonT(60)
      DEF CertInv, Updating, Passed, InUse, CheckCaBundle, BothValid, Valid, Hook
    <3>4. RetryInv(r)'
      BY <1>1, <1>2, <2>1, <2>3 DEF RetryInv, WebhooksTyped
    <3>5. QED BY <3>3, <3>4
  <2>4. QED BY <2>2, <2>3, PrivateStep
<1>6. QED BY <1>3, <1>4, <1>5

(* StartServer: the pair of the new certificate is the secret, and both     *)
(* webhooks have it.                                                        *)
LEMMA StartStep ==
  ASSUME WebhooksTyped, WebhookInv, NEW r \in Replica, StartServer(r)
  PROVE  WebhookInv'
<1>1. /\ pc[r] = "start" /\ pc'[r] = "serve" /\ serving'[r] = cert[r] /\ attempts'[r] = 0
      /\ target'[r] = "validating"
      /\ UNCHANGED <<now, secret, hook, read, draft, cert, overruns, edits>>
  BY DEF StartServer, cluster, WebhooksTyped
<1>2. Private(r)
  BY DEF StartServer, cluster, Private
<1>3. ASSUME overruns = 0 PROVE CertInv(r)' /\ RetryInv(r)'
  <2>1. CertInv(r) /\ cert[r].pair = secret /\ BothValid(secret) /\ Expiration(secret) <= cert[r].notAfter
    BY <1>1, <1>3 DEF WebhookInv, CertInv, Updating
  <2>2. now <= RenewTime(secret)
    BY <2>1, ValidInTime DEF WebhooksTyped
  <2>3. Best(secret) \in Slot
    BY DEF Best, Slot
  <2>4. \A v \in Hook : hook[v] # None => hook[v].bundle[Best(secret)] = secret[Best(secret)]
    BY <1>1, <2>1, <2>3 DEF CertInv, Passed, CheckCaBundle
  <2>5. InUse(cert[r])'
    BY <1>1, <2>1, <2>2, <2>4 DEF InUse
  <2>6. CertInv(r)'
    BY <1>1, <2>5, ZenonT(60) DEF CertInv, Updating, Passed
  <2>7. RetryInv(r)'
    BY <1>1 DEF RetryInv
  <2>8. QED BY <2>6, <2>7
<1>4. QED BY <1>2, <1>3, PrivateStep

(* A webhook in order is found so at the next look.                         *)
LEMMA CheckedAgain ==
  ASSUME NEW r, NEW v, pc'[r] = "check", target'[r] = v, InOrder(v)',
         attempts'[r] <= 1 + edits'
  PROVE  RetryInv(r)'
<1>1. InOrder(target[r])'
  BY DEF InOrder
<1>2. QED BY <1>1 DEF RetryInv

(* WriteWebhook: what is written is the secret's pair.  A write that is     *)
(* refused was overtaken by one that wrote the same, or by an edit.         *)
LEMMA WriteStep ==
  ASSUME WebhooksTyped, WebhookInv, NEW r \in Replica, WriteWebhook(r)
  PROVE  WebhookInv'
<1>0. PICK v \in Hook : v = target[r]
  BY DEF WebhooksTyped
<1>1. pc[r] = "write" /\ UNCHANGED <<now, secret, overruns, edits>> /\ Again(r, "check")
  BY DEF WriteWebhook
<1>2. ASSUME NEW q \in Replica, q # r
      PROVE  /\ pc'[q] = pc[q] /\ target'[q] = target[q] /\ attempts'[q] = attempts[q]
             /\ draft'[q] = draft[q] /\ cert'[q] = cert[q] /\ serving'[q] = serving[q]
  BY <1>1, <1>2 DEF Again, Exit, WebhooksTyped
<1>3. SUFFICES ASSUME overruns = 0
      PROVE \A q \in Replica : CertInv(q)' /\ RetryInv(q)'
  BY <1>1 DEF WebhookInv
<1>4. \A q \in Replica : CertInv(q) /\ RetryInv(q)
  BY <1>3 DEF WebhookInv
<1>5. Exit(r) \/ /\ pc'[r] = "check" /\ attempts'[r] = attempts[r] + 1
                 /\ target'[r] = v /\ serving'[r] = serving[r] /\ cert'[r] = cert[r]
  BY <1>0, <1>1, ZenonT(60) DEF Again, WebhooksTyped
<1>6. cert[r].pair = secret /\ attempts[r] <= edits
  BY <1>1, <1>4, ZenonT(60) DEF CertInv, RetryInv, Updating
<1>7. attempts[r] + 1 <= 1 + edits'
  BY <1>1, <1>6 DEF WebhooksTyped
<1>8. CASE Accepted(r)
  <2>1. hook' = [hook EXCEPT ![v] = Populate(v, secret)]
    BY <1>0, <1>6, <1>8 DEF WriteWebhook
  <2>2. hook'[v] # None /\ CheckCaBundle(hook'[v], secret) /\ \A u \in Hook \ {v} : hook'[u] = hook[u]
    <3>1. Populate(v, secret) \in Webhooks /\ CheckCaBundle(Populate(v, secret), secret)
      BY <1>6 DEF Populate, PopulateValidating, PopulateMutating, Webhooks, Rules, CheckCaBundle, WebhooksTyped
    <3>2. QED BY <1>6, <2>1, <3>1, NoneAssumption DEF WebhooksTyped
  <2>3. InOrder(v)'
    <3>1. hook'[v] = Populate(v, secret)
      BY <1>6, <2>1 DEF WebhooksTyped
    <3>2. CASE v = "validating"
      BY <1>1, <2>2, <3>1, <3>2 DEF InOrder, CheckValidating, CheckCaBundle, Populate, PopulateValidating
    <3>3. CASE v # "validating"
      BY <1>1, <2>2, <3>1, <3>3 DEF InOrder, CheckMutating, CheckCaBundle, Populate, PopulateMutating
    <3>4. QED BY <3>2, <3>3
  <2>4. ASSUME NEW q \in Replica, serving[q] # None, serving'[q] = serving[q]
        PROVE  InUse(serving[q])'
    <3> DEFINE p == serving[q].pair
    <3>1. InUse(serving[q])
      BY <1>4, <2>4, ZenonT(60) DEF CertInv
    <3>2. Best(p) \in Slot
      BY ZenonT(60) DEF Best, Slot
    <3>3. ASSUME NEW u \in Hook, hook'[u] # None, Staggered(p)
          PROVE  hook'[u].bundle[Best(p)] = p[Best(p)]
      BY <2>2, <3>1, <3>2, <3>3 DEF InUse, CheckCaBundle
    <3>4. QED BY <1>1, <2>4, <3>1, <3>3 DEF InUse
  <2>5. ASSUME NEW q \in Replica, q # r PROVE CertInv(q)' /\ RetryInv(q)'
    <3>1. pc[q] # "write" \/ target[q] # v => read'[q] = read[q]
      BY <1>0, <1>8, <2>5 DEF WriteWebhook, ReadsAfter, WritersOf
    <3>2. \A u \in Hook : Passed(q, u)' => Passed(q, u)
      BY <1>2, <2>5 DEF Passed
    <3>3. \A u \in Hook : Passed(q, u)' /\ hook'[u] # None => CheckCaBundle(hook'[u], secret)
      BY <1>4, <2>2, <3>2 DEF CertInv
    <3>4. CertInv(q)'
      <4>1. BothValid(secret)' = BothValid(secret) /\ Renewed(secret)' = Renewed(secret)
        BY <1>1 DEF BothValid, Valid, Renewed
      <4>2. pc[q] = "save" => read'[q] = read[q]
        BY <3>1
      <4>3. serving'[q] # None => InUse(serving[q])'
        BY <1>2, <2>4, <2>5
      <4>4. QED
        BY <1>1, <1>2, <1>4, <2>5, <3>3, <4>1, <4>2, <4>3, ZenonT(60) DEF CertInv, CheckCaBundle, Expiration
    <3>5. RetryInv(q)'
      <4>1. BothValid(secret)' = BothValid(secret)
        BY <1>1 DEF BothValid, Valid
      <4>2. CASE target[q] = v
        <5>1. InOrder(target[q])'
          BY <1>2, <2>3, <2>5, <4>2, ZenonT(60) DEF InOrder
        <5>2. QED
          BY <1>1, <1>2, <1>4, <2>5, <3>1, <4>1, <5>1, ZenonT(60) DEF RetryInv
      <4>3. CASE target[q] # v
        <5>1. read'[q] = read[q] /\ hook'[target[q]] = hook[target[q]]
          BY <2>2, <3>1, <4>3, ZenonT(60) DEF WebhooksTyped
        <5>2. target'[q] = target[q] /\ secret' = secret
          BY <1>1, <1>2, <2>5
        <5>3. InOrder(target[q])' <=> InOrder(target[q])
          BY <5>1, <5>2, ZenonT(60) DEF InOrder, CheckValidating, CheckMutating, CheckCaBundle
        <5>4. Accepted(q)' <=> Accepted(q)
          BY <5>1, <5>2 DEF Accepted
        <5>5. /\ RetryInv(q) /\ pc'[q] = pc[q] /\ attempts'[q] = attempts[q]
              /\ read'[q] = read[q] /\ edits' = edits
          BY <1>1, <1>2, <1>4, <2>5, <5>1, ZenonT(60)
        <5>6. QED
          BY <4>1, <5>3, <5>4, <5>5 DEF RetryInv
      <4>4. QED BY <4>2, <4>3
    <3>6. QED BY <3>4, <3>5
  <2>6. CertInv(r)' /\ RetryInv(r)'
    <3>1. CASE Exit(r)
      BY <3>1, ExitInv
    <3>2. CASE /\ pc'[r] = "check" /\ attempts'[r] = attempts[r] + 1
               /\ target'[r] = v /\ serving'[r] = serving[r] /\ cert'[r] = cert[r]
      <4>1. BothValid(secret)' = BothValid(secret) /\ CertInv(r)
        BY <1>1, <1>4 DEF BothValid, Valid
      <4>2. \A u \in Hook : Passed(r, u)' /\ hook'[u] # None => CheckCaBundle(hook'[u], secret)
        BY <1>0, <1>1, <2>2, <3>2, <4>1, ZenonT(60) DEF CertInv, Passed
      <4>3. CertInv(r)'
        BY <1>1, <2>4, <3>2, <4>1, <4>2, ZenonT(60) DEF CertInv, Updating, CheckCaBundle, Expiration
      <4>4. RetryInv(r)'
        BY <2>3, <3>2, <1>7, CheckedAgain, ZenonT(60)
      <4>5. QED BY <4>3, <4>4
    <3>3. QED BY <1>5, <3>1, <3>2, ZenonT(60)
  <2>7. QED BY <2>5, <2>6
<1>9. CASE ~Accepted(r)
  <2>1. hook' = hook /\ \A q \in Replica \ {r} : read'[q] = read[q]
    BY <1>9, ZenonT(60) DEF WriteWebhook, ReadsAfter
  <2>2. CertInv(r)' /\ RetryInv(r)'
    <3>1. CASE Exit(r)
      BY <3>1, ExitInv
    <3>2. CASE /\ pc'[r] = "check" /\ attempts'[r] = attempts[r] + 1
               /\ target'[r] = v /\ serving'[r] = serving[r] /\ cert'[r] = cert[r]
      <4>1. CertInv(r)'
        <5>1. CertInv(r) /\ BothValid(secret)' = BothValid(secret)
          BY <1>1, <1>4 DEF BothValid, Valid
        <5>2. \A u \in Hook : Passed(r, u)' /\ hook'[u] # None => CheckCaBundle(hook'[u], secret)
          BY <1>0, <1>1, <2>1, <3>2, <5>1, ZenonT(60) DEF CertInv, Passed
        <5>3. serving'[r] # None => InUse(serving[r])'
          BY <1>1, <2>1, <3>2, <5>1, ZenonT(60) DEF CertInv, InUse
        <5>4. QED
          BY <1>1, <3>2, <5>1, <5>2, <5>3 DEF CertInv, Updating, CheckCaBundle, Expiration
      <4>2. InOrder(v)' = InOrder(v) /\ (InOrder(v) \/ attempts[r] + 1 <= edits)
        BY <1>0, <1>1, <1>4, <1>9, <2>1, <3>2, ZenonT(60)
        DEF RetryInv, InOrder, CheckValidating, CheckMutating, CheckCaBundle
      <4>3. ASSUME InOrder(v) PROVE RetryInv(r)'
        BY <1>7, <3>2, <4>2, <4>3, CheckedAgain, ZenonT(60)
      <4>4. ASSUME attempts[r] + 1 <= edits PROVE RetryInv(r)'
        <5>1. pc'[r] = "check" /\ attempts'[r] <= edits'
          BY <1>1, <3>2, <4>4
        <5>2. QED BY <5>1 DEF RetryInv
      <4>5. QED BY <4>1, <4>2, <4>3, <4>4, ZenonT(60)
    <3>3. QED BY <1>5, <3>1, <3>2
  <2>3. QED BY <1>1, <1>2, <1>4, <2>1, <2>2, OthersUnmoved, ZenonT(60)
<1>10. QED BY <1>8, <1>9

(* EditWebhook takes no bundle away that is not replaced by a fresh one,    *)
(* and every attempt it costs is counted in edits.                          *)
LEMMA EditStep ==
  ASSUME WebhooksTyped, WebhookInv, NEW v \in Hook, EditWebhook(v)
  PROVE  WebhookInv'
<1>1. /\ UNCHANGED <<now, secret, pc, target, attempts, draft, cert, serving, overruns>>
      /\ edits' = edits + 1 /\ hook[v] # None
  BY DEF EditWebhook
<1>2. \A u \in Hook : hook'[u] # None => hook[u] # None /\ hook'[u].bundle = hook[u].bundle
  BY DEF EditWebhook
<1>3. \A q \in Replica : pc[q] # "write" => read'[q] = read[q]
  BY DEF EditWebhook, WritersOf
<1>4. SUFFICES ASSUME overruns = 0, NEW q \in Replica, CertInv(q), RetryInv(q)
      PROVE  CertInv(q)' /\ RetryInv(q)'
  BY <1>1 DEF WebhookInv
<1>5. BothValid(secret)' = BothValid(secret) /\ Renewed(secret)' = Renewed(secret)
  BY <1>1 DEF BothValid, Valid, Renewed
<1>6. CertInv(q)'
  <2>1. serving[q] # None => InUse(serving[q])'
    BY <1>1, <1>2, <1>4, ZenonT(60) DEF CertInv, InUse
  <2>2. \A u \in Hook : Passed(q, u)' /\ hook'[u] # None => CheckCaBundle(hook'[u], secret)
    BY <1>1, <1>2, <1>4, ZenonT(60) DEF CertInv, Passed, CheckCaBundle
  <2>3. QED
    BY <1>1, <1>3, <1>4, <1>5, <2>1, <2>2, ZenonT(60) DEF CertInv, CheckCaBundle, Expiration
<1>7. RetryInv(q)'
  BY <1>1, <1>3, <1>4, <1>5 DEF RetryInv, WebhooksTyped
<1>8. QED BY <1>6, <1>7

(* Tick: between updates, no certificate in use is past its renewal.        *)
LEMMA TickStep ==
  ASSUME WebhooksTyped, WebhookInv, Tick
  PROVE  WebhookInv'
<1>1. now' = now + 1 /\ UNCHANGED <<secret, hook, pc, target, read, attempts, draft, cert, serving, edits>>
  BY ZenonT(60) DEF Tick, progress
<1>2. SUFFICES ASSUME overruns' = 0
      PROVE /\ \A s \in Slot : secret'[s] <= now' + Lifetime
            /\ \A q \in Replica : CertInv(q)' /\ RetryInv(q)'
  BY DEF WebhookInv
<1>3. overruns = 0 /\ \A q \in Replica : pc[q] \in Settled
  BY <1>2 DEF Tick, WebhooksTyped
<1>4. ASSUME NEW s \in Slot PROVE secret'[s] <= now' + Lifetime
  <2>1. secret[s] \in Nat /\ secret[s] <= now + Lifetime
    BY <1>3 DEF WebhookInv, Pairs, WebhooksTyped
  <2>2. QED BY <1>1, <2>1, TimesAssumption DEF WebhooksTyped
<1>5. ASSUME NEW q \in Replica PROVE CertInv(q)' /\ RetryInv(q)'
  <2>1. CertInv(q) /\ RetryInv(q) /\ pc[q] \in {"down", "serve"}
    BY <1>3 DEF WebhookInv, Settled
  <2>2. ASSUME serving[q] # None PROVE InUse(serving[q])'
    <3>1. pc[q] = "serve" /\ InUse(serving[q]) /\ serving[q] = cert[q] /\ cert[q].pair \in Pairs
      BY <2>1, <2>2, ZenonT(60) DEF CertInv, Certs, WebhooksTyped
    <3>2. now < RenewTime(cert[q].pair) /\ RenewTime(cert[q].pair) \in Int
      BY <3>1, TimesAssumption, SMTT(30) DEF Tick, RenewTime, Expiration, Pairs, Slot
    <3>3. now' <= RenewTime(serving[q].pair)
      BY <1>1, <3>1, <3>2 DEF WebhooksTyped
    <3>4. QED BY <1>1, <3>1, <3>3, ZenonT(60) DEF InUse
  <2>3. CertInv(q)'
    BY <1>1, <2>1, <2>2, ZenonT(60) DEF CertInv, Updating, Passed
  <2>4. RetryInv(q)'
    BY <1>1, <2>1, ZenonT(60) DEF RetryInv
  <2>5. QED BY <2>3, <2>4
<1>6. QED BY <1>4, <1>5

(* WebhookInv is inductive. *)
LEMMA WebhookStep ==
  ASSUME WebhooksTyped, WebhookInv, [NextWebhooks]_wvars
  PROVE  WebhookInv'
<1>1. ASSUME NEW r \in Replica, StopReplica(r) PROVE WebhookInv'
  <2>1. Private(r)
    BY <1>1 DEF StopReplica, Exit, cluster, Private, WebhooksTyped
  <2>2. CertInv(r)' /\ RetryInv(r)'
    BY <1>1, ExitInv DEF StopReplica
  <2>3. QED BY <2>1, <2>2, PrivateStep
<1>2. CASE UNCHANGED wvars
  <2>1. SUFFICES ASSUME overruns = 0, NEW q \in Replica, CertInv(q), RetryInv(q)
        PROVE  CertInv(q)' /\ RetryInv(q)'
    BY <1>2 DEF WebhookInv, wvars
  <2>2. QED BY <1>2, <2>1, OthersUnmoved, ZenonT(60) DEF wvars
<1>3. QED
  BY <1>1, <1>2, UpdateBegins, LoadStep, SaveStep, InstallStep, WriteStep, StartStep, EditStep, TickStep
  DEF NextWebhooks, UpdateStep

(* No replica runs and nothing is installed at first. *)
LEMMA WebhookInit ==
  ASSUME InitWebhooks
  PROVE  WebhooksTyped /\ WebhookInv
<1>1. NoPair \in Pairs /\ NoCert \in Certs
  BY DEF NoPair, Pairs, NoCert, Certs
<1>2. WebhooksTyped
  BY <1>1 DEF InitWebhooks, WebhooksTyped, Hook, Settled
<1>3. ASSUME NEW r \in Replica PROVE CertInv(r) /\ RetryInv(r)
  BY DEF InitWebhooks, CertInv, RetryInv, Updating, Passed
<1>4. \A s \in Slot : secret[s] <= now + Lifetime
  BY TimesAssumption DEF InitWebhooks, NoPair
<1>5. QED BY <1>2, <1>3, <1>4 DEF WebhookInv
-----------------------------------------------------------------------------
(* Both invariants hold of every behaviour of the webhook managers.         *)
THEOREM WebhooksInvariant == WebhookSpec => [](WebhooksTyped /\ WebhookInv)
<1>1. InitWebhooks => WebhooksTyped /\ WebhookInv
  BY WebhookInit
<1>2. (WebhooksTyped /\ WebhookInv) /\ [NextWebhooks]_wvars => (WebhooksTyped /\ WebhookInv)'
  BY TypedStep, WebhookStep
<1>3. QED BY <1>1, <1>2, PTL DEF WebhookSpec

(* A running server with a certificate from a staggered pair is trusted by  *)
(* the API server through both webhooks, at every step of any number of     *)
(* replicas that start, renew, conflict, crash and come back, for any       *)
(* lengths that leave room for the stagger and the two leads.               *)
THEOREM ServersStayTrusted == WebhookSpec => []ServingTrusted
<1>1. WebhooksTyped /\ WebhookInv => ServingTrusted
  <2>1. SUFFICES ASSUME WebhooksTyped, WebhookInv, overruns = 0, NEW r \in Replica,
                        serving[r] # None, Staggered(serving[r].pair)
        PROVE  LET p == serving[r].pair  s == Best(p) IN
               /\ now < p[s] /\ now < serving[r].notAfter
               /\ \A v \in Hook : hook[v] # None => hook[v].bundle[s] = p[s]
    BY DEF ServingTrusted
  <2> DEFINE p == serving[r].pair
  <2>2. InUse(serving[r]) /\ p \in Pairs /\ serving[r].notAfter \in Nat /\ now \in Nat
    BY <2>1, ZenonT(60) DEF WebhookInv, CertInv, WebhooksTyped, Certs
  <2>3. now < p[Best(p)]
    BY <2>1, <2>2, BestOutlives DEF InUse
  <2>4. now < serving[r].notAfter
    BY <2>2, TimesAssumption DEF InUse, RenewTime, Expiration, Pairs, Slot
  <2>5. QED BY <2>1, <2>2, <2>3, <2>4 DEF InUse
<1>2. QED BY <1>1, WebhooksInvariant, PTL

(* No loop of LoadCACertificates or InstallWebhooks goes round more often   *)
(* than once more than an administrator has edited a webhook, whatever the  *)
(* number of replicas: conflicts between replicas cost one attempt at most. *)
THEOREM ConflictsCostOneAttempt == WebhookSpec => []RetriesSuffice
<1>1. WebhooksTyped /\ WebhookInv => RetriesSuffice
  BY DEF WebhooksTyped, WebhookInv, RetryInv, RetriesSuffice, Settled
<1>2. QED BY <1>1, WebhooksInvariant, PTL
=============================================================================
