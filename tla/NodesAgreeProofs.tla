--------------------------- MODULE NodesAgreeProofs ---------------------------
(***************************************************************************)
(* The steps of ContextNodes, for any nodes and foreign pods, and any       *)
(* number of changes of the cluster and of rejections by the core: each     *)
(* keeps the invariant behind the agreement of cache and core on the nodes. *)
(* NodesProofs draws the conclusions.                                       *)
(***************************************************************************)
EXTENDS NodesTypeProofs
-----------------------------------------------------------------------------
(* The scheduler cache and the core agree on the nodes.  Queues are         *)
(* described by what is in them and in which order.                         *)
Sent(s, m) == \E i \in DOMAIN s : s[i] = m
Follows(s, a, b) == \E i, j \in DOMAIN s : i < j /\ s[i] = a /\ s[j] = b
(* After the last b, if there is one, there is an a.                        *)
Over(s, a, b) == \E i \in DOMAIN s : s[i] = a /\ \A j \in DOMAIN s : i < j => s[j] # b

CreateOf(n) == Req("create", n)
Enable(n) == Req("enable", n)
Drain(n) == Req("drain", n)
Decommission(n) == Req("decommission", n)
Accept(n) == [name |-> "NodeAccepted", node |-> n]
Reject(n) == [name |-> "NodeRejected", node |-> n]

(* The core has the node for good; it will schedule on the node, or not.    *)
Exists(n) == coreNode[n] # "none" /\ ~Sent(toCore, Decommission(n))
WillBe(n, obj) ==
  \/ obj = "ready" /\ (Over(toCore, Enable(n), Drain(n)) \/ (coreNode[n] = "schedulable" /\ ~Sent(toCore, Drain(n))))
  \/ obj = "cordoned" /\ (Over(toCore, Drain(n), Enable(n)) \/ (coreNode[n] = "draining" /\ ~Sent(toCore, Enable(n))))
(* Just accepted, and nothing said about it since.                          *)
Fresh(n) == coreNode[n] = "draining" /\ ~Sent(toCore, Enable(n)) /\ ~Sent(toCore, Drain(n))
AbsentComing(n) == Sent(nodeQueue, NodeEv(n, "absent"))
(* The core will be told to drop a node it was asked to create.             *)
Leaves(n) == going = n \/ Follows(toCore, CreateOf(n), Decommission(n))
Rejected(n) == inf.at = "waiting" /\ inf.node = n /\ (Sent(events, Reject(n)) \/ n \notin pending \cup accepted)

(* One request and one answer per registration.                             *)
RegInv ==
  /\ pending \cap accepted = {}
  /\ inf.at = "waiting" => pending \cup accepted \subseteq {inf.node}
  /\ pending # {} => inf.at = "waiting" \/ init = "add"
  /\ \A n \in Node :
       /\ Sent(toCore, CreateOf(n)) =>
            n \in pending /\ ~Sent(events, Accept(n)) /\ ~Sent(events, Reject(n)) /\ ~Follows(toCore, CreateOf(n), CreateOf(n))
       /\ Sent(events, Accept(n)) =>
            n \in pending /\ ~Sent(events, Reject(n)) /\ ~Follows(events, Accept(n), Accept(n))
       /\ Sent(events, Reject(n)) => n \in pending /\ ~Follows(events, Reject(n), Reject(n))

(* InitializeState up to the event handlers.                                *)
StartInv ==
  /\ init \in {"load", "register"} => toCore = << >> /\ \A n \in Node : coreNode[n] = "none"
  /\ init = "add" => \A n \in Node :
       /\ ~Sent(toCore, Enable(n)) /\ ~Sent(toCore, Drain(n)) /\ ~Sent(toCore, Decommission(n))
       /\ coreNode[n] = IF n \in accepted \/ Sent(events, Accept(n)) THEN "draining" ELSE "none"
  /\ init \in {"list", "pods"} => \A n \in Node : cacheNode[n] = IF n \in accepted THEN loaded[n] ELSE None

(* What finalizeNodes removes is gone, and the last event of a node that is *)
(* gone says so.                                                            *)
GoneInv ==
  /\ init = "removeNodes" => \A n \in todo : apiNode[n] = "absent"
  /\ going # None => apiNode[going] = "absent"
  /\ "node" \notin handlers => nodeQueue = << >>
  /\ \A n \in Node, obj \in {"ready", "cordoned"} :
       apiNode[n] = "absent" /\ Sent(nodeQueue, NodeEv(n, obj)) => Over(nodeQueue, NodeEv(n, "absent"), NodeEv(n, obj))
  /\ inf.at # "idle" => cacheNode[inf.node] \in {None, inf.obj}

(* A node the core is asked to create: it is rejected if the core still has *)
(* it, and then dropped.                                                    *)
Asked(n) ==
  /\ ~Follows(toCore, CreateOf(n), Enable(n)) /\ ~Follows(toCore, CreateOf(n), Drain(n))
  /\ coreNode[n] # "none" /\ ~Follows(toCore, Decommission(n), CreateOf(n)) => Leaves(n)
  /\ cacheNode[n] = None => Leaves(n)
  /\ cacheNode[n] # None /\ Leaves(n) => AbsentComing(n)
(* Any other node: who of cache and core has it, the other has it too or    *)
(* will be told.                                                            *)
Settled(n) ==
  /\ cacheNode[n] = None \/ Rejected(n) => ~Exists(n) \/ going = n
  /\ cacheNode[n] # None /\ ~Rejected(n) =>
       \/ AbsentComing(n)
       \/ Exists(n) /\ going # n /\ IF inf.node = n THEN Fresh(n) ELSE WillBe(n, cacheNode[n])
NodeOK(n) == IF Sent(toCore, CreateOf(n)) THEN Asked(n) ELSE Settled(n)
AgreeInv == init \notin {"load", "register", "add"} => \A n \in Node : NodeOK(n)

Told == RegInv /\ StartInv /\ GoneInv /\ AgreeInv

(* The requests and answers about a node, and what a step leaves of them.   *)
Msgs(n) == {CreateOf(n), Enable(n), Drain(n), Decommission(n)}
SameMessages(n) ==
  \A a, b \in Msgs(n) :
    /\ Sent(toCore', a) <=> Sent(toCore, a)
    /\ Follows(toCore', a, b) <=> Follows(toCore, a, b)
    /\ Over(toCore', a, b) <=> Over(toCore, a, b)
SameAnswers(n) ==
  \A a \in {Accept(n), Reject(n)} :
    (Sent(events', a) <=> Sent(events, a)) /\ (Follows(events', a, a) <=> Follows(events, a, a))

LEMMA QueueAppend ==
  ASSUME NEW S, NEW s \in Seq(S), NEW x, NEW a, NEW b
  PROVE  /\ Sent(Append(s, x), a) <=> Sent(s, a) \/ x = a
         /\ Follows(Append(s, x), a, b) <=> Follows(s, a, b) \/ (Sent(s, a) /\ x = b)
         /\ Over(Append(s, x), a, b) <=> x = a \/ (x # b /\ Over(s, a, b))
<1> DEFINE t == Append(s, x)
<1>1. /\ DOMAIN s = 1 .. Len(s) /\ DOMAIN t = 1 .. Len(s) + 1 /\ Len(s) \in Nat
      /\ t[Len(s) + 1] = x /\ \A i \in 1 .. Len(s) : t[i] = s[i]
  OBVIOUS
<1> HIDE DEF t
<1>2. Sent(t, a) <=> Sent(s, a) \/ x = a
  BY <1>1 DEF Sent
<1>3. Follows(t, a, b) <=> Follows(s, a, b) \/ (Sent(s, a) /\ x = b)
  BY <1>1 DEF Sent, Follows
<1>4. Over(t, a, b) <=> x = a \/ (x # b /\ Over(s, a, b))
  <2>1. ASSUME x = a PROVE Over(t, a, b)
    <3>1. Len(s) + 1 \in DOMAIN t /\ t[Len(s) + 1] = a /\ \A j \in DOMAIN t : ~(Len(s) + 1 < j)
      BY <1>1, <2>1
    <3> QED BY <3>1 DEF Over
  <2>2. ASSUME x # b, Over(s, a, b) PROVE Over(t, a, b)
    <3>1. PICK i \in 1 .. Len(s) : s[i] = a /\ \A j \in 1 .. Len(s) : i < j => s[j] # b
      BY <1>1, <2>2 DEF Over
    <3>2. i \in DOMAIN t /\ t[i] = a /\ \A j \in DOMAIN t : i < j => t[j] # b
      BY <1>1, <2>2, <3>1
    <3> QED BY <3>2 DEF Over
  <2>3. ASSUME Over(t, a, b), x # a PROVE x # b /\ Over(s, a, b)
    <3>1. PICK i \in 1 .. Len(s) + 1 : t[i] = a /\ \A j \in 1 .. Len(s) + 1 : i < j => t[j] # b
      BY <1>1, <2>3 DEF Over
    <3>2. i \in 1 .. Len(s) /\ x # b
      BY <1>1, <2>3, <3>1
    <3>3. i \in DOMAIN s /\ s[i] = a /\ \A j \in DOMAIN s : i < j => s[j] # b
      BY <1>1, <3>1, <3>2
    <3> QED BY <3>2, <3>3 DEF Over
  <2> QED BY <2>1, <2>2, <2>3
<1> QED BY <1>2, <1>3, <1>4 DEF t

LEMMA QueueTail ==
  ASSUME NEW S, NEW s \in Seq(S), s # << >>, NEW a, NEW b
  PROVE  /\ Sent(s, a) <=> Head(s) = a \/ Sent(Tail(s), a)
         /\ Follows(s, a, b) <=> Follows(Tail(s), a, b) \/ (Head(s) = a /\ Sent(Tail(s), b))
         /\ Over(s, a, b) <=> Over(Tail(s), a, b) \/ (Head(s) = a /\ ~Sent(Tail(s), b))
<1> DEFINE t == Tail(s)
           h == Head(s)
<1>1. /\ DOMAIN s = 1 .. Len(s) /\ DOMAIN t = 1 .. Len(s) - 1 /\ Len(s) \in Nat \ {0}
      /\ s[1] = h /\ \A i \in 1 .. Len(s) - 1 : t[i] = s[i + 1]
  OBVIOUS
<1> HIDE DEF t, h
<1>2. \A i \in 1 .. Len(s) : i = 1 \/ (i - 1 \in 1 .. Len(s) - 1 /\ s[i] = t[i - 1])
  BY <1>1
<1>3. Sent(s, a) <=> h = a \/ Sent(t, a)
  <2>1. ASSUME NEW i \in 1 .. Len(s) - 1, t[i] = a PROVE Sent(s, a)
    <3>1. i + 1 \in DOMAIN s /\ s[i + 1] = a
      BY <1>1, <2>1
    <3> QED BY <3>1 DEF Sent
  <2>2. h = a => Sent(s, a)
    BY <1>1 DEF Sent
  <2>3. Sent(s, a) => h = a \/ Sent(t, a)
    BY <1>1, <1>2 DEF Sent
  <2> QED BY <1>1, <2>1, <2>2, <2>3 DEF Sent
<1>4. Follows(s, a, b) <=> Follows(t, a, b) \/ (h = a /\ Sent(t, b))
  <2>1. ASSUME Follows(s, a, b) PROVE Follows(t, a, b) \/ (h = a /\ Sent(t, b))
    <3>1. PICK i, j \in 1 .. Len(s) : i < j /\ s[i] = a /\ s[j] = b
      BY <1>1, <2>1 DEF Follows
    <3> QED BY <1>1, <1>2, <3>1, SMTT(30) DEF Follows, Sent
  <2>2. ASSUME Follows(t, a, b) PROVE Follows(s, a, b)
    <3>1. PICK i, j \in 1 .. Len(s) - 1 : i < j /\ t[i] = a /\ t[j] = b
      BY <1>1, <2>2 DEF Follows
    <3>2. i + 1 \in DOMAIN s /\ j + 1 \in DOMAIN s /\ i + 1 < j + 1 /\ s[i + 1] = a /\ s[j + 1] = b
      BY <1>1, <3>1
    <3> QED BY <3>2 DEF Follows
  <2>3. ASSUME h = a, Sent(t, b) PROVE Follows(s, a, b)
    <3>1. PICK j \in 1 .. Len(s) - 1 : t[j] = b
      BY <1>1, <2>3 DEF Sent
    <3>2. 1 \in DOMAIN s /\ j + 1 \in DOMAIN s /\ 1 < j + 1 /\ s[1] = a /\ s[j + 1] = b
      BY <1>1, <2>3, <3>1
    <3> QED BY <3>2 DEF Follows
  <2> QED BY <2>1, <2>2, <2>3
<1>5. Over(s, a, b) <=> Over(t, a, b) \/ (h = a /\ ~Sent(t, b))
  <2>1. ASSUME Over(s, a, b) PROVE Over(t, a, b) \/ (h = a /\ ~Sent(t, b))
    <3>1. PICK i \in 1 .. Len(s) : s[i] = a /\ \A j \in 1 .. Len(s) : i < j => s[j] # b
      BY <1>1, <2>1 DEF Over
    <3>2. CASE i = 1
      BY <1>1, <3>1, <3>2 DEF Sent
    <3>3. CASE i # 1
      <4>1. i - 1 \in DOMAIN t /\ t[i - 1] = a
        BY <1>1, <1>2, <3>1, <3>3
      <4>2. \A j \in DOMAIN t : i - 1 < j => t[j] # b
        BY <1>1, <3>1, <3>3
      <4> QED BY <4>1, <4>2 DEF Over
    <3> QED BY <3>2, <3>3
  <2>2. ASSUME Over(t, a, b) PROVE Over(s, a, b)
    <3>1. PICK i \in 1 .. Len(s) - 1 : t[i] = a /\ \A j \in 1 .. Len(s) - 1 : i < j => t[j] # b
      BY <1>1, <2>2 DEF Over
    <3>2. i + 1 \in DOMAIN s /\ s[i + 1] = a
      BY <1>1, <3>1
    <3>3. \A j \in DOMAIN s : i + 1 < j => s[j] # b
      BY <1>1, <1>2, <3>1
    <3> QED BY <3>2, <3>3 DEF Over
  <2>3. ASSUME h = a, ~Sent(t, b) PROVE Over(s, a, b)
    <3>1. 1 \in DOMAIN s /\ s[1] = a
      BY <1>1, <2>3
    <3>2. \A j \in DOMAIN s : 1 < j => s[j] # b
      BY <1>1, <1>2, <2>3 DEF Sent
    <3> QED BY <3>1, <3>2 DEF Over
  <2> QED BY <2>1, <2>2, <2>3
<1> QED BY <1>3, <1>4, <1>5 DEF t, h

(* A batch of requests, none of which is the b of Over.                     *)
LEMMA QueueBatch ==
  ASSUME NEW S, NEW s \in Seq(S), NEW t \in Seq(S), NEW a, NEW b
  PROVE  /\ Sent(s \o t, a) <=> Sent(s, a) \/ Sent(t, a)
         /\ Follows(s \o t, a, b) => Follows(s, a, b) \/ Sent(t, b)
         /\ Follows(s, a, b) => Follows(s \o t, a, b)
         /\ ~Sent(t, b) => (Over(s \o t, a, b) <=> Over(s, a, b) \/ Sent(t, a))
<1> DEFINE u == s \o t
           m == Len(s)
           k == Len(t)
<1>1. /\ DOMAIN s = 1 .. m /\ DOMAIN t = 1 .. k /\ DOMAIN u = 1 .. m + k /\ m \in Nat /\ k \in Nat
      /\ \A i \in 1 .. m : u[i] = s[i]
      /\ \A i \in 1 .. k : u[m + i] = t[i]
  OBVIOUS
<1> HIDE DEF u, m, k
<1>2. \A i \in 1 .. m + k : i \in 1 .. m \/ (i - m \in 1 .. k /\ u[i] = t[i - m])
  <2> SUFFICES ASSUME NEW i \in 1 .. m + k, i \notin 1 .. m PROVE i - m \in 1 .. k /\ u[i] = t[i - m]
    OBVIOUS
  <2>1. i - m \in 1 .. k /\ m + (i - m) = i
    BY <1>1
  <2> QED BY <1>1, <2>1
<1>3. Sent(u, a) <=> Sent(s, a) \/ Sent(t, a)
  <2>1. ASSUME NEW i \in 1 .. k, t[i] = a PROVE Sent(u, a)
    <3>1. m + i \in DOMAIN u /\ u[m + i] = a
      BY <1>1, <2>1
    <3> QED BY <3>1 DEF Sent
  <2>2. ASSUME Sent(s, a) PROVE Sent(u, a)
    BY <1>1, <2>2 DEF Sent
  <2>3. ASSUME Sent(u, a) PROVE Sent(s, a) \/ Sent(t, a)
    BY <1>1, <1>2, <2>3 DEF Sent
  <2> QED BY <1>1, <2>1, <2>2, <2>3 DEF Sent
<1>4. Follows(u, a, b) => Follows(s, a, b) \/ Sent(t, b)
  <2> SUFFICES ASSUME NEW i \in 1 .. m + k, NEW j \in 1 .. m + k, i < j, u[i] = a, u[j] = b, ~Sent(t, b) PROVE Follows(s, a, b)
    BY <1>1 DEF Follows
  <2>1. j \in 1 .. m
    BY <1>1, <1>2, ZenonT(60) DEF Sent
  <2>2. i \in DOMAIN s /\ j \in DOMAIN s /\ s[i] = a /\ s[j] = b
    BY <1>1, <2>1
  <2> QED BY <2>2 DEF Follows
<1>5. Follows(s, a, b) => Follows(u, a, b)
  BY <1>1 DEF Follows
<1>6. ASSUME ~Sent(t, b) PROVE Over(u, a, b) <=> Over(s, a, b) \/ Sent(t, a)
  <2>1. ASSUME NEW i \in 1 .. k, t[i] = a PROVE Over(u, a, b)
    <3>1. m + i \in DOMAIN u /\ u[m + i] = a
      BY <1>1, <2>1
    <3>2. \A j \in DOMAIN u : m + i < j => u[j] # b
      BY <1>1, <1>2, <1>6, SMTT(30) DEF Sent
    <3> QED BY <3>1, <3>2 DEF Over
  <2>2. ASSUME Over(s, a, b) PROVE Over(u, a, b)
    <3>1. PICK i \in 1 .. m : s[i] = a /\ \A j \in 1 .. m : i < j => s[j] # b
      BY <1>1, <2>2 DEF Over
    <3>2. i \in DOMAIN u /\ u[i] = a
      BY <1>1, <3>1
    <3>3. \A j \in DOMAIN u : i < j => u[j] # b
      BY <1>1, <1>2, <1>6, <3>1, ZenonT(60) DEF Sent
    <3> QED BY <3>2, <3>3 DEF Over
  <2>3. ASSUME Over(u, a, b), ~Sent(t, a) PROVE Over(s, a, b)
    <3>1. PICK i \in 1 .. m + k : u[i] = a /\ \A j \in 1 .. m + k : i < j => u[j] # b
      BY <1>1, <2>3, ZenonT(60) DEF Over
    <3>2. i \in 1 .. m
      BY <1>1, <1>2, <2>3, <3>1, ZenonT(60) DEF Sent
    <3>3. i \in DOMAIN s /\ s[i] = a /\ \A j \in DOMAIN s : i < j => s[j] # b
      BY <1>1, <3>1, <3>2
    <3> QED BY <3>3 DEF Over
  <2> QED BY <1>1, <2>1, <2>2, <2>3 DEF Sent
<1> QED BY <1>3, <1>4, <1>5, <1>6 DEF u

LEMMA ReqsDiffer ==
  ASSUME NEW a, NEW b, NEW x, NEW y, Req(a, x) = Req(b, y)
  PROVE  a = b /\ x = y
<1>1. Req(a, x).type = a /\ Req(b, y).type = b /\ Req(a, x).of = x /\ Req(b, y).of = y
  BY DEF Req
<1> QED BY <1>1

(* Steps that say nothing about the node leave its requests alone.          *)
LEMMA Unsaid ==
  ASSUME toCore \in ToCore, NEW n, NEW x, x \notin Msgs(n),
         \/ toCore' = toCore
         \/ toCore' = Append(toCore, x)
         \/ toCore # << >> /\ Head(toCore) = x /\ toCore' = Tail(toCore)
  PROVE  SameMessages(n)
<1> SUFFICES ASSUME NEW a \in Msgs(n), NEW b \in Msgs(n)
             PROVE  /\ Sent(toCore', a) <=> Sent(toCore, a)
                    /\ Follows(toCore', a, b) <=> Follows(toCore, a, b)
                    /\ Over(toCore', a, b) <=> Over(toCore, a, b)
  BY DEF SameMessages
<1>1. x # a /\ x # b
  OBVIOUS
<1>2. CASE toCore' = toCore
  BY <1>2
<1>3. CASE toCore' = Append(toCore, x)
  BY <1>1, <1>3, QueueAppend DEF ToCore
<1>4. CASE toCore # << >> /\ Head(toCore) = x /\ toCore' = Tail(toCore)
  BY <1>1, <1>4, QueueTail DEF ToCore
<1> QED BY <1>2, <1>3, <1>4

LEMMA SameNode ==
  ASSUME NEW n \in Node, NodeOK(n), SameMessages(n), cacheNode'[n] = cacheNode[n], coreNode'[n] = coreNode[n],
         going' = n <=> going = n, AbsentComing(n) => AbsentComing(n)', Rejected(n)' <=> Rejected(n), inf'.node = n <=> inf.node = n
  PROVE  NodeOK(n)'
<1> DEFINE c == CreateOf(n)
           e == Enable(n)
           d == Drain(n)
           x == Decommission(n)
<1>1. c \in Msgs(n) /\ e \in Msgs(n) /\ d \in Msgs(n) /\ x \in Msgs(n)
  BY ZenonT(60) DEF Msgs
<1>2. /\ Sent(toCore', c) <=> Sent(toCore, c)
      /\ Sent(toCore', e) <=> Sent(toCore, e)
      /\ Sent(toCore', d) <=> Sent(toCore, d)
      /\ Sent(toCore', x) <=> Sent(toCore, x)
      /\ Follows(toCore', c, e) <=> Follows(toCore, c, e)
      /\ Follows(toCore', c, d) <=> Follows(toCore, c, d)
      /\ Follows(toCore', c, x) <=> Follows(toCore, c, x)
      /\ Follows(toCore', x, c) <=> Follows(toCore, x, c)
      /\ Over(toCore', e, d) <=> Over(toCore, e, d)
      /\ Over(toCore', d, e) <=> Over(toCore, d, e)
  BY <1>1, Zenon DEF SameMessages
<1> HIDE DEF c, e, d, x
<1>3. (Leaves(n)' <=> Leaves(n)) /\ (Exists(n)' <=> Exists(n)) /\ (Fresh(n)' <=> Fresh(n))
  BY <1>2, ZenonT(60) DEF Leaves, Exists, Fresh, c, e, d, x
<1>4. WillBe(n, cacheNode[n])' <=> WillBe(n, cacheNode[n])
  BY <1>2, ZenonT(60) DEF WillBe, e, d
<1>5. Asked(n) => Asked(n)'
  BY <1>2, <1>3, ZenonT(60) DEF Asked, c, e, d, x
<1>6. Settled(n) => Settled(n)'
  BY <1>3, <1>4, ZenonT(60) DEF Settled
<1> QED BY <1>2, <1>5, <1>6, ZenonT(60) DEF NodeOK, c

(* A step that touches neither nodes, nor what is said about them, nor who  *)
(* is at work on them.                                                      *)
LEMMA NodesAside ==
  ASSUME Told, UNCHANGED <<apiNode, nodeQueue, cacheNode, loaded, going, regVars, coreNode>>, handlers \subseteq handlers',
         inf'.at = inf.at, inf'.node = inf.node, inf'.obj = inf.obj,
         \A n \in Node : SameMessages(n) /\ SameAnswers(n),
         init' \in {"load", "register"} => init \in {"load", "register"} /\ toCore' = toCore,
         init' = "add" <=> init = "add",
         init' \in {"list", "pods"} => init \in {"list", "pods"},
         init' \notin {"load", "register", "add"} => init \notin {"load", "register", "add"},
         init' = "removeNodes" => \A n \in todo' : apiNode[n] = "absent"
  PROVE  Told'
<1>0. pending' = pending /\ accepted' = accepted /\ RegInv /\ StartInv /\ GoneInv /\ AgreeInv
  BY ZenonT(60) DEF regVars, Told
<1>1. \A n \in Node :
        /\ Sent(toCore', CreateOf(n)) <=> Sent(toCore, CreateOf(n))
        /\ Sent(toCore', Enable(n)) <=> Sent(toCore, Enable(n))
        /\ Sent(toCore', Drain(n)) <=> Sent(toCore, Drain(n))
        /\ Sent(toCore', Decommission(n)) <=> Sent(toCore, Decommission(n))
        /\ Follows(toCore', CreateOf(n), CreateOf(n)) <=> Follows(toCore, CreateOf(n), CreateOf(n))
  BY Zenon DEF SameMessages, Msgs
<1>2. \A n \in Node :
        /\ Sent(events', Accept(n)) <=> Sent(events, Accept(n))
        /\ Sent(events', Reject(n)) <=> Sent(events, Reject(n))
        /\ Follows(events', Accept(n), Accept(n)) <=> Follows(events, Accept(n), Accept(n))
        /\ Follows(events', Reject(n), Reject(n)) <=> Follows(events, Reject(n), Reject(n))
  BY Zenon DEF SameAnswers
<1>3. RegInv'
  BY <1>0, <1>1, <1>2, ZenonT(60) DEF RegInv
<1>4. StartInv'
  <2>1. init' \in {"load", "register"} => toCore' = << >> /\ \A n \in Node : coreNode'[n] = "none"
    BY <1>0, ZenonT(60) DEF StartInv
  <2>2. init' = "add" => \A n \in Node :
       /\ ~Sent(toCore', Enable(n)) /\ ~Sent(toCore', Drain(n)) /\ ~Sent(toCore', Decommission(n))
       /\ coreNode'[n] = IF n \in accepted' \/ Sent(events', Accept(n)) THEN "draining" ELSE "none"
    BY <1>0, <1>1, <1>2, ZenonT(60) DEF StartInv
  <2>3. init' \in {"list", "pods"} => \A n \in Node : cacheNode'[n] = IF n \in accepted' THEN loaded'[n] ELSE None
    BY <1>0, ZenonT(60) DEF StartInv
  <2> QED BY <2>1, <2>2, <2>3, ZenonT(60) DEF StartInv
<1>5. GoneInv'
  BY <1>0, ZenonT(60) DEF GoneInv
<1>6. AgreeInv'
  <2> SUFFICES ASSUME NEW n \in Node, NodeOK(n) PROVE NodeOK(n)'
    BY <1>0, ZenonT(60) DEF AgreeInv
  <2>1. Rejected(n)' <=> Rejected(n)
    BY <1>0, <1>2, ZenonT(60) DEF Rejected
  <2> QED BY <2>1, SameNode, ZenonT(60) DEF AbsentComing
<1> QED BY <1>3, <1>4, <1>5, <1>6, ZenonT(60) DEF Told

(* The types the proofs below use all the time.                             *)
LEMMA SoundTypes ==
  ASSUME Sound
  PROVE  /\ toCore \in ToCore /\ events \in Seq(Answers \cup Others) /\ nodeQueue \in Seq(NodeEvents)
         /\ cacheNode \in [Node -> {None, "ready", "cordoned"}] /\ coreNode \in [Node -> {"none", "draining", "schedulable"}]
         /\ apiNode \in [Node -> Objs] /\ loaded \in [Node -> Objs] /\ pending \subseteq Node /\ accepted \subseteq Node
BY DEF Sound, Typed, CoreTyped, ToCore, QueueTyped, CacheTyped, ApiTyped, InitTyped, RegTyped

LEMMA SoundParts ==
  ASSUME Sound
  PROVE  InfTyped /\ BeforeHandlers /\ InitTyped
BY DEF Sound, Typed

LEMMA InformerHas ==
  ASSUME InfTyped, inf.at # "idle"
  PROVE  inf.node \in Node /\ inf.obj \in {"ready", "cordoned"}
<1>1. inf # Idle
  BY DEF Idle
<1> QED BY <1>1 DEF InfTyped

LEMMA NothingSaid ==
  ASSUME toCore' = toCore
  PROVE  \A n : SameMessages(n)
BY DEF SameMessages

LEMMA PodsSaid ==
  ASSUME toCore \in ToCore, NEW p, deleteForeignPod(p) \/ \E obj, known : updateForeignPod(p, obj, known)
  PROVE  \A n : SameMessages(n)
<1>1. toCore' = toCore \/ toCore' = Append(toCore, Req("alloc", p)) \/ toCore' = Append(toCore, Req("release", p))
  BY DEF deleteForeignPod, updateForeignPod
<1>2. \A n : Req("alloc", p) \notin Msgs(n) /\ Req("release", p) \notin Msgs(n)
  BY ReqsDiffer DEF Msgs, CreateOf, Enable, Drain, Decommission
<1> QED BY <1>1, <1>2, Unsaid

LEMMA NoAnswers ==
  ASSUME events' = events
  PROVE  \A n : SameAnswers(n)
BY DEF SameAnswers

(* An event that is not an answer about the node.                           *)
LEMMA OtherAnswers ==
  ASSUME events \in Seq(Answers \cup Others), NEW n, NEW o, o # Accept(n), o # Reject(n),
         \/ events' = Append(events, o)
         \/ events # << >> /\ Head(events) = o /\ events' = Tail(events)
  PROVE  SameAnswers(n)
<1> SUFFICES ASSUME NEW a \in {Accept(n), Reject(n)}
             PROVE  (Sent(events', a) <=> Sent(events, a)) /\ (Follows(events', a, a) <=> Follows(events, a, a))
  BY DEF SameAnswers
<1>1. o # a
  OBVIOUS
<1>2. CASE events' = Append(events, o)
  BY <1>1, <1>2, QueueAppend
<1>3. CASE events # << >> /\ Head(events) = o /\ events' = Tail(events)
  BY <1>1, <1>3, QueueTail
<1> QED BY <1>2, <1>3

LEMMA NoAnswer ==
  ASSUME NEW o, o.name = "Other"
  PROVE  \A n : o # Accept(n) /\ o # Reject(n)
BY DEF Accept, Reject

(* A step of the cluster: only the queue of the node informer changes.      *)
LEMMA QueueAside ==
  ASSUME RegInv, StartInv, AgreeInv, UNCHANGED <<toCore, events, regVars, inf, going, cacheNode, coreNode, loaded>>,
         init' = init \/ (init = "nodeHandlers" /\ init' = "podHandlers"),
         \A n \in Node : AbsentComing(n) => AbsentComing(n)'
  PROVE  RegInv' /\ StartInv' /\ AgreeInv'
<1>1. pending' = pending /\ accepted' = accepted
  BY DEF regVars
<1>2. RegInv'
  BY <1>1 DEF RegInv
<1>3. StartInv'
  BY <1>1, ZenonT(60) DEF StartInv
<1>4. AgreeInv'
  <2> SUFFICES ASSUME NEW n \in Node, NodeOK(n) PROVE NodeOK(n)'
    BY DEF AgreeInv
  <2>1. Rejected(n)' <=> Rejected(n)
    BY <1>1 DEF Rejected
  <2> QED BY <2>1, SameNode, NothingSaid, ZenonT(60)
<1> QED BY <1>2, <1>3, <1>4

LEMMA EventsDiffer ==
  ASSUME NEW n, NEW m, NEW a, NEW b, NodeEv(n, a) = NodeEv(m, b)
  PROVE  n = m /\ a = b
<1>1. NodeEv(n, a).node = n /\ NodeEv(m, b).node = m /\ NodeEv(n, a).obj = a /\ NodeEv(m, b).obj = b
  BY DEF NodeEv
<1> QED BY <1>1

LEMMA ApiTold ==
  ASSUME Sound, Told, ~Recreates, ApiStep
  PROVE  Told'
<1>0. RegInv /\ StartInv /\ GoneInv /\ AgreeInv /\ BeforeHandlers
  BY DEF Told, Sound, Typed
<1>1. ASSUME NEW m \in Node, Heartbeat(m) PROVE Told'
  <2>1. /\ UNCHANGED <<apiNode, toCore, events, regVars, inf, going, cacheNode, coreNode, loaded, init, todo, handlers>>
        /\ nodeQueue = << >> /\ nodeQueue' = <<NodeEv(m, apiNode[m])>> /\ apiNode[m] # "absent" /\ "node" \in handlers
    BY <1>1 DEF Heartbeat, apiVars, cacheVars, initVars, coreVars
  <2>2. \A n : ~AbsentComing(n)
    BY <2>1 DEF AbsentComing, Sent
  <2>3. \A n \in Node : \A obj : Sent(nodeQueue', NodeEv(n, obj)) => apiNode[n] # "absent"
    <3>1. ASSUME NEW n \in Node, NEW obj, Sent(nodeQueue', NodeEv(n, obj)) PROVE NodeEv(m, apiNode[m]) = NodeEv(n, obj)
      BY <2>1, <3>1 DEF Sent
    <3> QED BY <2>1, <3>1, EventsDiffer
  <2>4. GoneInv'
    BY <1>0, <2>1, <2>3, ZenonT(60) DEF GoneInv
  <2> QED BY <1>0, <2>1, <2>2, <2>4, QueueAside DEF Told
<1>2. ASSUME NEW m \in Node, NEW obj \in Objs, NodeChanges(m, obj) PROVE Told'
  <2>1. /\ UNCHANGED <<toCore, events, regVars, inf, going, cacheNode, coreNode, loaded, init, todo, handlers>>
        /\ apiNode' = [apiNode EXCEPT ![m] = obj] /\ ~(apiNode[m] = "absent" /\ init = "removeNodes")
        /\ \/ "node" \notin handlers /\ nodeQueue' = nodeQueue
           \/ "node" \in handlers /\ nodeQueue' = Append(nodeQueue, NodeEv(m, obj))
    BY <1>2 DEF NodeChanges, cacheVars, initVars, coreVars
  <2>2. apiNode \in [Node -> Objs] /\ nodeQueue \in Seq(NodeEvents) /\ going \in Node \cup {None}
    BY SoundTypes DEF Sound, Typed, InitTyped
  <2>3. ASSUME NEW n, AbsentComing(n) PROVE AbsentComing(n)'
    <3>1. \A x : Sent(Append(nodeQueue, x), NodeEv(n, "absent"))
      BY <2>2, <2>3, QueueAppend, ZenonT(60) DEF AbsentComing
    <3> QED BY <2>1, <2>3, <3>1, ZenonT(60) DEF AbsentComing
  <2>4. /\ init = "removeNodes" => \A n \in todo : apiNode'[n] = "absent"
        /\ going # None => apiNode'[going] = "absent"
    BY <1>0, <2>1, <2>2, ZenonT(60) DEF GoneInv, BeforeHandlers, Sound, Typed, InitTyped
  <2>5. ASSUME NEW n \in Node, NEW o \in {"ready", "cordoned"}, apiNode'[n] = "absent", Sent(nodeQueue', NodeEv(n, o))
        PROVE  Over(nodeQueue', NodeEv(n, "absent"), NodeEv(n, o))
    <3>1. CASE nodeQueue' = nodeQueue /\ "node" \notin handlers
      <4>1. nodeQueue' = << >>
        BY <1>0, <3>1 DEF GoneInv
      <4> QED BY <2>5, <4>1 DEF Sent
    <3>2. CASE nodeQueue' = Append(nodeQueue, NodeEv(m, obj)) /\ n = m
      <4>1. obj = "absent"
        BY <2>1, <2>2, <2>5, <3>2
      <4> QED BY <2>2, <3>2, <4>1, QueueAppend
    <3>3. CASE nodeQueue' = Append(nodeQueue, NodeEv(m, obj)) /\ n # m
      <4>1. NodeEv(m, obj) # NodeEv(n, o) /\ apiNode[n] = "absent"
        BY <2>1, <2>2, <2>5, <3>3, EventsDiffer, ZenonT(60)
      <4>2. Sent(nodeQueue, NodeEv(n, o))
        BY <2>2, <2>5, <3>3, <4>1, QueueAppend
      <4>3. Over(nodeQueue, NodeEv(n, "absent"), NodeEv(n, o))
        BY <1>0, <4>1, <4>2 DEF GoneInv
      <4> QED BY <2>2, <3>3, <4>1, <4>3, QueueAppend
    <3> QED BY <2>1, <3>1, <3>2, <3>3
  <2>6. GoneInv'
    BY <1>0, <2>1, <2>4, <2>5, ZenonT(60) DEF GoneInv
  <2> QED BY <1>0, <2>1, <2>3, <2>6, QueueAside DEF Told
<1>3. ASSUME NEW p \in Pod, NEW obj, PodChanges(p, obj) PROVE Told'
  <2>1. UNCHANGED <<apiNode, nodeQueue, cacheNode, loaded, going, regVars, coreNode, handlers, inf, init, todo, toCore, events>>
    BY <1>3 DEF PodChanges, cacheVars, initVars, coreVars
  <2> QED BY <1>0, <2>1, NodesAside, NothingSaid, NoAnswers, ZenonT(60) DEF GoneInv
<1>4. CASE OtherEvent
  <2>1. UNCHANGED <<apiNode, nodeQueue, cacheNode, loaded, going, regVars, coreNode, handlers, inf, init, todo, toCore>>
    BY <1>4 DEF OtherEvent, cacheVars, initVars, coreVars, queueVars
  <2>2. PICK o : o = [name |-> "Other", node |-> None] /\ events' = Append(events, o)
    BY <1>4 DEF OtherEvent
  <2>3. \A n : SameAnswers(n)
    BY <2>2, SoundTypes, NoAnswer, OtherAnswers, ZenonT(60)
  <2> QED BY <1>0, <2>1, <2>3, NodesAside, NothingSaid, ZenonT(60) DEF GoneInv
<1> QED BY <1>1, <1>2, <1>3, <1>4 DEF ApiStep, Objs

LEMMA GoneSame ==
  ASSUME GoneInv, UNCHANGED <<apiNode, nodeQueue, handlers, cacheNode, inf, init, todo, going>>
  PROVE  GoneInv'
BY DEF GoneInv

(* The facts about the requests of one node, when the core takes the first  *)
(* request, and when one is added.                                          *)
TakenFacts(s, h, t, n) ==
  /\ \A a \in Msgs(n) : Sent(s, a) <=> h = a \/ Sent(t, a)
  /\ \A a, b \in Msgs(n) : /\ Follows(s, a, b) <=> Follows(t, a, b) \/ (h = a /\ Sent(t, b))
                           /\ Over(s, a, b) <=> Over(t, a, b) \/ (h = a /\ ~Sent(t, b))
AddedFacts(s, x, t, n) ==
  /\ \A a \in Msgs(n) : Sent(t, a) <=> Sent(s, a) \/ x = a
  /\ \A a, b \in Msgs(n) : /\ Follows(t, a, b) <=> Follows(s, a, b) \/ (Sent(s, a) /\ x = b)
                           /\ Over(t, a, b) <=> x = a \/ (x # b /\ Over(s, a, b))

LEMMA Takes ==
  ASSUME NEW s \in ToCore, s # << >>
  PROVE  \A n : TakenFacts(s, Head(s), Tail(s), n)
BY QueueTail DEF TakenFacts, ToCore

LEMMA Adds ==
  ASSUME NEW s \in ToCore, NEW x
  PROVE  \A n : AddedFacts(s, x, Append(s, x), n)
BY QueueAppend DEF AddedFacts, ToCore

(* The four requests about a node differ.                                   *)
LEMMA MsgsDiffer ==
  ASSUME NEW n
  PROVE  /\ CreateOf(n) \in Msgs(n) /\ Enable(n) \in Msgs(n) /\ Drain(n) \in Msgs(n) /\ Decommission(n) \in Msgs(n)
         /\ CreateOf(n) # Enable(n) /\ CreateOf(n) # Drain(n) /\ CreateOf(n) # Decommission(n)
         /\ Enable(n) # Drain(n) /\ Enable(n) # Decommission(n) /\ Drain(n) # Decommission(n)
BY ReqsDiffer DEF Msgs, CreateOf, Enable, Drain, Decommission

LEMMA OthersMsgs ==
  ASSUME NEW n, NEW k, n # k
  PROVE  CreateOf(k) \notin Msgs(n) /\ Enable(k) \notin Msgs(n) /\ Drain(k) \notin Msgs(n) /\ Decommission(k) \notin Msgs(n)
BY ReqsDiffer DEF Msgs, CreateOf, Enable, Drain, Decommission

LEMMA AnswersDiffer ==
  ASSUME NEW n, NEW k
  PROVE  /\ Accept(n) # Reject(k)
         /\ Accept(n) = Accept(k) => n = k
         /\ Reject(n) = Reject(k) => n = k
<1>1. Accept(n).name = "NodeAccepted" /\ Reject(k).name = "NodeRejected" /\ Accept(n).node = n /\ Accept(k).node = k
      /\ Reject(n).node = n /\ Reject(k).node = k
  BY DEF Accept, Reject
<1> QED BY <1>1

(* A request about node k, taken by the core, does not concern another one. *)
LEMMA TakenForOther ==
  ASSUME Sound, NEW n \in Node, NEW k \in Node, n # k, NodeOK(n), toCore # << >>,
         Head(toCore) \in Msgs(k), toCore' = Tail(toCore), coreNode'[n] = coreNode[n],
         UNCHANGED <<cacheNode, going, nodeQueue, inf, regVars>>, SameAnswers(n)
  PROVE  NodeOK(n)'
<1>1. Head(toCore) \notin Msgs(n)
  BY OthersMsgs DEF Msgs
<1>2. SameMessages(n)
  BY <1>1, SoundTypes, Unsaid
<1>3. Rejected(n)' <=> Rejected(n)
  BY ZenonT(60) DEF Rejected, SameAnswers, regVars
<1> QED BY <1>2, <1>3, SameNode, ZenonT(60) DEF AbsentComing

(* The core works through a request.                                        *)
LEMMA CoreDecommissions ==
  ASSUME Sound, Told, NEW k \in Node, toCore # << >>, Head(toCore) = Decommission(k), toCore' = Tail(toCore),
         coreNode' = [coreNode EXCEPT ![k] = "none"],
         UNCHANGED <<apiNode, queueVars, cacheNode, initVars, inf, regVars, events>>
  PROVE  Told'
<1>0. RegInv /\ StartInv /\ GoneInv /\ AgreeInv
  BY DEF Told
<1>1. UNCHANGED <<nodeQueue, handlers, init, loaded, todo, going, pending, accepted>>
  BY DEF queueVars, initVars, regVars
<1>2. \A n \in Node : coreNode'[n] = IF n = k THEN "none" ELSE coreNode[n]
  BY SoundTypes
<1>3. \A n \in Node : TakenFacts(toCore, Decommission(k), toCore', n)
  BY SoundTypes, Takes, ZenonT(60)
<1>4. RegInv'
  BY <1>0, <1>1, <1>3, MsgsDiffer, ZenonT(60) DEF RegInv, TakenFacts
<1>5. init \notin {"load", "register", "add"}
  BY <1>0, <1>3, MsgsDiffer, ZenonT(60) DEF StartInv, TakenFacts
<1>6. StartInv'
  BY <1>0, <1>1, <1>5, ZenonT(60) DEF StartInv
<1>7. ASSUME NEW n \in Node PROVE NodeOK(n)'
  <2>1. NodeOK(n)
    BY <1>0, <1>5, ZenonT(60) DEF AgreeInv
  <2>2. CASE n # k
    BY <1>1, <1>2, <2>1, <2>2, TakenForOther, NoAnswers, MsgsDiffer, ZenonT(60) DEF regVars
  <2>3. CASE n = k
    <3> DEFINE c == CreateOf(n)
               e == Enable(n)
               d == Drain(n)
               x == Decommission(n)
    <3>1. /\ Sent(toCore', c) <=> Sent(toCore, c)
          /\ Sent(toCore', e) <=> Sent(toCore, e)
          /\ Sent(toCore', d) <=> Sent(toCore, d)
          /\ Sent(toCore, x)
          /\ Follows(toCore', c, e) <=> Follows(toCore, c, e)
          /\ Follows(toCore', c, d) <=> Follows(toCore, c, d)
          /\ Follows(toCore', c, x) <=> Follows(toCore, c, x)
      BY <1>3, <2>3, MsgsDiffer, ZenonT(60) DEF TakenFacts
    <3>2. coreNode'[n] = "none" /\ ~Exists(n) /\ ~Exists(n)'
      BY <1>2, <2>3, <3>1 DEF Exists
    <3>3. (Rejected(n)' <=> Rejected(n)) /\ (AbsentComing(n)' <=> AbsentComing(n))
      BY <1>1 DEF Rejected, AbsentComing
    <3>4. Settled(n) => Settled(n)'
      BY <1>1, <3>2, <3>3, ZenonT(60) DEF Settled
    <3>5. Asked(n) => Asked(n)'
      BY <1>1, <3>1, <3>2, <3>3, ZenonT(60) DEF Asked, Leaves
    <3> QED BY <2>1, <3>1, <3>4, <3>5, ZenonT(60) DEF NodeOK
  <2> QED BY <2>2, <2>3
<1>8. GoneInv'
  BY <1>0, <1>1, GoneSame
<1> QED BY <1>4, <1>6, <1>7, <1>8 DEF Told, AgreeInv

LEMMA CoreSetsStatus ==
  ASSUME Sound, Told, NEW k \in Node, toCore # << >>, toCore' = Tail(toCore),
         \/ Head(toCore) = Enable(k) /\ coreNode' = IF coreNode[k] = "none" THEN coreNode ELSE [coreNode EXCEPT ![k] = "schedulable"]
         \/ Head(toCore) = Drain(k) /\ coreNode' = IF coreNode[k] = "none" THEN coreNode ELSE [coreNode EXCEPT ![k] = "draining"],
         UNCHANGED <<apiNode, queueVars, cacheNode, initVars, inf, regVars, events>>
  PROVE  Told'
<1>0. RegInv /\ StartInv /\ GoneInv /\ AgreeInv
  BY DEF Told
<1>1. UNCHANGED <<nodeQueue, handlers, init, loaded, todo, going, pending, accepted>>
  BY ZenonT(60) DEF queueVars, initVars, regVars
<1>2. /\ \A n \in Node : n # k => coreNode'[n] = coreNode[n]
      /\ coreNode'[k] = "none" <=> coreNode[k] = "none"
      /\ coreNode[k] # "none" /\ Head(toCore) = Enable(k) => coreNode'[k] = "schedulable"
      /\ coreNode[k] # "none" /\ Head(toCore) = Drain(k) => coreNode'[k] = "draining"
  BY SoundTypes, MsgsDiffer
<1>3. PICK h \in {Enable(k), Drain(k)} : Head(toCore) = h
  OBVIOUS
<1>4. \A n \in Node : TakenFacts(toCore, h, toCore', n)
  BY <1>3, SoundTypes, Takes, ZenonT(60)
<1>5. RegInv'
  BY <1>0, <1>1, <1>4, MsgsDiffer, ZenonT(60) DEF RegInv, TakenFacts
<1>6. init \notin {"load", "register", "add"}
  BY <1>0, <1>4, MsgsDiffer, ZenonT(60) DEF StartInv, TakenFacts
<1>7. StartInv'
  BY <1>0, <1>1, <1>6, ZenonT(60) DEF StartInv
<1>8. ASSUME NEW n \in Node PROVE NodeOK(n)'
  <2>1. NodeOK(n)
    BY <1>0, <1>6, ZenonT(60) DEF AgreeInv
  <2>2. CASE n # k
    <3>1. Head(toCore) \in Msgs(k)
      BY <1>3, MsgsDiffer, ZenonT(60)
    <3> QED BY <1>1, <1>2, <2>1, <2>2, <3>1, TakenForOther, NoAnswers, ZenonT(60) DEF regVars
  <2>3. CASE n = k
    <3> DEFINE c == CreateOf(n)
               e == Enable(n)
               d == Drain(n)
               x == Decommission(n)
    <3>1. /\ Sent(toCore', c) <=> Sent(toCore, c)
          /\ Sent(toCore', x) <=> Sent(toCore, x)
          /\ Sent(toCore, e) <=> h = e \/ Sent(toCore', e)
          /\ Sent(toCore, d) <=> h = d \/ Sent(toCore', d)
          /\ Follows(toCore', c, e) <=> Follows(toCore, c, e)
          /\ Follows(toCore', c, d) <=> Follows(toCore, c, d)
          /\ Follows(toCore', c, x) <=> Follows(toCore, c, x)
          /\ Follows(toCore', x, c) <=> Follows(toCore, x, c)
          /\ Over(toCore, e, d) <=> Over(toCore', e, d) \/ (h = e /\ ~Sent(toCore', d))
          /\ Over(toCore, d, e) <=> Over(toCore', d, e) \/ (h = d /\ ~Sent(toCore', e))
      BY <1>3, <1>4, <2>3, MsgsDiffer, ZenonT(60) DEF TakenFacts
    <3>2. (h = e \/ h = d) /\ e # d
      BY <1>3, <2>3, MsgsDiffer
    <3>3. (Rejected(n)' <=> Rejected(n)) /\ (AbsentComing(n)' <=> AbsentComing(n)) /\ (Exists(n)' <=> Exists(n)) /\ ~Fresh(n)
      BY <1>1, <1>2, <2>3, <3>1, <3>2, ZenonT(60) DEF Rejected, AbsentComing, Exists, Fresh
    <3>4. Exists(n) /\ WillBe(n, cacheNode[n]) => WillBe(n, cacheNode[n])'
      BY <1>2, <1>3, <2>3, <3>1, <3>2, ZenonT(60) DEF WillBe, Exists
    <3>5. Settled(n) => Settled(n)'
      BY <1>1, <3>3, <3>4, ZenonT(60) DEF Settled
    <3>6. Asked(n) => Asked(n)'
      BY <1>1, <1>2, <2>3, <3>1, <3>3, ZenonT(60) DEF Asked, Leaves
    <3> QED BY <2>1, <3>1, <3>5, <3>6 DEF NodeOK
  <2> QED BY <2>2, <2>3
<1>9. GoneInv'
  BY <1>0, <1>1, GoneSame
<1> QED BY <1>5, <1>7, <1>8, <1>9 DEF Told, AgreeInv

LEMMA FollowsSent ==
  ASSUME NEW s, NEW a, NEW b, Follows(s, a, b)
  PROVE  Sent(s, a) /\ Sent(s, b)
BY DEF Follows, Sent

LEMMA CoreCreates ==
  ASSUME Sound, Told, NEW k \in Node, toCore # << >>, Head(toCore) = CreateOf(k), toCore' = Tail(toCore),
         \/ events' = Append(events, Accept(k)) /\ coreNode[k] = "none" /\ coreNode' = [coreNode EXCEPT ![k] = "draining"]
         \/ events' = Append(events, Reject(k)) /\ UNCHANGED coreNode,
         UNCHANGED <<apiNode, queueVars, cacheNode, initVars, inf, regVars>>
  PROVE  Told'
<1>0. RegInv /\ StartInv /\ GoneInv /\ AgreeInv
  BY DEF Told
<1>1. UNCHANGED <<nodeQueue, handlers, init, loaded, todo, going, pending, accepted>>
  BY DEF queueVars, initVars, regVars
<1>2. \A n \in Node : n # k => coreNode'[n] = coreNode[n]
  BY SoundTypes
<1>3. \A n \in Node : TakenFacts(toCore, CreateOf(k), toCore', n)
  BY SoundTypes, Takes, ZenonT(60)
<1>4. PICK a \in {Accept(k), Reject(k)} :
        /\ events' = Append(events, a)
        /\ a = Accept(k) => coreNode[k] = "none" /\ coreNode'[k] = "draining"
        /\ a = Reject(k) => coreNode' = coreNode
  BY AnswersDiffer, SoundTypes
<1>5. /\ \A n : Sent(events', Accept(n)) <=> Sent(events, Accept(n)) \/ a = Accept(n)
      /\ \A n : Sent(events', Reject(n)) <=> Sent(events, Reject(n)) \/ a = Reject(n)
      /\ \A n : Follows(events', Accept(n), Accept(n)) <=> Follows(events, Accept(n), Accept(n)) \/ (Sent(events, Accept(n)) /\ a = Accept(n))
      /\ \A n : Follows(events', Reject(n), Reject(n)) <=> Follows(events, Reject(n), Reject(n)) \/ (Sent(events, Reject(n)) /\ a = Reject(n))
  <2>1. \A x : /\ Sent(Append(events, a), x) <=> Sent(events, x) \/ a = x
               /\ Follows(Append(events, a), x, x) <=> Follows(events, x, x) \/ (Sent(events, x) /\ a = x)
    BY SoundTypes, QueueAppend
  <2>2. events' = Append(events, a)
    BY <1>4
  <2> QED BY <2>1, <2>2, Zenon
<1>6. \A n : n # k => a # Accept(n) /\ a # Reject(n)
  BY AnswersDiffer, ZenonT(60)
<1>7. Sent(toCore, CreateOf(k)) /\ ~Sent(toCore', CreateOf(k)) /\ \A n \in Node : n # k => (Sent(toCore', CreateOf(n)) <=> Sent(toCore, CreateOf(n)))
  <2>1. Sent(toCore, CreateOf(k))
    BY <1>3, MsgsDiffer DEF TakenFacts
  <2>2. ~Follows(toCore, CreateOf(k), CreateOf(k))
    BY <1>0, <2>1, ZenonT(60) DEF RegInv
  <2>3. ~Sent(toCore', CreateOf(k))
    BY <1>3, <2>2, MsgsDiffer, ZenonT(60) DEF TakenFacts
  <2> QED BY <1>3, <2>1, <2>3, MsgsDiffer, OthersMsgs, ZenonT(60) DEF TakenFacts
<1>8. k \in pending /\ ~Sent(events, Accept(k)) /\ ~Sent(events, Reject(k)) /\ k \notin accepted
  BY <1>0, <1>7 DEF RegInv
<1>9. RegInv'
  <2>1. ASSUME NEW n \in Node
        PROVE  /\ Sent(toCore', CreateOf(n)) =>
                    n \in pending /\ ~Sent(events', Accept(n)) /\ ~Sent(events', Reject(n)) /\ ~Follows(toCore', CreateOf(n), CreateOf(n))
               /\ Sent(events', Accept(n)) =>
                    n \in pending /\ ~Sent(events', Reject(n)) /\ ~Follows(events', Accept(n), Accept(n))
               /\ Sent(events', Reject(n)) => n \in pending /\ ~Follows(events', Reject(n), Reject(n))
    <3>1. CASE n = k
      <4>1. ~Follows(events, Accept(k), Accept(k)) /\ ~Follows(events, Reject(k), Reject(k)) /\ Accept(k) # Reject(k)
        BY <1>8, FollowsSent, AnswersDiffer
      <4> QED BY <1>5, <1>7, <1>8, <3>1, <4>1, ZenonT(60)
    <3>2. CASE n # k
      <4>1. Follows(toCore', CreateOf(n), CreateOf(n)) => Follows(toCore, CreateOf(n), CreateOf(n))
        BY <1>3, MsgsDiffer DEF TakenFacts
      <4>2. a # Accept(n) /\ a # Reject(n)
        BY <1>6, <3>2
      <4> QED BY <1>0, <1>5, <1>7, <3>2, <4>1, <4>2, ZenonT(60) DEF RegInv
    <3> QED BY <3>1, <3>2
  <2> QED BY <1>0, <1>1, <2>1, ZenonT(60) DEF RegInv
<1>10. StartInv'
  <2>1. init \notin {"load", "register"}
    BY <1>0, ZenonT(60) DEF StartInv
  <2>2. ASSUME init = "add", NEW n \in Node
        PROVE  /\ ~Sent(toCore', Enable(n)) /\ ~Sent(toCore', Drain(n)) /\ ~Sent(toCore', Decommission(n))
               /\ coreNode'[n] = IF n \in accepted \/ Sent(events', Accept(n)) THEN "draining" ELSE "none"
    <3>1. ~Sent(toCore', Enable(n)) /\ ~Sent(toCore', Drain(n)) /\ ~Sent(toCore', Decommission(n))
      BY <1>0, <1>3, <2>2, MsgsDiffer, ZenonT(60) DEF StartInv, TakenFacts
    <3>2. CASE n # k
      <4>1. Sent(events', Accept(n)) <=> Sent(events, Accept(n))
        BY <1>5, <1>6, <3>2
      <4> QED BY <1>0, <1>2, <2>2, <3>1, <3>2, <4>1, ZenonT(60) DEF StartInv
    <3>3. CASE n = k
      <4>1. coreNode[k] = "none"
        BY <1>0, <1>8, <2>2, ZenonT(60) DEF StartInv
      <4> QED BY <1>4, <1>5, <1>8, <3>1, <3>3, <4>1, AnswersDiffer, ZenonT(60)
    <3> QED BY <3>2, <3>3
  <2> QED BY <1>0, <1>1, <2>1, <2>2, ZenonT(60) DEF StartInv
<1>11. ASSUME NEW n \in Node, init \notin {"load", "register", "add"} PROVE NodeOK(n)'
  <2>1. NodeOK(n)
    BY <1>0, <1>11, ZenonT(60) DEF AgreeInv
  <2>2. CASE n # k
    <3>1. SameAnswers(n)
      BY <1>4, <1>6, <2>2, SoundTypes, OtherAnswers, ZenonT(60)
    <3> QED BY <1>1, <1>2, <2>1, <2>2, <3>1, TakenForOther, MsgsDiffer DEF regVars
  <2>3. CASE n = k
    <3> DEFINE c == CreateOf(n)
               e == Enable(n)
               d == Drain(n)
               x == Decommission(n)
    <3>1. ~Follows(toCore', c, x) /\ ~Follows(toCore', x, c)
      BY <1>7, <2>3, FollowsSent, ZenonT(60)
    <3>2. /\ Sent(toCore', e) => Follows(toCore, c, e)
          /\ Sent(toCore', d) => Follows(toCore, c, d)
          /\ Follows(toCore, c, x) <=> Sent(toCore', x)
          /\ ~Follows(toCore, x, c)
      BY <1>3, <2>3, <3>1, MsgsDiffer, ZenonT(60) DEF TakenFacts
    <3>3. Asked(n)
      BY <1>7, <2>1, <2>3, ZenonT(60) DEF NodeOK
    <3>4. inf.at = "waiting" /\ inf.node = n
      BY <1>0, <1>8, <1>11, <2>3, ZenonT(60) DEF RegInv
    <3>5. CASE a = Accept(k)
      <4>1. ~Rejected(n)'
        BY <1>1, <1>5, <1>8, <2>3, <3>5, AnswersDiffer, ZenonT(60) DEF Rejected
      <4>2. coreNode'[n] = "draining" /\ Fresh(n)'
        BY <1>4, <2>3, <3>2, <3>3, <3>5, ZenonT(60) DEF Asked, Fresh
      <4>3. Exists(n)' <=> ~Sent(toCore', x)
        BY <4>2 DEF Exists
      <4>4. Settled(n)'
        BY <1>1, <3>2, <3>3, <3>4, <4>1, <4>2, <4>3, ZenonT(60) DEF Settled, Asked, Leaves, AbsentComing
      <4> QED BY <1>7, <2>3, <4>4 DEF NodeOK
    <3>6. CASE a = Reject(k)
      <4>1. Rejected(n)'
        BY <1>1, <1>5, <2>3, <3>4, <3>6, ZenonT(60) DEF Rejected
      <4>2. coreNode'[n] = coreNode[n]
        BY <1>4, <3>6, ZenonT(60)
      <4>3. ~Exists(n)' \/ going = n
        BY <3>2, <3>3, <4>2 DEF Exists, Asked, Leaves
      <4>4. Settled(n)'
        BY <1>1, <4>1, <4>3, ZenonT(60) DEF Settled
      <4> QED BY <1>7, <2>3, <4>4 DEF NodeOK
    <3> QED BY <3>5, <3>6
  <2> QED BY <2>2, <2>3
<1>12. GoneInv'
  BY <1>0, <1>1, GoneSame
<1>13. AgreeInv'
  BY <1>1, <1>11 DEF AgreeInv
<1> QED BY <1>9, <1>10, <1>12, <1>13 DEF Told

LEMMA CoreTold ==
  ASSUME Sound, Told, CoreReceives
  PROVE  Told'
<1>1. /\ toCore # << >> /\ toCore' = Tail(toCore) /\ UNCHANGED <<apiNode, queueVars, cacheNode, initVars, inf, regVars>>
  BY ZenonT(60) DEF CoreReceives, cacheVars
<1>2. PICK m \in NodeReqs \cup PodReqs : m = Head(toCore)
  BY <1>1, SoundTypes, SeqTyped DEF ToCore
<1>3. m = Req(m.type, m.of)
  BY DEF NodeReqs, PodReqs, Req
<1>4. CASE m.type \in {"alloc", "release"}
  <2>1. UNCHANGED <<coreNode, events>>
    BY <1>2, <1>4, ZenonT(60) DEF CoreReceives
  <2>2. \A n : m \notin Msgs(n)
    BY <1>3, <1>4, ReqsDiffer DEF Msgs, CreateOf, Enable, Drain, Decommission
  <2>3. \A n : SameMessages(n)
    BY <1>1, <1>2, <2>2, SoundTypes, Unsaid, ZenonT(60)
  <2>4. toCore # << >> /\ StartInv /\ GoneInv
    BY <1>1 DEF Told
  <2> QED BY <1>1, <2>1, <2>3, <2>4, NodesAside, NoAnswers, ZenonT(60) DEF queueVars, initVars, StartInv, GoneInv
<1>5. ASSUME m.type \notin {"alloc", "release"} PROVE m.of \in Node
  BY <1>5 DEF NodeReqs, PodReqs
<1>6. CASE m.type = "create"
  <2>1. m = CreateOf(m.of) /\ m.of \in Node
    BY <1>3, <1>5, <1>6 DEF CreateOf
  <2>2. \/ CoreAnswers(m.of, coreNode[m.of] = "none")
        \/ coreNode[m.of] = "none" /\ CoreAnswers(m.of, FALSE)
    BY <1>2, <1>6, ZenonT(60) DEF CoreReceives
  <2>3. \/ events' = Append(events, Accept(m.of)) /\ coreNode[m.of] = "none" /\ coreNode' = [coreNode EXCEPT ![m.of] = "draining"]
        \/ events' = Append(events, Reject(m.of)) /\ UNCHANGED coreNode
    BY <2>2 DEF CoreAnswers, Accept, Reject
  <2> QED BY <1>1, <1>2, <2>1, <2>3, CoreCreates
<1>7. CASE m.type \in {"enable", "drain"}
  <2>1. (m = Enable(m.of) \/ m = Drain(m.of)) /\ m.of \in Node
    BY <1>3, <1>5, <1>7 DEF Enable, Drain
  <2>2. /\ events' = events
        /\ coreNode' = IF coreNode[m.of] = "none" THEN coreNode
                       ELSE [coreNode EXCEPT ![m.of] = IF m.type = "enable" THEN "schedulable" ELSE "draining"]
    BY <1>2, <1>7, ZenonT(60) DEF CoreReceives
  <2>3. Enable(m.of).type = "enable" /\ Drain(m.of).type = "drain"
    BY DEF Enable, Drain, Req
  <2> QED BY <1>1, <1>2, <1>7, <2>1, <2>2, <2>3, CoreSetsStatus, ZenonT(60)
<1>8. CASE m.type = "decommission"
  <2>1. m = Decommission(m.of) /\ m.of \in Node
    BY <1>3, <1>5, <1>8, ZenonT(60) DEF Decommission
  <2>2. events' = events /\ coreNode' = [coreNode EXCEPT ![m.of] = "none"]
    BY <1>2, <1>8, ZenonT(60) DEF CoreReceives
  <2> QED BY <1>1, <1>2, <2>1, <2>2, CoreDecommissions, ZenonT(60)
<1> QED BY <1>4, <1>6, <1>7, <1>8 DEF NodeReqs, PodReqs

LEMMA PodInformerTold ==
  ASSUME Sound, Told, PodInformerStep
  PROVE  Told'
<1>1. UNCHANGED <<apiNode, nodeQueue, handlers, cacheNode, init, loaded, todo, going, inf, regVars, events, coreNode>>
  BY DEF PodInformerStep, UpdatePod, DeletePod, apiVars, initVars, coreVars
<1>2. \A n : SameMessages(n)
  BY SoundTypes, PodsSaid, ZenonT(60) DEF PodInformerStep, UpdatePod, DeletePod
<1>3. init \notin {"load", "register"} /\ GoneInv
  BY ZenonT(60) DEF PodInformerStep, UpdatePod, DeletePod, Sound, Typed, BeforeHandlers, Told
<1> QED BY <1>1, <1>2, <1>3, NodesAside, NoAnswers, ZenonT(60) DEF GoneInv

(* An answer reaches the handler of the registration.                       *)
LEMMA DispatcherTold ==
  ASSUME Sound, Told, DispatcherStep
  PROVE  Told'
<1>0. RegInv /\ StartInv /\ GoneInv /\ AgreeInv
  BY ZenonT(60) DEF Told
<1>1. /\ UNCHANGED <<apiNode, nodeQueue, handlers, cacheNode, init, loaded, todo, going, inf, toCore, coreNode>>
      /\ events # << >> /\ events' = Tail(events)
  BY DEF DispatcherStep, NodeEventHandler, ApplicationEventHandler, apiVars, queueVars, cacheVars, initVars, coreVars
<1>2. PICK a \in Answers \cup Others : a = Head(events)
  BY <1>1, SoundTypes, SeqTyped
<1>3. CASE ApplicationEventHandler
  <2>1. UNCHANGED regVars /\ a.name = "Other"
    BY <1>2, <1>3 DEF ApplicationEventHandler
  <2>2. \A n : SameAnswers(n)
    BY <1>1, <1>2, <2>1, SoundTypes, NoAnswer, OtherAnswers, ZenonT(60)
  <2> QED BY <1>0, <1>1, <2>1, <2>2, NodesAside, NothingSaid, ZenonT(60) DEF GoneInv
<1>4. CASE NodeEventHandler
  <2>1. /\ a.name # "Other" /\ pending' = pending \ {a.node}
        /\ accepted' = IF a.node \in pending /\ a.name = "NodeAccepted" THEN accepted \cup {a.node} ELSE accepted
    BY <1>2, <1>4, ZenonT(60) DEF NodeEventHandler
  <2>2. PICK k \in Node : a.node = k /\ a \in {Accept(k), Reject(k)}
    BY <2>1 DEF Answers, Others, Accept, Reject
  <2>3. /\ \A n : Sent(events, Accept(n)) <=> a = Accept(n) \/ Sent(events', Accept(n))
        /\ \A n : Sent(events, Reject(n)) <=> a = Reject(n) \/ Sent(events', Reject(n))
        /\ \A n : Follows(events, Accept(n), Accept(n)) <=> Follows(events', Accept(n), Accept(n)) \/ (a = Accept(n) /\ Sent(events', Accept(n)))
        /\ \A n : Follows(events, Reject(n), Reject(n)) <=> Follows(events', Reject(n), Reject(n)) \/ (a = Reject(n) /\ Sent(events', Reject(n)))
    BY <1>1, <1>2, SoundTypes, QueueTail, ZenonT(60)
  <2>4. k \in pending /\ k \notin accepted /\ ~Sent(toCore, CreateOf(k)) /\ ~Sent(events', Accept(k)) /\ ~Sent(events', Reject(k))
    BY <1>0, <2>2, <2>3, ZenonT(60) DEF RegInv
  <2>5. /\ pending' = pending \ {k}
        /\ accepted' = IF a = Accept(k) THEN accepted \cup {k} ELSE accepted
    <3>1. a.name = "NodeAccepted" <=> a = Accept(k)
      BY <2>2 DEF Accept, Reject
    <3> QED BY <2>1, <2>2, <2>4, <3>1
  <2>6. \A n : n # k => a # Accept(n) /\ a # Reject(n)
    BY <2>2, AnswersDiffer, ZenonT(60)
  <2>7. RegInv'
    <3>1. \A n \in Node :
            /\ Sent(toCore, CreateOf(n)) =>
                 n \in pending' /\ ~Sent(events', Accept(n)) /\ ~Sent(events', Reject(n)) /\ ~Follows(toCore, CreateOf(n), CreateOf(n))
            /\ Sent(events', Accept(n)) =>
                 n \in pending' /\ ~Sent(events', Reject(n)) /\ ~Follows(events', Accept(n), Accept(n))
            /\ Sent(events', Reject(n)) => n \in pending' /\ ~Follows(events', Reject(n), Reject(n))
      BY <1>0, <2>3, <2>4, <2>5, ZenonT(60) DEF RegInv
    <3>2. pending' \cap accepted' = {} /\ pending' \subseteq pending /\ pending' \cup accepted' \subseteq pending \cup accepted
      BY <1>0, <2>4, <2>5, ZenonT(60) DEF RegInv
    <3>3. /\ inf.at = "waiting" => pending' \cup accepted' \subseteq {inf.node}
          /\ pending' # {} => inf.at = "waiting" \/ init = "add"
      BY <1>0, <3>2 DEF RegInv
    <3> QED BY <1>1, <3>1, <3>2, <3>3 DEF RegInv
  <2>8. StartInv'
    <3>1. \A n \in Node : n \in accepted \/ Sent(events, Accept(n)) <=> n \in accepted' \/ Sent(events', Accept(n))
      BY <2>2, <2>3, <2>4, <2>5, <2>6, AnswersDiffer, ZenonT(60)
    <3>2. init \notin {"list", "pods"}
      BY <1>0, <2>4 DEF RegInv, Sound, Typed, BeforeHandlers, Idle
    <3> QED BY <1>0, <1>1, <3>1, <3>2, ZenonT(60) DEF StartInv
  <2>9. AgreeInv'
    <3> SUFFICES ASSUME NEW n \in Node, NodeOK(n) PROVE NodeOK(n)'
      BY <1>0, <1>1 DEF AgreeInv
    <3>1. Rejected(n)' <=> Rejected(n)
      <4>1. CASE n # k
        BY <1>1, <2>3, <2>5, <2>6, <4>1, ZenonT(60) DEF Rejected
      <4>2. CASE n = k
        <5>1. Sent(events, Reject(n)) <=> a = Reject(k)
          BY <2>3, <2>4, <4>2
        <5>2. n \notin pending' \cup accepted' <=> a # Accept(k)
          BY <2>4, <2>5, <4>2, ZenonT(60)
        <5>3. a # Accept(k) <=> a = Reject(k)
          BY <2>2, AnswersDiffer
        <5> QED BY <1>1, <2>4, <4>2, <5>1, <5>2, <5>3, ZenonT(60) DEF Rejected
      <4> QED BY <4>1, <4>2, ZenonT(60)
    <3> QED BY <1>1, <3>1, SameNode, NothingSaid, ZenonT(60) DEF AbsentComing
  <2>10. GoneInv'
    BY <1>0, <1>1, GoneSame
  <2> QED BY <2>7, <2>8, <2>9, <2>10 DEF Told
<1> QED BY <1>3, <1>4 DEF DispatcherStep

(* A request about node k, added by the shim, does not concern another one. *)
LEMMA AddedForOther ==
  ASSUME Sound, NEW n \in Node, NEW k, n # k, NodeOK(n), NEW x \in Msgs(k), toCore' = Append(toCore, x) \/ toCore' = toCore,
         cacheNode'[n] = cacheNode[n], going' = n <=> going = n, AbsentComing(n) => AbsentComing(n)',
         Rejected(n)' <=> Rejected(n), inf'.node = n <=> inf.node = n, UNCHANGED coreNode
  PROVE  NodeOK(n)'
<1>1. x \notin Msgs(n)
  BY OthersMsgs, ZenonT(60) DEF Msgs
<1>2. SameMessages(n)
  BY <1>1, SoundTypes, Unsaid, ZenonT(60)
<1> QED BY <1>2, SameNode, ZenonT(60)

(* Without a new request to create it, a registration goes on as before.    *)
LEMMA RegSame ==
  ASSUME RegInv, UNCHANGED <<regVars, events>>, init \notin {"load", "register", "add"}, init' \notin {"load", "register", "add"},
         pending # {} => inf'.at = "waiting", inf'.at = "waiting" => inf.at = "waiting" /\ inf'.node = inf.node,
         \A n \in Node : /\ Sent(toCore', CreateOf(n)) <=> Sent(toCore, CreateOf(n))
                         /\ Follows(toCore', CreateOf(n), CreateOf(n)) <=> Follows(toCore, CreateOf(n), CreateOf(n))
  PROVE  RegInv'
<1>1. pending' = pending /\ accepted' = accepted
  BY DEF regVars
<1> QED BY <1>1, ZenonT(60) DEF RegInv

(* finalizeNodes removes a node: first from the cache, then from the core.  *)
LEMMA FinalizeTold ==
  ASSUME Sound, Told, FinalizeRemovesNode \/ FinalizeDecommissions
  PROVE  Told'
<1>0. RegInv /\ StartInv /\ GoneInv /\ AgreeInv
  BY DEF Told
<1>1. init = "removeNodes" /\ going \in Node \cup {None} /\ todo \subseteq Node
  BY ZenonT(60) DEF FinalizeRemovesNode, FinalizeDecommissions, Sound, Typed, BeforeHandlers, InitTyped
<1>2. UNCHANGED <<apiNode, nodeQueue, handlers, init, loaded, inf, regVars, events, coreNode>>
  BY ZenonT(60) DEF FinalizeRemovesNode, FinalizeDecommissions, apiVars, queueVars, coreVars
<1>3. pending' = pending /\ accepted' = accepted
  BY <1>2 DEF regVars
<1>4. \A n : (Rejected(n)' <=> Rejected(n)) /\ (AbsentComing(n)' <=> AbsentComing(n))
  BY <1>2, <1>3, ZenonT(60) DEF Rejected, AbsentComing
<1>5. pending # {} => inf.at = "waiting"
  BY <1>0, <1>1, ZenonT(60) DEF RegInv
<1>6. StartInv'
  BY <1>1, <1>2 DEF StartInv
<1>7. CASE FinalizeRemovesNode
  <2>1. PICK k \in todo : /\ todo' = todo \ {k}
                          /\ \/ cacheNode' = cacheNode /\ going' = going
                             \/ cacheNode[k] # None /\ cacheNode' = [cacheNode EXCEPT ![k] = None] /\ going' = k
    BY <1>7 DEF FinalizeRemovesNode, CacheRemoveNode, cacheVars
  <2>2. going = None /\ toCore' = toCore
    BY <1>7, ZenonT(60) DEF FinalizeRemovesNode
  <2>3. CASE cacheNode' = cacheNode /\ going' = going
    BY <1>0, <1>1, <1>2, <2>1, <2>2, <2>3, NodesAside, NothingSaid, NoAnswers, ZenonT(60) DEF GoneInv
  <2>4. CASE cacheNode[k] # None /\ cacheNode' = [cacheNode EXCEPT ![k] = None] /\ going' = k
    <3>1. k \in Node /\ apiNode[k] = "absent" /\ cacheNode'[k] = None /\ \A n \in Node : n # k => cacheNode'[n] = cacheNode[n]
      BY <1>0, <1>1, <2>1, <2>4, SoundTypes, ZenonT(60) DEF GoneInv
    <3>2. RegInv'
      BY <1>0, <1>1, <1>2, <1>5, <2>2, RegSame
    <3>3. GoneInv'
      <4>1. inf.at # "idle" => inf.node \in Node
        BY SoundParts, InformerHas
      <4>2. inf.at # "idle" => cacheNode'[inf.node] \in {None, inf.obj}
        BY <1>0, <3>1, <4>1, ZenonT(60) DEF GoneInv
      <4>3. going' # None => apiNode[going'] = "absent"
        BY <2>4, <3>1
      <4> QED BY <1>0, <1>2, <2>1, <4>2, <4>3, ZenonT(60) DEF GoneInv
    <3>4. ASSUME NEW n \in Node PROVE NodeOK(n)'
      <4>1. NodeOK(n)
        BY <1>0, <1>1 DEF AgreeInv
      <4>2. CASE n # k
        <5>1. going' = n <=> going = n
          BY <2>2, <2>4, <4>2, NodesAssumption
        <5> QED BY <1>2, <1>4, <2>2, <3>1, <4>1, <4>2, <5>1, SameNode, NothingSaid, ZenonT(60)
      <4>3. CASE n = k
        BY <2>2, <2>4, <3>1, <4>1, <4>3, ZenonT(60) DEF NodeOK, Asked, Settled, Leaves
      <4> QED BY <4>2, <4>3
    <3> QED BY <1>6, <3>2, <3>3, <3>4, ZenonT(60) DEF Told, AgreeInv
  <2> QED BY <2>1, <2>3, <2>4, ZenonT(60)
<1>8. CASE FinalizeDecommissions
  <2>1. PICK k \in Node : going = k /\ going' = None /\ toCore' = Append(toCore, Decommission(k)) /\ todo' = todo
    BY <1>1, <1>8 DEF FinalizeDecommissions, Decommission
  <2>2. cacheNode' = cacheNode /\ apiNode[k] = "absent" /\ None # k
    BY <1>0, <1>8, <2>1, NodesAssumption, ZenonT(60) DEF FinalizeDecommissions, cacheVars, GoneInv
  <2>3. \A n : AddedFacts(toCore, Decommission(k), toCore', n)
    BY <2>1, SoundTypes, Adds
  <2>4. \A n : Decommission(k) # CreateOf(n)
    BY ReqsDiffer, ZenonT(60) DEF Decommission, CreateOf
  <2>5. RegInv'
    <3>1. \A n \in Node : /\ Sent(toCore', CreateOf(n)) <=> Sent(toCore, CreateOf(n))
                          /\ Follows(toCore', CreateOf(n), CreateOf(n)) <=> Follows(toCore, CreateOf(n), CreateOf(n))
      BY <2>3, <2>4, MsgsDiffer DEF AddedFacts
    <3> QED BY <1>0, <1>1, <1>2, <1>5, <3>1, RegSame, ZenonT(60)
  <2>6. GoneInv'
    BY <1>0, <1>2, <2>1, <2>2, ZenonT(60) DEF GoneInv
  <2>7. ASSUME NEW n \in Node PROVE NodeOK(n)'
    <3>1. NodeOK(n)
      BY <1>0, <1>1 DEF AgreeInv
    <3>2. CASE n # k
      <4>1. going' = n <=> going = n
        BY <2>1, <3>2, NodesAssumption
      <4> QED BY <1>2, <1>4, <2>1, <2>2, <3>1, <3>2, <4>1, AddedForOther, MsgsDiffer, ZenonT(60)
    <3>3. CASE n = k
      <4> DEFINE c == CreateOf(n)
                 e == Enable(n)
                 d == Drain(n)
                 x == Decommission(n)
      <4>1. /\ Sent(toCore', c) <=> Sent(toCore, c)
            /\ Sent(toCore', x)
            /\ Follows(toCore', c, e) <=> Follows(toCore, c, e)
            /\ Follows(toCore', c, d) <=> Follows(toCore, c, d)
            /\ Sent(toCore, c) => Follows(toCore', c, x)
        BY <2>3, <3>3, MsgsDiffer DEF AddedFacts
      <4>2. ~Exists(n)'
        BY <4>1 DEF Exists
      <4>3. Settled(n) => Settled(n)'
        BY <1>2, <1>4, <2>1, <2>2, <3>3, <4>2, ZenonT(60) DEF Settled
      <4>4. Sent(toCore, c) /\ Asked(n) => Asked(n)'
        BY <1>2, <1>4, <2>1, <2>2, <3>3, <4>1, ZenonT(60) DEF Asked, Leaves
      <4> QED BY <3>1, <4>1, <4>3, <4>4, ZenonT(60) DEF NodeOK
    <3> QED BY <3>2, <3>3
  <2> QED BY <1>6, <2>5, <2>6, <2>7, ZenonT(60) DEF Told, AgreeInv
<1> QED BY <1>7, <1>8

LEMMA ReqsSent ==
  ASSUME Countable, NEW S \in SUBSET Node, NEW type \in {"create", "enable"}
  PROVE  /\ Reqs(type, S) \in ToCore
         /\ \A t, n : Sent(Reqs(type, S), Req(t, n)) <=> t = type /\ n \in S
         /\ \A a : ~Follows(Reqs(type, S), a, a)
<1> DEFINE r == Reqs(type, S)
           f == ListOf(S)
<1>2. /\ Cardinality(S) \in Nat /\ \A i \in 1 .. Cardinality(S) : f[i] \in S
      /\ \A i, j \in 1 .. Cardinality(S) : f[i] = f[j] => i = j
      /\ \A x \in S : \E i \in 1 .. Cardinality(S) : f[i] = x
  BY Listed
<1> HIDE DEF f
<1>3. r = [i \in 1 .. Cardinality(S) |-> Req(type, f[i])]
  BY DEF Reqs, f
<1> HIDE DEF r
<1>4. DOMAIN r = 1 .. Cardinality(S) /\ \A i \in 1 .. Cardinality(S) : r[i] = Req(type, f[i])
  BY <1>3
<1>5. \A t, n : Sent(r, Req(t, n)) <=> t = type /\ n \in S
  <2>1. ASSUME NEW t, NEW n, Sent(r, Req(t, n)) PROVE t = type /\ n \in S
    <3>1. PICK i \in 1 .. Cardinality(S) : Req(type, f[i]) = Req(t, n)
      BY <1>4, <2>1 DEF Sent
    <3> QED BY <1>2, <3>1, ReqsDiffer
  <2>2. ASSUME NEW n \in S PROVE Sent(r, Req(type, n))
    BY <1>2, <1>4 DEF Sent
  <2> QED BY <2>1, <2>2
<1>6. ASSUME NEW a, Follows(r, a, a) PROVE FALSE
  <2>1. PICK i, j \in 1 .. Cardinality(S) : i < j /\ Req(type, f[i]) = a /\ Req(type, f[j]) = a
    BY <1>4, <1>6 DEF Follows
  <2>2. f[i] = f[j]
    BY <2>1, ReqsDiffer
  <2> QED BY <1>2, <2>1, <2>2
<1>7. r \in ToCore
  BY ReqsAre DEF r, ToCore
<1> QED BY <1>5, <1>6, <1>7, ZenonT(60) DEF r

LEMMA RegisterNodesTold ==
  ASSUME Countable, Sound, Told, RegisterNodes
  PROVE  Told'
<1>0. RegInv /\ StartInv /\ GoneInv /\ AgreeInv
  BY DEF Told
<1>1. /\ init = "register" /\ init' = "add" /\ accepted' = {}
      /\ UNCHANGED <<apiNode, nodeQueue, handlers, cacheNode, going, inf, events, coreNode>>
  BY DEF RegisterNodes, registerNodes, apiVars, queueVars, cacheVars, coreVars
<1>2. PICK S \in SUBSET Node : pending' = S /\ toCore' = toCore \o Reqs("create", S)
  BY ZenonT(60) DEF RegisterNodes, registerNodes
<1>3. toCore = << >> /\ \A n \in Node : coreNode[n] = "none"
  BY <1>0, <1>1 DEF StartInv
<1>4. inf.at = "idle" /\ pending = {}
  <2>1. inf = Idle
    BY <1>1, SoundParts DEF BeforeHandlers
  <2>2. inf.at = "idle"
    BY <2>1, ZenonT(60) DEF Idle
  <2> QED BY <1>0, <1>1, <2>2 DEF RegInv
<1>5. \A n \in Node : ~Sent(events, Accept(n)) /\ ~Sent(events, Reject(n))
  BY <1>0, <1>4 DEF RegInv
<1>6. toCore' = Reqs("create", S)
  BY <1>2, <1>3, ReqsSent DEF ToCore
<1>7. /\ \A n : Sent(toCore', CreateOf(n)) => n \in S
      /\ \A n : ~Sent(toCore', Enable(n)) /\ ~Sent(toCore', Drain(n)) /\ ~Sent(toCore', Decommission(n))
      /\ \A a : ~Follows(toCore', a, a)
  <2>1. \A t, n : Sent(toCore', Req(t, n)) <=> t = "create" /\ n \in S
    BY <1>6, ReqsSent
  <2>2. \A a : ~Follows(toCore', a, a)
    BY <1>6, ReqsSent, ZenonT(60)
  <2> QED BY <2>1, <2>2 DEF CreateOf, Enable, Drain, Decommission
<1>8. RegInv'
  BY <1>1, <1>2, <1>4, <1>5, <1>7 DEF RegInv
<1>9. StartInv'
  BY <1>1, <1>3, <1>5, <1>7, ZenonT(60) DEF StartInv
<1>10. GoneInv'
  BY <1>0, <1>1, ZenonT(60) DEF GoneInv
<1> QED BY <1>1, <1>8, <1>9, <1>10, ZenonT(60) DEF Told, AgreeInv

(* Enable requests for some nodes.                                          *)
LEMMA Enables ==
  ASSUME Countable, Sound, NEW S \in SUBSET Node, toCore' = toCore \o Reqs("enable", S), NEW n \in Node
  PROVE  /\ Sent(toCore', CreateOf(n)) <=> Sent(toCore, CreateOf(n))
         /\ Follows(toCore', CreateOf(n), CreateOf(n)) <=> Follows(toCore, CreateOf(n), CreateOf(n))
         /\ Sent(toCore', Decommission(n)) <=> Sent(toCore, Decommission(n))
         /\ n \in S => Over(toCore', Enable(n), Drain(n))
         /\ n \notin S => SameMessages(n)
<1> DEFINE r == Reqs("enable", S)
<1>1. r \in ToCore /\ toCore \in ToCore
  BY ReqsSent, SoundTypes
<1>2. \A t, m : Sent(r, Req(t, m)) <=> t = "enable" /\ m \in S
  BY ReqsSent
<1>3. ~Sent(r, CreateOf(n)) /\ ~Sent(r, Drain(n)) /\ ~Sent(r, Decommission(n)) /\ (Sent(r, Enable(n)) <=> n \in S)
  BY <1>2 DEF CreateOf, Drain, Decommission, Enable
<1> HIDE DEF r
<1>4. \A a, b : /\ Sent(toCore', a) <=> Sent(toCore, a) \/ Sent(r, a)
                /\ Follows(toCore', a, b) => Follows(toCore, a, b) \/ Sent(r, b)
                /\ Follows(toCore, a, b) => Follows(toCore', a, b)
                /\ ~Sent(r, b) => (Over(toCore', a, b) <=> Over(toCore, a, b) \/ Sent(r, a))
  <2>1. toCore' = toCore \o r
    BY DEF r
  <2>2. ASSUME NEW a, NEW b
        PROVE  /\ Sent(toCore \o r, a) <=> Sent(toCore, a) \/ Sent(r, a)
               /\ Follows(toCore \o r, a, b) => Follows(toCore, a, b) \/ Sent(r, b)
               /\ Follows(toCore, a, b) => Follows(toCore \o r, a, b)
               /\ ~Sent(r, b) => (Over(toCore \o r, a, b) <=> Over(toCore, a, b) \/ Sent(r, a))
    BY <1>1, QueueBatch, ZenonT(60) DEF ToCore
  <2> QED BY <2>1, <2>2, Zenon
<1>5. n \notin S => SameMessages(n)
  <2> SUFFICES ASSUME n \notin S, NEW a \in Msgs(n), NEW b \in Msgs(n)
               PROVE  /\ Sent(toCore', a) <=> Sent(toCore, a)
                      /\ Follows(toCore', a, b) <=> Follows(toCore, a, b)
                      /\ Over(toCore', a, b) <=> Over(toCore, a, b)
    BY DEF SameMessages
  <2>1. ~Sent(r, a) /\ ~Sent(r, b)
    BY <1>3 DEF Msgs
  <2> QED BY <1>4, <2>1, ZenonT(60)
<1> QED BY <1>3, <1>4, <1>5

LEMMA AddNodesTold ==
  ASSUME Countable, Sound, Told, addNodesWithoutRegistering
  PROVE  Told'
<1>0. RegInv /\ StartInv /\ GoneInv /\ AgreeInv
  BY DEF Told
<1>1. /\ init = "add" /\ init' = "list" /\ pending = {} /\ pending' = {} /\ accepted' = accepted
      /\ UNCHANGED <<apiNode, nodeQueue, handlers, going, todo, inf, events, coreNode, loaded>>
      /\ \A n \in Node : cacheNode'[n] = IF n \in accepted THEN loaded[n] ELSE None
      /\ toCore' = toCore \o Reqs("enable", Enabled(accepted))
  BY ZenonT(60) DEF addNodesWithoutRegistering, apiVars, queueVars, coreVars, regVars
<1>2. inf = Idle /\ inf.at = "idle" /\ inf.node = None /\ going = None
  <2>1. BeforeHandlers
    BY ZenonT(60) DEF Sound, Typed
  <2>2. inf = Idle /\ going = None
    BY <1>1, <2>1, Zenon DEF BeforeHandlers
  <2> QED BY <2>2 DEF Idle
<1>3. \A n \in Node : ~Sent(toCore, CreateOf(n)) /\ ~Sent(events, Accept(n)) /\ ~Sent(events, Reject(n))
  BY <1>0, <1>1, ZenonT(60) DEF RegInv
<1>4. Enabled(accepted) \in SUBSET Node /\ \A n \in Node : n \in Enabled(accepted) <=> n \in accepted /\ loaded[n] = "ready"
  BY SoundTypes DEF Enabled
<1>5. \A n \in Node : /\ ~Sent(toCore', CreateOf(n))
                      /\ Sent(toCore', Decommission(n)) <=> Sent(toCore, Decommission(n))
                      /\ n \in Enabled(accepted) => Over(toCore', Enable(n), Drain(n))
                      /\ n \notin Enabled(accepted) => (Sent(toCore', Enable(n)) <=> Sent(toCore, Enable(n)))
  BY <1>1, <1>3, <1>4, Enables, MsgsDiffer, ZenonT(60) DEF SameMessages
<1>6. RegInv'
  BY <1>0, <1>1, <1>2, <1>3, <1>5, ZenonT(60) DEF RegInv
<1>7. StartInv'
  BY <1>1, ZenonT(60) DEF StartInv
<1>8. GoneInv'
  BY <1>0, <1>1, <1>2, ZenonT(60) DEF GoneInv
<1>9. ASSUME NEW n \in Node PROVE NodeOK(n)'
  <2>1. ~Rejected(n)' /\ inf'.node # n /\ going' # n
    BY <1>1, <1>2, NodesAssumption DEF Rejected
  <2>2. ~Sent(toCore', Decommission(n)) /\ coreNode'[n] = IF n \in accepted THEN "draining" ELSE "none"
    BY <1>0, <1>1, <1>3, <1>5, ZenonT(60) DEF StartInv
  <2>3. CASE n \notin accepted
    BY <1>1, <1>5, <2>1, <2>2, <2>3, ZenonT(60) DEF NodeOK, Settled, Exists
  <2>4. CASE n \in accepted
    <3>1. cacheNode'[n] \in {"ready", "cordoned"} /\ cacheNode'[n] = loaded[n] /\ cacheNode'[n] # None
      BY <1>1, <2>4, SoundTypes, NodesAssumption DEF Sound, NoneListed, Objs
    <3>2. Exists(n)'
      BY <2>2, <2>4 DEF Exists
    <3>3. WillBe(n, cacheNode[n])'
      BY <1>0, <1>1, <1>4, <1>5, <2>2, <2>4, <3>1, ZenonT(60) DEF WillBe, StartInv
    <3> QED BY <1>5, <2>1, <3>1, <3>2, <3>3, ZenonT(60) DEF NodeOK, Settled
  <2> QED BY <2>3, <2>4, ZenonT(60)
<1> QED BY <1>6, <1>7, <1>8, <1>9, ZenonT(60) DEF Told, AgreeInv

LEMMA EnableNodesTold ==
  ASSUME Countable, Sound, Told, enableNodes
  PROVE  Told'
<1>0. RegInv /\ StartInv /\ GoneInv /\ AgreeInv
  BY DEF Told
<1>1. /\ init = "pods" /\ init' = "nodeHandlers" /\ UNCHANGED regVars /\ pending' = pending /\ accepted' = accepted
      /\ UNCHANGED <<apiNode, nodeQueue, handlers, going, todo, inf, events, coreNode, cacheNode>>
      /\ toCore' = toCore \o Reqs("enable", Enabled(accepted))
  BY ZenonT(60) DEF enableNodes, apiVars, queueVars, coreVars, regVars, cacheVars
<1>2. inf = Idle /\ inf.at = "idle" /\ inf.node = None /\ pending = {}
  <2>1. inf = Idle
    BY <1>1, SoundParts DEF BeforeHandlers
  <2>2. inf.at = "idle" /\ inf.node = None
    BY <2>1 DEF Idle
  <2> QED BY <1>0, <1>1, <2>1, <2>2 DEF RegInv
<1>3. Enabled(accepted) \in SUBSET Node /\ \A n \in Node : n \in Enabled(accepted) <=> n \in accepted /\ loaded[n] = "ready"
  BY SoundTypes DEF Enabled
<1>4. RegInv'
  BY <1>0, <1>1, <1>2, <1>3, Enables, RegSame, ZenonT(60)
<1>5. StartInv'
  BY <1>1 DEF StartInv
<1>6. GoneInv'
  BY <1>0, <1>1, ZenonT(60) DEF GoneInv
<1>7. ASSUME NEW n \in Node PROVE NodeOK(n)'
  <2>1. NodeOK(n)
    BY <1>0, <1>1 DEF AgreeInv
  <2>2. (Rejected(n)' <=> Rejected(n)) /\ (AbsentComing(n)' <=> AbsentComing(n))
    BY <1>1, <1>2 DEF Rejected, AbsentComing
  <2>3. CASE n \notin Enabled(accepted)
    BY <1>1, <1>3, <2>1, <2>2, <2>3, Enables, SameNode, ZenonT(60)
  <2>4. CASE n \in Enabled(accepted)
    <3>1. /\ Sent(toCore', CreateOf(n)) <=> Sent(toCore, CreateOf(n))
          /\ Sent(toCore', Decommission(n)) <=> Sent(toCore, Decommission(n))
          /\ Over(toCore', Enable(n), Drain(n))
      BY <1>1, <1>3, <2>4, Enables, ZenonT(60)
    <3>2. ~Sent(toCore, CreateOf(n))
      BY <1>0, <1>2 DEF RegInv
    <3>3. cacheNode[n] = "ready"
      BY <1>0, <1>1, <1>3, <2>4, ZenonT(60) DEF StartInv
    <3>4. WillBe(n, cacheNode[n])' /\ inf'.node # n /\ (Exists(n)' <=> Exists(n))
      BY <1>1, <1>2, <3>1, <3>3, NodesAssumption DEF WillBe, Exists
    <3>5. Settled(n)
      BY <2>1, <3>2 DEF NodeOK
    <3>6. Settled(n)'
      BY <1>1, <2>2, <3>4, <3>5, ZenonT(60) DEF Settled
    <3> QED BY <3>1, <3>2, <3>6 DEF NodeOK
  <2> QED BY <2>3, <2>4
<1> QED BY <1>4, <1>5, <1>6, <1>7 DEF Told, AgreeInv

LEMMA AddNodeHandlersTold ==
  ASSUME Countable, Sound, Told, AddNodeHandlers
  PROVE  Told'
<1>0. RegInv /\ StartInv /\ GoneInv /\ AgreeInv
  BY DEF Told
<1>1. /\ init = "nodeHandlers" /\ init' = "podHandlers" /\ "node" \in handlers'
      /\ UNCHANGED <<apiNode, going, todo, inf, events, coreNode, cacheNode, regVars, toCore, loaded>>
  BY ZenonT(60) DEF AddNodeHandlers, apiVars, coreVars, cacheVars
<1>2. PICK S \in SUBSET Node :
        /\ \A n \in S : apiNode[n] # "absent"
        /\ nodeQueue' = [i \in 1 .. Cardinality(S) |-> NodeEv(ListOf(S)[i], apiNode[ListOf(S)[i]])]
  <2>1. \E S \in SUBSET Node : /\ S = {n \in Node : apiNode[n] # "absent"}
                               /\ nodeQueue' = [i \in 1 .. Cardinality(S) |-> NodeEv(ListOf(S)[i], apiNode[ListOf(S)[i]])]
    BY ZenonT(60) DEF AddNodeHandlers
  <2> QED BY <2>1, ZenonT(60)
<1>4. Cardinality(S) \in Nat /\ \A i \in 1 .. Cardinality(S) : ListOf(S)[i] \in S
  BY Listed, ZenonT(60)
<1>5. ASSUME NEW n \in Node, NEW obj, Sent(nodeQueue', NodeEv(n, obj)) PROVE apiNode[n] # "absent"
  <2>1. PICK i \in 1 .. Cardinality(S) : NodeEv(ListOf(S)[i], apiNode[ListOf(S)[i]]) = NodeEv(n, obj)
    BY <1>2, <1>4, <1>5 DEF Sent
  <2>2. ListOf(S)[i] = n
    BY <2>1, EventsDiffer, ZenonT(60)
  <2> QED BY <1>2, <1>4, <2>2, ZenonT(60)
<1>6. \A n : ~AbsentComing(n)
  BY <1>1 DEF Sound, Typed, BeforeHandlers, AbsentComing, Sent
<1>7. GoneInv'
  BY <1>0, <1>1, <1>5, ZenonT(60) DEF GoneInv
<1> QED BY <1>0, <1>1, <1>6, <1>7, QueueAside DEF Told

LEMMA InitTold ==
  ASSUME Countable, Sound, Told, InitStep
  PROVE  Told'
<1>0. GoneInv /\ InitTyped
  BY DEF Told, Sound, Typed
<1>1. ASSUME loadNodes \/ listPods \/ AddPodHandlers \/ finalizeNodes \/ finalizePods \/ Initialized
      PROVE  Told'
  <2>1. /\ UNCHANGED <<apiNode, nodeQueue, cacheNode, going, regVars, coreNode, inf, toCore, events>> /\ handlers \subseteq handlers'
    BY <1>1, ZenonT(60) DEF loadNodes, listPods, AddPodHandlers, finalizeNodes, finalizePods, Initialized, apiVars, cacheVars, coreVars, queueVars
  <2>2. CASE loadNodes
    <3>1. init = "load" /\ init' = "register" /\ cacheNode' = cacheNode
      BY <2>1, <2>2 DEF loadNodes
    <3>2. RegInv /\ StartInv /\ pending' = pending /\ accepted' = accepted
      BY <2>1 DEF Told, regVars
    <3>3. RegInv' /\ StartInv' /\ GoneInv' /\ AgreeInv'
      BY <1>0, <2>1, <3>1, <3>2, ZenonT(60) DEF RegInv, StartInv, GoneInv, AgreeInv
    <3> QED BY <3>3 DEF Told
  <2>3. CASE ~loadNodes
    <3>1. /\ loaded' = loaded
          /\ \/ init = "list" /\ init' = "pods"
             \/ init = "podHandlers" /\ init' = "listNodes"
             \/ init = "listNodes" /\ init' = "removeNodes" /\ \A n \in todo' : apiNode[n] = "absent"
             \/ init = "removeNodes" /\ init' = "removePods"
             \/ init = "removePods" /\ init' = "done"
      BY <1>1, <2>3, ZenonT(60) DEF listPods, AddPodHandlers, finalizeNodes, finalizePods, Initialized
    <3> QED BY <2>1, <3>1, NodesAside, NothingSaid, NoAnswers
  <2> QED BY <2>2, <2>3
<1>2. ASSUME registerPods \/ FinalizeDeletesPod PROVE Told'
  <2>1. /\ UNCHANGED <<apiNode, nodeQueue, cacheNode, going, regVars, coreNode, inf, events, handlers, init, loaded>>
        /\ init \in {"pods", "removePods"}
    BY <1>2, ZenonT(60) DEF registerPods, FinalizeDeletesPod, apiVars, coreVars, queueVars
  <2>2. \A n : SameMessages(n)
    BY <1>2, SoundTypes, PodsSaid, ZenonT(60) DEF registerPods, FinalizeDeletesPod
  <2> QED BY <2>1, <2>2, NodesAside, NoAnswers
<1> QED BY <1>1, <1>2, RegisterNodesTold, AddNodesTold, EnableNodesTold, AddNodeHandlersTold, FinalizeTold, ZenonT(60) DEF InitStep

(* The node informer takes the first event.                                 *)
LEMMA EventTaken ==
  ASSUME Sound, GoneInv, nodeQueue # << >>, nodeQueue' = Tail(nodeQueue), UNCHANGED apiNode,
         NEW k \in Node, NEW obj \in Objs, Head(nodeQueue) = NodeEv(k, obj)
  PROVE  /\ \A n : AbsentComing(n) /\ (n # k \/ obj # "absent") => AbsentComing(n)'
         /\ obj # "absent" /\ apiNode[k] = "absent" => AbsentComing(k)'
         /\ \A n \in Node, o \in {"ready", "cordoned"} :
              apiNode'[n] = "absent" /\ Sent(nodeQueue', NodeEv(n, o)) => Over(nodeQueue', NodeEv(n, "absent"), NodeEv(n, o))
         /\ "node" \in handlers
<1>1. \A a, b : /\ Sent(nodeQueue, a) <=> NodeEv(k, obj) = a \/ Sent(nodeQueue', a)
                /\ Over(nodeQueue, a, b) <=> Over(nodeQueue', a, b) \/ (NodeEv(k, obj) = a /\ ~Sent(nodeQueue', b))
  BY SoundTypes, QueueTail, ZenonT(60)
<1>2. \A n : AbsentComing(n) /\ (n # k \/ obj # "absent") => AbsentComing(n)'
  BY <1>1, EventsDiffer DEF AbsentComing
<1>3. ASSUME obj # "absent", apiNode[k] = "absent" PROVE AbsentComing(k)'
  <2>1. obj \in {"ready", "cordoned"} /\ Sent(nodeQueue, NodeEv(k, obj))
    BY <1>1, <1>3, ZenonT(60) DEF Objs
  <2>2. Over(nodeQueue, NodeEv(k, "absent"), NodeEv(k, obj))
    BY <1>3, <2>1 DEF GoneInv
  <2>3. NodeEv(k, obj) # NodeEv(k, "absent")
    BY <1>3, EventsDiffer
  <2>4. Over(nodeQueue', NodeEv(k, "absent"), NodeEv(k, obj))
    BY <1>1, <2>2, <2>3, ZenonT(60)
  <2> QED BY <2>4 DEF Over, Sent, AbsentComing
<1>4. ASSUME NEW n \in Node, NEW o \in {"ready", "cordoned"}, apiNode[n] = "absent", Sent(nodeQueue', NodeEv(n, o))
      PROVE  Over(nodeQueue', NodeEv(n, "absent"), NodeEv(n, o))
  <2>1. Over(nodeQueue, NodeEv(n, "absent"), NodeEv(n, o))
    BY <1>1, <1>4, ZenonT(60) DEF GoneInv
  <2> QED BY <1>1, <1>4, <2>1
<1>5. "node" \in handlers
  BY ZenonT(60) DEF GoneInv
<1> QED BY <1>2, <1>3, <1>4, <1>5, ZenonT(60)

(* Between registrations no node has been asked for and no answer is out.   *)
LEMMA NoneAsked ==
  ASSUME RegInv, pending = {}
  PROVE  \A n \in Node : ~Sent(toCore, CreateOf(n)) /\ ~Sent(events, Accept(n)) /\ ~Sent(events, Reject(n))
BY ZenonT(60) DEF RegInv

LEMMA IdleInformer ==
  ASSUME inf = Idle
  PROVE  inf.at = "idle" /\ inf.node = None /\ \A n \in Node : ~Rejected(n) /\ inf.node # n
BY NodesAssumption DEF Idle, Rejected

(* Past InitializeState's registration the informer is the one who          *)
(* registers.                                                               *)
LEMMA InformerWorks ==
  ASSUME Sound, Told, NodeInformerStep
  PROVE  /\ init \notin {"load", "register", "add", "list", "pods"}
         /\ UNCHANGED <<apiNode, handlers, init, loaded, todo, going, events, coreNode>>
         /\ \A n \in Node : NodeOK(n)
         /\ RegInv /\ GoneInv /\ StartInv'
         /\ inf.at # "waiting" => pending = {}
<1>1. inf.at \in {"waiting", "adopting"} \/ nodeQueue # << >>
  BY ZenonT(60) DEF NodeInformerStep, updateKnownNode, updateNewNode, NodeRejected, NodeAccepted, AdoptPod, enableNode, deleteNode
<1>2. Idle.at = "idle"
  BY DEF Idle
<1>3. init \notin {"load", "register", "add", "list", "pods"}
  BY <1>1, <1>2 DEF Sound, Typed, BeforeHandlers
<1>4. UNCHANGED <<apiNode, handlers, init, loaded, todo, going, events, coreNode>>
  BY ZenonT(60) DEF NodeInformerStep, updateKnownNode, updateNewNode, NodeRejected, NodeAccepted, AdoptPod, enableNode, deleteNode,
         apiVars, queueVars, initVars, coreVars
<1>5. RegInv /\ GoneInv /\ AgreeInv
  BY ZenonT(60) DEF Told
<1>6. StartInv'
  BY <1>3, <1>4, ZenonT(60) DEF StartInv
<1>7. inf.at # "waiting" => pending = {}
  BY <1>3, <1>5, ZenonT(60) DEF RegInv
<1> QED BY <1>3, <1>4, <1>5, <1>6, <1>7 DEF AgreeInv

LEMMA KnownNodeTold ==
  ASSUME Sound, Told, updateKnownNode
  PROVE  Told'
<1>0. NodeInformerStep
  BY DEF NodeInformerStep
<1>1. PICK k \in Node, obj \in {"ready", "cordoned"} :
        /\ nodeQueue # << >> /\ Head(nodeQueue) = NodeEv(k, obj) /\ nodeQueue' = Tail(nodeQueue) /\ cacheNode[k] # None
        /\ toCore' = toCore \o updateNodeSchedulability(k, obj) /\ cacheNode' = [cacheNode EXCEPT ![k] = obj]
  <2>1. nodeQueue # << >> /\ Head(nodeQueue) \in NodeEvents
    BY SoundTypes, SeqTyped DEF updateKnownNode
  <2>2. PICK k \in Node, obj \in Objs : Head(nodeQueue) = NodeEv(k, obj)
    BY <2>1 DEF NodeEvents, NodeEv
  <2>3. NodeEv(k, obj).node = k /\ NodeEv(k, obj).obj = obj
    BY ZenonT(60) DEF NodeEv
  <2> QED BY <2>1, <2>2, <2>3, ZenonT(60) DEF updateKnownNode, CacheUpdateNode, Objs
<1>2. inf = Idle /\ inf' = inf /\ UNCHANGED regVars
  BY DEF updateKnownNode
<1>3. pending = {} /\ pending' = {} /\ accepted' = accepted
  BY <1>0, <1>2, InformerWorks, IdleInformer, ZenonT(60) DEF regVars
<1>4. \A n \in Node : ~Sent(toCore, CreateOf(n))
  BY <1>0, <1>3, InformerWorks, NoneAsked, ZenonT(60)
<1>5. PICK x \in {Enable(k), Drain(k)} :
        /\ toCore' = toCore \/ toCore' = Append(toCore, x)
        /\ toCore' = toCore => cacheNode[k] = obj
        /\ toCore' = Append(toCore, x) => x = IF obj = "ready" THEN Enable(k) ELSE Drain(k)
  <2>1. toCore \in ToCore
    BY SoundTypes
  <2>2. CASE cacheNode[k] = obj
    <3>1. toCore' = toCore
      BY <1>1, <2>1, <2>2 DEF updateNodeSchedulability, ToCore
    <3>2. \A y : toCore' # Append(toCore, y)
      BY <2>1, <3>1 DEF ToCore
    <3> QED BY <2>2, <3>1, <3>2
  <2>3. CASE cacheNode[k] # obj
    <3>1. PICK x \in {Enable(k), Drain(k)} : x = IF obj = "ready" THEN Enable(k) ELSE Drain(k)
      OBVIOUS
    <3>2. toCore' = toCore \o <<x>>
      BY <1>1, <2>3, <3>1 DEF updateNodeSchedulability, Enable, Drain
    <3>3. toCore' = Append(toCore, x) /\ toCore' # toCore
      BY <2>1, <3>2 DEF ToCore
    <3> QED BY <3>1, <3>3
  <2> QED BY <2>2, <2>3
<1>6. \A n : x # CreateOf(n)
  BY ReqsDiffer DEF CreateOf, Enable, Drain
<1>7. \A n : AddedFacts(toCore, x, Append(toCore, x), n)
  BY SoundTypes, Adds
<1>8. \A n \in Node : ~Sent(toCore', CreateOf(n))
  <2>1. \A n \in Node : ~Sent(Append(toCore, x), CreateOf(n))
    BY <1>4, <1>6, <1>7, MsgsDiffer, ZenonT(60) DEF AddedFacts
  <2> QED BY <1>4, <1>5, <2>1, Zenon
<1>9. RegInv'
  <2>1. \A n \in Node : ~Follows(toCore', CreateOf(n), CreateOf(n)) /\ ~Follows(toCore, CreateOf(n), CreateOf(n))
    BY <1>4, <1>8, FollowsSent
  <2> QED BY <1>0, <1>2, <1>3, <1>4, <1>8, <2>1, InformerWorks, RegSame, ZenonT(60)
<1>10. obj # "absent" /\ obj \in Objs /\ obj # None
  BY NodesAssumption DEF Objs
<1>11. GoneInv'
  BY <1>0, <1>1, <1>2, <1>10, InformerWorks, EventTaken, IdleInformer, ZenonT(60) DEF GoneInv
<1>12. ASSUME NEW n \in Node PROVE NodeOK(n)'
  <2>1. NodeOK(n) /\ (AbsentComing(n) => AbsentComing(n)')
    BY <1>0, <1>1, <1>10, InformerWorks, EventTaken, ZenonT(60)
  <2>2. ~Rejected(n) /\ ~Rejected(n)' /\ inf.node # n /\ inf'.node # n
    BY <1>2, IdleInformer DEF Rejected
  <2>3. CASE n # k
    <3>1. cacheNode'[n] = cacheNode[n] /\ x \in Msgs(k)
      BY <1>1, <2>3, SoundTypes, MsgsDiffer, ZenonT(60)
    <3> QED BY <1>0, <1>5, <2>1, <2>2, <2>3, <3>1, AddedForOther, InformerWorks, ZenonT(60)
  <2>4. CASE n = k
    <3>1. Settled(n)
      BY <1>4, <2>1, ZenonT(60) DEF NodeOK
    <3>2. cacheNode'[n] = obj /\ cacheNode[n] # None
      BY <1>1, <2>4, SoundTypes, ZenonT(60)
    <3>3. Exists(n)' <=> Exists(n)
      <4>1. Sent(Append(toCore, x), Decommission(n)) <=> Sent(toCore, Decommission(n))
        BY <1>7, <2>4, MsgsDiffer DEF AddedFacts
      <4>2. Sent(toCore', Decommission(n)) <=> Sent(toCore, Decommission(n))
        BY <1>5, <4>1, Zenon
      <4> QED BY <1>0, <4>2, InformerWorks, ZenonT(60) DEF Exists
    <3>4. WillBe(n, cacheNode[n]) => WillBe(n, cacheNode[n])'
      <4>1. CASE toCore' = toCore
        BY <1>0, <1>5, <2>4, <3>2, <4>1, InformerWorks, ZenonT(60) DEF WillBe
      <4>2. CASE toCore' = Append(toCore, x)
        BY <1>5, <1>7, <2>4, <3>2, <4>2, MsgsDiffer, ZenonT(60) DEF WillBe, AddedFacts
      <4> QED BY <1>5, <4>1, <4>2, ZenonT(60)
    <3>5. Settled(n)'
      BY <1>0, <1>10, <2>1, <2>2, <3>1, <3>2, <3>3, <3>4, InformerWorks, ZenonT(60) DEF Settled
    <3> QED BY <1>8, <3>5 DEF NodeOK
  <2> QED BY <2>3, <2>4, ZenonT(60)
<1> QED BY <1>0, <1>9, <1>11, <1>12, InformerWorks DEF Told, AgreeInv

LEMMA OneCreate ==
  ASSUME Countable, NEW s \in ToCore, NEW k \in Node
  PROVE  s \o Reqs("create", {k}) = Append(s, CreateOf(k))
<1>1. Cardinality({k}) = 1
  BY DEF Countable
<1>2. ListOf({k})[1] = k
  BY <1>1, Listed
<1>3. Reqs("create", {k}) = <<CreateOf(k)>>
  BY <1>1, <1>2 DEF Reqs, CreateOf
<1>4. CreateOf(k) \in NodeReqs \cup PodReqs
  BY DEF CreateOf, Req, NodeReqs
<1> DEFINE c == CreateOf(k)
<1> HIDE DEF c
<1>5. s \o <<c>> = Append(s, c)
  BY <1>4 DEF ToCore, c
<1> QED BY <1>3, <1>5, ZenonT(60) DEF c

LEMMA NewNodeTold ==
  ASSUME Countable, Sound, Told, updateNewNode
  PROVE  Told'
<1>0. NodeInformerStep
  BY DEF NodeInformerStep
<1>1. PICK k \in Node, obj \in {"ready", "cordoned"} :
        /\ nodeQueue # << >> /\ Head(nodeQueue) = NodeEv(k, obj) /\ nodeQueue' = Tail(nodeQueue) /\ cacheNode[k] = None
        /\ toCore' = toCore \o Reqs("create", {k}) /\ cacheNode' = [cacheNode EXCEPT ![k] = obj]
        /\ pending' = {k} /\ accepted' = {} /\ inf'.at = "waiting" /\ inf'.node = k /\ inf'.obj = obj
  <2>1. nodeQueue # << >> /\ Head(nodeQueue) \in NodeEvents
    BY SoundTypes, SeqTyped DEF updateNewNode
  <2>2. PICK k \in Node, obj \in Objs : Head(nodeQueue) = NodeEv(k, obj)
    BY <2>1 DEF NodeEvents, NodeEv
  <2>3. NodeEv(k, obj).node = k /\ NodeEv(k, obj).obj = obj
    BY DEF NodeEv
  <2>4. inf' = [at |-> "waiting", node |-> k, obj |-> obj, adopted |-> Orphans(k)] /\ obj # "absent"
    BY <2>2, <2>3, ZenonT(60) DEF updateNewNode
  <2>5. inf'.at = "waiting" /\ inf'.node = k /\ inf'.obj = obj
    BY <2>4
  <2> QED BY <2>1, <2>2, <2>3, <2>4, <2>5, ZenonT(60) DEF updateNewNode, CacheUpdateNode, registerNodes, Objs
<1>2. inf = Idle
  BY ZenonT(60) DEF updateNewNode
<1>3. pending = {}
  BY <1>0, <1>2, InformerWorks, IdleInformer, ZenonT(60)
<1>4. \A n \in Node : ~Sent(toCore, CreateOf(n)) /\ ~Sent(events, Accept(n)) /\ ~Sent(events, Reject(n))
  BY <1>0, <1>3, InformerWorks, NoneAsked
<1>5. toCore' = Append(toCore, CreateOf(k))
  BY <1>1, OneCreate, SoundTypes, ZenonT(60)
<1>6. \A n : AddedFacts(toCore, CreateOf(k), toCore', n)
  BY <1>5, SoundTypes, Adds
<1>7. \A n \in Node : /\ Sent(toCore', CreateOf(n)) <=> n = k
                      /\ ~Follows(toCore', CreateOf(n), CreateOf(n))
  <2>1. \A n \in Node : CreateOf(k) = CreateOf(n) <=> n = k
    BY ReqsDiffer DEF CreateOf
  <2>2. \A n \in Node : ~Follows(toCore, CreateOf(n), CreateOf(n))
    BY <1>4, FollowsSent
  <2> QED BY <1>4, <1>6, <2>1, <2>2, MsgsDiffer, ZenonT(60) DEF AddedFacts
<1>8. UNCHANGED <<apiNode, handlers, init, loaded, todo, going, events, coreNode>> /\ RegInv /\ GoneInv
  BY <1>0, InformerWorks
<1>9. RegInv'
  BY <1>1, <1>4, <1>7, <1>8, ZenonT(60) DEF RegInv
<1>10. obj # "absent" /\ obj \in Objs /\ obj # None /\ cacheNode'[k] = obj /\ \A n \in Node : n # k => cacheNode'[n] = cacheNode[n]
  BY <1>1, NodesAssumption, SoundTypes DEF Objs
<1>11. GoneInv'
  BY <1>1, <1>8, <1>10, EventTaken, ZenonT(60) DEF GoneInv
<1>12. ASSUME NEW n \in Node PROVE NodeOK(n)'
  <2>1. NodeOK(n) /\ (AbsentComing(n) => AbsentComing(n)')
    BY <1>0, <1>1, <1>10, InformerWorks, EventTaken, ZenonT(60)
  <2>2. ~Rejected(n) /\ inf.node # n
    BY <1>2, IdleInformer
  <2>3. CASE n # k
    <3>1. ~Rejected(n)' /\ inf'.node # n
      BY <1>1, <2>3 DEF Rejected
    <3> QED BY <1>5, <1>8, <1>10, <2>1, <2>2, <2>3, <3>1, AddedForOther, MsgsDiffer, ZenonT(60)
  <2>4. CASE n = k
    <3> DEFINE c == CreateOf(n)
               e == Enable(n)
               d == Drain(n)
               x == Decommission(n)
    <3>1. Settled(n)
      BY <1>4, <2>1 DEF NodeOK
    <3>2. ~Exists(n) \/ going = n
      BY <1>1, <2>4, <3>1, ZenonT(60) DEF Settled
    <3>3. ~Follows(toCore, c, e) /\ ~Follows(toCore, c, d) /\ ~Follows(toCore, c, x)
      BY <1>4, FollowsSent
    <3>4. /\ ~Follows(toCore', c, e) /\ ~Follows(toCore', c, d) /\ ~Follows(toCore', c, x)
          /\ Sent(toCore, x) => Follows(toCore', x, c)
      BY <1>4, <1>6, <2>4, <3>3, MsgsDiffer, ZenonT(60) DEF AddedFacts
    <3>5. going = n => AbsentComing(n)'
      <4>1. going = n => apiNode[n] = "absent"
        BY <1>8, NodesAssumption, ZenonT(60) DEF GoneInv
      <4> QED BY <1>1, <1>8, <1>10, <2>4, <4>1, EventTaken, ZenonT(60)
    <3>6. Asked(n)'
      BY <1>8, <1>10, <2>4, <3>2, <3>4, <3>5, ZenonT(60) DEF Asked, Leaves, Exists
    <3> QED BY <1>7, <2>4, <3>6 DEF NodeOK
  <2> QED BY <2>3, <2>4
<1> QED BY <1>0, <1>9, <1>11, <1>12, InformerWorks DEF Told, AgreeInv

LEMMA AnsweredTold ==
  ASSUME Sound, Told, NodeRejected \/ NodeAccepted
  PROVE  Told'
<1>0. NodeInformerStep
  BY DEF NodeInformerStep
<1>1. /\ inf.at = "waiting" /\ pending = {} /\ UNCHANGED <<nodeQueue, toCore, regVars>>
      /\ pending' = {} /\ accepted' = accepted
  BY DEF NodeRejected, NodeAccepted, queueVars, regVars
<1>2. UNCHANGED <<apiNode, handlers, init, loaded, todo, going, events, coreNode>> /\ RegInv /\ GoneInv /\ init # "add"
  BY <1>0, InformerWorks, ZenonT(60)
<1>3. \A n \in Node : ~Sent(toCore, CreateOf(n)) /\ ~Sent(events, Reject(n))
  BY <1>1, <1>2, NoneAsked
<1>4. inf'.at # "waiting"
  BY <1>1 DEF NodeRejected, NodeAccepted, Idle, Sound, Typed, InfTyped
<1>5. PICK k \in Node : inf.node = k
  BY <1>1 DEF Sound, Typed, InfTyped, Idle
<1>6. RegInv'
  BY <1>1, <1>2, <1>4, ZenonT(60) DEF RegInv
<1>7. \A n \in Node : ~Rejected(n)'
  BY <1>4, ZenonT(60) DEF Rejected
<1>8. CASE NodeRejected
  <2>1. cacheNode' = [cacheNode EXCEPT ![k] = None] /\ inf' = Idle /\ k \notin accepted
    BY <1>5, <1>8, ZenonT(60) DEF NodeRejected, CacheRemoveNode
  <2>2. cacheNode'[k] = None /\ \A n \in Node : n # k => cacheNode'[n] = cacheNode[n]
    BY <2>1, SoundTypes
  <2>3. GoneInv'
    BY <1>1, <1>2, <2>1, ZenonT(60) DEF GoneInv, Idle
  <2>4. ASSUME NEW n \in Node PROVE NodeOK(n)'
    <3>1. NodeOK(n) /\ (AbsentComing(n)' <=> AbsentComing(n))
      BY <1>0, <1>1, InformerWorks DEF AbsentComing
    <3>2. CASE n # k
      <4>1. ~Rejected(n) /\ inf.node # n /\ inf'.node # n
        BY <1>5, <2>1, <3>2, NodesAssumption, ZenonT(60) DEF Rejected, Idle
      <4> QED BY <1>1, <1>2, <1>7, <2>2, <3>1, <3>2, <4>1, SameNode, NothingSaid, ZenonT(60)
    <3>3. CASE n = k
      <4>1. Settled(n) /\ Rejected(n)
        BY <1>1, <1>3, <1>5, <2>1, <3>1, <3>3 DEF NodeOK, Rejected
      <4>2. ~Exists(n) \/ going = n
        BY <4>1, ZenonT(60) DEF Settled
      <4>3. Settled(n)'
        BY <1>1, <1>2, <1>7, <2>2, <3>3, <4>2, ZenonT(60) DEF Settled, Exists
      <4> QED BY <1>1, <1>3, <4>3, ZenonT(60) DEF NodeOK
    <3> QED BY <3>2, <3>3
  <2> QED BY <1>0, <1>6, <2>3, <2>4, InformerWorks, ZenonT(60) DEF Told, AgreeInv
<1>9. CASE NodeAccepted
  <2>1. inf' = [inf EXCEPT !.at = "adopting"] /\ cacheNode' = cacheNode /\ k \in accepted
    BY <1>5, <1>9 DEF NodeAccepted, cacheVars
  <2>2. inf'.node = k /\ inf'.obj = inf.obj
    BY <1>1, <1>5, <2>1 DEF Sound, Typed, InfTyped, Idle
  <2>3. GoneInv'
    BY <1>1, <1>2, <1>5, <2>1, <2>2 DEF GoneInv
  <2>4. ASSUME NEW n \in Node PROVE NodeOK(n)'
    <3>1. NodeOK(n) /\ (AbsentComing(n)' <=> AbsentComing(n))
      BY <1>0, <1>1, InformerWorks DEF AbsentComing
    <3>2. ~Rejected(n)
      BY <1>3, <1>5, <2>1, ZenonT(60) DEF Rejected
    <3> QED BY <1>1, <1>2, <1>5, <1>7, <2>1, <2>2, <3>1, <3>2, SameNode, NothingSaid, ZenonT(60)
  <2> QED BY <1>0, <1>6, <2>3, <2>4, InformerWorks DEF Told, AgreeInv
<1> QED BY <1>8, <1>9

LEMMA EnableNodeTold ==
  ASSUME Sound, Told, enableNode
  PROVE  Told'
<1>0. NodeInformerStep
  BY DEF NodeInformerStep
<1>1. /\ inf.at = "adopting" /\ inf' = Idle /\ UNCHANGED <<nodeQueue, cacheNode, regVars>>
      /\ toCore' = IF inf.obj = "ready" THEN Append(toCore, Enable(inf.node)) ELSE toCore
  BY ZenonT(60) DEF enableNode, queueVars, cacheVars, Enable
<1>2. UNCHANGED <<apiNode, handlers, init, loaded, todo, going, events, coreNode>> /\ RegInv /\ GoneInv /\ pending = {}
      /\ init \notin {"load", "register", "add"}
  BY <1>0, <1>1, InformerWorks
<1>3. PICK k \in Node : inf.node = k
  BY <1>1, SoundParts, InformerHas, ZenonT(60)
<1>4. inf'.at = "idle" /\ \A n \in Node : inf'.node # n /\ ~Rejected(n) /\ ~Rejected(n)'
  BY <1>1, NodesAssumption, ZenonT(60) DEF Idle, Rejected
<1>5. \A n \in Node : ~Sent(toCore, CreateOf(n))
  BY <1>2, NoneAsked
<1>6. \A n : AddedFacts(toCore, Enable(k), Append(toCore, Enable(k)), n)
  BY SoundTypes, Adds
<1>7. \A n \in Node : ~Sent(toCore', CreateOf(n))
  <2>1. \A n \in Node : ~Sent(Append(toCore, Enable(k)), CreateOf(n))
    <3>1. \A n : Enable(k) # CreateOf(n)
      BY ReqsDiffer DEF CreateOf, Enable
    <3> QED BY <1>5, <1>6, <3>1, MsgsDiffer DEF AddedFacts
  <2> QED BY <1>1, <1>3, <1>5, <2>1, Zenon
<1>8. RegInv'
  <2>1. \A n \in Node : ~Follows(toCore', CreateOf(n), CreateOf(n)) /\ ~Follows(toCore, CreateOf(n), CreateOf(n))
    BY <1>5, <1>7, FollowsSent
  <2> QED BY <1>1, <1>2, <1>4, <1>5, <1>7, <2>1, RegSame, ZenonT(60)
<1>9. GoneInv'
  BY <1>1, <1>2, <1>4, ZenonT(60) DEF GoneInv
<1>10. ASSUME NEW n \in Node PROVE NodeOK(n)'
  <2>1. NodeOK(n) /\ (AbsentComing(n)' <=> AbsentComing(n))
    BY <1>0, <1>1, InformerWorks, ZenonT(60) DEF AbsentComing
  <2>2. CASE n # k
    BY <1>1, <1>2, <1>3, <1>4, <2>1, <2>2, AddedForOther, MsgsDiffer, ZenonT(60)
  <2>3. CASE n = k
    <3>1. Settled(n)
      BY <1>5, <2>1 DEF NodeOK
    <3>2. Exists(n)' <=> Exists(n)
      <4>1. Sent(Append(toCore, Enable(k)), Decommission(n)) <=> Sent(toCore, Decommission(n))
        BY <1>6, <2>3, MsgsDiffer, ZenonT(60) DEF AddedFacts
      <4> QED BY <1>1, <1>2, <1>3, <4>1, ZenonT(60) DEF Exists
    <3>3. cacheNode[n] \in {None, inf.obj} /\ inf.obj \in {"ready", "cordoned"}
      <4>1. inf.obj \in {"ready", "cordoned"}
        BY <1>1, SoundParts, InformerHas
      <4> QED BY <1>1, <1>2, <1>3, <2>3, <4>1, ZenonT(60) DEF GoneInv
    <3>4. cacheNode[n] # None /\ Fresh(n) => WillBe(n, cacheNode[n])'
      <4>1. CASE inf.obj = "ready"
        <5>1. Over(toCore', Enable(n), Drain(n))
          BY <1>1, <1>3, <1>6, <2>3, <4>1, MsgsDiffer, ZenonT(60) DEF AddedFacts
        <5> QED BY <1>1, <3>3, <4>1, <5>1, ZenonT(60) DEF WillBe
      <4>2. CASE inf.obj = "cordoned"
        BY <1>1, <1>2, <3>3, <4>2, ZenonT(60) DEF WillBe, Fresh
      <4> QED BY <3>3, <4>1, <4>2, ZenonT(60)
    <3>5. Settled(n)'
      BY <1>1, <1>2, <1>3, <1>4, <2>1, <2>3, <3>1, <3>2, <3>4, ZenonT(60) DEF Settled
    <3> QED BY <1>7, <3>5 DEF NodeOK
  <2> QED BY <2>2, <2>3, ZenonT(60)
<1> QED BY <1>0, <1>8, <1>9, <1>10, InformerWorks, ZenonT(60) DEF Told, AgreeInv

LEMMA DeleteNodeTold ==
  ASSUME Sound, Told, deleteNode
  PROVE  Told'
<1>0. NodeInformerStep
  BY DEF NodeInformerStep
<1>1. PICK k \in Node :
        /\ nodeQueue # << >> /\ Head(nodeQueue) = NodeEv(k, "absent") /\ nodeQueue' = Tail(nodeQueue)
        /\ toCore' = IF cacheNode[k] = None THEN toCore ELSE Append(toCore, Decommission(k))
        /\ cacheNode' = [cacheNode EXCEPT ![k] = None]
  <2>1. nodeQueue # << >> /\ Head(nodeQueue) \in NodeEvents
    BY SoundTypes, SeqTyped, ZenonT(60) DEF deleteNode
  <2>2. PICK k \in Node, obj \in Objs : Head(nodeQueue) = NodeEv(k, obj)
    BY <2>1 DEF NodeEvents, NodeEv
  <2>3. NodeEv(k, obj).node = k /\ NodeEv(k, obj).obj = obj
    BY DEF NodeEv
  <2> QED BY <2>1, <2>2, <2>3, ZenonT(60) DEF deleteNode, CacheRemoveNode, Decommission
<1>2. inf = Idle /\ inf' = inf /\ UNCHANGED regVars
  BY ZenonT(60) DEF deleteNode
<1>3. UNCHANGED <<apiNode, handlers, init, loaded, todo, going, events, coreNode>> /\ RegInv /\ GoneInv /\ pending = {}
      /\ init \notin {"load", "register", "add"}
  BY <1>0, <1>2, InformerWorks, IdleInformer, ZenonT(60)
<1>4. inf.at = "idle" /\ \A n \in Node : inf.node # n /\ ~Rejected(n) /\ ~Rejected(n)'
  BY <1>2, IdleInformer DEF Rejected
<1>5. \A n \in Node : ~Sent(toCore, CreateOf(n))
  BY <1>3, NoneAsked
<1>6. \A n : AddedFacts(toCore, Decommission(k), Append(toCore, Decommission(k)), n)
  BY SoundTypes, Adds
<1>7. \A n \in Node : ~Sent(toCore', CreateOf(n))
  <2>1. \A n \in Node : ~Sent(Append(toCore, Decommission(k)), CreateOf(n))
    <3>1. \A n : Decommission(k) # CreateOf(n)
      BY ReqsDiffer DEF CreateOf, Decommission
    <3> QED BY <1>5, <1>6, <3>1, MsgsDiffer, ZenonT(60) DEF AddedFacts
  <2> QED BY <1>1, <1>5, <2>1, Zenon
<1>8. RegInv'
  <2>1. \A n \in Node : ~Follows(toCore', CreateOf(n), CreateOf(n)) /\ ~Follows(toCore, CreateOf(n), CreateOf(n))
    BY <1>5, <1>7, FollowsSent
  <2> QED BY <1>2, <1>3, <1>4, <1>5, <1>7, <2>1, RegSame, ZenonT(60)
<1>9. "absent" \in Objs /\ cacheNode'[k] = None /\ \A n \in Node : n # k => cacheNode'[n] = cacheNode[n]
  BY <1>1, SoundTypes DEF Objs
<1>10. GoneInv'
  BY <1>1, <1>2, <1>3, <1>4, <1>9, EventTaken, ZenonT(60) DEF GoneInv
<1>11. ASSUME NEW n \in Node PROVE NodeOK(n)'
  <2>1. NodeOK(n) /\ (n # k /\ AbsentComing(n) => AbsentComing(n)')
    BY <1>0, <1>1, <1>3, <1>9, InformerWorks, EventTaken, ZenonT(60)
  <2>2. CASE n # k
    BY <1>1, <1>2, <1>3, <1>4, <1>9, <2>1, <2>2, AddedForOther, MsgsDiffer, ZenonT(60)
  <2>3. CASE n = k
    <3>1. Settled(n)
      BY <1>5, <2>1, ZenonT(60) DEF NodeOK
    <3>2. Sent(Append(toCore, Decommission(k)), Decommission(n))
      BY <1>6, <2>3, MsgsDiffer DEF AddedFacts
    <3>3. ~Exists(n)' \/ going' = n
      BY <1>1, <1>3, <2>3, <3>1, <3>2, ZenonT(60) DEF Settled, Exists
    <3>4. Settled(n)'
      BY <1>4, <1>9, <2>3, <3>3, ZenonT(60) DEF Settled
    <3> QED BY <1>7, <3>4 DEF NodeOK
  <2> QED BY <2>2, <2>3
<1> QED BY <1>0, <1>8, <1>10, <1>11, InformerWorks DEF Told, AgreeInv

LEMMA AdoptPodTold ==
  ASSUME Sound, Told, AdoptPod
  PROVE  Told'
<1>0. NodeInformerStep
  BY DEF NodeInformerStep
<1>1. UNCHANGED <<apiNode, nodeQueue, handlers, cacheNode, init, loaded, todo, going, regVars, coreNode, events>>
  BY DEF AdoptPod, apiVars, queueVars, initVars, coreVars
<1>2. \A n : SameMessages(n)
  BY SoundTypes, PodsSaid, ZenonT(60) DEF AdoptPod
<1>3. PICK p : inf' = [inf EXCEPT !.adopted = @ \ {p}]
  BY ZenonT(60) DEF AdoptPod
<1>4. inf'.at = inf.at /\ inf'.node = inf.node /\ inf'.obj = inf.obj
  BY <1>3 DEF Sound, Typed, InfTyped, Idle
<1>5. init \notin {"load", "register"} /\ GoneInv
  BY <1>0, InformerWorks
<1> QED BY <1>1, <1>2, <1>4, <1>5, NodesAside, NoAnswers, ZenonT(60) DEF GoneInv

LEMMA ToldInductive ==
  ASSUME Countable, Sound, Told, ~Recreates, [Next]_vars
  PROVE  Told'
<1>1. CASE UNCHANGED vars
  <2>1. UNCHANGED <<apiNode, queueVars, cacheNode, initVars, inf, regVars, events, toCore, coreNode>>
    BY <1>1 DEF vars, apiVars, cacheVars, coreVars
  <2>2. GoneInv
    BY DEF Told
  <2> QED BY <2>1, <2>2, NodesAside, NothingSaid, NoAnswers, ZenonT(60) DEF queueVars, initVars, GoneInv
<1>2. CASE NodeInformerStep
  BY <1>2, KnownNodeTold, NewNodeTold, AnsweredTold, EnableNodeTold, DeleteNodeTold, AdoptPodTold, ZenonT(60) DEF NodeInformerStep
<1> QED BY <1>1, <1>2, ApiTold, InitTold, PodInformerTold, DispatcherTold, CoreTold DEF Next
=============================================================================
