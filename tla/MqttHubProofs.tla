--------------------------- MODULE MqttHubProofs ---------------------------
(***************************************************************************)
(* Proofs about MqttHub, for any set of slugs and any number of outages,   *)
(* restarts and relabellings: once the traffic has settled the broker and  *)
(* Home Assistant hold the present devices and no other.                   *)
(*                                                                         *)
(* What is retained while packets are on the way says little, so that the  *)
(* invariant speaks of what will be retained when they have arrived        *)
(* (After).  Of the topics, whatever will be there is a present device,    *)
(* one of the last sweep, or is among what the broker has replayed or will *)
(* replay before the window ends.  Of the discovery config, each packet    *)
(* names every entity the ones before it leave, live or as a tombstone.    *)
(***************************************************************************)
EXTENDS MqttHub, SequenceTheorems, TLAPS

(* What a set of topics or of entities is after the first n packets of q:  *)
(* what a packet of kind k, or S itself, put there and no later one took.  *)
After(S, q, k, n) ==
  {x \in Slugs : \E i \in 0 .. n :
     /\ IF i = 0 THEN x \in S ELSE q[i].kind = k /\ x \in q[i].s \ q[i].t
     /\ \A j \in 1 .. n : i < j /\ q[j].kind = k => x \notin q[j].t}

(* The same, for one packet.                                               *)
Taken(S, p, k) == IF p.kind = k THEN (S \cup p.s) \ p.t ELSE S

Subscribing == out # << >> /\ out[1].kind = "subscribe"

(* The packets: the subscription is the first of a connection, and what is *)
(* queued without one are configs.                                         *)
TrafficInv ==
  /\ ~connected => out = <<>> /\ in = <<>>
  /\ \A i \in DOMAIN queue : queue[i].kind = "config"
  /\ \A i \in DOMAIN out : \/ out[i].kind \in {"topics", "config"}
                           \/ i = 1 /\ out[i].kind = "subscribe"
  /\ Subscribing => in = <<>>
  /\ connected /\ (reconcile.due \/ ~reconcile.pending \/ seed.due) => Replayed

(* Topics that the reconciliation knows of or will know of.                *)
Replaying ==
  IF ~reconcile.pending THEN {}
  ELSE IF Subscribing THEN retained
  ELSE reconcile.seen \cup {x \in Slugs : \E i \in DOMAIN in : in[i].kind = "replayed topics" /\ x \in in[i].s}

(* With T retained and q on the way: the devices of the last sweep will be *)
(* there, and nothing that is neither of it, nor present, nor in X.        *)
Within(T, q, P, D, X) ==
  /\ P \cap D \subseteq After(T, q, "topics", Len(q))
  /\ After(T, q, "topics", Len(q)) \subseteq P \cup D \cup X

TopicsInv ==
  connected => /\ swept => published = devices
               /\ Within(retained, out, published, devices, Replaying)

(* The retained config is still to be read, or there is none.              *)
SeedAhead ==
  /\ \A i \in DOMAIN out : out[i].kind # "config"
  /\ \A i \in DOMAIN in : in[i].kind # "config"
  /\ \/ Subscribing \/ config = {}
     \/ \E i \in DOMAIN in : in[i].kind = "replayed config"
  /\ \A i \in DOMAIN in : in[i].kind = "replayed config" => in[i].s = UNION config

(* With entities E, the configs of q will leave those of K, and each of    *)
(* them names all that are there when it arrives.                          *)
Follows(E, C, q, K) ==
  /\ After(E, q, "config", Len(q)) = K
  /\ C # {} \/ \E i \in DOMAIN q : q[i].kind = "config"
  /\ \A i \in DOMAIN q : q[i].kind = "config" =>
        After(E, q, "config", i - 1) \subseteq q[i].s \cup q[i].t

ConfigInv ==
  ~blind =>
    /\ queue = << >>
    /\ entities \subseteq UNION config
    /\ connected => IF seed.pending THEN SeedAhead ELSE Follows(entities, config, out, keys)

HubInv == TypeOK /\ TrafficInv /\ TopicsInv /\ ConfigInv

-----------------------------------------------------------------------------
(* What becomes of a set along a sequence of packets.                      *)

LEMMA AfterNone ==
  ASSUME NEW S \in SUBSET Slugs, NEW q, NEW k
  PROVE  After(S, q, k, 0) = S
BY DEF After

LEMMA AfterStep ==
  ASSUME NEW S, NEW q \in Seq(Packets), NEW k, NEW n \in Nat, n < Len(q)
  PROVE  After(S, q, k, n + 1) = Taken(After(S, q, k, n), q[n + 1], k)
<1> DEFINE p == q[n + 1]
<1>1. p \in Packets /\ p.s \subseteq Slugs
  <2>1. Len(q) \in Nat /\ n + 1 \in 1 .. Len(q)
    OBVIOUS
  <2>2. q[n + 1] \in Packets
    BY <2>1
  <2> QED BY <2>2 DEF Packets
<1>2. \A j : j \in 1 .. n + 1 <=> j \in 1 .. n \/ j = n + 1
  OBVIOUS
<1>3. \A j : j \in 0 .. n + 1 <=> j \in 0 .. n \/ j = n + 1
  OBVIOUS
<1>4. ASSUME p.kind = k, NEW x \in Slugs
      PROVE  x \in After(S, q, k, n + 1) <=> x \in (After(S, q, k, n) \cup p.s) \ p.t
  <2>1. ASSUME x \in After(S, q, k, n + 1) PROVE x \in (After(S, q, k, n) \cup p.s) \ p.t
    <3>1. PICK i \in 0 .. n + 1 :
             /\ IF i = 0 THEN x \in S ELSE q[i].kind = k /\ x \in q[i].s \ q[i].t
             /\ \A j \in 1 .. n + 1 : i < j /\ q[j].kind = k => x \notin q[j].t
      BY <2>1 DEF After
    <3>2. CASE i = n + 1
      BY <3>1, <3>2
    <3>3. CASE i \in 0 .. n
      BY <1>2, <1>4, <3>1, <3>3 DEF After
    <3> QED BY <1>3, <3>2, <3>3
  <2>2. ASSUME x \in (After(S, q, k, n) \cup p.s) \ p.t PROVE x \in After(S, q, k, n + 1)
    <3>1. CASE x \in After(S, q, k, n)
      <4>1. PICK i \in 0 .. n :
               /\ IF i = 0 THEN x \in S ELSE q[i].kind = k /\ x \in q[i].s \ q[i].t
               /\ \A j \in 1 .. n : i < j /\ q[j].kind = k => x \notin q[j].t
        BY <3>1 DEF After
      <4>2. \A j \in 1 .. n + 1 : i < j /\ q[j].kind = k => x \notin q[j].t
        BY <1>2, <2>2, <4>1
      <4> QED BY <1>3, <4>1, <4>2 DEF After
    <3>2. CASE x \in p.s
      <4>1. \A j \in 1 .. n + 1 : ~(n + 1 < j)
        OBVIOUS
      <4> QED BY <1>3, <1>4, <2>2, <3>2, <4>1 DEF After
    <3> QED BY <2>2, <3>1, <3>2
  <2> QED BY <2>1, <2>2
<1>5. ASSUME p.kind # k, NEW x \in Slugs
      PROVE  x \in After(S, q, k, n + 1) <=> x \in After(S, q, k, n)
  <2>1. ASSUME x \in After(S, q, k, n + 1) PROVE x \in After(S, q, k, n)
    <3>1. PICK i \in 0 .. n + 1 :
             /\ IF i = 0 THEN x \in S ELSE q[i].kind = k /\ x \in q[i].s \ q[i].t
             /\ \A j \in 1 .. n + 1 : i < j /\ q[j].kind = k => x \notin q[j].t
      BY <2>1 DEF After
    <3>2. i \in 0 .. n
      BY <1>3, <1>5, <3>1
    <3> QED BY <1>2, <3>1, <3>2 DEF After
  <2>2. ASSUME x \in After(S, q, k, n) PROVE x \in After(S, q, k, n + 1)
    <3>1. PICK i \in 0 .. n :
             /\ IF i = 0 THEN x \in S ELSE q[i].kind = k /\ x \in q[i].s \ q[i].t
             /\ \A j \in 1 .. n : i < j /\ q[j].kind = k => x \notin q[j].t
      BY <2>2 DEF After
    <3>2. \A j \in 1 .. n + 1 : i < j /\ q[j].kind = k => x \notin q[j].t
      BY <1>2, <1>5, <3>1
    <3> QED BY <1>3, <3>1, <3>2 DEF After
  <2> QED BY <2>1, <2>2
<1>6. After(S, q, k, n + 1) \subseteq Slugs /\ After(S, q, k, n) \subseteq Slugs
  BY DEF After
<1> QED BY <1>1, <1>4, <1>5, <1>6 DEF Taken

LEMMA AfterSame ==
  ASSUME NEW S, NEW q, NEW r, NEW k, NEW n \in Nat, \A i \in 1 .. n : q[i] = r[i]
  PROVE  After(S, q, k, n) = After(S, r, k, n)
BY DEF After

(* The broker has taken the first packet.                                  *)
LEMMA AfterHead ==
  ASSUME NEW S \in SUBSET Slugs, NEW q \in Seq(Packets), q # << >>, NEW k,
         NEW n \in Nat, n < Len(q)
  PROVE  After(Taken(S, q[1], k), Tail(q), k, n) = After(S, q, k, n + 1)
<1> DEFINE R == Taken(S, q[1], k)
<1>0. IF q[1].kind = k THEN R = (S \cup q[1].s) \ q[1].t ELSE R = S
  BY DEF Taken
<1> HIDE DEF R
<1>1. Len(q) \in Nat /\ \A j \in 1 .. n : Tail(q)[j] = q[j + 1]
  OBVIOUS
<1>2. q[1].s \subseteq Slugs
  <2>1. 1 \in 1 .. Len(q)
    BY <1>1
  <2>2. q[1] \in Packets
    BY <2>1
  <2> QED BY <2>2 DEF Packets
<1>3. ASSUME NEW x \in Slugs, x \in After(R, Tail(q), k, n) PROVE x \in After(S, q, k, n + 1)
  <2>1. PICK i \in 0 .. n :
           /\ IF i = 0 THEN x \in R ELSE q[i + 1].kind = k /\ x \in q[i + 1].s \ q[i + 1].t
           /\ \A j \in 1 .. n : i < j /\ q[j + 1].kind = k => x \notin q[j + 1].t
    BY <1>1, <1>3 DEF After
  <2>2. \A j \in 2 .. n + 1 : i + 1 < j /\ q[j].kind = k => x \notin q[j].t
    <3> TAKE j \in 2 .. n + 1
    <3>1. j - 1 \in 1 .. n /\ (j - 1) + 1 = j /\ (i + 1 < j <=> i < j - 1)
      OBVIOUS
    <3> QED BY <2>1, <3>1
  <2>3. CASE i # 0
    <3>1. i + 1 \in 0 .. n + 1 /\ i + 1 # 0 /\ \A j \in 1 .. n + 1 : i + 1 < j => j \in 2 .. n + 1
      BY <2>3
    <3> QED BY <2>1, <2>2, <2>3, <3>1 DEF After
  <2>4. CASE i = 0
    <3>1. \A j \in 1 .. n + 1 : j = 1 \/ (j \in 2 .. n + 1 /\ 1 < j)
      OBVIOUS
    <3>2. 0 \in 0 .. n + 1 /\ 1 \in 0 .. n + 1
      OBVIOUS
    <3>3. CASE q[1].kind = k /\ x \in q[1].s \ q[1].t
      BY <2>2, <2>4, <3>1, <3>2, <3>3 DEF After
    <3>4. CASE x \in S /\ (q[1].kind = k => x \notin q[1].t)
      BY <2>2, <2>4, <3>1, <3>2, <3>4 DEF After
    <3> QED BY <1>0, <2>1, <2>4, <3>3, <3>4
  <2> QED BY <2>3, <2>4
<1>4. ASSUME NEW x \in Slugs, x \in After(S, q, k, n + 1) PROVE x \in After(R, Tail(q), k, n)
  <2>1. PICK i \in 0 .. n + 1 :
           /\ IF i = 0 THEN x \in S ELSE q[i].kind = k /\ x \in q[i].s \ q[i].t
           /\ \A j \in 1 .. n + 1 : i < j /\ q[j].kind = k => x \notin q[j].t
    BY <1>4 DEF After
  <2>2. \A j \in 1 .. n : i < j + 1 /\ Tail(q)[j].kind = k => x \notin Tail(q)[j].t
    <3> TAKE j \in 1 .. n
    <3>1. j + 1 \in 1 .. n + 1
      OBVIOUS
    <3> QED BY <1>1, <2>1, <3>1
  <2>3. CASE i \in {0, 1}
    <3>1. x \in R
      <4>1. 1 \in 1 .. n + 1
        OBVIOUS
      <4> QED BY <1>0, <2>1, <2>3, <4>1
    <3>2. \A j \in 1 .. n : i < j + 1
      BY <2>3
    <3>3. 0 \in 0 .. n /\ \A j \in 1 .. n : Tail(q)[j].kind = k => x \notin Tail(q)[j].t
      BY <2>2, <3>2
    <3> QED BY <3>1, <3>3 DEF After
  <2>4. CASE i \notin {0, 1}
    <3>1. i - 1 \in 0 .. n /\ i - 1 # 0 /\ i - 1 \in 1 .. n /\ (i - 1) + 1 = i
      BY <2>4
    <3>2. Tail(q)[i - 1] = q[i]
      BY <1>1, <3>1
    <3>3. \A j \in 1 .. n : i - 1 < j => i < j + 1
      OBVIOUS
    <3> QED BY <2>1, <2>2, <2>4, <3>1, <3>2, <3>3 DEF After
  <2> QED BY <2>3, <2>4
<1>5. After(R, Tail(q), k, n) \subseteq Slugs /\ After(S, q, k, n + 1) \subseteq Slugs
  BY DEF After
<1> QED BY <1>3, <1>4, <1>5 DEF R

(* One more packet is sent.                                                *)
LEMMA AfterAppend ==
  ASSUME NEW S, NEW q \in Seq(Packets), NEW p \in Packets, NEW k
  PROVE  /\ \A n \in 0 .. Len(q) : After(S, Append(q, p), k, n) = After(S, q, k, n)
         /\ After(S, Append(q, p), k, Len(q) + 1) = Taken(After(S, q, k, Len(q)), p, k)
<1> DEFINE r == Append(q, p)
<1>1. /\ r \in Seq(Packets) /\ Len(q) \in Nat /\ Len(r) = Len(q) + 1
      /\ \A i \in 1 .. Len(q) : r[i] = q[i]
      /\ r[Len(q) + 1] = p
  OBVIOUS
<1> HIDE DEF r
<1>2. ASSUME NEW n \in 0 .. Len(q) PROVE After(S, r, k, n) = After(S, q, k, n)
  <2>1. n \in Nat /\ \A i \in 1 .. n : r[i] = q[i]
    BY <1>1
  <2> QED BY <2>1, AfterSame
<1>3. Len(q) < Len(r) /\ Len(q) \in 0 .. Len(q)
  BY <1>1
<1>4. After(S, r, k, Len(q) + 1) = Taken(After(S, r, k, Len(q)), r[Len(q) + 1], k)
  BY <1>1, <1>3, AfterStep
<1> QED BY <1>1, <1>2, <1>3, <1>4 DEF r

LEMMA AfterOthers ==
  ASSUME NEW S \in SUBSET Slugs, NEW q, NEW k, NEW n \in Nat, \A i \in 1 .. n : q[i].kind # k
  PROVE  After(S, q, k, n) = S
BY DEF After

-----------------------------------------------------------------------------
(* What a packet that is sent, or taken by the broker, does to the topics. *)

LEMMA AppendedTopics ==
  ASSUME NEW T, NEW q \in Seq(Packets), NEW p \in Packets
  PROVE  After(T, Append(q, p), "topics", Len(Append(q, p)))
           = Taken(After(T, q, "topics", Len(q)), p, "topics")
<1>1. Len(Append(q, p)) = Len(q) + 1
  OBVIOUS
<1> QED BY <1>1, AfterAppend

LEMMA PacketFacts ==
  ASSUME NEW s \in SUBSET Slugs, NEW t \in SUBSET Slugs
  PROVE  /\ Packet("topics", s, t) \in Packets /\ Packet("config", s, t) \in Packets
         /\ Packet("topics", s, t).kind = "topics" /\ Packet("config", s, t).kind = "config"
         /\ Packet("topics", s, t).s = s /\ Packet("config", s, t).s = s
         /\ Packet("topics", s, t).t = t /\ Packet("config", s, t).t = t
BY DEF Packet, Packets

LEMMA SweepWithin ==
  ASSUME NEW T, NEW q \in Seq(Packets), NEW P \in SUBSET Slugs, NEW D \in SUBSET Slugs, NEW X,
         Within(T, q, P, D, X)
  PROVE  Within(T, Append(q, Packet("topics", D, P \ D)), D, D, X)
<1> DEFINE p == Packet("topics", D, P \ D)
<1>1. p \in Packets /\ p.kind = "topics" /\ p.s = D /\ p.t = P \ D
  <2>1. P \ D \in SUBSET Slugs
    OBVIOUS
  <2> QED BY <2>1, PacketFacts
<1> HIDE DEF p
<1>2. After(T, Append(q, p), "topics", Len(Append(q, p))) = (After(T, q, "topics", Len(q)) \cup D) \ (P \ D)
  BY <1>1, AppendedTopics DEF Taken
<1> QED BY <1>2 DEF Within, p

LEMMA ReconcileWithin ==
  ASSUME NEW T, NEW q \in Seq(Packets), NEW P, NEW D \in SUBSET Slugs, NEW X \in SUBSET Slugs,
         Within(T, q, P, D, X)
  PROVE  Within(T, Append(q, Packet("topics", {}, X \ D)), P, D, {})
<1> DEFINE p == Packet("topics", {}, X \ D)
<1>1. p \in Packets /\ p.kind = "topics" /\ p.s = {} /\ p.t = X \ D
  <2>1. X \ D \in SUBSET Slugs /\ {} \in SUBSET Slugs
    OBVIOUS
  <2> QED BY <2>1, PacketFacts
<1> HIDE DEF p
<1>2. After(T, Append(q, p), "topics", Len(Append(q, p))) = (After(T, q, "topics", Len(q)) \cup {}) \ (X \ D)
  BY <1>1, AppendedTopics DEF Taken
<1> QED BY <1>2 DEF Within, p

LEMMA ConfigWithin ==
  ASSUME NEW T, NEW q \in Seq(Packets), NEW p \in Packets, p.kind # "topics", NEW P, NEW D, NEW X,
         Within(T, q, P, D, X)
  PROVE  Within(T, Append(q, p), P, D, X)
<1>1. After(T, Append(q, p), "topics", Len(Append(q, p))) = After(T, q, "topics", Len(q))
  BY AppendedTopics DEF Taken
<1> QED BY <1>1 DEF Within

LEMMA HeadWithin ==
  ASSUME NEW T \in SUBSET Slugs, NEW q \in Seq(Packets), q # << >>, NEW P, NEW D, NEW X,
         Within(T, q, P, D, X)
  PROVE  Within(Taken(T, q[1], "topics"), Tail(q), P, D, X)
<1>1. Len(Tail(q)) \in Nat /\ Len(Tail(q)) < Len(q) /\ Len(Tail(q)) + 1 = Len(q)
  OBVIOUS
<1>2. After(Taken(T, q[1], "topics"), Tail(q), "topics", Len(Tail(q))) = After(T, q, "topics", Len(Tail(q)) + 1)
  BY <1>1, AfterHead
<1> QED BY <1>1, <1>2 DEF Within

(* The same for the discovery config.                                      *)

LEMMA OtherFollows ==
  ASSUME NEW E, NEW C, NEW q \in Seq(Packets), NEW p \in Packets, p.kind # "config", NEW K,
         Follows(E, C, q, K)
  PROVE  Follows(E, C, Append(q, p), K)
<1> DEFINE r == Append(q, p)
<1>1. /\ DOMAIN q = 1 .. Len(q) /\ DOMAIN r = 1 .. Len(q) + 1 /\ Len(q) \in Nat /\ Len(r) = Len(q) + 1
      /\ \A i \in 1 .. Len(q) : r[i] = q[i]
      /\ r[Len(q) + 1] = p
  OBVIOUS
<1>2. /\ \A n \in 0 .. Len(q) : After(E, r, "config", n) = After(E, q, "config", n)
      /\ After(E, r, "config", Len(q) + 1) = After(E, q, "config", Len(q))
  <2>1. /\ \A n \in 0 .. Len(q) : After(E, r, "config", n) = After(E, q, "config", n)
        /\ After(E, r, "config", Len(q) + 1) = Taken(After(E, q, "config", Len(q)), p, "config")
    BY AfterAppend
  <2>2. Taken(After(E, q, "config", Len(q)), p, "config") = After(E, q, "config", Len(q))
    BY DEF Taken
  <2> QED BY <2>1, <2>2
<1> HIDE DEF r
<1>3. \A i \in 1 .. Len(q) : i - 1 \in 0 .. Len(q)
  BY <1>1
<1>4. \A i \in DOMAIN r : i \in DOMAIN q \/ i = Len(q) + 1
  BY <1>1
<1>5. \A i \in DOMAIN q : i \in DOMAIN r
  BY <1>1
<1>6. Follows(E, C, r, K)
  BY <1>1, <1>2, <1>3, <1>4, <1>5 DEF Follows
<1> QED BY <1>6 DEF r

LEMMA ConfigFollows ==
  ASSUME NEW E, NEW C, NEW q \in Seq(Packets), NEW K \in SUBSET Slugs, NEW D \in SUBSET Slugs,
         After(E, q, "config", Len(q)) \subseteq K,
         \A i \in DOMAIN q : q[i].kind = "config" => After(E, q, "config", i - 1) \subseteq q[i].s \cup q[i].t
  PROVE  Follows(E, C, Append(q, Packet("config", D, K \ D)), D)
<1> DEFINE p == Packet("config", D, K \ D)
<1> DEFINE r == Append(q, p)
<1>1. p \in Packets /\ p.kind = "config" /\ p.s = D /\ p.t = K \ D
  <2>1. K \ D \in SUBSET Slugs
    OBVIOUS
  <2> QED BY <2>1, PacketFacts
<1> HIDE DEF p
<1>2. /\ DOMAIN q = 1 .. Len(q) /\ DOMAIN r = 1 .. Len(q) + 1 /\ Len(q) \in Nat /\ Len(r) = Len(q) + 1
      /\ \A i \in 1 .. Len(q) : r[i] = q[i]
      /\ r[Len(q) + 1] = p
  BY <1>1
<1>3. /\ \A n \in 0 .. Len(q) : After(E, r, "config", n) = After(E, q, "config", n)
      /\ After(E, r, "config", Len(q) + 1) = (After(E, q, "config", Len(q)) \cup D) \ (K \ D)
  <2>1. /\ \A n \in 0 .. Len(q) : After(E, r, "config", n) = After(E, q, "config", n)
        /\ After(E, r, "config", Len(q) + 1) = Taken(After(E, q, "config", Len(q)), p, "config")
    BY <1>1, AfterAppend
  <2>2. Taken(After(E, q, "config", Len(q)), p, "config") = (After(E, q, "config", Len(q)) \cup D) \ (K \ D)
    BY <1>1 DEF Taken
  <2> QED BY <2>1, <2>2
<1> HIDE DEF r
<1>4. \A i \in 1 .. Len(q) : i - 1 \in 0 .. Len(q)
  BY <1>2
<1>5. \A i \in DOMAIN r : i \in DOMAIN q \/ i = Len(q) + 1
  BY <1>2
<1>6. After(E, r, "config", (Len(q) + 1) - 1) \subseteq p.s \cup p.t
  <2>1. (Len(q) + 1) - 1 = Len(q) /\ Len(q) \in 0 .. Len(q)
    BY <1>2
  <2>2. After(E, r, "config", (Len(q) + 1) - 1) = After(E, q, "config", Len(q))
    BY <1>3, <2>1
  <2> QED BY <1>1, <2>2
<1>7. ASSUME NEW i \in DOMAIN r, r[i].kind = "config"
      PROVE  After(E, r, "config", i - 1) \subseteq r[i].s \cup r[i].t
  <2>1. CASE i \in DOMAIN q
    BY <1>2, <1>3, <1>4, <1>7, <2>1
  <2>2. CASE i = Len(q) + 1
    BY <1>2, <1>6, <2>2
  <2> QED BY <1>5, <2>1, <2>2
<1>8. \E i \in DOMAIN r : r[i].kind = "config"
  <2>1. Len(q) + 1 \in DOMAIN r
    BY <1>2
  <2> QED BY <1>1, <1>2, <2>1
<1>9. After(E, r, "config", Len(r)) = D
  BY <1>2, <1>3
<1>10. Follows(E, C, r, D)
  BY <1>7, <1>8, <1>9 DEF Follows
<1> QED BY <1>10 DEF r, p

LEMMA HeadFollows ==
  ASSUME NEW E \in SUBSET Slugs, NEW C, NEW q \in Seq(Packets), q # << >>, NEW K, Follows(E, C, q, K)
  PROVE  /\ q[1].kind # "config" => Follows(E, C, Tail(q), K)
         /\ q[1].kind = "config" =>
              /\ E \subseteq q[1].s \cup q[1].t
              /\ Follows((E \cup q[1].s) \ q[1].t, {q[1].s \cup q[1].t}, Tail(q), K)
<1> DEFINE r == Tail(q)
<1>1. /\ Len(q) \in Nat /\ Len(r) \in Nat /\ Len(r) + 1 = Len(q) /\ r \in Seq(Packets)
      /\ DOMAIN q = 1 .. Len(q) /\ DOMAIN r = 1 .. Len(r)
      /\ \A i \in 1 .. Len(r) : r[i] = q[i + 1]
  OBVIOUS
<1> DEFINE F == Taken(E, q[1], "config")
<1>2. \A n \in 0 .. Len(r) : After(F, r, "config", n) = After(E, q, "config", n + 1)
  <2> TAKE n \in 0 .. Len(r)
  <2>1. n \in Nat /\ n < Len(q)
    BY <1>1
  <2> QED BY <2>1, AfterHead
<1> HIDE DEF r, F
<1>3. After(F, r, "config", Len(r)) = K
  BY <1>1, <1>2 DEF Follows
<1>4. ASSUME NEW i \in DOMAIN r, r[i].kind = "config"
      PROVE  After(F, r, "config", i - 1) \subseteq r[i].s \cup r[i].t
  <2>1. i + 1 \in DOMAIN q /\ i - 1 \in 0 .. Len(r) /\ (i - 1) + 1 = (i + 1) - 1 /\ r[i] = q[i + 1]
    BY <1>1
  <2>2. After(E, q, "config", (i + 1) - 1) \subseteq q[i + 1].s \cup q[i + 1].t
    BY <1>4, <2>1 DEF Follows
  <2> QED BY <1>2, <2>1, <2>2
<1>5. ASSUME q[1].kind # "config" PROVE Follows(E, C, r, K)
  <2>1. F = E
    BY <1>5 DEF F, Taken
  <2>2. C # {} \/ \E i \in DOMAIN r : r[i].kind = "config"
    <3>1. ASSUME NEW i \in DOMAIN q, q[i].kind = "config" PROVE \E j \in DOMAIN r : r[j].kind = "config"
      <4>1. i # 1
        BY <1>5, <3>1
      <4>2. i - 1 \in DOMAIN r /\ (i - 1) + 1 = i
        BY <1>1, <4>1
      <4>3. r[i - 1] = q[i]
        BY <1>1, <4>2
      <4> QED BY <3>1, <4>2, <4>3
    <3> QED BY <3>1 DEF Follows
  <2> QED BY <1>3, <1>4, <2>1, <2>2 DEF Follows
<1>6. ASSUME q[1].kind = "config"
      PROVE  /\ E \subseteq q[1].s \cup q[1].t
             /\ Follows((E \cup q[1].s) \ q[1].t, {q[1].s \cup q[1].t}, r, K)
  <2>1. 1 \in DOMAIN q /\ 1 - 1 = 0
    BY <1>1
  <2>2. After(E, q, "config", 0) \subseteq q[1].s \cup q[1].t
    BY <1>6, <2>1 DEF Follows
  <2>3. F = (E \cup q[1].s) \ q[1].t
    BY <1>6 DEF F, Taken
  <2>4. {q[1].s \cup q[1].t} # {}
    OBVIOUS
  <2> QED BY <1>3, <1>4, <2>2, <2>3, <2>4, AfterNone DEF Follows
<1> QED BY <1>5, <1>6 DEF r
LEMMA WithinMore ==
  ASSUME NEW T, NEW q, NEW P, NEW D, NEW X, NEW Y, Within(T, q, P, D, X), X \subseteq Y
  PROVE  Within(T, q, P, D, Y)
BY DEF Within

-----------------------------------------------------------------------------
(* r is q and then publishes of topics or configs.                         *)
Grown(q, r) ==
  /\ r \in Seq(Packets)
  /\ Len(q) <= Len(r)
  /\ \A i \in 1 .. Len(q) : r[i] = q[i]
  /\ \A i \in 1 .. Len(r) : i \in 1 .. Len(q) \/ r[i].kind \in {"topics", "config"}

LEMMA GrownByNone ==
  ASSUME NEW q \in Seq(Packets)
  PROVE  Grown(q, q)
BY DEF Grown

LEMMA GrownByOne ==
  ASSUME NEW q \in Seq(Packets), NEW r, Grown(q, r), NEW p \in Packets, p.kind \in {"topics", "config"}
  PROVE  Grown(q, Append(r, p))
<1>1. r \in Seq(Packets)
  BY DEF Grown
<1> DEFINE a == Append(r, p)
<1>2. /\ Len(q) \in Nat /\ Len(r) \in Nat /\ a \in Seq(Packets) /\ Len(a) = Len(r) + 1
      /\ \A i \in 1 .. Len(r) : a[i] = r[i]
      /\ a[Len(r) + 1] = p
  BY <1>1
<1> HIDE DEF a
<1>3. Grown(q, a)
  BY <1>2 DEF Grown
<1> QED BY <1>3 DEF a

LEMMA GrownOut ==
  ASSUME TypeOK, TrafficInv, Grown(out, out')
  PROVE  /\ Subscribing' <=> Subscribing
         /\ (\A i \in DOMAIN out : out[i].kind # "subscribe") => \A i \in DOMAIN out' : out'[i].kind # "subscribe"
         /\ \A i \in DOMAIN out' : \/ out'[i].kind \in {"topics", "config"}
                                   \/ i = 1 /\ out'[i].kind = "subscribe"
         /\ out' \in Seq(Packets)
<1>1. /\ out \in Seq(Packets) /\ out' \in Seq(Packets) /\ Len(out) \in Nat /\ Len(out') \in Nat
      /\ DOMAIN out = 1 .. Len(out) /\ DOMAIN out' = 1 .. Len(out')
  BY DEF TypeOK, Grown
<1>2. /\ Len(out) <= Len(out')
      /\ \A i \in 1 .. Len(out) : out'[i] = out[i]
      /\ \A i \in 1 .. Len(out') : i \in 1 .. Len(out) \/ out'[i].kind \in {"topics", "config"}
  BY DEF Grown
<1>3. Subscribing' <=> Subscribing
  <2>1. CASE out = << >>
    <3>1. Len(out) = 0
      BY <2>1
    <3>2. out' # << >> => out'[1].kind \in {"topics", "config"}
      BY <1>1, <1>2, <3>1
    <3> QED BY <2>1, <3>2 DEF Subscribing
  <2>2. CASE out # << >>
    <3>1. 1 \in 1 .. Len(out) /\ out' # << >>
      BY <1>1, <1>2, <2>2
    <3> QED BY <1>2, <2>2, <3>1 DEF Subscribing
  <2> QED BY <2>1, <2>2
<1> QED BY <1>1, <1>2, <1>3 DEF TrafficInv

(* The sequences of a state that satisfies the type invariant.             *)
LEMMA Lengths ==
  ASSUME TypeOK
  PROVE  /\ out \in Seq(Packets) /\ Len(out) \in Nat /\ DOMAIN out = 1 .. Len(out)
         /\ in \in Seq(Packets) /\ Len(in) \in Nat /\ DOMAIN in = 1 .. Len(in)
         /\ queue \in Seq(Packets) /\ Len(queue) \in Nat /\ DOMAIN queue = 1 .. Len(queue)
BY DEF TypeOK

-----------------------------------------------------------------------------
(* The steps that leave the packets as they are, or drop them all.         *)

LEMMA StutterKeeps ==
  ASSUME HubInv, UNCHANGED vars
  PROVE  HubInv'
BY DEF HubInv, TypeOK, TrafficInv, TopicsInv, ConfigInv, Replaying, Subscribing, Replayed,
       SeedAhead, vars, hub, broker, counts

LEMMA DevicesChangeKeeps ==
  ASSUME HubInv, DevicesChange
  PROVE  HubInv'
<1> USE DEF hub, broker
<1>1. TypeOK'
  BY DEF HubInv, TypeOK, DevicesChange
<1>2. TrafficInv'
  BY DEF HubInv, TrafficInv, DevicesChange, Subscribing, Replayed
<1>3. Replaying' = Replaying
  BY DEF DevicesChange, Replaying, Subscribing
<1>4. TopicsInv'
  <2>1. CASE connected
    <3>1. published = devices /\ Within(retained, out, published, devices, Replaying)
      BY <2>1 DEF HubInv, TopicsInv, DevicesChange
    <3>2. Within(retained, out, published, devices', Replaying)
      BY <3>1 DEF Within
    <3>3. /\ retained' = retained /\ out' = out /\ published' = published /\ ~swept'
      BY DEF DevicesChange
    <3>4. Within(retained', out', published', devices', Replaying')
      BY <1>3, <3>2, <3>3
    <3> QED BY <3>3, <3>4 DEF TopicsInv
  <2>2. CASE ~connected
    BY <2>2 DEF DevicesChange, TopicsInv
  <2> QED BY <2>1, <2>2
<1>5. ConfigInv'
  BY DEF HubInv, ConfigInv, DevicesChange, SeedAhead, Subscribing
<1> QED BY <1>1, <1>2, <1>4, <1>5 DEF HubInv

LEMMA GracePassesKeeps ==
  ASSUME HubInv, GracePasses
  PROVE  HubInv'
<1> USE DEF broker, counts
<1>1. TypeOK'
  BY DEF HubInv, TypeOK, GracePasses
<1>2. /\ reconcile'.pending = reconcile.pending /\ reconcile'.seen = reconcile.seen
      /\ seed'.pending = seed.pending
  BY DEF HubInv, TypeOK, GracePasses
<1>3. TrafficInv'
  BY DEF HubInv, TrafficInv, GracePasses, Subscribing, Replayed
<1>4. Replaying' = Replaying
  BY <1>2 DEF GracePasses, Replaying, Subscribing
<1>5. TopicsInv'
  BY <1>4 DEF HubInv, TopicsInv, GracePasses, Within, After
<1>6. ConfigInv'
  BY <1>2 DEF HubInv, ConfigInv, GracePasses, SeedAhead, Subscribing
<1> QED BY <1>1, <1>3, <1>5, <1>6 DEF HubInv

LEMMA ConnectionLostKeeps ==
  ASSUME HubInv, ConnectionLost
  PROVE  HubInv'
<1> USE DEF hub, broker
<1>1. retained' \subseteq Slugs /\ config' = config /\ entities' = entities
  <2>1. CASE UNCHANGED broker
    BY <2>1 DEF HubInv, TypeOK
  <2>2. CASE out # <<>> /\ Head(out).kind = "topics" /\ \E s \in SUBSET Head(out).s : Apply(Packet("topics", s, {}))
    <3>1. PICK s \in SUBSET Head(out).s : Apply(Packet("topics", s, {}))
      BY <2>2
    <3>2. Head(out) \in Packets
      BY <2>2, Lengths DEF HubInv
    <3>3. s \subseteq Slugs
      BY <3>2 DEF Packets
    <3> QED BY <3>1, <3>3 DEF Apply, Packet, HubInv, TypeOK
  <2> QED BY <2>1, <2>2 DEF ConnectionLost
<1>2. << >> \in Seq(Packets)
  OBVIOUS
<1>3. TypeOK'
  BY <1>1, <1>2 DEF HubInv, TypeOK, ConnectionLost
<1>4. TrafficInv'
  BY DEF HubInv, TrafficInv, ConnectionLost, Subscribing
<1>5. TopicsInv' /\ ConfigInv'
  BY <1>1 DEF HubInv, TopicsInv, ConfigInv, ConnectionLost
<1> QED BY <1>3, <1>4, <1>5 DEF HubInv

LEMMA ProgramRestartsKeeps ==
  ASSUME HubInv, ProgramRestarts
  PROVE  HubInv'
<1> USE DEF broker
<1>1. << >> \in Seq(Packets)
  OBVIOUS
<1>2. TypeOK'
  BY <1>1 DEF HubInv, TypeOK, ProgramRestarts
<1>3. TrafficInv'
  BY DEF TrafficInv, ProgramRestarts, Subscribing
<1>4. TopicsInv' /\ ConfigInv'
  BY DEF HubInv, TopicsInv, ConfigInv, ProgramRestarts
<1> QED BY <1>2, <1>3, <1>4 DEF HubInv

LEMMA OnConnectedKeeps ==
  ASSUME HubInv, OnConnected
  PROVE  HubInv'
<1> USE DEF broker
<1> DEFINE q == <<Packet("subscribe", {}, {})>> \o queue
           p == Packet("topics", devices, published \ devices)
<1>1. /\ ~connected /\ connected' /\ queue' = << >> /\ published' = devices /\ swept'
      /\ seed' = [pending |-> TRUE, due |-> FALSE]
      /\ reconcile' = [pending |-> TRUE, due |-> FALSE, seen |-> {}]
      /\ UNCHANGED <<devices, keys, in, retained, config, entities, blind>>
  BY DEF OnConnected, counts
<1>2. in = << >> /\ \A i \in DOMAIN queue : queue[i].kind = "config"
  BY <1>1 DEF HubInv, TrafficInv
<1>3. p \in Packets /\ p.kind = "topics" /\ p.s = devices /\ p.t = published \ devices
  <2>1. devices \subseteq Slugs /\ published \ devices \subseteq Slugs
    BY DEF HubInv, TypeOK
  <2> QED BY <2>1, PacketFacts
<1>4. Packet("subscribe", {}, {}) \in Packets /\ Packet("subscribe", {}, {}).kind = "subscribe"
  BY DEF Packet, Packets
<1>5. /\ q \in Seq(Packets) /\ Len(q) = Len(queue) + 1 /\ Len(q) \in Nat
      /\ q[1] = Packet("subscribe", {}, {})
      /\ \A i \in 2 .. Len(q) : q[i] = queue[i - 1] /\ i - 1 \in DOMAIN queue
  BY <1>4, Lengths DEF HubInv
<1>6. out' = Append(q, p)
  <2>1. /\ <<Packet("subscribe", {}, {})>> \in Seq(Packets) /\ queue \in Seq(Packets)
        /\ <<p>> \in Seq(Packets)
    BY <1>3, <1>4, Lengths DEF HubInv
  <2>2. out' = q \o <<p>>
    BY DEF OnConnected, PublishDeviceStatus
  <2> QED BY <1>5, <2>2
<1> HIDE DEF q, p
<1>7. /\ out' \in Seq(Packets) /\ Len(out') = Len(q) + 1 /\ DOMAIN out' = 1 .. Len(q) + 1
      /\ out' # << >> /\ out'[1].kind = "subscribe"
      /\ \A i \in 2 .. Len(q) : out'[i].kind = "config"
      /\ out'[Len(q) + 1] = p
  <2>1. Len(q) >= 1
    BY <1>5, Lengths DEF HubInv
  <2>2. /\ out' \in Seq(Packets) /\ Len(out') = Len(q) + 1 /\ DOMAIN out' = 1 .. Len(q) + 1
        /\ \A i \in 1 .. Len(q) : out'[i] = q[i]
        /\ out'[Len(q) + 1] = p
    BY <1>3, <1>5, <1>6
  <2> QED BY <1>2, <1>4, <1>5, <2>1, <2>2
<1>8. Subscribing' /\ in' = << >>
  BY <1>1, <1>2, <1>7 DEF Subscribing
<1>9. TypeOK'
  <2>1. << >> \in Seq(Packets)
    OBVIOUS
  <2> QED BY <1>1, <1>7, <1>8, <2>1 DEF HubInv, TypeOK
<1>10. TrafficInv'
  <2>1. \A i \in DOMAIN out' : i = 1 \/ i \in 2 .. Len(q) \/ i = Len(q) + 1
    BY <1>5, <1>7
  <2>2. \A i \in DOMAIN out' : \/ out'[i].kind \in {"topics", "config"}
                               \/ i = 1 /\ out'[i].kind = "subscribe"
    BY <1>3, <1>7, <2>1
  <2> QED BY <1>1, <1>8, <2>2 DEF TrafficInv
<1>11. TopicsInv'
  <2>1. \A i \in 1 .. Len(q) : q[i].kind # "topics"
    BY <1>2, <1>4, <1>5
  <2>2. After(retained, q, "topics", Len(q)) = retained
    <3>1. retained \in SUBSET Slugs
      BY DEF HubInv, TypeOK
    <3> QED BY <1>5, <2>1, <3>1, AfterOthers
  <2>3. After(retained, Append(q, p), "topics", Len(Append(q, p))) = Taken(retained, p, "topics")
    BY <1>3, <1>5, <2>2, AppendedTopics
  <2>4. Taken(retained, p, "topics") = (retained \cup devices) \ (published \ devices)
    BY <1>3 DEF Taken
  <2>5. Replaying' = retained
    BY <1>1, <1>8 DEF Replaying
  <2>6. Within(retained, Append(q, p), devices, devices, retained)
    BY <2>3, <2>4 DEF Within
  <2> QED BY <1>1, <1>6, <2>5, <2>6 DEF TopicsInv
<1>12. ConfigInv'
  <2> SUFFICES ASSUME ~blind' PROVE /\ queue' = << >>
                                    /\ entities' \subseteq UNION config'
                                    /\ connected' /\ seed'.pending /\ SeedAhead'
    BY DEF ConfigInv
  <2>1. queue = << >> /\ entities \subseteq UNION config
    BY <1>1 DEF HubInv, ConfigInv
  <2>2. Len(q) = 1
    BY <1>5, <2>1
  <2>3. \A i \in DOMAIN out' : out'[i].kind # "config"
    BY <1>3, <1>7, <2>2
  <2>4. SeedAhead'
    BY <1>8, <2>3 DEF SeedAhead
  <2> QED BY <1>1, <2>1, <2>4
<1> QED BY <1>9, <1>10, <1>11, <1>12 DEF HubInv

-----------------------------------------------------------------------------
(* The steps that send topics or configs.                                  *)

LEMMA GrownTraffic ==
  ASSUME TypeOK, TrafficInv, Grown(out, out'), connected, UNCHANGED <<connected, in, queue>>,
         reconcile'.due => reconcile.due,
         ~reconcile'.pending => ~reconcile.pending \/ reconcile.due,
         seed'.due => seed.due
  PROVE  TrafficInv'
<1>1. /\ Subscribing' <=> Subscribing
      /\ (\A i \in DOMAIN out : out[i].kind # "subscribe") => \A i \in DOMAIN out' : out'[i].kind # "subscribe"
      /\ \A i \in DOMAIN out' : \/ out'[i].kind \in {"topics", "config"}
                                \/ i = 1 /\ out'[i].kind = "subscribe"
  BY GrownOut
<1>2. Replayed => Replayed'
  BY <1>1 DEF Replayed
<1> QED BY <1>1, <1>2 DEF TrafficInv

LEMMA QueuedConfigs ==
  ASSUME NEW q \in Seq(Packets), NEW p \in Packets, p.kind = "config",
         \A i \in DOMAIN q : q[i].kind = "config"
  PROVE  q \o <<p>> \in Seq(Packets) /\ \A i \in DOMAIN (q \o <<p>>) : (q \o <<p>>)[i].kind = "config"
<1> DEFINE r == q \o <<p>>
<1>1. /\ Len(q) \in Nat /\ DOMAIN q = 1 .. Len(q) /\ DOMAIN r = 1 .. Len(q) + 1
      /\ r \in Seq(Packets)
      /\ \A i \in 1 .. Len(q) : r[i] = q[i]
      /\ r[Len(q) + 1] = p
  OBVIOUS
<1> HIDE DEF r
<1>2. r \in Seq(Packets) /\ \A i \in DOMAIN r : r[i].kind = "config"
  BY <1>1
<1> QED BY <1>2 DEF r

(* Without configs on the way nothing becomes of the entities.             *)
LEMMA NoConfigs ==
  ASSUME NEW E \in SUBSET Slugs, NEW q \in Seq(Packets), \A i \in DOMAIN q : q[i].kind # "config",
         NEW n \in 0 .. Len(q)
  PROVE  After(E, q, "config", n) = E
<1>1. n \in Nat /\ \A i \in 1 .. n : i \in DOMAIN q
  OBVIOUS
<1> QED BY <1>1, AfterOthers

LEMMA FirstConfigFollows ==
  ASSUME NEW E \in SUBSET Slugs, NEW C, NEW q \in Seq(Packets), \A i \in DOMAIN q : q[i].kind # "config",
         NEW K \in SUBSET Slugs, NEW D \in SUBSET Slugs, E \subseteq K
  PROVE  Follows(E, C, Append(q, Packet("config", D, K \ D)), D)
<1>1. After(E, q, "config", Len(q)) \subseteq K
  <2>1. Len(q) \in 0 .. Len(q)
    OBVIOUS
  <2> QED BY <2>1, NoConfigs
<1> QED BY <1>1, ConfigFollows

LEMMA NextConfigFollows ==
  ASSUME NEW E, NEW C, NEW q \in Seq(Packets), NEW K \in SUBSET Slugs, NEW D \in SUBSET Slugs,
         Follows(E, C, q, K)
  PROVE  Follows(E, C, Append(q, Packet("config", D, K \ D)), D)
<1>1. /\ After(E, q, "config", Len(q)) \subseteq K
      /\ \A i \in DOMAIN q : q[i].kind = "config" => After(E, q, "config", i - 1) \subseteq q[i].s \cup q[i].t
  BY DEF Follows
<1> QED BY <1>1, ConfigFollows

LEMMA DisplayUnitsChangedKeeps ==
  ASSUME HubInv, DisplayUnitsChanged
  PROVE  HubInv'
<1> USE DEF broker
<1> DEFINE p == Packet("config", devices, keys \ devices)
<1>1. devices \in SUBSET Slugs /\ keys \in SUBSET Slugs
  BY DEF HubInv, TypeOK
<1>2. p \in Packets /\ p.kind = "config"
  <2>1. keys \ devices \in SUBSET Slugs
    BY <1>1
  <2> QED BY <1>1, <2>1, PacketFacts
<1>3. /\ UNCHANGED <<devices, swept, connected, published, reconcile, seed, in, retained, config, entities>>
      /\ keys' = devices
      /\ blind' = (blind \/ ~connected \/ seed.pending)
  BY DEF DisplayUnitsChanged
<1>4. CASE connected
  <2>1. out' = Append(out, p) /\ queue' = queue
    <3>1. out' = out \o <<p>> /\ queue' = queue
      BY <1>4 DEF DisplayUnitsChanged, Send, PublishDiscoveryConfigs
    <3> QED BY <1>2, <3>1, Lengths DEF HubInv
  <2> HIDE DEF p
  <2>2. Grown(out, out')
    <3>1. Grown(out, out)
      BY Lengths, GrownByNone DEF HubInv
    <3> QED BY <1>2, <2>1, <3>1, Lengths, GrownByOne DEF HubInv
  <2>3. (Subscribing' <=> Subscribing) /\ out' \in Seq(Packets)
    BY <2>2, GrownOut DEF HubInv
  <2>4. TypeOK'
    BY <1>3, <2>1, <2>3 DEF HubInv, TypeOK
  <2>5. TrafficInv'
    BY <1>3, <1>4, <2>1, <2>2, GrownTraffic DEF HubInv
  <2>6. TopicsInv'
    <3>1. /\ swept => published = devices
          /\ Within(retained, out, published, devices, Replaying)
      BY <1>4 DEF HubInv, TopicsInv
    <3>2. Within(retained, out', published, devices, Replaying)
      BY <1>2, <2>1, <3>1, ConfigWithin, Lengths DEF HubInv
    <3>3. Replaying' = Replaying
      BY <1>3, <2>3 DEF Replaying
    <3> QED BY <1>3, <3>1, <3>2, <3>3 DEF TopicsInv
  <2>7. ConfigInv'
    <3> SUFFICES ASSUME ~blind' PROVE /\ queue' = << >>
                                      /\ entities' \subseteq UNION config'
                                      /\ ~seed'.pending /\ Follows(entities', config', out', keys')
      BY DEF ConfigInv
    <3>1. ~blind /\ ~seed.pending
      BY <1>3 DEF HubInv, TypeOK
    <3>2. /\ queue = << >> /\ entities \subseteq UNION config
          /\ Follows(entities, config, out, keys)
      BY <1>4, <3>1 DEF HubInv, ConfigInv
    <3>3. Follows(entities, config, out', devices)
      BY <1>1, <2>1, <3>2, NextConfigFollows, Lengths DEF HubInv, p
    <3> QED BY <1>3, <2>1, <3>1, <3>2, <3>3
  <2> QED BY <2>4, <2>5, <2>6, <2>7 DEF HubInv
<1>5. CASE ~connected
  <2>1. queue' = queue \o <<p>> /\ out' = out /\ blind'
    BY <1>3, <1>5 DEF DisplayUnitsChanged, PublishDiscoveryConfigs
  <2> HIDE DEF p
  <2>2. queue' \in Seq(Packets) /\ \A i \in DOMAIN queue' : queue'[i].kind = "config"
    <3>1. queue \in Seq(Packets) /\ \A i \in DOMAIN queue : queue[i].kind = "config"
      BY Lengths DEF HubInv, TrafficInv
    <3> QED BY <1>2, <2>1, <3>1, QueuedConfigs
  <2>3. TypeOK'
    BY <1>3, <2>1, <2>2 DEF HubInv, TypeOK
  <2>4. TrafficInv'
    BY <1>3, <1>5, <2>1, <2>2 DEF HubInv, TrafficInv, Subscribing
  <2>5. TopicsInv' /\ ConfigInv'
    BY <1>3, <1>5, <2>1 DEF TopicsInv, ConfigInv
  <2> QED BY <2>3, <2>4, <2>5 DEF HubInv
<1> QED BY <1>4, <1>5

LEMMA PollKeeps ==
  ASSUME HubInv, NEW sweep \in BOOLEAN, Poll(sweep)
  PROVE  HubInv'
<1> USE DEF broker
<1> DEFINE reconciles == connected /\ reconcile.pending /\ reconcile.due
           sweeps     == connected /\ sweep
           seeds      == seed.pending /\ seed.due
           gone   == Packet("topics", {}, reconcile.seen \ devices)
           all    == Packet("topics", devices, published \ devices)
           live   == Packet("config", devices, keys \ devices)
           q1 == IF reconciles THEN Append(out, gone) ELSE out
           q2 == IF sweeps THEN Append(q1, all) ELSE q1
           q3 == IF seeds \/ (sweeps /\ ~seed.pending) THEN Append(q2, live) ELSE q2
<1>1. /\ devices \in SUBSET Slugs /\ keys \in SUBSET Slugs /\ published \in SUBSET Slugs
      /\ reconcile.seen \in SUBSET Slugs /\ retained \in SUBSET Slugs /\ entities \in SUBSET Slugs
      /\ out \in Seq(Packets)
  BY DEF HubInv, TypeOK
<1>2. /\ gone \in Packets /\ gone.kind = "topics"
      /\ all \in Packets /\ all.kind = "topics"
      /\ live \in Packets /\ live.kind = "config"
  <2>1. /\ {} \in SUBSET Slugs /\ reconcile.seen \ devices \in SUBSET Slugs
        /\ published \ devices \in SUBSET Slugs /\ keys \ devices \in SUBSET Slugs
    BY <1>1
  <2> QED BY <1>1, <2>1, PacketFacts
<1>3. /\ reconciles \/ sweeps \/ seeds
      /\ reconcile' = IF reconciles THEN [pending |-> FALSE, due |-> FALSE, seen |-> {}] ELSE reconcile
      /\ published' = IF sweeps THEN devices ELSE published
      /\ swept' = (swept \/ sweeps)
      /\ keys' = IF seeds \/ (sweeps /\ ~seed.pending) THEN devices ELSE keys
      /\ seed' = IF seeds THEN [pending |-> FALSE, due |-> FALSE] ELSE seed
      /\ blind' = (blind \/ (seeds /\ ~connected))
      /\ UNCHANGED <<devices, connected, in, retained, config, entities>>
  BY DEF Poll
<1>4. CASE connected
  <2>1. out' = q3 /\ UNCHANGED queue
    <3> DEFINE first  == IF reconciles THEN <<gone>> ELSE << >>
               second == IF sweeps THEN <<all>> \o (IF seed.pending THEN << >> ELSE <<live>>) ELSE << >>
               third  == IF seeds THEN <<live>> ELSE << >>
    <3>1. out' = out \o (first \o second \o third) /\ UNCHANGED queue
      BY <1>4 DEF Poll, Send, ReconcileRetainedTopics, PublishDeviceStatus, PublishDiscoveryConfigs
    <3> HIDE DEF gone, all, live
    <3>2. /\ \A s \in Seq(Packets) : s \o << >> = s /\ << >> \o s = s
          /\ \A x \in Packets : <<x>> \in Seq(Packets)
          /\ \A x, y \in Packets : <<x>> \o <<y>> \in Seq(Packets)
          /\ << >> \in Seq(Packets)
      OBVIOUS
    <3>3. /\ \A s \in Seq(Packets), x \in Packets : s \o <<x>> = Append(s, x)
          /\ \A s \in Seq(Packets), x, y \in Packets : s \o (<<x>> \o <<y>>) = Append(Append(s, x), y)
          /\ \A s \in Seq(Packets), x, y, z \in Packets :
                s \o ((<<x>> \o <<y>>) \o <<z>>) = Append(Append(Append(s, x), y), z)
      <4>1. \A s \in Seq(Packets), x \in Packets : s \o <<x>> = Append(s, x) /\ Append(s, x) \in Seq(Packets)
        OBVIOUS
      <4>2. \A s, t, u \in Seq(Packets) : s \o (t \o u) = (s \o t) \o u
        BY ConcatAssociative
      <4>3. \A s \in Seq(Packets), x, y \in Packets : s \o (<<x>> \o <<y>>) = Append(Append(s, x), y)
        <5> TAKE s \in Seq(Packets), x, y \in Packets
        <5>1. s \o (<<x>> \o <<y>>) = (s \o <<x>>) \o <<y>>
          BY <3>2, <4>2
        <5>2. s \o <<x>> = Append(s, x) /\ Append(s, x) \in Seq(Packets)
          BY <4>1
        <5>3. Append(s, x) \o <<y>> = Append(Append(s, x), y)
          BY <4>1, <5>2
        <5> QED BY <5>1, <5>2, <5>3
      <4>4. \A s \in Seq(Packets), x, y, z \in Packets :
               s \o ((<<x>> \o <<y>>) \o <<z>>) = Append(Append(Append(s, x), y), z)
        <5> TAKE s \in Seq(Packets), x, y, z \in Packets
        <5>1. s \o ((<<x>> \o <<y>>) \o <<z>>) = (s \o (<<x>> \o <<y>>)) \o <<z>>
          BY <3>2, <4>2
        <5>2. s \o (<<x>> \o <<y>>) = Append(Append(s, x), y) /\ Append(Append(s, x), y) \in Seq(Packets)
          BY <4>1, <4>3
        <5>3. Append(Append(s, x), y) \o <<z>> = Append(Append(Append(s, x), y), z)
          BY <4>1, <5>2
        <5> QED BY <5>1, <5>2, <5>3
      <4> QED BY <4>1, <4>3, <4>4
    <3>4. CASE reconciles
      <4>1. CASE sweeps
        <5>1. CASE seeds
          BY <1>1, <1>2, <3>1, <3>2, <3>3, <3>4, <4>1, <5>1
        <5>2. CASE ~seeds /\ seed.pending
          BY <1>1, <1>2, <3>1, <3>2, <3>3, <3>4, <4>1, <5>2
        <5>3. CASE ~seed.pending
          <6>1. out' = out \o (<<gone>> \o (<<all>> \o <<live>>))
            BY <1>2, <3>1, <3>2, <3>4, <4>1, <5>3
          <6>2. <<gone>> \o (<<all>> \o <<live>>) = (<<gone>> \o <<all>>) \o <<live>>
            BY <1>2, <3>2, ConcatAssociative
          <6>3. out' = out \o ((<<gone>> \o <<all>>) \o <<live>>)
            BY <6>1, <6>2
          <6>4. out \o ((<<gone>> \o <<all>>) \o <<live>>) = Append(Append(Append(out, gone), all), live)
            BY <1>1, <1>2, <3>3
          <6>5. out' = Append(Append(Append(out, gone), all), live)
            BY <6>3, <6>4
          <6>6. UNCHANGED queue
            BY <3>1
          <6> QED BY <3>4, <4>1, <5>3, <6>5, <6>6
        <5> QED BY <5>1, <5>2, <5>3
      <4>2. CASE ~sweeps
        BY <1>1, <1>2, <3>1, <3>2, <3>3, <3>4, <4>2
      <4> QED BY <4>1, <4>2
    <3>5. CASE ~reconciles
      <4>1. CASE sweeps
        <5>1. CASE seeds
          BY <1>1, <1>2, <3>1, <3>2, <3>3, <3>5, <4>1, <5>1
        <5>2. CASE ~seeds
          BY <1>1, <1>2, <3>1, <3>2, <3>3, <3>5, <4>1, <5>2
        <5> QED BY <5>1, <5>2
      <4>2. CASE ~sweeps
        BY <1>1, <1>2, <3>1, <3>2, <3>3, <3>5, <4>2
      <4> QED BY <4>1, <4>2
    <3> QED BY <3>4, <3>5
  <2> HIDE DEF gone, all, live
  <2>2. Grown(out, q1) /\ q1 \in Seq(Packets)
    <3>1. Grown(out, out)
      BY <1>1, GrownByNone
    <3>2. Grown(out, Append(out, gone)) /\ Append(out, gone) \in Seq(Packets)
      BY <1>1, <1>2, <3>1, GrownByOne
    <3> QED BY <1>1, <3>1, <3>2
  <2> HIDE DEF q1
  <2>3. Grown(out, q2) /\ q2 \in Seq(Packets)
    <3>1. Grown(out, Append(q1, all)) /\ Append(q1, all) \in Seq(Packets)
      BY <1>1, <1>2, <2>2, GrownByOne
    <3> QED BY <2>2, <3>1
  <2> HIDE DEF q2
  <2>4. Grown(out, out')
    <3>1. Grown(out, Append(q2, live))
      BY <1>1, <1>2, <2>3, GrownByOne
    <3> QED BY <2>1, <2>3, <3>1
  <2>5. (Subscribing' <=> Subscribing) /\ out' \in Seq(Packets)
    BY <2>4, GrownOut DEF HubInv
  <2>6. TypeOK'
    <3>1. reconcile' \in [pending : BOOLEAN, due : BOOLEAN, seen : SUBSET Slugs]
      BY <1>3 DEF HubInv, TypeOK
    <3>2. seed' \in [pending : BOOLEAN, due : BOOLEAN]
      BY <1>3 DEF HubInv, TypeOK
    <3>3. reconcile'.seen # {} => reconcile'.pending
      BY <1>3 DEF HubInv, TypeOK
    <3>4. swept' \in BOOLEAN /\ blind' \in BOOLEAN
      BY <1>3
    <3> QED BY <1>1, <1>3, <2>1, <2>5, <3>1, <3>2, <3>3, <3>4 DEF HubInv, TypeOK
  <2>7. TrafficInv'
    <3>1. /\ reconcile'.due => reconcile.due
          /\ ~reconcile'.pending => ~reconcile.pending \/ reconcile.due
          /\ seed'.due => seed.due
      BY <1>3
    <3> QED BY <1>3, <1>4, <2>1, <2>4, <3>1, GrownTraffic DEF HubInv
  <2>8. TopicsInv'
    <3>1. /\ swept => published = devices
          /\ Within(retained, out, published, devices, Replaying)
      BY <1>4 DEF HubInv, TopicsInv
    <3>2. Within(retained, q1, published, devices, Replaying')
      <4>1. CASE reconciles
        <5>1. Replayed
          BY <1>4, <4>1 DEF HubInv, TrafficInv
        <5>2. ~Subscribing
          <6>1. Subscribing => 1 \in DOMAIN out /\ out[1].kind = "subscribe"
            BY Lengths DEF HubInv, Subscribing
          <6> QED BY <5>1, <6>1 DEF Replayed
        <5>3. Replaying = reconcile.seen
          <6>1. {x \in Slugs : \E i \in DOMAIN in : in[i].kind = "replayed topics" /\ x \in in[i].s} = {}
            BY <5>1 DEF Replayed
          <6> QED BY <4>1, <5>2, <6>1 DEF Replaying
        <5>4. Within(retained, Append(out, gone), published, devices, {})
          BY <1>1, <3>1, <5>3, ReconcileWithin DEF gone
        <5>5. Replaying' = {}
          BY <1>3, <4>1 DEF Replaying
        <5> QED BY <4>1, <5>4, <5>5 DEF q1
      <4>2. CASE ~reconciles
        <5>1. Replaying' = Replaying
          BY <1>3, <2>5, <4>2 DEF Replaying
        <5> QED BY <3>1, <4>2, <5>1 DEF q1
      <4> QED BY <4>1, <4>2
    <3>3. Within(retained, q2, published', devices, Replaying') /\ (swept' => published' = devices)
      <4>1. CASE sweeps
        <5>1. Within(retained, Append(q1, all), devices, devices, Replaying')
          BY <1>1, <2>2, <3>2, SweepWithin DEF all
        <5> QED BY <1>3, <4>1, <5>1 DEF q2
      <4>2. CASE ~sweeps
        BY <1>3, <3>1, <3>2, <4>2 DEF q2
      <4> QED BY <4>1, <4>2
    <3>4. Within(retained, q3, published', devices, Replaying')
      <4>1. Within(retained, Append(q2, live), published', devices, Replaying')
        BY <1>2, <2>3, <3>3, ConfigWithin
      <4> QED BY <3>3, <4>1
    <3> QED BY <1>3, <2>1, <3>3, <3>4 DEF TopicsInv
  <2>9. ConfigInv'
    <3> SUFFICES ASSUME ~blind'
                 PROVE  /\ queue' = << >>
                        /\ entities' \subseteq UNION config'
                        /\ IF seed'.pending THEN SeedAhead' ELSE Follows(entities', config', out', keys')
      BY DEF ConfigInv
    <3>1. ~blind
      BY <1>3
    <3>2. /\ queue = << >> /\ entities \subseteq UNION config
          /\ IF seed.pending THEN SeedAhead ELSE Follows(entities, config, out, keys)
      BY <1>4, <3>1 DEF HubInv, ConfigInv
    <3>3. ASSUME seed.pending PROVE \A i \in DOMAIN q2 : q2[i].kind # "config"
      <4>1. \A i \in DOMAIN out : out[i].kind # "config"
        BY <3>2, <3>3 DEF SeedAhead
      <4>2. \A i \in DOMAIN q1 : q1[i].kind # "config"
        <5>1. \A i \in DOMAIN Append(out, gone) : i \in DOMAIN out \/ i = Len(out) + 1
          BY <1>1
        <5>2. \A i \in DOMAIN out : Append(out, gone)[i] = out[i]
          BY <1>1
        <5>3. Append(out, gone)[Len(out) + 1] = gone
          BY <1>1
        <5> QED BY <1>2, <4>1, <5>1, <5>2, <5>3 DEF q1
      <4>3. \A i \in DOMAIN Append(q1, all) : i \in DOMAIN q1 \/ i = Len(q1) + 1
        BY <2>2
      <4>4. \A i \in DOMAIN q1 : Append(q1, all)[i] = q1[i]
        BY <2>2
      <4>5. Append(q1, all)[Len(q1) + 1] = all
        BY <2>2
      <4> QED BY <1>2, <4>2, <4>3, <4>4, <4>5 DEF q2
    <3>4. CASE seeds
      <4>1. Replayed
        BY <1>4, <3>4 DEF HubInv, TrafficInv
      <4>2. ~Subscribing
        <5>1. Subscribing => 1 \in DOMAIN out /\ out[1].kind = "subscribe"
          BY Lengths DEF HubInv, Subscribing
        <5> QED BY <4>1, <5>1 DEF Replayed
      <4>3. config = {}
        BY <3>2, <3>4, <4>1, <4>2 DEF SeedAhead, Replayed
      <4>4. entities \subseteq keys
        BY <3>2, <4>3
      <4>5. Follows(entities, config, Append(q2, live), devices)
        BY <1>1, <2>3, <3>3, <3>4, <4>4, FirstConfigFollows DEF live
      <4> QED BY <1>3, <2>1, <3>2, <3>4, <4>5
    <3>5. CASE ~seeds /\ seed.pending
      <4>1. out' = q2 /\ seed' = seed
        BY <1>3, <2>1, <3>5
      <4>2. SeedAhead
        BY <3>2, <3>5
      <4>3. SeedAhead'
        BY <1>3, <2>5, <3>3, <3>5, <4>1, <4>2 DEF SeedAhead
      <4> QED BY <1>3, <2>1, <3>2, <3>5, <4>1, <4>3
    <3>6. CASE ~seed.pending
      <4>1. Follows(entities, config, q1, keys)
        <5>1. Follows(entities, config, Append(out, gone), keys)
          BY <1>1, <1>2, <3>2, <3>6, OtherFollows
        <5> QED BY <3>2, <3>6, <5>1 DEF q1
      <4>2. Follows(entities, config, q2, keys)
        <5>1. Follows(entities, config, Append(q1, all), keys)
          BY <1>2, <2>2, <4>1, OtherFollows
        <5> QED BY <4>1, <5>1 DEF q2
      <4>3. Follows(entities, config, Append(q2, live), devices)
        BY <1>1, <2>3, <4>2, NextConfigFollows DEF live
      <4> QED BY <1>3, <2>1, <3>2, <3>6, <4>2, <4>3
    <3> QED BY <3>4, <3>5, <3>6
  <2> QED BY <2>6, <2>7, <2>8, <2>9 DEF HubInv
<1>5. CASE ~connected
  <2>1. seeds /\ blind' /\ queue' = queue \o <<live>> /\ out' = out
    BY <1>3, <1>5 DEF Poll, PublishDiscoveryConfigs
  <2> HIDE DEF live, gone, all
  <2>2. queue' \in Seq(Packets) /\ \A i \in DOMAIN queue' : queue'[i].kind = "config"
    <3>1. queue \in Seq(Packets) /\ \A i \in DOMAIN queue : queue[i].kind = "config"
      BY Lengths DEF HubInv, TrafficInv
    <3> QED BY <1>2, <2>1, <3>1, QueuedConfigs
  <2>3. TypeOK'
    <3>1. reconcile' = reconcile /\ seed' \in [pending : BOOLEAN, due : BOOLEAN]
      BY <1>3, <1>5, <2>1
    <3>2. swept' \in BOOLEAN /\ blind' \in BOOLEAN /\ published' = published /\ keys' = devices
      BY <1>3, <1>5, <2>1
    <3> QED BY <1>3, <2>1, <2>2, <3>1, <3>2 DEF HubInv, TypeOK
  <2>4. TrafficInv'
    BY <1>3, <1>5, <2>1, <2>2 DEF HubInv, TrafficInv, Subscribing
  <2>5. TopicsInv' /\ ConfigInv'
    BY <1>3, <1>5, <2>1 DEF TopicsInv, ConfigInv
  <2> QED BY <2>3, <2>4, <2>5 DEF HubInv
<1> QED BY <1>4, <1>5

-----------------------------------------------------------------------------
(* The steps that take a packet.                                           *)

LEMMA HandleMessageKeeps ==
  ASSUME HubInv, HandleMessage
  PROVE  HubInv'
<1> USE DEF hub, broker
<1> DEFINE p == in[1]
           K == keys \cup p.s \cup p.t
           live == Packet("config", devices, K \ devices)
<1>1. /\ connected /\ in # << >> /\ in' = Tail(in)
      /\ TopicsReceived(p) \/ ConfigReceived(p)
      /\ UNCHANGED <<devices, swept, connected, published, queue, retained, config, entities, blind>>
  <2>1. in # << >> => Head(in) = in[1]
    OBVIOUS
  <2> QED BY <2>1 DEF HandleMessage, counts
<1>2. /\ in \in Seq(Packets) /\ Tail(in) \in Seq(Packets) /\ 1 \in DOMAIN in
      /\ \A i \in DOMAIN Tail(in) : i + 1 \in DOMAIN in /\ Tail(in)[i] = in[i + 1]
      /\ \A i \in DOMAIN in : i = 1 \/ (i - 1 \in DOMAIN Tail(in) /\ Tail(in)[i - 1] = in[i])
  <2>1. in \in Seq(Packets) /\ in # << >>
    BY <1>1, Lengths DEF HubInv
  <2>2. /\ Len(in) \in Nat \ {0} /\ DOMAIN in = 1 .. Len(in)
        /\ Tail(in) \in Seq(Packets) /\ Len(Tail(in)) = Len(in) - 1 /\ DOMAIN Tail(in) = 1 .. Len(in) - 1
        /\ \A i \in 1 .. Len(in) - 1 : Tail(in)[i] = in[i + 1]
    BY <2>1
  <2>3. \A i \in DOMAIN in : i = 1 \/ (i - 1 \in 1 .. Len(in) - 1 /\ (i - 1) + 1 = i)
    BY <2>2
  <2> QED BY <2>1, <2>2, <2>3
<1>3. p \in Packets /\ p.s \in SUBSET Slugs /\ p.t \in SUBSET Slugs
  <2>1. in[1] \in Packets
    BY <1>2
  <2> QED BY <2>1 DEF Packets
<1>4. ~Subscribing
  BY <1>1 DEF HubInv, TrafficInv
<1>5. /\ devices \in SUBSET Slugs /\ keys \in SUBSET Slugs /\ entities \in SUBSET Slugs
      /\ out \in Seq(Packets)
  BY DEF HubInv, TypeOK
<1>6. live \in Packets /\ live.kind = "config"
  <2>1. K \ devices \in SUBSET Slugs
    BY <1>3, <1>5
  <2> QED BY <1>5, <2>1, PacketFacts
<1>7. \/ UNCHANGED <<keys, seed, out>>
      \/ /\ p.kind \in {"config", "replayed config"} /\ seed.pending
         /\ seed' = [pending |-> FALSE, due |-> FALSE] /\ keys' = devices
         /\ out' = Append(out, live) /\ UNCHANGED reconcile
  <2>1. CASE TopicsReceived(p)
    BY <2>1 DEF TopicsReceived
  <2>2. CASE ConfigReceived(p)
    <3>1. out \o <<live>> = Append(out, live)
      BY <1>5, <1>6
    <3> QED BY <2>2, <3>1 DEF ConfigReceived, Send, PublishDiscoveryConfigs
  <2> QED BY <1>1, <2>1, <2>2
<1>8. /\ reconcile'.pending = reconcile.pending /\ reconcile'.due = reconcile.due
      /\ reconcile'.seen \in SUBSET Slugs
      /\ reconcile.seen \subseteq reconcile'.seen
      /\ reconcile.pending /\ p.kind = "replayed topics" => p.s \subseteq reconcile'.seen
      /\ reconcile'.seen # {} => reconcile.pending
      /\ reconcile' \in [pending : BOOLEAN, due : BOOLEAN, seen : SUBSET Slugs]
  <2>1. /\ reconcile \in [pending : BOOLEAN, due : BOOLEAN, seen : SUBSET Slugs]
        /\ reconcile.seen # {} => reconcile.pending
    BY DEF HubInv, TypeOK
  <2>2. CASE TopicsReceived(p)
    BY <1>3, <2>1, <2>2 DEF TopicsReceived
  <2>3. CASE ConfigReceived(p)
    BY <2>1, <2>3 DEF ConfigReceived
  <2> QED BY <1>1, <2>2, <2>3
<1> HIDE DEF live
<1>9. Grown(out, out')
  <2>1. Grown(out, out)
    BY <1>5, GrownByNone
  <2>2. Grown(out, Append(out, live))
    BY <1>5, <1>6, <2>1, GrownByOne
  <2> QED BY <1>7, <2>1, <2>2
<1>10. /\ Subscribing' <=> Subscribing
       /\ (\A i \in DOMAIN out : out[i].kind # "subscribe") => \A i \in DOMAIN out' : out'[i].kind # "subscribe"
       /\ \A i \in DOMAIN out' : \/ out'[i].kind \in {"topics", "config"}
                                 \/ i = 1 /\ out'[i].kind = "subscribe"
       /\ out' \in Seq(Packets)
  BY <1>9, GrownOut DEF HubInv
<1> HIDE DEF p, K
<1>11. TypeOK'
  <2>1. keys' \subseteq Slugs
    BY <1>5, <1>7
  <2>2. seed' \in [pending : BOOLEAN, due : BOOLEAN]
    <3>1. seed \in [pending : BOOLEAN, due : BOOLEAN] /\ [pending |-> FALSE, due |-> FALSE] \in [pending : BOOLEAN, due : BOOLEAN]
      BY DEF HubInv, TypeOK
    <3>2. seed' = seed \/ seed' = [pending |-> FALSE, due |-> FALSE]
      BY <1>7
    <3> QED BY <3>1, <3>2
  <2> QED BY <1>1, <1>2, <1>8, <1>10, <2>1, <2>2 DEF HubInv, TypeOK
<1>12. TrafficInv'
  <2>1. Replayed => Replayed'
    BY <1>1, <1>2, <1>10 DEF Replayed
  <2>2. seed'.due => seed.due
    <3>1. seed' = seed \/ seed' = [pending |-> FALSE, due |-> FALSE]
      BY <1>7
    <3> QED BY <3>1
  <2> QED BY <1>1, <1>4, <1>8, <1>10, <2>1, <2>2 DEF HubInv, TrafficInv
<1>13. TopicsInv'
  <2>1. /\ swept => published = devices
        /\ Within(retained, out, published, devices, Replaying)
    BY <1>1 DEF HubInv, TopicsInv
  <2>2. Within(retained, out', published, devices, Replaying)
    <3>1. Within(retained, Append(out, live), published, devices, Replaying)
      BY <1>5, <1>6, <2>1, ConfigWithin
    <3> QED BY <1>7, <2>1, <3>1
  <2>3. Replaying \subseteq Replaying'
    <3>1. CASE ~reconcile.pending
      BY <3>1 DEF Replaying
    <3>2. CASE reconcile.pending
      <4>1. /\ Replaying = reconcile.seen \cup
                  {x \in Slugs : \E i \in DOMAIN in : in[i].kind = "replayed topics" /\ x \in in[i].s}
            /\ Replaying' = reconcile'.seen \cup
                  {x \in Slugs : \E i \in DOMAIN in' : in'[i].kind = "replayed topics" /\ x \in in'[i].s}
        BY <1>4, <1>8, <1>10, <3>2 DEF Replaying
      <4>2. ASSUME NEW x \in Slugs, NEW i \in DOMAIN in, in[i].kind = "replayed topics", x \in in[i].s
            PROVE  x \in Replaying'
        <5>1. CASE i = 1
          BY <1>8, <3>2, <4>1, <4>2, <5>1 DEF p
        <5>2. CASE i # 1
          BY <1>1, <1>2, <4>1, <4>2, <5>2
        <5> QED BY <5>1, <5>2
      <4> QED BY <1>8, <4>1, <4>2
    <3> QED BY <3>1, <3>2
  <2>4. Within(retained, out', published, devices, Replaying')
    BY <2>2, <2>3, WithinMore
  <2> QED BY <1>1, <2>1, <2>4 DEF TopicsInv
<1>14. ConfigInv'
  <2> SUFFICES ASSUME ~blind'
               PROVE  /\ queue' = << >>
                      /\ entities' \subseteq UNION config'
                      /\ IF seed'.pending THEN SeedAhead' ELSE Follows(entities', config', out', keys')
    BY DEF ConfigInv
  <2>1. /\ queue = << >> /\ entities \subseteq UNION config
        /\ IF seed.pending THEN SeedAhead ELSE Follows(entities, config, out, keys)
    BY <1>1 DEF HubInv, ConfigInv
  <2>2. CASE UNCHANGED <<keys, seed, out>> /\ ~seed.pending
    BY <1>1, <2>1, <2>2
  <2>3. CASE UNCHANGED <<keys, seed, out>> /\ seed.pending
    <3>1. SeedAhead
      BY <2>1, <2>3
    <3>2. p.kind \in {"topics", "replayed topics"}
      <4>1. CASE TopicsReceived(p)
        BY <4>1 DEF TopicsReceived
      <4>2. ConfigReceived(p) => seed' = [pending |-> FALSE, due |-> FALSE]
        BY <2>3 DEF ConfigReceived
      <4>3. ~ConfigReceived(p)
        <5>1. seed' = seed /\ seed.pending
          BY <2>3
        <5>2. ~[pending |-> FALSE, due |-> FALSE].pending
          OBVIOUS
        <5> QED BY <4>2, <5>1, <5>2
      <4> QED BY <1>1, <4>1, <4>3
    <3>3. SeedAhead'
      <4>1. \A i \in DOMAIN in : in[i].kind = "replayed config" => i - 1 \in DOMAIN in' /\ in'[i - 1] = in[i]
        BY <1>1, <1>2, <3>2 DEF p
      <4>2. config' = {} \/ \E i \in DOMAIN in' : in'[i].kind = "replayed config"
        BY <1>1, <1>4, <3>1, <4>1 DEF SeedAhead
      <4>3. /\ \A i \in DOMAIN out' : out'[i].kind # "config"
            /\ \A i \in DOMAIN in' : in'[i].kind # "config"
            /\ \A i \in DOMAIN in' : in'[i].kind = "replayed config" => in'[i].s = UNION config'
        <5>1. out' = out /\ config' = config /\ in' = Tail(in)
          BY <1>1, <2>3
        <5>2. /\ \A i \in DOMAIN out : out[i].kind # "config"
              /\ \A i \in DOMAIN in : in[i].kind # "config"
              /\ \A i \in DOMAIN in : in[i].kind = "replayed config" => in[i].s = UNION config
          BY <3>1 DEF SeedAhead
        <5>3. \A i \in DOMAIN in' : i + 1 \in DOMAIN in /\ in'[i] = in[i + 1]
          BY <1>2, <5>1
        <5> QED BY <5>1, <5>2, <5>3
      <4> QED BY <4>2, <4>3 DEF SeedAhead
    <3> QED BY <1>1, <2>1, <2>3, <3>3
  <2>4. CASE /\ p.kind \in {"config", "replayed config"} /\ seed.pending
             /\ seed' = [pending |-> FALSE, due |-> FALSE] /\ keys' = devices
             /\ out' = Append(out, live)
    <3>1. SeedAhead
      BY <2>1, <2>4
    <3>2. p.s = UNION config
      BY <1>2, <2>4, <3>1 DEF SeedAhead, p
    <3>3. entities \subseteq K /\ K \in SUBSET Slugs
      BY <1>3, <1>5, <2>1, <3>2 DEF K
    <3>4. \A i \in DOMAIN out : out[i].kind # "config"
      BY <3>1 DEF SeedAhead
    <3>5. Follows(entities, config, Append(out, live), devices)
      BY <1>5, <3>3, <3>4, FirstConfigFollows DEF live
    <3> QED BY <1>1, <2>1, <2>4, <3>5
  <2> QED BY <1>7, <2>2, <2>3, <2>4
<1> QED BY <1>11, <1>12, <1>13, <1>14 DEF HubInv

LEMMA OnePacket ==
  ASSUME NEW p \in Packets
  PROVE  <<p>> \in Seq(Packets) /\ Len(<<p>>) = 1 /\ \A i \in DOMAIN <<p>> : <<p>>[i] = p
OBVIOUS

LEMMA BrokerReceivesKeeps ==
  ASSUME HubInv, BrokerReceives
  PROVE  HubInv'
<1> USE DEF hub
<1> DEFINE p == out[1]
           new == IF p.kind = "subscribe" THEN Replay ELSE Echo(p)
<1>1. /\ connected /\ out # << >> /\ out' = Tail(out) /\ in' = in \o new
      /\ Apply(p)
      /\ UNCHANGED <<devices, swept, connected, published, keys, reconcile, seed, queue, blind>>
  <2>1. out # << >> => Head(out) = out[1]
    OBVIOUS
  <2> QED BY <2>1 DEF BrokerReceives, counts
<1>2. /\ out \in Seq(Packets) /\ Tail(out) \in Seq(Packets) /\ 1 \in DOMAIN out
      /\ \A i \in DOMAIN Tail(out) : i + 1 \in DOMAIN out /\ i + 1 # 1 /\ Tail(out)[i] = out[i + 1]
      /\ Tail(out) # << >> => 1 \in DOMAIN Tail(out)
  <2>1. out \in Seq(Packets) /\ out # << >>
    BY <1>1, Lengths DEF HubInv
  <2>2. /\ Len(out) \in Nat \ {0} /\ DOMAIN out = 1 .. Len(out)
        /\ Tail(out) \in Seq(Packets) /\ Len(Tail(out)) = Len(out) - 1 /\ DOMAIN Tail(out) = 1 .. Len(out) - 1
        /\ \A i \in 1 .. Len(out) - 1 : Tail(out)[i] = out[i + 1]
    BY <2>1
  <2>3. \A i \in 1 .. Len(out) - 1 : i + 1 \in 1 .. Len(out) /\ i + 1 # 1
    BY <2>2
  <2>4. Tail(out) # << >> => Len(Tail(out)) # 0
    BY <2>2, EmptySeq
  <2>5. Tail(out) # << >> => 1 \in 1 .. Len(out) - 1
    BY <2>2, <2>4
  <2> QED BY <2>1, <2>2, <2>3, <2>5
<1>3. p \in Packets /\ p.s \in SUBSET Slugs /\ p.t \in SUBSET Slugs
  <2>1. out[1] \in Packets
    BY <1>2
  <2> QED BY <2>1 DEF Packets
<1>4. p.kind \in {"subscribe", "topics", "config"}
  BY <1>2 DEF HubInv, TrafficInv
<1>5. /\ retained \in SUBSET Slugs /\ entities \in SUBSET Slugs /\ config \subseteq SUBSET Slugs
      /\ in \in Seq(Packets)
  BY DEF HubInv, TypeOK
<1>6. /\ retained' = Taken(retained, p, "topics")
      /\ config' = IF p.kind = "config" THEN {p.s \cup p.t} ELSE config
      /\ entities' = IF p.kind = "config" THEN (entities \cup p.s) \ p.t ELSE entities
  BY <1>1 DEF Apply, Taken
<1>7. new \in Seq(Packets) /\ \A i \in DOMAIN new :
        \/ p.kind = "subscribe" /\ config # {} /\ new[i].kind = "replayed config" /\ new[i].s = UNION config
        \/ p.kind = "subscribe" /\ new[i].kind = "replayed topics" /\ new[i].s = retained
        \/ p.kind \in {"topics", "config"} /\ new[i] = p
  <2>1. CASE p.kind # "subscribe"
    <3>1. new = <<p>> \/ new = << >>
      BY <2>1 DEF Echo
    <3>2. /\ <<p>> \in Seq(Packets) /\ << >> \in Seq(Packets)
          /\ \A i \in DOMAIN <<p>> : <<p>>[i] = p
          /\ \A i \in DOMAIN << >> : FALSE
      BY <1>3
    <3> HIDE DEF new, p
    <3>3. CASE new = <<p>>
      BY <1>4, <2>1, <3>2, <3>3
    <3>4. CASE new = << >>
      BY <3>2, <3>4
    <3> QED BY <3>1, <3>3, <3>4
  <2>2. CASE p.kind = "subscribe"
    <3> DEFINE c == Packet("replayed config", UNION config, {})
               t == Packet("replayed topics", retained, {})
    <3>1. /\ c \in Packets /\ c.kind = "replayed config" /\ c.s = UNION config
          /\ t \in Packets /\ t.kind = "replayed topics" /\ t.s = retained
      <4>1. UNION config \in SUBSET Slugs
        BY <1>5
      <4> QED BY <1>5, <4>1 DEF Packet, Packets
    <3>2. new = (IF config = {} THEN << >> ELSE <<c>>) \o <<t>>
      BY <2>2 DEF Replay
    <3> HIDE DEF c, t, new, p
    <3>3. CASE config = {}
      <4>1. new = <<t>>
        <5>1. <<t>> \in Seq(Packets)
          BY <3>1, OnePacket
        <5> QED BY <3>2, <3>3, <5>1, ConcatEmptySeq
      <4>2. <<t>> \in Seq(Packets) /\ \A i \in DOMAIN <<t>> : <<t>>[i] = t
        BY <3>1, OnePacket
      <4> QED BY <2>2, <3>1, <4>1, <4>2
    <3>4. CASE config # {}
      <4>1. new = <<c>> \o <<t>>
        BY <3>2, <3>4
      <4>2. /\ <<c>> \o <<t>> \in Seq(Packets)
            /\ \A i \in DOMAIN (<<c>> \o <<t>>) : (<<c>> \o <<t>>)[i] \in {c, t}
        <5>1. <<c>> \in Seq(Packets) /\ <<t>> \in Seq(Packets) /\ Len(<<c>>) = 1 /\ Len(<<t>>) = 1
          BY <3>1, OnePacket
        <5>2. /\ <<c>> \o <<t>> \in Seq(Packets) /\ DOMAIN (<<c>> \o <<t>>) = 1 .. 2
              /\ (<<c>> \o <<t>>)[1] = c /\ (<<c>> \o <<t>>)[2] = t
          BY <5>1
        <5>3. \A i \in 1 .. 2 : i = 1 \/ i = 2
          OBVIOUS
        <5> QED BY <5>2, <5>3
      <4> QED BY <2>2, <3>1, <3>4, <4>1, <4>2
    <3> QED BY <3>3, <3>4
  <2> QED BY <2>1, <2>2
<1>8. p.kind = "subscribe" =>
        /\ \E i \in DOMAIN new : new[i].kind = "replayed topics" /\ new[i].s = retained
        /\ config = {} \/ \E i \in DOMAIN new : new[i].kind = "replayed config"
  <2> SUFFICES ASSUME p.kind = "subscribe"
               PROVE  /\ \E i \in DOMAIN new : new[i].kind = "replayed topics" /\ new[i].s = retained
                      /\ config = {} \/ \E i \in DOMAIN new : new[i].kind = "replayed config"
    OBVIOUS
  <2> DEFINE c == Packet("replayed config", UNION config, {})
             t == Packet("replayed topics", retained, {})
  <2>1. c.kind = "replayed config" /\ t.kind = "replayed topics" /\ t.s = retained
    BY DEF Packet
  <2>2. new = (IF config = {} THEN << >> ELSE <<c>>) \o <<t>>
    BY DEF Replay
  <2> HIDE DEF c, t, new
  <2>3. CASE config = {}
    <3>1. 1 \in DOMAIN new /\ new[1] = t
      BY <2>2, <2>3
    <3> QED BY <2>1, <2>3, <3>1
  <2>4. CASE config # {}
    <3>1. new = <<c>> \o <<t>>
      BY <2>2, <2>4
    <3>2. 1 \in DOMAIN new /\ new[1] = c /\ 2 \in DOMAIN new /\ new[2] = t
      BY <3>1
    <3> QED BY <2>1, <3>2
  <2> QED BY <2>3, <2>4
<1> HIDE DEF new
<1>9. /\ in' \in Seq(Packets)
      /\ \A i \in DOMAIN in : i \in DOMAIN in' /\ in'[i] = in[i]
      /\ \A i \in DOMAIN new : \E j \in DOMAIN in' : in'[j] = new[i]
      /\ \A i \in DOMAIN in' : \/ i \in DOMAIN in /\ in'[i] = in[i]
                               \/ \E j \in DOMAIN new : in'[i] = new[j]
  <2>1. /\ in' \in Seq(Packets) /\ Len(in) \in Nat /\ Len(new) \in Nat
        /\ DOMAIN in = 1 .. Len(in) /\ DOMAIN new = 1 .. Len(new) /\ DOMAIN in' = 1 .. Len(in) + Len(new)
        /\ \A i \in 1 .. Len(in) : in'[i] = in[i]
        /\ \A i \in 1 .. Len(new) : in'[Len(in) + i] = new[i]
    <3>1. new \in Seq(Packets) /\ in \in Seq(Packets) /\ in' = in \o new
      BY <1>1, <1>5, <1>7
    <3>2. /\ in \o new \in Seq(Packets) /\ Len(in) \in Nat /\ Len(new) \in Nat
          /\ DOMAIN in = 1 .. Len(in) /\ DOMAIN new = 1 .. Len(new)
          /\ DOMAIN (in \o new) = 1 .. Len(in) + Len(new)
      BY <3>1
    <3>3. \A i \in 1 .. Len(in) : (in \o new)[i] = in[i]
      BY <3>1, <3>2
    <3>4. \A i \in 1 .. Len(new) : (in \o new)[Len(in) + i] = new[i]
      BY <3>1, <3>2
    <3> QED BY <3>1, <3>2, <3>3, <3>4
  <2>2. \A i \in 1 .. Len(new) : Len(in) + i \in 1 .. Len(in) + Len(new)
    BY <2>1
  <2>3. \A i \in 1 .. Len(in) + Len(new) : i \in 1 .. Len(in) \/ (i - Len(in) \in 1 .. Len(new) /\ Len(in) + (i - Len(in)) = i)
    BY <2>1
  <2>4. \A i \in DOMAIN in : i \in DOMAIN in' /\ in'[i] = in[i]
    BY <2>1
  <2>5. \A i \in DOMAIN new : \E j \in DOMAIN in' : in'[j] = new[i]
    BY <2>1, <2>2
  <2>6. ASSUME NEW i \in DOMAIN in'
        PROVE  (i \in DOMAIN in /\ in'[i] = in[i]) \/ \E j \in DOMAIN new : in'[i] = new[j]
    BY <2>1, <2>3
  <2> QED BY <2>1, <2>4, <2>5, <2>6
<1>10. ~Subscribing'
  <2>1. out' # << >> => out'[1].kind # "subscribe"
    BY <1>1, <1>2 DEF HubInv, TrafficInv
  <2> QED BY <2>1 DEF Subscribing
<1>11. Subscribing <=> p.kind = "subscribe"
  BY <1>1 DEF Subscribing
<1> HIDE DEF p
<1>12. TypeOK'
  <2>1. retained' \subseteq Slugs /\ entities' \subseteq Slugs /\ config' \subseteq SUBSET Slugs
    BY <1>3, <1>5, <1>6 DEF Taken
  <2> QED BY <1>1, <1>2, <1>9, <2>1 DEF HubInv, TypeOK
<1>13. TrafficInv'
  <2>1. \A i \in DOMAIN out' : out'[i].kind \in {"topics", "config"}
    BY <1>1, <1>2 DEF HubInv, TrafficInv
  <2>2. ASSUME Replayed PROVE Replayed'
    <3>1. p.kind # "subscribe"
      BY <1>2, <2>2 DEF Replayed, p
    <3>2. \A i \in DOMAIN in' : in'[i].kind \notin {"replayed topics", "replayed config"}
      BY <1>4, <1>7, <1>9, <2>2, <3>1 DEF Replayed
    <3>3. \A i \in DOMAIN out' : out'[i].kind # "subscribe"
      BY <2>1
    <3> QED BY <3>2, <3>3 DEF Replayed
  <2> QED BY <1>1, <1>10, <2>1, <2>2 DEF HubInv, TrafficInv
<1>14. TopicsInv'
  <2>1. /\ swept => published = devices
        /\ Within(retained, out, published, devices, Replaying)
    BY <1>1 DEF HubInv, TopicsInv
  <2>2. Within(retained', out', published, devices, Replaying)
    BY <1>1, <1>2, <1>5, <1>6, <2>1, HeadWithin DEF p
  <2>3. Replaying \subseteq Replaying'
    <3>1. CASE ~reconcile.pending
      BY <3>1 DEF Replaying
    <3>2. CASE reconcile.pending
      <4>1. Replaying' = reconcile.seen \cup
              {x \in Slugs : \E i \in DOMAIN in' : in'[i].kind = "replayed topics" /\ x \in in'[i].s}
        BY <1>1, <1>10, <3>2 DEF Replaying
      <4>2. CASE Subscribing
        <5>1. Replaying = retained
          BY <3>2, <4>2 DEF Replaying
        <5>2. \E i \in DOMAIN in' : in'[i].kind = "replayed topics" /\ in'[i].s = retained
          BY <1>8, <1>9, <1>11, <4>2
        <5> QED BY <1>5, <4>1, <5>1, <5>2
      <4>3. CASE ~Subscribing
        <5>1. Replaying = reconcile.seen \cup
                {x \in Slugs : \E i \in DOMAIN in : in[i].kind = "replayed topics" /\ x \in in[i].s}
          BY <3>2, <4>3 DEF Replaying
        <5> QED BY <1>9, <4>1, <5>1
      <4> QED BY <4>2, <4>3
    <3> QED BY <3>1, <3>2
  <2>4. Within(retained', out', published, devices, Replaying')
    BY <2>2, <2>3, WithinMore
  <2> QED BY <1>1, <2>1, <2>4 DEF TopicsInv
<1>15. ConfigInv'
  <2> SUFFICES ASSUME ~blind'
               PROVE  /\ queue' = << >>
                      /\ entities' \subseteq UNION config'
                      /\ IF seed'.pending THEN SeedAhead' ELSE Follows(entities', config', out', keys')
    BY DEF ConfigInv
  <2>1. /\ queue = << >> /\ entities \subseteq UNION config
        /\ IF seed.pending THEN SeedAhead ELSE Follows(entities, config, out, keys)
    BY <1>1 DEF HubInv, ConfigInv
  <2>2. CASE seed.pending
    <3>1. SeedAhead
      BY <2>1, <2>2
    <3>2. p.kind # "config"
      BY <1>2, <3>1 DEF SeedAhead, p
    <3>3. config' = config /\ entities' = entities
      BY <1>6, <3>2
    <3>4. \A i \in DOMAIN out' : out'[i].kind # "config"
      BY <1>1, <1>2, <3>1 DEF SeedAhead
    <3>5. \A i \in DOMAIN in' : in'[i].kind # "config"
      BY <1>7, <1>9, <3>1, <3>2 DEF SeedAhead
    <3>6. \A i \in DOMAIN in' : in'[i].kind = "replayed config" => in'[i].s = UNION config'
      BY <1>4, <1>7, <1>9, <3>1, <3>3 DEF SeedAhead
    <3>7. config' = {} \/ \E i \in DOMAIN in' : in'[i].kind = "replayed config"
      BY <1>8, <1>9, <1>11, <3>1, <3>3 DEF SeedAhead
    <3>8. SeedAhead'
      BY <3>4, <3>5, <3>6, <3>7 DEF SeedAhead
    <3> QED BY <1>1, <2>1, <2>2, <3>3, <3>8
  <2>3. CASE ~seed.pending
    <3>1. Follows(entities, config, out, keys)
      BY <2>1, <2>3
    <3>2. CASE p.kind # "config"
      <4>1. Follows(entities, config, Tail(out), keys)
        BY <1>1, <1>2, <1>5, <3>1, <3>2, HeadFollows DEF p
      <4> QED BY <1>1, <1>6, <2>1, <2>3, <3>2, <4>1
    <3>3. CASE p.kind = "config"
      <4>1. /\ entities \subseteq p.s \cup p.t
            /\ Follows((entities \cup p.s) \ p.t, {p.s \cup p.t}, Tail(out), keys)
        BY <1>1, <1>2, <1>5, <3>1, <3>3, HeadFollows DEF p
      <4>2. entities' \subseteq UNION config'
        BY <1>6, <3>3, <4>1
      <4> QED BY <1>1, <1>6, <2>1, <2>3, <3>3, <4>1, <4>2
    <3> QED BY <3>2, <3>3
  <2> QED BY <2>2, <2>3
<1> QED BY <1>12, <1>13, <1>14, <1>15 DEF HubInv

-----------------------------------------------------------------------------

LEMMA InitHub == Init => HubInv
<1> SUFFICES ASSUME Init PROVE HubInv
  OBVIOUS
<1>1. << >> \in Seq(Packets)
  OBVIOUS
<1>2. TypeOK
  BY <1>1 DEF Init, TypeOK
<1>3. TrafficInv /\ TopicsInv /\ ConfigInv
  BY DEF Init, TrafficInv, TopicsInv, ConfigInv, Subscribing
<1> QED BY <1>2, <1>3 DEF HubInv

LEMMA NextKeepsHub == HubInv /\ [Next]_vars => HubInv'
<1> SUFFICES ASSUME HubInv, [Next]_vars PROVE HubInv'
  OBVIOUS
<1>1. CASE OnConnected
  BY <1>1, OnConnectedKeeps
<1>2. CASE HandleMessage
  BY <1>2, HandleMessageKeeps
<1>3. CASE BrokerReceives
  BY <1>3, BrokerReceivesKeeps
<1>4. CASE ConnectionLost
  BY <1>4, ConnectionLostKeeps
<1>5. CASE ProgramRestarts
  BY <1>5, ProgramRestartsKeeps
<1>6. CASE DevicesChange
  BY <1>6, DevicesChangeKeeps
<1>7. CASE DisplayUnitsChanged
  BY <1>7, DisplayUnitsChangedKeeps
<1>8. CASE GracePasses
  BY <1>8, GracePassesKeeps
<1>9. ASSUME NEW sweep \in BOOLEAN, Poll(sweep) PROVE HubInv'
  BY <1>9, PollKeeps
<1>10. CASE UNCHANGED vars
  BY <1>10, StutterKeeps
<1> QED BY <1>1, <1>2, <1>3, <1>4, <1>5, <1>6, <1>7, <1>8, <1>9, <1>10 DEF Next

LEMMA HubHasNoGhosts == HubInv => NoGhosts
<1> SUFFICES ASSUME HubInv PROVE NoGhosts
  OBVIOUS
<1>1. retained \in SUBSET Slugs /\ entities \in SUBSET Slugs
  BY DEF HubInv, TypeOK
<1>2. ASSUME Settled PROVE retained = devices
  <2>1. published = devices /\ Within(retained, << >>, devices, devices, {})
    BY <1>2 DEF HubInv, TopicsInv, Settled, Replaying
  <2>2. After(retained, << >>, "topics", Len(<< >>)) = retained
    BY <1>1, AfterNone
  <2> QED BY <2>1, <2>2 DEF Within
<1>3. ASSUME Settled, ~blind PROVE entities = devices /\ config # {}
  <2>1. Follows(entities, config, << >>, devices)
    BY <1>3 DEF HubInv, ConfigInv, Settled
  <2>2. After(entities, << >>, "config", Len(<< >>)) = entities
    BY <1>1, AfterNone
  <2>3. ~\E i \in DOMAIN << >> : TRUE
    OBVIOUS
  <2> QED BY <2>1, <2>2, <2>3 DEF Follows
<1> QED BY <1>2, <1>3 DEF HubInv, NoGhosts, NoGhostTopics, NoGhostEntities

(* No ghost is left, whatever was lost on the way, however often the       *)
(* program was restarted or a device relabelled: once the windows are over *)
(* and the traffic has settled, the retained topics and what Home          *)
(* Assistant shows are the present devices (PublishDeviceStatus,           *)
(* ReconcileRetainedTopics, PublishDiscoveryConfigs).                      *)
THEOREM NoGhostsAreLeft == Spec => []NoGhosts
<1>1. Spec => []HubInv
  BY InitHub, NextKeepsHub, PTL DEF Spec
<1> QED BY <1>1, HubHasNoGhosts, PTL
=============================================================================
