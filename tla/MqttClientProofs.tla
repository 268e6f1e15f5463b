-------------------------- MODULE MqttClientProofs --------------------------
(***************************************************************************)
(* Theorems about MqttClient: the client is never stranded, its queue is   *)
(* bounded, and its publishing implements AtMostOnceFifo, for every queue  *)
(* size, every number of outages and restarts and every backoff.           *)
(***************************************************************************)
EXTENDS MqttClient, FiniteSetTheorems, TLAPS

Points == {"handshake", "connect", "connack", "recv"}
Handlers == [ep : Endpoints, at : Points]
Sends == [ep : Endpoints, id : 1 .. MaxPublishes]
Messages == 1 .. MaxPublishes

(* The types that the arguments below need.                                *)
ConnType ==
  /\ ep \in Endpoints \cup {0}
  /\ handlers \subseteq Handlers
  /\ fired \in Nat

(* The connection half of the inductive invariant.                         *)
ConnInv == ConnType /\ NeverStranded

QueueType ==
  /\ queue \in Seq(Messages) /\ inflight \in Seq([ep : Endpoints, id : Messages])
  /\ published \in 0 .. MaxPublishes /\ delivered \in 0 .. MaxPublishes

(* The messages in flight, then the queued ones, are in the order of their *)
(* publication, all of them younger than the last delivered one.           *)
InOrder ==
  /\ \A i, j \in DOMAIN inflight : i < j => inflight[i].id < inflight[j].id
  /\ \A i, j \in DOMAIN queue : i < j => queue[i] < queue[j]
  /\ \A i \in DOMAIN inflight, j \in DOMAIN queue : inflight[i].id < queue[j]
  /\ \A i \in DOMAIN inflight : delivered < inflight[i].id /\ inflight[i].id <= published
  /\ \A i \in DOMAIN queue : delivered < queue[i] /\ queue[i] <= published
  /\ delivered <= published

MessageInv == QueueType /\ InOrder /\ QueueBounded
-----------------------------------------------------------------------------
(* What a step does to the messages.                                       *)
Still == UNCHANGED <<queue, inflight, published, delivered>>
Flush == /\ ep \in Endpoints
         /\ inflight' = inflight \o Flushed /\ queue' = <<>>
         /\ UNCHANGED <<published, delivered>>
Clear == queue' = <<>> /\ UNCHANGED <<inflight, published, delivered>>

(* Every step leaves the messages alone, flushes the queue to an endpoint, *)
(* clears it, publishes or completes a send.                               *)
LEMMA StepKinds ==
  ASSUME ConnInv, [Next]_vars
  PROVE  Still \/ Flush \/ Clear \/ Publish \/ SendCompletes
<1>1. CASE UNCHANGED vars
  BY <1>1 DEF vars, Still
<1>2. ASSUME NEW e \in Endpoints, HandlerRuns(e) PROVE Still \/ Flush
  <2>1. PICK h \in handlers :
          /\ HandshakeDone(h) \/ ConnectSent(h) \/ HandleConnack(h) \/ RecvDone(h)
          /\ inflight' = IF queue' = queue THEN inflight ELSE inflight \o Flushed
          /\ UNCHANGED <<published, delivered>>
    BY <1>2 DEF HandlerRuns
  <2>2. queue' = queue \/ (queue' = <<>> /\ ep \in Endpoints)
    <3>1. CASE HandleConnack(h) /\ IsCurrent(h)
      <4>1. h.ep \in Endpoints
        BY DEF ConnInv, ConnType, Handlers
      <4> QED
        BY <3>1, <4>1 DEF HandleConnack, IsCurrent
    <3>2. CASE HandleConnack(h) /\ ~IsCurrent(h)
      BY <3>2 DEF HandleConnack, BowOut
    <3> QED
      BY <2>1, <3>1, <3>2 DEF HandshakeDone, ConnectSent, RecvDone
  <2> QED
    BY <2>1, <2>2 DEF Still, Flush
<1>3. CASE Poll
  <2>1. ep # 0 /\ ep \in Endpoints \cup {0}
    BY <1>3 DEF Poll, ConnInv, ConnType, NeverStranded
  <2> QED
    BY <1>3, <2>1 DEF Poll, Flush
<1>4. CASE Stop
  BY <1>4 DEF Stop, Clear
<1>5. CASE TimerExpires \/ ReconnectTimerFired \/ Start \/ BrokerFails \/ BrokerReturns
  BY <1>5 DEF TimerExpires, ReconnectTimerFired, Start, BrokerFails, BrokerReturns, Still
<1> QED
  BY <1>1, <1>2, <1>3, <1>4, <1>5 DEF Next
-----------------------------------------------------------------------------
LEMMA MessageInit == Init => MessageInv
  BY MqttClientAssumption DEF Init, MessageInv, QueueType, InOrder, QueueBounded, Messages

LEMMA Concatenation ==
  ASSUME NEW S, NEW s \in Seq(S), NEW t \in Seq(S)
  PROVE  /\ s \o t \in Seq(S)
         /\ DOMAIN (s \o t) = 1 .. (Len(s) + Len(t))
         /\ \A i \in 1 .. (Len(s) + Len(t)) :
               (s \o t)[i] = IF i <= Len(s) THEN s[i] ELSE t[i - Len(s)]
  OBVIOUS

LEMMA Element ==
  ASSUME NEW S, NEW s \in Seq(S), NEW i \in DOMAIN s
  PROVE  s[i] \in S
  OBVIOUS

LEMMA Typed ==
  ASSUME MessageInv
  PROVE  /\ \A i \in DOMAIN inflight : inflight[i].id \in Nat
         /\ \A i \in DOMAIN queue : queue[i] \in Nat
         /\ delivered \in Nat /\ published \in Nat
<1>1. Messages \subseteq Nat /\ 0 .. MaxPublishes \subseteq Nat
  BY MqttClientAssumption DEF Messages
<1>2. inflight \in Seq([ep : Endpoints, id : Messages]) /\ queue \in Seq(Messages)
  BY DEF MessageInv, QueueType
<1>3. \A i \in DOMAIN inflight : inflight[i] \in [ep : Endpoints, id : Messages]
  BY <1>2, Element
<1>4. \A i \in DOMAIN queue : queue[i] \in Messages
  BY <1>2, Element
<1>5. \A i \in DOMAIN inflight : inflight[i].id \in Messages
  BY <1>3
<1>6. delivered \in Nat /\ published \in Nat
  BY <1>1 DEF MessageInv, QueueType
<1> QED
  BY <1>1, <1>4, <1>5, <1>6

LEMMA FlushKeeps ==
  ASSUME MessageInv, Flush
  PROVE  MessageInv'
<1> DEFINE n == Len(inflight)
           m == Len(queue)
<1>1. /\ inflight \in Seq([ep : Endpoints, id : Messages]) /\ queue \in Seq(Messages)
      /\ n \in Nat /\ m \in Nat
      /\ DOMAIN inflight = 1 .. n /\ DOMAIN queue = 1 .. m
  BY DEF MessageInv, QueueType
<1>2. /\ Flushed \in Seq([ep : Endpoints, id : Messages])
      /\ Len(Flushed) = m
      /\ \A i \in 1 .. m : Flushed[i].id = queue[i]
  BY <1>1 DEF Flushed, Flush
<1>3. /\ inflight' \in Seq([ep : Endpoints, id : Messages])
      /\ DOMAIN inflight' = 1 .. (n + m)
      /\ \A i \in 1 .. (n + m) :
            inflight'[i].id = IF i <= n THEN inflight[i].id ELSE queue[i - n]
  <2> HIDE DEF n, m
  <2>1. /\ inflight' \in Seq([ep : Endpoints, id : Messages])
        /\ DOMAIN inflight' = 1 .. (Len(inflight) + Len(Flushed))
        /\ \A i \in 1 .. (Len(inflight) + Len(Flushed)) :
              inflight'[i] = IF i <= Len(inflight) THEN inflight[i]
                                                   ELSE Flushed[i - Len(inflight)]
    BY <1>1, <1>2, Concatenation DEF Flush
  <2>2. \A i \in 1 .. (n + m) : ~(i <= n) => i - n \in 1 .. m
    BY <1>1
  <2> QED
    BY <1>1, <1>2, <2>1, <2>2 DEF n
<1>4. queue' = <<>> /\ DOMAIN queue' = {} /\ queue' \in Seq(Messages) /\ Len(queue') = 0
  BY DEF Flush
<1>5. published' = published /\ delivered' = delivered
  BY DEF Flush
<1>6. QueueType'
  BY <1>3, <1>4, <1>5 DEF QueueType, MessageInv
<1>7. ASSUME NEW i \in DOMAIN inflight', NEW j \in DOMAIN inflight', i < j
      PROVE  inflight'[i].id < inflight'[j].id
  <2>1. CASE j <= n
    BY <1>1, <1>3, <1>7, <2>1 DEF MessageInv, InOrder
  <2>2. CASE i <= n /\ ~(j <= n)
    <3>1. i \in DOMAIN inflight /\ j - n \in DOMAIN queue
      BY <1>1, <1>3, <2>2
    <3> QED
      BY <1>3, <2>2, <3>1 DEF MessageInv, InOrder
  <2>3. CASE ~(i <= n)
    <3>1. i - n \in DOMAIN queue /\ j - n \in DOMAIN queue /\ i - n < j - n /\ ~(j <= n)
      BY <1>1, <1>3, <1>7, <2>3
    <3> QED
      BY <1>3, <2>3, <3>1 DEF MessageInv, InOrder
  <2> QED
    BY <1>1, <1>3, <2>1, <2>2, <2>3
<1>8. ASSUME NEW i \in DOMAIN inflight'
      PROVE  delivered < inflight'[i].id /\ inflight'[i].id <= published
  <2>1. CASE i <= n
    BY <1>1, <1>3, <2>1 DEF MessageInv, InOrder
  <2>2. CASE ~(i <= n)
    <3>1. i - n \in DOMAIN queue
      BY <1>1, <1>3, <2>2
    <3> QED
      BY <1>3, <2>2, <3>1 DEF MessageInv, InOrder
  <2> QED
    BY <2>1, <2>2
<1>9. InOrder'
  BY <1>4, <1>5, <1>7, <1>8 DEF InOrder, MessageInv
<1> QED
  BY <1>4, <1>6, <1>9, MqttClientAssumption DEF MessageInv, QueueBounded

LEMMA PublishKeeps ==
  ASSUME MessageInv, Publish
  PROVE  MessageInv'
<1> DEFINE kept == IF Len(queue) >= MaxQueue THEN Tail(queue) ELSE queue
           m == published + 1
<1>1. /\ queue \in Seq(Messages) /\ published \in Nat /\ m \in Messages
      /\ published' = m /\ queue' = Append(kept, m)
      /\ inflight' = inflight /\ delivered' = delivered
  BY MqttClientAssumption DEF MessageInv, QueueType, Publish, Enqueue, Messages
<1>2. /\ kept \in Seq(Messages) /\ Len(kept) < MaxQueue
      /\ \E d \in {0, 1} : /\ Len(kept) = Len(queue) - d
                           /\ \A i \in DOMAIN kept : i + d \in DOMAIN queue /\ kept[i] = queue[i + d]
  <2>1. CASE Len(queue) >= MaxQueue
    <3>1. Len(queue) = MaxQueue /\ queue # <<>> /\ kept = Tail(queue)
      BY <1>1, <2>1, MqttClientAssumption DEF MessageInv, QueueBounded
    <3>2. /\ kept \in Seq(Messages) /\ Len(kept) = Len(queue) - 1
          /\ \A i \in DOMAIN kept : i + 1 \in DOMAIN queue /\ kept[i] = queue[i + 1]
      BY <1>1, <3>1
    <3> QED
      BY <1>1, <3>1, <3>2, MqttClientAssumption
  <2>2. CASE ~(Len(queue) >= MaxQueue)
    BY <1>1, <2>2, MqttClientAssumption
  <2> QED
    BY <2>1, <2>2
<1>3. PICK d \in {0, 1} : /\ Len(kept) = Len(queue) - d
                          /\ \A i \in DOMAIN kept : i + d \in DOMAIN queue /\ kept[i] = queue[i + d]
  BY <1>2
<1> HIDE DEF kept
<1>4. /\ queue' \in Seq(Messages) /\ Len(queue') = Len(kept) + 1
      /\ DOMAIN queue' = 1 .. (Len(kept) + 1)
      /\ \A i \in DOMAIN kept : queue'[i] = kept[i]
      /\ queue'[Len(kept) + 1] = m
      /\ DOMAIN kept = 1 .. Len(kept) /\ Len(kept) \in Nat
  BY <1>1, <1>2
<1>5. QueueBounded'
  BY <1>2, <1>4, MqttClientAssumption DEF QueueBounded
<1>6. QueueType'
  BY <1>1, <1>4, MqttClientAssumption DEF QueueType, MessageInv, Messages
<1>7. \A i \in DOMAIN kept :
        /\ kept[i] \in Messages /\ delivered < kept[i] /\ kept[i] < m
        /\ \A k \in DOMAIN inflight : inflight[k].id < kept[i]
        /\ \A j \in DOMAIN kept : i < j => kept[i] < kept[j]
  <2> SUFFICES ASSUME NEW i \in DOMAIN kept
               PROVE  /\ kept[i] \in Messages /\ delivered < kept[i] /\ kept[i] < m
                      /\ \A k \in DOMAIN inflight : inflight[k].id < kept[i]
                      /\ \A j \in DOMAIN kept : i < j => kept[i] < kept[j]
    OBVIOUS
  <2>1. i + d \in DOMAIN queue /\ kept[i] = queue[i + d]
    BY <1>3
  <2>2. kept[i] \in Messages /\ delivered < kept[i] /\ kept[i] <= published
    BY <1>1, <2>1 DEF MessageInv, InOrder
  <2>3. \A k \in DOMAIN inflight : inflight[k].id < kept[i]
    BY <2>1 DEF MessageInv, InOrder
  <2>4. ASSUME NEW j \in DOMAIN kept, i < j PROVE kept[i] < kept[j]
    <3>1. j + d \in DOMAIN queue /\ kept[j] = queue[j + d] /\ i + d < j + d
      BY <1>3, <1>4, <2>4
    <3> QED
      BY <2>1, <3>1 DEF MessageInv, InOrder
  <2>5. kept[i] < m
    BY <1>1, <2>2 DEF Messages
  <2> QED
    BY <2>2, <2>3, <2>4, <2>5
<1>8. \A i \in DOMAIN queue' : (i \in DOMAIN kept /\ queue'[i] = kept[i])
                               \/ (i = Len(kept) + 1 /\ queue'[i] = m)
  BY <1>4
<1>9. /\ delivered <= published /\ published < m
      /\ \A i \in DOMAIN inflight : /\ delivered < inflight[i].id
                                    /\ inflight[i].id < m /\ inflight[i].id <= m
  <2>1. published < m
    BY <1>1
  <2> QED
    BY <1>1, <2>1, Typed DEF MessageInv, InOrder
<1>10. \A i, j \in DOMAIN queue' : i < j => queue'[i] < queue'[j]
  BY <1>4, <1>7, <1>8
<1>11. \A i \in DOMAIN inflight', j \in DOMAIN queue' : inflight'[i].id < queue'[j]
  BY <1>1, <1>7, <1>8, <1>9
<1>12. \A i \in DOMAIN queue' : delivered' < queue'[i] /\ queue'[i] <= published'
  <2>1. delivered < m /\ m <= m /\ m \in Nat /\ delivered \in Nat
    BY <1>1, <1>9, MqttClientAssumption DEF MessageInv, QueueType
  <2>2. \A i \in DOMAIN kept : delivered < kept[i] /\ kept[i] <= m
    BY <1>1, <1>7, <2>1 DEF Messages
  <2> QED
    BY <1>1, <1>8, <2>1, <2>2
<1>13. \A i, j \in DOMAIN inflight' : i < j => inflight'[i].id < inflight'[j].id
  BY <1>1 DEF MessageInv, InOrder
<1>14. delivered' <= published'
  BY <1>1, <1>9 DEF MessageInv, QueueType
<1>15. \A i \in DOMAIN inflight' : delivered' < inflight'[i].id /\ inflight'[i].id <= published'
  BY <1>1, <1>9
<1>16. InOrder'
  BY <1>10, <1>11, <1>12, <1>13, <1>14, <1>15 DEF InOrder
<1> QED
  BY <1>5, <1>6, <1>16 DEF MessageInv

LEMMA SendKeeps ==
  ASSUME MessageInv, SendCompletes
  PROVE  /\ MessageInv'
         /\ Fifo!Deliver \/ delivered' = delivered
<1>1. /\ inflight \in Seq([ep : Endpoints, id : Messages]) /\ inflight # <<>>
      /\ inflight' = Tail(inflight) /\ queue' = queue /\ published' = published
      /\ delivered' = inflight[1].id \/ delivered' = delivered
      /\ delivered \in Nat /\ published \in Nat
  BY DEF MessageInv, QueueType, SendCompletes
<1>2. /\ inflight' \in Seq([ep : Endpoints, id : Messages])
      /\ 1 \in DOMAIN inflight
      /\ \A i \in DOMAIN inflight' : i + 1 \in DOMAIN inflight /\ inflight'[i] = inflight[i + 1]
                                     /\ i \in Nat /\ 1 < i + 1
  BY <1>1
<1>3. inflight[1].id \in Messages /\ delivered < inflight[1].id /\ inflight[1].id <= published
  <2>1. inflight[1] \in [ep : Endpoints, id : Messages]
    BY <1>1, <1>2, Element
  <2> QED
    BY <1>2, <2>1 DEF MessageInv, InOrder
<1>4. QueueType'
  BY <1>1, <1>2, <1>3 DEF MessageInv, QueueType, Messages
<1>5. delivered <= delivered' /\ delivered' <= inflight[1].id /\ delivered' <= published
  BY <1>1, <1>3 DEF Messages, MessageInv, InOrder
<1>6. ASSUME NEW i \in DOMAIN inflight', NEW j \in DOMAIN inflight', i < j
      PROVE  inflight'[i].id < inflight'[j].id
  BY <1>2, <1>6 DEF MessageInv, InOrder
<1>7. ASSUME NEW i \in DOMAIN inflight'
      PROVE  delivered' < inflight'[i].id /\ inflight'[i].id <= published
  <2>1. inflight[1].id < inflight[i + 1].id /\ inflight[i + 1].id <= published
    BY <1>2 DEF MessageInv, InOrder
  <2>2. inflight[i + 1].id \in Nat /\ delivered' \in Nat
    BY <1>1, <1>2, Typed
  <2> QED
    BY <1>2, <1>3, <1>5, <2>1, <2>2 DEF Messages
<1>8. ASSUME NEW j \in DOMAIN queue
      PROVE  /\ delivered' < queue[j] /\ queue[j] <= published
             /\ \A i \in DOMAIN inflight' : inflight'[i].id < queue[j]
  <2>1. queue[j] \in Nat /\ delivered' \in Nat
    BY <1>1, <1>2, Typed
  <2>2. inflight[1].id < queue[j] /\ queue[j] <= published
    BY <1>2 DEF MessageInv, InOrder
  <2>3. \A i \in DOMAIN inflight' : inflight'[i].id < queue[j]
    BY <1>2 DEF MessageInv, InOrder
  <2> QED
    BY <1>3, <1>5, <2>1, <2>2, <2>3 DEF Messages
<1>9. \A i, j \in DOMAIN queue' : i < j => queue'[i] < queue'[j]
  BY <1>1 DEF MessageInv, InOrder
<1>10. InOrder'
  BY <1>1, <1>5, <1>6, <1>7, <1>8, <1>9 DEF InOrder
<1>11. QueueBounded'
  BY <1>1 DEF MessageInv, QueueBounded
<1>12. Fifo!Deliver \/ delivered' = delivered
  <2>1. CASE delivered' = inflight[1].id
    BY <1>1, <1>3, <2>1 DEF Fifo!Deliver, Messages
  <2> QED
    BY <1>1, <2>1
<1> QED
  BY <1>4, <1>10, <1>11, <1>12 DEF MessageInv
-----------------------------------------------------------------------------
(* The connection.                                                         *)

LEMMA ConnInit == Init => ConnInv
  BY DEF Init, ConnInv, ConnType, NeverStranded, Mine

(* A fresh endpoint has one pending operation, its handshake.              *)
LEMMA BeginConnectKeeps ==
  ASSUME ConnInv, NEW rest \in SUBSET handlers, BeginConnect(rest), running'
  PROVE  NeverStranded' /\ ep' \in Endpoints /\ handlers' \subseteq Handlers
<1>1. PICK e \in Endpoints :
        /\ \A h \in rest : h.ep # e
        /\ ep' = e
        /\ handlers' = rest \cup {[ep |-> e, at |-> "handshake"]}
  BY DEF BeginConnect
<1>2. state' = "Connecting"
  BY DEF BeginConnect
<1> DEFINE h0 == [ep |-> e, at |-> "handshake"]
<1>3. h0 \in Handlers /\ h0.ep = e /\ h0.at = "handshake"
  BY DEF Handlers, Points
<1>4. handlers' \subseteq Handlers
  BY <1>1, <1>3 DEF ConnInv, ConnType
<1>5. Mine' = {h0}
  BY <1>1, <1>3 DEF Mine
<1>6. e # 0
  BY MqttClientAssumption
<1>7. h0 \in Mine' /\ h0.at # "recv"
  BY <1>3, <1>5
<1>8. NeverStranded'
  BY <1>1, <1>2, <1>5, <1>6, <1>7 DEF NeverStranded
<1> QED
  BY <1>1, <1>4, <1>8

LEMMA ScheduleReconnectKeeps ==
  ASSUME ConnInv, running, NEW h \in handlers, ScheduleReconnect(handlers \ {h})
  PROVE  ConnInv'
  BY DEF ScheduleReconnect, ConnInv, ConnType, NeverStranded

(* A completion that is not the active endpoint's own leaves that one.     *)
LEMMA BowOutKeeps ==
  ASSUME ConnInv, NEW h \in handlers, BowOut(h)
  PROVE  ConnInv'
<1>1. /\ handlers' = handlers \ {h} /\ UNCHANGED <<running, state, ep, armed, fired>>
      /\ ~running \/ ep # h.ep
  BY DEF BowOut, IsCurrent
<1>2. ConnType'
  BY <1>1 DEF ConnInv, ConnType
<1>3. CASE running
  <2>1. Mine' = Mine
    BY <1>1, <1>3 DEF Mine
  <2> QED
    BY <1>1, <1>2, <2>1 DEF ConnInv, NeverStranded
<1>4. CASE ~running
  <2>1. state \notin {"Connecting", "Connected", "Reconnecting"} /\ ep = 0 /\ ~armed
    BY <1>4 DEF ConnInv, NeverStranded
  <2> QED
    BY <1>1, <1>2, <1>4, <2>1 DEF ConnInv, NeverStranded
<1> QED
  BY <1>3, <1>4

(* The chain moves on: the endpoint's one operation is replaced by the     *)
(* next one.                                                               *)
LEMMA ContinueKeeps ==
  ASSUME ConnInv, NEW h \in handlers, IsCurrent(h), h.at # "recv",
         NEW next \in Points, Continue(h, next),
         \/ next # "recv" /\ state' = state
         \/ next = "recv" /\ state' = "Connected"
  PROVE  ConnInv'
<1> DEFINE g == [ep |-> h.ep, at |-> next]
<1>1. /\ running /\ ep = h.ep /\ h \in Mine /\ h \in Handlers
      /\ handlers' = (handlers \ {h}) \cup {g}
      /\ UNCHANGED <<running, ep, armed, fired>>
  BY DEF IsCurrent, Mine, Continue, ConnInv, ConnType
<1>2. g \in Handlers /\ g.ep = ep /\ g.at = next
  BY <1>1 DEF Handlers
<1>3. ep \in Endpoints /\ ep # 0
  BY <1>1, MqttClientAssumption DEF Handlers
<1>4. state = "Connecting" /\ Mine = {h}
  <2>1. state # "Reconnecting" /\ state \in {"Connecting", "Connected"}
    BY <1>1, <1>3 DEF ConnInv, NeverStranded
  <2>2. state # "Connected"
    <3>1. ASSUME Mine = {[ep |-> ep, at |-> "recv"]} PROVE FALSE
      BY <1>1, <3>1
    <3> QED
      BY <3>1 DEF ConnInv, NeverStranded
  <2> QED
    BY <1>1, <2>1, <2>2 DEF ConnInv, NeverStranded
<1>5. Mine' = {g}
  BY <1>1, <1>2, <1>4 DEF Mine
<1>6. ConnType'
  BY <1>1, <1>2 DEF ConnInv, ConnType
<1>7. CASE next # "recv" /\ state' = state
  <2>1. g \in Mine' /\ g.at # "recv" /\ state' = "Connecting"
    BY <1>2, <1>4, <1>5, <1>7
  <2> QED
    BY <1>1, <1>3, <1>5, <1>6, <2>1 DEF ConnInv, NeverStranded
<1>8. CASE next = "recv" /\ state' = "Connected"
  BY <1>1, <1>3, <1>5, <1>6, <1>8 DEF ConnInv, NeverStranded
<1> QED
  BY <1>7, <1>8

LEMMA ConnStep == ConnInv /\ [Next]_vars => ConnInv'
<1> SUFFICES ASSUME ConnInv, [Next]_vars PROVE ConnInv'
  OBVIOUS
<1>1. CASE UNCHANGED conn
  BY <1>1 DEF conn, ConnInv, ConnType, NeverStranded, Mine
<1>2. CASE UNCHANGED vars
  BY <1>1, <1>2 DEF vars
<1>3. ASSUME NEW e \in Endpoints, HandlerRuns(e) PROVE ConnInv'
  <2>1. PICK h \in handlers : HandshakeDone(h) \/ ConnectSent(h) \/ HandleConnack(h) \/ RecvDone(h)
    BY <1>3 DEF HandlerRuns
  <2>2. CASE BowOut(h)
    BY <2>2, BowOutKeeps
  <2>3. CASE IsCurrent(h) /\ ScheduleReconnect(handlers \ {h})
    BY <2>3, ScheduleReconnectKeeps DEF IsCurrent
  <2>4. CASE IsCurrent(h) /\ h.at # "recv" /\ Continue(h, "connect") /\ state' = state
    BY <2>4, ContinueKeeps DEF Points
  <2>5. CASE IsCurrent(h) /\ h.at # "recv" /\ Continue(h, "connack") /\ state' = state
    BY <2>5, ContinueKeeps DEF Points
  <2>6. CASE IsCurrent(h) /\ h.at # "recv" /\ Continue(h, "recv") /\ state' = "Connected"
    BY <2>6, ContinueKeeps DEF Points
  <2> QED
    BY <2>1, <2>2, <2>3, <2>4, <2>5, <2>6
       DEF HandshakeDone, ConnectSent, HandleConnack, RecvDone
<1>4. CASE TimerExpires
  <2>1. /\ armed /\ fired' = fired + 1
        /\ UNCHANGED <<running, state, ep, handlers>>
    BY <1>4 DEF TimerExpires
  <2>2. Mine' = Mine /\ ConnType' /\ fired' > 0
    BY <2>1 DEF Mine, ConnInv, ConnType
  <2> QED
    BY <2>1, <2>2 DEF ConnInv, NeverStranded
<1>5. CASE ReconnectTimerFired
  <2>1. /\ fired' = fired - 1 /\ fired > 0 /\ fired' \in Nat
        /\ UNCHANGED <<running, armed>>
    BY <1>5 DEF ReconnectTimerFired, ConnInv, ConnType
  <2>2. CASE running /\ BeginConnect(handlers)
    BY <2>1, <2>2, BeginConnectKeeps DEF ConnInv, ConnType
  <2>3. CASE ~running /\ UNCHANGED <<state, ep, handlers>>
    <3>1. Mine' = Mine /\ ConnType'
      BY <2>1, <2>3 DEF Mine, ConnInv, ConnType
    <3> QED
      BY <2>1, <2>3, <3>1 DEF ConnInv, NeverStranded
  <2> QED
    BY <1>5, <2>2, <2>3 DEF ReconnectTimerFired
<1>6. CASE Start
  BY <1>6, BeginConnectKeeps DEF Start, ConnInv, ConnType
<1>7. CASE Stop
  BY <1>7 DEF Stop, ConnInv, ConnType, NeverStranded
<1>8. CASE Publish \/ Poll \/ SendCompletes \/ BrokerFails \/ BrokerReturns
  BY <1>1, <1>8 DEF Publish, Poll, SendCompletes, BrokerFails, BrokerReturns
<1> QED
  BY <1>2, <1>3, <1>4, <1>5, <1>6, <1>7, <1>8 DEF Next
-----------------------------------------------------------------------------
LEMMA MessageStep ==
  ASSUME MessageInv, ConnInv, [Next]_vars
  PROVE  MessageInv' /\ [Fifo!Next]_<<published, delivered>>
<1>1. CASE Still
  BY <1>1 DEF Still, MessageInv, QueueType, InOrder, QueueBounded
<1>2. CASE Flush
  <2>1. MessageInv'
    BY <1>2, FlushKeeps
  <2> QED
    BY <1>2, <2>1 DEF Flush
<1>3. CASE Clear
  <2>1. queue' = <<>> /\ DOMAIN queue' = {} /\ Len(queue') = 0 /\ queue' \in Seq(Messages)
    BY <1>3 DEF Clear
  <2> QED
    BY <1>3, <2>1, MqttClientAssumption
       DEF Clear, MessageInv, QueueType, InOrder, QueueBounded
<1>4. CASE Publish
  <2>1. MessageInv'
    BY <1>4, PublishKeeps
  <2> QED
    BY <1>4, <2>1 DEF Publish, Fifo!Next, Fifo!Publish
<1>5. CASE SendCompletes
  <2>1. MessageInv' /\ (Fifo!Deliver \/ delivered' = delivered)
    BY <1>5, SendKeeps
  <2> QED
    BY <1>5, <2>1 DEF SendCompletes, Fifo!Next
<1> QED
  BY <1>1, <1>2, <1>3, <1>4, <1>5, StepKinds

(* NeverStranded holds in every reachable state: a running client always   *)
(* has exactly one operation or a timer pending, whatever stops, restarts, *)
(* outages and late completions interleave (BeginConnect,                  *)
(* ScheduleReconnect, IsCurrent, Stop).                                    *)
THEOREM NotStranded == Spec => []NeverStranded
<1>1. ConnInv => NeverStranded
  BY DEF ConnInv
<1> QED
  BY <1>1, ConnInit, ConnStep, PTL DEF Spec

(* The inductive invariant of the messages.                                *)
LEMMA MessagesInOrder == Spec => [](ConnInv /\ MessageInv)
<1>1. Init => ConnInv /\ MessageInv
  BY ConnInit, MessageInit
<1>2. ConnInv /\ MessageInv /\ [Next]_vars => (ConnInv /\ MessageInv)'
  BY ConnStep, MessageStep
<1> QED
  BY <1>1, <1>2, PTL DEF Spec

(* The publish queue never exceeds MAX_PUBLISH_QUEUE_SIZE (Enqueue).       *)
THEOREM QueueIsBounded == Spec => []QueueBounded
<1>1. MessageInv => QueueBounded
  BY DEF MessageInv
<1> QED
  BY <1>1, MessagesInOrder, PTL

(* Publishing implements in-order, at-most-once delivery: every step maps  *)
(* to a step of AtMostOnceFifo or to a stutter (Enqueue, DoFlush).         *)
THEOREM PublishImplementsFifo == Spec => ImplementsFifo
<1>1. Init => Fifo!Init
  BY DEF Init, Fifo!Init
<1>2. ConnInv /\ MessageInv /\ [Next]_vars => [Fifo!Next]_<<published, delivered>>
  BY MessageStep
<1> QED
  BY <1>1, <1>2, MessagesInOrder, PTL DEF Spec, ImplementsFifo, Fifo!Spec
-----------------------------------------------------------------------------
(* The rest of the types.                                                  *)
PlainType ==
  /\ running \in BOOLEAN /\ armed \in BOOLEAN /\ up \in BOOLEAN
  /\ state \in {"Disconnected", "Connecting", "Connected", "Reconnecting"}
  /\ attempts \in Nat /\ delay \in Nat

LEMMA PowerOfTwo ==
  ASSUME NEW n \in Nat
  PROVE  2 ^ n \in Nat
<1>1. IsFiniteSet(1 .. n) /\ Cardinality(1 .. n) = n
  BY FS_Interval
<1>2. IsFiniteSet(SUBSET (1 .. n)) /\ Cardinality(SUBSET (1 .. n)) = 2 ^ n
  BY <1>1, FS_SUBSET
<1> QED
  BY <1>2, FS_CardinalityType

LEMMA DelayType ==
  ASSUME NEW n \in Nat
  PROVE  CalculateReconnectDelay(n) \subseteq Nat
<1> DEFINE k == Least(n, 10)
           d == Least(InitialDelay * 2 ^ k, MaxDelay)
<1>1. k \in Nat
  BY DEF Least
<1>2. 2 ^ k \in Nat
  BY <1>1, PowerOfTwo
<1>3. InitialDelay * 2 ^ k \in Nat
  <2> HIDE DEF k
  <2> DEFINE p == 2 ^ k
  <2>1. p \in Nat
    BY <1>2
  <2> HIDE DEF p
  <2>2. InitialDelay * p \in Nat
    BY <2>1, MqttClientAssumption
  <2> QED
    BY <2>2 DEF p
<1>4. d \in Nat
  BY <1>3, MqttClientAssumption DEF Least
<1> HIDE DEF d
<1>5. d .. (d + d \div 4) \subseteq Nat
  BY <1>4
<1> QED
  BY <1>5 DEF CalculateReconnectDelay, d

LEMMA ScheduleReconnectType ==
  ASSUME PlainType, NEW rest, ScheduleReconnect(rest), UNCHANGED up
  PROVE  PlainType'
<1>1. attempts' \in Nat
  BY MqttClientAssumption DEF ScheduleReconnect, PlainType
<1>2. delay' \in Nat
  BY <1>1, DelayType DEF ScheduleReconnect
<1> QED
  BY <1>1, <1>2 DEF ScheduleReconnect, PlainType

LEMMA PlainStep == PlainType /\ [Next]_vars => PlainType'
<1> SUFFICES ASSUME PlainType, [Next]_vars PROVE PlainType'
  OBVIOUS
<1>1. ASSUME NEW e \in Endpoints, HandlerRuns(e) PROVE PlainType'
  <2>1. PICK h \in handlers :
          /\ HandshakeDone(h) \/ ConnectSent(h) \/ HandleConnack(h) \/ RecvDone(h)
          /\ UNCHANGED up
    BY <1>1 DEF HandlerRuns
  <2>2. CASE ScheduleReconnect(handlers \ {h})
    BY <2>1, <2>2, ScheduleReconnectType
  <2>3. CASE ~ScheduleReconnect(handlers \ {h})
    BY <2>1, <2>3 DEF HandshakeDone, ConnectSent, HandleConnack, RecvDone, BowOut,
                      Continue, PlainType
  <2> QED
    BY <2>2, <2>3
<1>2. CASE TimerExpires \/ ReconnectTimerFired \/ Start \/ Stop
  <2>1. CASE TimerExpires \/ Stop
    BY <1>2, <2>1 DEF TimerExpires, Stop, PlainType
  <2>2. CASE ReconnectTimerFired
    <3>1. state' = "Connecting" \/ state' = state
      BY <2>2 DEF ReconnectTimerFired, BeginConnect
    <3>2. UNCHANGED <<running, armed, attempts, delay, up>>
      BY <2>2 DEF ReconnectTimerFired
    <3> QED
      BY <3>1, <3>2 DEF PlainType
  <2>3. CASE Start
    BY <2>3 DEF Start, BeginConnect, PlainType
  <2> QED
    BY <1>2, <2>1, <2>2, <2>3
<1>3. CASE Publish \/ Poll \/ SendCompletes \/ BrokerFails \/ BrokerReturns \/ UNCHANGED vars
  BY <1>3 DEF Publish, Poll, SendCompletes, BrokerFails, BrokerReturns, conn, vars, PlainType
<1> QED
  BY <1>1, <1>2, <1>3 DEF Next

(* ClientSafe for every queue size, backoff and number of outages: the     *)
(* client is of its types, never stranded and its queue bounded (Enqueue,  *)
(* BeginConnect, ScheduleReconnect, Stop).                                 *)
THEOREM ClientIsSafe == Spec => []ClientSafe
<1>1. Init => PlainType
  <2>1. Init => /\ running \in BOOLEAN /\ armed \in BOOLEAN /\ up \in BOOLEAN
                /\ state = "Disconnected"
    BY Zenon DEF Init
  <2> QED
    BY <2>1 DEF Init, PlainType
<1>2. Spec => []PlainType
  BY <1>1, PlainStep, PTL DEF Spec
<1>3. ConnInv /\ MessageInv /\ PlainType => ClientSafe
  <2> SUFFICES ASSUME ConnInv, MessageInv, PlainType PROVE ClientSafe
    OBVIOUS
  <2>1. /\ ep \in Endpoints \cup {0} /\ fired \in Nat
        /\ handlers \subseteq [ep : Endpoints, at : {"handshake", "connect", "connack", "recv"}]
    BY DEF ConnInv, ConnType, Handlers, Points
  <2>2. /\ queue \in Seq(1 .. MaxPublishes)
        /\ inflight \in Seq([ep : Endpoints, id : 1 .. MaxPublishes])
    BY DEF MessageInv, QueueType, Messages
  <2>3. delivered <= published /\ published <= MaxPublishes
    BY MqttClientAssumption DEF MessageInv, QueueType, InOrder
  <2>4. TypeOK
    BY <2>1, <2>2, <2>3 DEF PlainType, TypeOK
  <2> QED
    BY <2>4 DEF ConnInv, MessageInv, ClientSafe
<1> QED
  BY <1>2, <1>3, MessagesInOrder, PTL
=============================================================================
