---------------------------- MODULE ServicesProofs ----------------------------
(***************************************************************************)
(* Proofs about the services that share the program's io_context, for any  *)
(* number of sockets, samples, devices, features and users.  Each service  *)
(* has an inductive invariant of its own; they share no state, so that the *)
(* composition of MCServices keeps them all.                               *)
(***************************************************************************)
EXTENDS MCServices, FiniteSetTheorems, WellFoundedInduction, TLAPS

-----------------------------------------------------------------------------
(* Alerting.  The invariant is inductive as it stands: what is published   *)
(* on an edge is the whole state, and without an edge nothing has moved.   *)

LEMMA SaltLowType ==
  ASSUME world \in World, NEW was \in BOOLEAN PROVE SaltLow(was) \in BOOLEAN
<1>1. (world.salt < world.threshold + Hysteresis) \in BOOLEAN /\ (world.salt < world.threshold) \in BOOLEAN
  OBVIOUS
<1> QED BY <1>1, Zenon DEF SaltLow

LEMMA SerialCommsLossType ==
  ASSUME NEW was \in BOOLEAN, NEW counted \in BOOLEAN, NEW quiet
  PROVE  SerialCommsLoss(was, counted, quiet) \in BOOLEAN
BY DEF SerialCommsLoss

LEMMA VerdictType ==
  ASSUME world \in World,
         NEW was \in [Conditions -> BOOLEAN], NEW counted \in BOOLEAN, NEW quiet
  PROVE  Verdict(was, counted, quiet) \in [Conditions -> BOOLEAN]
<1>1. SaltLow(was["salt_low"]) \in BOOLEAN
      /\ SerialCommsLoss(was["serial_comms_loss"], counted, quiet) \in BOOLEAN
  BY SaltLowType, SerialCommsLossType DEF Conditions
<1>2. /\ ChlorinatorWarning \in BOOLEAN /\ ServiceMode \in BOOLEAN /\ TemperatureStale \in BOOLEAN
      /\ ChlorinatorFault(was["chlorinator_fault"]) \in BOOLEAN
  BY DEF ChlorinatorWarning, ServiceMode, TemperatureStale, ChlorinatorFault
<1> QED BY <1>1, <1>2 DEF Verdict, Conditions

Hook == [cond : Followed, raised : BOOLEAN, at : 0 .. MaxChanges, try : {1, 2}]

(* The webhook's deliveries are of transitions of the conditions followed. *)
LEMMA PostType ==
  ASSUME NEW pending \in SUBSET Hook, NEW edges \in SUBSET Conditions,
         NEW to \in [Conditions -> BOOLEAN], changes \in 0 .. MaxChanges,
         Post(pending, edges, to)
  PROVE  hooks' \subseteq Hook
BY DEF Post, Hook

LEMMA TransitionType ==
  ASSUME NEW was \in [Conditions -> BOOLEAN], NEW pending \in SUBSET Hook,
         NEW to \in [Conditions -> BOOLEAN], changes \in 0 .. MaxChanges,
         Transition(was, was, pending, to)
  PROVE  latched' = to /\ shown' = to /\ hooks' \subseteq Hook
<1> DEFINE edges == {c \in Conditions : to[c] # was[c]}
<1>1. latched' = to /\ Post(pending, edges, to) /\ shown' = (IF edges = {} THEN was ELSE to)
  BY DEF Transition
<1>2. edges = {} => was = to
  OBVIOUS
<1>3. hooks' \subseteq Hook
  BY <1>1, PostType
<1> QED BY <1>1, <1>2, <1>3

LEMMA WorldMoves ==
  ASSUME world \in World, NEW m \in Moves
  PROVE  [f \in DOMAIN world |-> IF f \in DOMAIN m THEN m[f] ELSE world[f]] \in World
<1> DEFINE w == [f \in DOMAIN world |-> IF f \in DOMAIN m THEN m[f] ELSE world[f]]
<1>1. DOMAIN world = {"salt", "threshold", "flags", "mode", "pumping", "spa", "stale", "url"}
  BY DEF World
<1>2. w \in World <=> /\ w.salt \in 0 .. 3 /\ w.threshold \in {0, 2}
                      /\ w.flags \in {NoCell} \cup SUBSET Health
                      /\ w.mode \in {"Normal", "Service"} /\ w.pumping \in BOOLEAN
                      /\ w.spa \in BOOLEAN /\ w.stale \in SUBSET {"pool", "spa"} /\ w.url \in BOOLEAN
  BY <1>1 DEF World
<1> QED BY <1>1, <1>2 DEF World, Moves

LEMMA AlertStep ==
  ASSUME AlertsSafe, [AlertNext]_alertVars
  PROVE  AlertsSafe'
<1> USE AlertingAssumption DEF AlertsSafe, AlertTypeOK, ShownIsLatched
<1>1. hooks \subseteq Hook
  BY DEF Hook
<1>2. ASSUME NEW quiet \in 0 .. Timeout, EvaluateAll(quiet), UNCHANGED <<world, heard, changes>>
      PROVE  AlertsSafe'
  <2>1. Verdict(latched, fresh, quiet) \in [Conditions -> BOOLEAN]
    BY VerdictType
  <2>2. latched' = shown' /\ latched' \in [Conditions -> BOOLEAN] /\ hooks' \subseteq Hook
    BY <1>1, <1>2, <2>1, TransitionType DEF EvaluateAll
  <2>3. fresh' = FALSE /\ silent' = (IF fresh THEN 0 ELSE quiet)
    BY <1>2 DEF EvaluateAll
  <2>4. silent' \in 0 .. Timeout
    BY <2>3
  <2>5. latched' \in [Conditions -> BOOLEAN] /\ shown' \in [Conditions -> BOOLEAN]
    BY <2>2
  <2> QED BY <1>2, <2>2, <2>3, <2>4, <2>5 DEF Hook
<1>3. CASE HubSignal
  BY <1>2, <1>3 DEF HubSignal
<1>4. CASE TimerTick
  BY <1>2, <1>4 DEF TimerTick
<1>5. CASE AttemptHttp
  <2>1. PICK h \in hooks, ok \in BOOLEAN, arrives \in BOOLEAN : RunWithRetry(h, ok, arrives)
    BY <1>5 DEF AttemptHttp
  <2>2. heard' \in [Followed -> BOOLEAN]
    BY <2>1 DEF RunWithRetry
  <2>3. hooks' \subseteq Hook
    BY <2>1 DEF RunWithRetry, Hook
  <2> QED BY <1>5, <2>2, <2>3 DEF AttemptHttp, Hook
<1>6. CASE WorldChanges
  BY <1>6, WorldMoves DEF WorldChanges
<1>7. CASE MessageCounted
  BY <1>7 DEF MessageCounted
<1>8. CASE Restart
  <2>1. Quiet \in [Conditions -> BOOLEAN] /\ {} \subseteq Hook
    BY DEF Quiet, Hook
  <2>2. Verdict(Quiet, FALSE, 0) \in [Conditions -> BOOLEAN]
    BY <2>1, VerdictType
  <2>3. /\ changes < MaxChanges /\ changes' = changes + 1
        /\ Transition(Quiet, Quiet, {}, Verdict(Quiet, FALSE, 0))
        /\ fresh' = FALSE /\ silent' = 0 /\ UNCHANGED <<world, heard>>
    BY <1>8 DEF Restart
  <2>4. {} \in SUBSET Hook /\ changes \in 0 .. MaxChanges
    OBVIOUS
  <2>5. latched' = Verdict(Quiet, FALSE, 0) /\ shown' = Verdict(Quiet, FALSE, 0) /\ hooks' \subseteq Hook
    BY <2>1, <2>2, <2>3, <2>4, TransitionType, Zenon
  <2>6. silent' \in 0 .. Timeout /\ changes' \in 0 .. MaxChanges
    BY <2>3
  <2> QED BY <2>2, <2>3, <2>5, <2>6 DEF Hook
<1>9. CASE UNCHANGED alertVars
  BY <1>9 DEF alertVars
<1> QED BY <1>3, <1>4, <1>5, <1>6, <1>7, <1>8, <1>9 DEF AlertNext

LEMMA AlertStart == ASSUME AlertInit PROVE AlertsSafe
<1> USE AlertingAssumption DEF AlertInit
<1>1. world \in World
  BY DEF World, NoCell
<1>2. latched \in [Conditions -> BOOLEAN] /\ heard \in [Followed -> BOOLEAN] /\ shown = latched
  BY DEF Quiet
<1>3. fresh = FALSE /\ silent = 0 /\ hooks = {} /\ changes = 0
  OBVIOUS
<1>4. silent \in 0 .. Timeout /\ changes \in 0 .. MaxChanges
  BY <1>3
<1> HIDE DEF AlertInit
<1> QED BY <1>1, <1>2, <1>3, <1>4 DEF AlertsSafe, AlertTypeOK, ShownIsLatched
(* What is retained on the broker is what the monitor latched, whatever    *)
(* happens to the pool and however often the process restarts              *)
(* (AlertMonitor::SetCondition, BuildStateJson).                           *)
THEOREM AlertsAreShown == AlertSpec => []AlertsSafe
<1>1. AlertInit => AlertsSafe
  BY AlertStart
<1>2. AlertsSafe /\ [AlertNext]_alertVars => AlertsSafe'
  BY AlertStep
<1> QED BY <1>1, <1>2, PTL DEF AlertSpec

(* Every step that moves a latch is an evaluation from some latches, those *)
(* of the moment or the empty ones of a new process.                       *)
EvaluatesFrom(was, counted, quiet) ==
  /\ latched' = Verdict(was, counted, quiet)
  /\ silent' = (IF counted THEN 0 ELSE quiet)

Evaluates ==
  \/ \E quiet \in 0 .. Timeout : EvaluatesFrom(latched, fresh, quiet)
  \/ EvaluatesFrom(Quiet, FALSE, 0)

LEMMA AlertMoves ==
  ASSUME AlertsSafe, [AlertNext]_alertVars
  PROVE  Evaluates \/ (latched' = latched /\ (fresh => fresh'))
<1> USE AlertingAssumption DEF AlertsSafe, AlertTypeOK
<1>1. ASSUME NEW quiet \in 0 .. Timeout, EvaluateAll(quiet) PROVE Evaluates
  <2>1. EvaluatesFrom(latched, fresh, quiet)
    BY <1>1 DEF EvaluateAll, Transition, EvaluatesFrom
  <2> QED BY <2>1 DEF Evaluates
<1>2. CASE HubSignal
  <2>1. silent \in 0 .. Timeout /\ EvaluateAll(silent)
    BY <1>2 DEF HubSignal
  <2> QED BY <1>1, <2>1, Zenon
<1>3. CASE TimerTick
  <2>1. (IF silent < Timeout THEN silent + 1 ELSE silent) \in 0 .. Timeout
    OBVIOUS
  <2> QED BY <1>1, <1>3, <2>1, Zenon DEF TimerTick
<1>4. CASE AttemptHttp \/ WorldChanges \/ MessageCounted \/ UNCHANGED alertVars
  BY <1>4, Zenon DEF AttemptHttp, WorldChanges, MessageCounted, alertVars
<1>5. CASE Restart
  <2>1. latched' = Verdict(Quiet, FALSE, 0) /\ silent' = 0
    BY <1>5 DEF Restart, Transition
  <2> QED BY <2>1 DEF EvaluatesFrom, Evaluates
<1> QED BY <1>2, <1>3, <1>4, <1>5 DEF AlertNext

(* The loss of the bus is latched only at the end of the timeout and the   *)
(* look that finds traffic ends it; the salt alert is left as it is within *)
(* the hysteresis (EvaluateSerialCommsLoss, EvaluateSaltLow).              *)
THEOREM AlertsAreSteady == AlertSpec => TrafficClears /\ NoSaltFlap
<1> DEFINE Clears == /\ fresh /\ ~fresh' => ~latched'["serial_comms_loss"]
                     /\ latched'["serial_comms_loss"] /\ ~latched["serial_comms_loss"] => silent' >= Timeout
           Steady == (world.salt >= world.threshold /\ world.salt < world.threshold + Hysteresis)
                       => (latched'["salt_low"] => latched["salt_low"])
<1>1. ASSUME AlertsSafe, [AlertNext]_alertVars PROVE Clears /\ Steady
  <2> USE AlertingAssumption
  <2>1. CASE latched' = latched /\ (fresh => fresh')
    BY <2>1
  <2>2. ASSUME NEW was, NEW counted, NEW quiet \in 0 .. Timeout, EvaluatesFrom(was, counted, quiet),
               was["serial_comms_loss"] => latched["serial_comms_loss"],
               was["salt_low"] => latched["salt_low"],
               counted = fresh \/ (counted = FALSE /\ quiet = 0 /\ ~was["serial_comms_loss"])
        PROVE  Clears /\ Steady
    <3>1. latched'["salt_low"] = SaltLow(was["salt_low"])
      BY <2>2 DEF Verdict, Conditions, EvaluatesFrom
    <3>2. latched'["serial_comms_loss"] = SerialCommsLoss(was["serial_comms_loss"], counted, quiet)
      BY <2>2 DEF Verdict, Conditions, EvaluatesFrom
    <3>3. ~(0 >= Timeout)
      OBVIOUS
    <3>4. fresh => ~latched'["serial_comms_loss"]
      BY <2>2, <3>2, <3>3, Zenon DEF SerialCommsLoss
    <3>5. latched'["serial_comms_loss"] /\ ~latched["serial_comms_loss"] => silent' >= Timeout
      BY <2>2, <3>2, Zenon DEF SerialCommsLoss, EvaluatesFrom
    <3>6. ASSUME world.salt >= world.threshold, world.salt < world.threshold + Hysteresis,
                 latched'["salt_low"]
          PROVE  latched["salt_low"]
      <4>1. ~(world.salt < world.threshold)
        BY <1>1, <3>6 DEF AlertsSafe, AlertTypeOK, World
      <4> QED BY <2>2, <3>1, <3>6, <4>1, Zenon DEF SaltLow
    <3> QED BY <3>4, <3>5, <3>6, Zenon
  <2>3. CASE \E quiet \in 0 .. Timeout : EvaluatesFrom(latched, fresh, quiet)
    BY <2>2, <2>3, Zenon
  <2>4. CASE EvaluatesFrom(Quiet, FALSE, 0)
    <3>1. ~Quiet["serial_comms_loss"] /\ ~Quiet["salt_low"] /\ 0 \in 0 .. Timeout
      BY DEF Quiet, Conditions
    <3> QED BY <2>2, <2>4, <3>1, Zenon
  <2> QED BY <1>1, <2>1, <2>3, <2>4, AlertMoves, Zenon DEF Evaluates
<1>2. AlertSpec => [][Clears]_alertVars /\ [][Steady]_alertVars
  <2>1. AlertsSafe /\ [AlertNext]_alertVars => [Clears]_alertVars /\ [Steady]_alertVars
    BY <1>1
  <2> HIDE DEF Clears, Steady
  <2> QED BY <2>1, AlertsAreShown, PTL DEF AlertSpec
<1> QED BY <1>2 DEF TrafficClears, NoSaltFlap
-----------------------------------------------------------------------------
(* The HTTP server.  The queues are those of the open sockets, no more and *)
(* no fewer: the one is NoOrphans, the other what a broadcast needs.  After*)
(* Stop the queues stay, but no session does.                              *)

Session == [st : States, ip : Addresses \cup {""}, header : BOOLEAN,
            tick : 0 .. Interval - 1, writing : BOOLEAN, msg : 0 .. MaxNews]

News == 0 .. MaxNews

QueueType ==
  /\ DOMAIN queues \subseteq Slots
  /\ \A c \in DOMAIN queues : queues[c] \in Seq(News) /\ Len(queues[c]) <= MaxQueue

OpenSockets ==
  IF serving THEN DOMAIN queues = {c \in Slots : sess[c].st = "ws"}
             ELSE \A c \in Slots : sess[c] = Free

WebInv ==
  /\ sess \in [Slots -> Session] /\ secured \in BOOLEAN /\ serving \in BOOLEAN
  /\ trusted \subseteq Slots /\ news \in News
  /\ QueueType /\ OpenSockets

LEMMA FreeType == Free \in Session
BY HttpServerAssumption DEF Free, Session, States

LEMMA WhileServing ==
  ASSUME WebInv, NEW c \in Slots, sess[c].st # "free"
  PROVE  serving
<1>1. ~serving => sess[c] = Free
  BY Zenon DEF WebInv, OpenSockets
<1>2. Free.st = "free"
  BY DEF Free
<1> QED BY <1>1, <1>2

LEMMA SessionMoves ==
  ASSUME NEW s \in Session, NEW st \in States
  PROVE  /\ [s EXCEPT !.st = st] \in Session /\ [s EXCEPT !.st = st].st = st
         /\ \A h \in BOOLEAN : /\ [s EXCEPT !.st = st, !.header = h] \in Session
                               /\ [s EXCEPT !.st = st, !.header = h].st = st
BY DEF Session

(* One session that is not a socket moves to another such state.           *)
LEMMA OneSessionMoves ==
  ASSUME WebInv, NEW c \in Slots, NEW s \in Session, At(c, s),
         sess[c].st \notin {"free", "ws"}, s.st # "ws",
         UNCHANGED <<serving, secured, queues, trusted, news>>
  PROVE  WebInv'
<1> USE DEF WebInv, At
<1>1. sess' \in [Slots -> Session]
  OBVIOUS
<1>2. serving
  BY WhileServing
<1>3. \A d \in Slots : sess'[d].st = "ws" <=> sess[d].st = "ws"
  OBVIOUS
<1>4. OpenSockets'
  BY <1>2, <1>3 DEF OpenSockets
<1>5. QueueType'
  BY DEF QueueType
<1> QED BY <1>1, <1>4, <1>5

LEMMA SocketEnds ==
  ASSUME WebInv, NEW c \in Slots, sess[c].st = "ws", At(c, Done(sess[c])), Unregister(c), HttpKeeps
  PROVE  WebInv'
<1> USE DEF WebInv, At
<1>1. Done(sess[c]) \in Session /\ Done(sess[c]).st = "done"
  BY DEF Done, Session, States
<1>2. serving
  BY WhileServing
<1>3. sess' \in [Slots -> Session] /\ sess'[c].st = "done" /\ \A d \in Slots \ {c} : sess'[d] = sess[d]
  BY <1>1
<1>4. DOMAIN queues' = DOMAIN queues \ {c} /\ \A d \in DOMAIN queues' : queues'[d] = queues[d]
  BY DEF Unregister
<1>5. OpenSockets'
  BY <1>2, <1>3, <1>4 DEF OpenSockets, HttpKeeps
<1>6. QueueType'
  BY <1>4 DEF QueueType
<1> QED BY <1>3, <1>5, <1>6 DEF HttpKeeps

LEMMA SocketOpens ==
  ASSUME WebInv, NEW c \in Slots, OnWsAccept(c, TRUE)
  PROVE  WebInv'
<1> USE DEF WebInv
<1>1. /\ sess[c].st = "accept" /\ sess' = [sess EXCEPT ![c] = [sess[c] EXCEPT !.st = "ws"]]
      /\ queues' = [d \in DOMAIN queues \cup {c} |-> IF d = c THEN <<0>> ELSE queues[d]]
      /\ UNCHANGED <<serving, secured, trusted, news>>
  BY DEF OnWsAccept, At
<1>2. [sess[c] EXCEPT !.st = "ws"] \in Session /\ [sess[c] EXCEPT !.st = "ws"].st = "ws"
  BY SessionMoves DEF States
<1>3. sess' \in [Slots -> Session] /\ sess'[c].st = "ws" /\ \A d \in Slots \ {c} : sess'[d] = sess[d]
  BY <1>1, <1>2
<1>4. serving
  BY <1>1, WhileServing
<1>5. OpenSockets'
  BY <1>1, <1>3, <1>4 DEF OpenSockets
<1>6. <<0>> \in Seq(News) /\ Len(<<0>>) <= MaxQueue
  BY HttpServerAssumption DEF News
<1>7. QueueType'
  BY <1>1, <1>6 DEF QueueType
<1> QED BY <1>1, <1>3, <1>5, <1>7

LEMMA DequeueType ==
  ASSUME WebInv, NEW c \in Slots, NEW s \in Session
  PROVE  /\ Dequeue(c, s) \in Session /\ Dequeue(c, s).st = s.st
         /\ Dequeue(c, s) = IF Taken(c, s) THEN [s EXCEPT !.writing = TRUE, !.msg = Head(queues[c])] ELSE s
         /\ Taken(c, s) => c \in DOMAIN queues /\ queues[c] # <<>> /\ Tail(queues[c]) \in Seq(News)
                           /\ Len(Tail(queues[c])) <= MaxQueue /\ Head(queues[c]) \in News
<1>1. Taken(c, s) => c \in DOMAIN queues /\ queues[c] # <<>> /\ Tail(queues[c]) \in Seq(News)
                     /\ Len(Tail(queues[c])) <= MaxQueue /\ Head(queues[c]) \in News
  BY HttpServerAssumption DEF Taken, WebInv, QueueType
<1>2. Dequeue(c, s) = IF Taken(c, s) THEN [s EXCEPT !.writing = TRUE, !.msg = Head(queues[c])] ELSE s
  BY DEF Dequeue, Taken
<1>3. \A m \in News : /\ [s EXCEPT !.writing = TRUE, !.msg = m] \in Session
                      /\ [s EXCEPT !.writing = TRUE, !.msg = m].st = s.st
  BY DEF Session, News
<1> QED BY <1>1, <1>2, <1>3

LEMMA WriteEnds ==
  ASSUME WebInv, NEW c \in Slots, OnWsWrite(c)
  PROVE  WebInv'
<1> DEFINE idle == [sess[c] EXCEPT !.writing = FALSE]
           next == Dequeue(c, idle)
<1> USE DEF WebInv
<1>1. /\ sess[c].st = "ws" /\ sess' = [sess EXCEPT ![c] = next]
      /\ queues' = IF Taken(c, idle) THEN [queues EXCEPT ![c] = Tail(@)] ELSE queues
      /\ UNCHANGED <<serving, secured, trusted, news>>
  BY DEF OnWsWrite, At
<1>2. idle \in Session /\ idle.st = "ws"
  BY <1>1 DEF Session
<1> HIDE DEF idle
<1>3. next \in Session /\ next.st = "ws"
  BY <1>2, DequeueType
<1>4. Taken(c, idle) => c \in DOMAIN queues /\ Tail(queues[c]) \in Seq(News) /\ Len(Tail(queues[c])) <= MaxQueue
  BY <1>2, DequeueType
<1> HIDE DEF next
<1>5. sess' \in [Slots -> Session] /\ \A d \in Slots : sess'[d].st = "ws" <=> sess[d].st = "ws"
  BY <1>1, <1>3
<1>6. DOMAIN queues' = DOMAIN queues
  BY <1>1
<1>7. QueueType'
  BY <1>1, <1>4 DEF QueueType
<1>8. serving
  BY <1>1, WhileServing
<1> QED BY <1>1, <1>5, <1>6, <1>7, <1>8 DEF OpenSockets

LEMMA PushType ==
  ASSUME NEW q \in Seq(News), Len(q) <= MaxQueue, NEW e \in News
  PROVE  Push(q, e) \in Seq(News) /\ Len(Push(q, e)) <= MaxQueue
<1> USE HttpServerAssumption DEF News
<1>1. CASE Len(q) >= MaxQueue
  <2>1. Tail(q) \in Seq(News) /\ Len(Tail(q)) + 1 <= MaxQueue
    BY <1>1
  <2> QED BY <1>1, <2>1 DEF Push
<1>2. CASE ~(Len(q) >= MaxQueue)
  BY <1>2 DEF Push
<1> QED BY <1>1, <1>2

LEMMA BroadcastKeeps ==
  ASSUME WebInv, Broadcast
  PROVE  WebInv'
<1> USE DEF WebInv
<1>1. /\ news < MaxNews /\ news' = news + 1
      /\ queues' = [c \in DOMAIN queues |-> Push(queues[c], news + 1)]
      /\ UNCHANGED <<serving, secured, sess, trusted>>
  BY DEF Broadcast
<1>2. news' \in News
  BY <1>1, HttpServerAssumption DEF News
<1>3. \A c \in DOMAIN queues : queues'[c] \in Seq(News) /\ Len(queues'[c]) <= MaxQueue
  BY <1>1, <1>2, PushType DEF QueueType
<1>4. QueueType'
  BY <1>1, <1>3 DEF QueueType
<1> QED BY <1>1, <1>2, <1>4 DEF OpenSockets

(* What a poll leaves of a socket.                                         *)
LEMMA TickType ==
  ASSUME WebInv, NEW s \in Session
  PROVE  /\ WsTick(s) \in Nat
         /\ WsTick(s) < Interval => [s EXCEPT !.tick = WsTick(s)] \in Session
         /\ [s EXCEPT !.tick = 0] \in Session
<1>1. s.tick \in 0 .. Interval - 1 /\ Interval \in Nat \ {0}
  BY HttpServerAssumption DEF Session
<1>2. WsTick(s) \in Nat
  BY <1>1 DEF WsTick
<1>3. \A t \in 0 .. Interval - 1 : [s EXCEPT !.tick = t] \in Session
  BY DEF Session
<1> QED BY <1>1, <1>2, <1>3

LEMMA PollKeeps ==
  ASSUME WebInv, PollServer
  PROVE  WebInv'
<1> DEFINE ws == {c \in Slots : sess[c].st = "ws"}
           checked == {c \in ws : WsTick(sess[c]) >= Interval}
           closed == {c \in checked : Revoked(c)}
           ticked(c) == [sess[c] EXCEPT !.tick = IF c \in checked THEN 0 ELSE WsTick(sess[c])]
<1> USE DEF WebInv
<1>1. /\ serving
      /\ sess' = [c \in Slots |-> CASE Dead(c) \/ c \in closed -> Free
                                    [] c \in ws \ closed -> Dequeue(c, ticked(c))
                                    [] OTHER -> sess[c]]
      /\ queues' = [c \in DOMAIN queues \ closed |->
                      IF c \in ws /\ Taken(c, sess[c]) THEN Tail(queues[c]) ELSE queues[c]]
      /\ UNCHANGED <<serving, secured, trusted, news>>
  BY DEF PollServer, HttpKeeps
<1>2. \A c \in ws : ticked(c) \in Session /\ ticked(c).st = "ws"
  <2>1. TAKE c \in ws
  <2>2. CASE c \in checked
    BY <2>2, TickType DEF Session
  <2>3. CASE c \notin checked
    <3>1. sess[c] \in Session /\ WsTick(sess[c]) < Interval
      <4>1. sess[c] \in Session /\ ~(WsTick(sess[c]) >= Interval)
        BY <2>3
      <4>2. WsTick(sess[c]) \in Nat /\ Interval \in Nat
        BY <4>1, TickType, HttpServerAssumption
      <4> QED BY <4>1, <4>2
    <3> QED BY <2>3, <3>1, TickType DEF Session
  <2> QED BY <2>2, <2>3
<1> HIDE DEF ticked
<1>3. \A c \in ws : Dequeue(c, ticked(c)) \in Session /\ Dequeue(c, ticked(c)).st = "ws"
  BY <1>2, DequeueType
<1>4. ASSUME NEW c \in Slots
      PROVE  sess'[c] \in Session /\ (sess'[c].st = "ws" <=> c \in ws \ closed)
  <2>1. CASE Dead(c) \/ c \in closed
    <3>1. c \notin ws \ closed
      BY <2>1 DEF Dead
    <3>2. sess'[c] = Free
      BY <1>1, <2>1, <3>1
    <3>3. Free \in Session /\ Free.st # "ws"
      BY FreeType DEF Free
    <3> QED BY <3>1, <3>2, <3>3
  <2>2. CASE ~Dead(c) /\ c \in ws \ closed
    <3>1. sess'[c] = Dequeue(c, ticked(c))
      BY <1>1, <2>2
    <3> QED BY <1>3, <2>2, <3>1
  <2>3. CASE ~Dead(c) /\ c \notin ws
    <3>1. sess'[c] = sess[c]
      BY <1>1, <2>3
    <3> QED BY <2>3, <3>1
  <2> QED BY <2>1, <2>2, <2>3
<1>5. OpenSockets'
  <2>1. DOMAIN queues = ws
    BY <1>1, Zenon DEF OpenSockets
  <2>2. DOMAIN queues' = ws \ closed
    BY <1>1, <2>1
  <2>3. ws \ closed = {c \in Slots : sess'[c].st = "ws"}
    BY <1>4
  <2> QED BY <1>1, <2>2, <2>3, Zenon DEF OpenSockets
<1>6. \A c \in DOMAIN queues \ closed : queues'[c] \in Seq(News) /\ Len(queues'[c]) <= MaxQueue
  <2>1. TAKE c \in DOMAIN queues \ closed
  <2>2. c \in Slots /\ queues[c] \in Seq(News) /\ Len(queues[c]) <= MaxQueue
    BY DEF QueueType
  <2>3. Taken(c, sess[c]) => Tail(queues[c]) \in Seq(News) /\ Len(Tail(queues[c])) <= MaxQueue
    BY <2>2, DequeueType
  <2>4. queues'[c] = IF c \in ws /\ Taken(c, sess[c]) THEN Tail(queues[c]) ELSE queues[c]
    BY <1>1
  <2> QED BY <2>2, <2>3, <2>4
<1>7. QueueType'
  BY <1>1, <1>6 DEF QueueType
<1>8. sess' \in [Slots -> Session]
  BY <1>1, <1>4
<1> QED BY <1>1, <1>5, <1>7, <1>8

LEMMA AcceptKeeps ==
  ASSUME WebInv, NEW ip \in Addresses, NEW tls \in BOOLEAN, OnAccept(ip, tls)
  PROVE  WebInv'
<1> DEFINE first == IF tls THEN "handshake" ELSE "read"
           new == [Free EXCEPT !.st = first, !.ip = ip]
<1> USE DEF WebInv
<1>1. new \in Session /\ new.st # "ws"
  <2>1. first \in States /\ first # "ws" /\ Free \in Session
    BY FreeType DEF States
  <2> HIDE DEF first
  <2> QED BY <2>1 DEF Session
<1>2. /\ serving /\ UNCHANGED <<queues, serving, secured, trusted, news>>
      /\ \/ sess' = [c \in Slots |-> IF Dead(c) THEN Free ELSE sess[c]]
         \/ \E c \in Slots : Dead(c) /\
              sess' = [d \in Slots |-> IF d = c THEN new ELSE IF Dead(d) THEN Free ELSE sess[d]]
  BY DEF OnAccept, HttpKeeps
<1> HIDE DEF new
<1>3. Free \in Session /\ Free.st = "free"
  BY FreeType DEF Free
<1>4. \A c \in Slots : sess'[c] \in Session /\ (sess'[c].st = "ws" <=> sess[c].st = "ws")
  BY <1>1, <1>2, <1>3 DEF Dead
<1>5. sess' \in [Slots -> Session]
  BY <1>2, <1>4
<1>6. OpenSockets'
  BY <1>2, <1>4, Zenon DEF OpenSockets
<1>7. QueueType'
  BY <1>2 DEF QueueType
<1> QED BY <1>2, <1>5, <1>6, <1>7

LEMMA StopKeeps ==
  ASSUME WebInv, StopServer
  PROVE  WebInv'
<1>1. /\ serving' = FALSE /\ sess' = [c \in Slots |-> Free]
      /\ UNCHANGED <<secured, queues, trusted, news>>
  BY DEF StopServer
<1>2. OpenSockets'
  BY <1>1 DEF OpenSockets
<1> QED BY <1>1, <1>2, FreeType DEF WebInv, QueueType

LEMMA HttpStepKeeps ==
  ASSUME WebInv, NEW c \in Slots, HttpSteps(c)
  PROVE  WebInv'
<1> USE DEF WebInv, HttpKeeps
<1>1. ASSUME NEW ok \in BOOLEAN, OnSslHandshake(c, ok) PROVE WebInv'
  BY <1>1, OneSessionMoves, SessionMoves DEF OnSslHandshake, Done, States
<1>2. ASSUME NEW ok \in BOOLEAN, OnWsAccept(c, ok) PROVE WebInv'
  <2>1. CASE ok
    BY <1>2, <2>1, SocketOpens
  <2>2. CASE ~ok
    BY <1>2, <2>2, OneSessionMoves, SessionMoves DEF OnWsAccept, Done, States
  <2> QED BY <2>1, <2>2
<1>3. ASSUME NEW what \in {"error", "eof", "shutdown", "request", "refused", "upgrade", "upgradeByHeader"},
             OnRead(c, what)
      PROVE  WebInv'
  <2>1. PICK s : s \in Session /\ s.st # "ws" /\ At(c, s)
    BY <1>3, SessionMoves DEF OnRead, Done, States
  <2> QED BY <1>3, <2>1, OneSessionMoves DEF OnRead
<1>4. CASE Respond_(c)
  BY <1>4, OneSessionMoves, SessionMoves DEF Respond_, States
<1>5. ASSUME NEW what \in {"error", "close", "shutdown", "again"}, OnWrite(c, what) PROVE WebInv'
  <2>1. PICK s : s \in Session /\ s.st # "ws" /\ At(c, s)
    BY <1>5, SessionMoves DEF OnWrite, Done, States
  <2> QED BY <1>5, <2>1, OneSessionMoves DEF OnWrite
<1>6. CASE OnShutdown(c)
  BY <1>6, OneSessionMoves, SessionMoves DEF OnShutdown, Done, States
<1>7. CASE OnWsRead(c)
  BY <1>7, SocketEnds DEF OnWsRead
<1>8. CASE TrustChanges(c)
  <2>1. /\ trusted' \in SUBSET Slots
        /\ UNCHANGED <<serving, secured, sess, queues, news>>
    BY <1>8 DEF TrustChanges
  <2> QED BY <2>1 DEF QueueType, OpenSockets
<1> QED BY <1>1, <1>2, <1>3, <1>4, <1>5, <1>6, <1>7, <1>8, Zenon DEF HttpSteps

LEMMA WebStep ==
  ASSUME WebInv, [WebNext]_webVars
  PROVE  WebInv'
<1>1. ASSUME NEW c \in Slots, WsWriteEnds(c) PROVE WebInv'
  BY <1>1, WriteEnds, SocketEnds DEF WsWriteEnds, OnWsWriteFails
<1>2. CASE UNCHANGED webVars
  BY <1>2 DEF webVars, WebInv, QueueType, OpenSockets
<1> QED BY <1>1, <1>2, AcceptKeeps, HttpStepKeeps, BroadcastKeeps, PollKeeps, StopKeeps, Zenon DEF WebNext

LEMMA WebStart == ASSUME WebInit PROVE WebInv
<1>1. sess \in [Slots -> Session] /\ \A c \in Slots : sess[c].st = "free"
  BY FreeType DEF WebInit, Free
<1>2. DOMAIN queues = {}
  BY DEF WebInit
<1> QED BY <1>1, <1>2, HttpServerAssumption DEF WebInit, WebInv, QueueType, OpenSockets, News

LEMMA WebInvSafe == ASSUME WebInv PROVE SocketsSafe
<1>1. \A c \in Slots : sess[c] \in Session
  BY DEF WebInv
<1>2. WebTypeOK
  BY <1>1 DEF WebInv, WebTypeOK, QueueType, Session
<1>3. serving => \A c \in DOMAIN queues : sess[c].st = "ws"
  BY Zenon DEF WebInv, OpenSockets
<1> QED BY <1>2, <1>3 DEF SocketsSafe, NoOrphans

(* Every queue the events are copied into belongs to an open socket, for   *)
(* any number of connections, limits and events and whichever way sockets  *)
(* end (OnWsRead, OnWsWrite, Poll, Stop).                                  *)
THEOREM NoOrphanQueues == WebSpec => []SocketsSafe
<1>1. WebInit => WebInv
  BY WebStart
<1>2. WebInv /\ [WebNext]_webVars => WebInv'
  BY WebStep
<1>3. WebInv => SocketsSafe
  BY WebInvSafe
<1> QED BY <1>1, <1>2, <1>3, PTL DEF WebSpec

-----------------------------------------------------------------------------
(* What a socket still has to send ascends, from the event it wrote last   *)
(* to the newest one.                                                      *)

Ordered(s, q, last, newest) ==
  /\ last <= newest
  /\ s.writing => last <= s.msg /\ s.msg <= newest
  /\ \A k \in DOMAIN q : /\ last <= q[k] /\ q[k] <= newest
                         /\ s.writing => s.msg <= q[k]
                         /\ \A j \in 1 .. k : q[j] <= q[k]

NewsInv ==
  /\ got \in [Slots -> News]
  /\ \A c \in Slots : sess[c].writing => sess[c].st \in {"ws", "done"}
  /\ \A c \in Slots : sess[c].st = "ws" => Ordered(sess[c], queues[c], got[c], news)

LEMMA PushOrdered ==
  ASSUME NEW s \in Session, NEW q \in Seq(News), NEW last \in News, NEW newest \in News,
         Ordered(s, q, last, newest), Len(q) <= MaxQueue
  PROVE  Ordered(s, Push(q, newest + 1), last, newest + 1)
<1>0. \A x \in News : x \in Nat
  BY HttpServerAssumption DEF News
<1>1. s.msg \in Nat /\ s.writing \in BOOLEAN
  BY <1>0 DEF Session, News
<1>2. ASSUME NEW r \in Seq(News), Ordered(s, r, last, newest)
      PROVE  Ordered(s, Append(r, newest + 1), last, newest + 1)
  <2>0. \A k \in 1 .. Len(r) : Append(r, newest + 1)[k] = r[k] /\ r[k] \in News
    OBVIOUS
  <2>1. \A k \in 1 .. Len(r) : Append(r, newest + 1)[k] = r[k] /\ r[k] \in Nat
    BY <1>0, <2>0, Zenon
  <2>2. Append(r, newest + 1)[Len(r) + 1] = newest + 1 /\ DOMAIN Append(r, newest + 1) = 1 .. Len(r) + 1
    OBVIOUS
  <2>3. newest \in Nat /\ last \in Nat
    BY <1>0
  <2>4. \A k \in 1 .. Len(r) : /\ last <= r[k] /\ r[k] <= newest /\ (s.writing => s.msg <= r[k])
                               /\ \A j \in 1 .. k : r[j] <= r[k]
    BY <1>2 DEF Ordered
  <2>5. \A k \in 1 .. Len(r) + 1 : \A j \in 1 .. k :
           Append(r, newest + 1)[j] <= Append(r, newest + 1)[k]
    <3>1. TAKE k \in 1 .. Len(r) + 1
    <3> TAKE j \in 1 .. k
    <3>2. CASE k = Len(r) + 1 /\ j = k
      BY <2>2, <2>3, <3>2
    <3>3. CASE k = Len(r) + 1 /\ j # k
      BY <2>1, <2>2, <2>3, <2>4, <3>3
    <3>4. CASE k # Len(r) + 1
      BY <2>1, <2>4, <3>4
    <3> QED BY <3>2, <3>3, <3>4
  <2>6. \A k \in 1 .. Len(r) + 1 : /\ last <= Append(r, newest + 1)[k]
                                   /\ Append(r, newest + 1)[k] <= newest + 1
    BY <1>2, <2>1, <2>2, <2>3, <2>4 DEF Ordered
  <2>7. s.writing => last <= s.msg /\ s.msg <= newest
    BY <1>2 DEF Ordered
  <2>8. s.writing => \A k \in 1 .. Len(r) + 1 : s.msg <= Append(r, newest + 1)[k]
    BY <1>1, <2>1, <2>2, <2>3, <2>4, <2>7
  <2>9. last <= newest + 1 /\ (s.writing => s.msg <= newest + 1)
    BY <1>1, <1>2, <2>3, <2>7 DEF Ordered
  <2> QED BY <2>2, <2>5, <2>6, <2>7, <2>8, <2>9 DEF Ordered
<1>3. CASE Len(q) >= MaxQueue
  <2>1. Tail(q) \in Seq(News) /\ \A k \in DOMAIN Tail(q) : Tail(q)[k] = q[k + 1] /\ k + 1 \in DOMAIN q
    BY <1>3, HttpServerAssumption
  <2>2. Ordered(s, Tail(q), last, newest)
    <3>1. \A k \in DOMAIN Tail(q) : \A j \in 1 .. k : j \in DOMAIN Tail(q) /\ j + 1 \in 1 .. k + 1
      BY <1>3, HttpServerAssumption
    <3> QED BY <2>1, <3>1 DEF Ordered
  <2> QED BY <1>2, <1>3, <2>1, <2>2 DEF Push
<1>4. CASE ~(Len(q) >= MaxQueue)
  BY <1>2, <1>4 DEF Push
<1> QED BY <1>3, <1>4

LEMMA TailOrdered ==
  ASSUME NEW s \in Session, NEW q \in Seq(News), q # <<>>, NEW last \in News, NEW newest \in News,
         Ordered(s, q, last, newest), ~s.writing
  PROVE  Ordered([s EXCEPT !.writing = TRUE, !.msg = Head(q)], Tail(q), last, newest)
<1> DEFINE t == [s EXCEPT !.writing = TRUE, !.msg = Head(q)]
<1>1. t.writing = TRUE /\ t.msg = q[1]
  <2>1. Head(q) = q[1]
    OBVIOUS
  <2>2. t.writing = TRUE /\ t.msg = Head(q)
    BY Zenon DEF Session
  <2> QED BY <2>1, <2>2
<1> HIDE DEF t
<1>2. \A k \in DOMAIN Tail(q) : /\ Tail(q)[k] = q[k + 1] /\ k + 1 \in DOMAIN q
                                /\ \A j \in 1 .. k : Tail(q)[j] = q[j + 1] /\ j + 1 \in 1 .. k + 1
  OBVIOUS
<1>3. 1 \in DOMAIN q /\ \A k \in DOMAIN Tail(q) : 1 \in 1 .. k + 1
  OBVIOUS
<1> QED BY <1>1, <1>2, <1>3 DEF Ordered

(* DequeueMessage keeps the order.                                         *)
LEMMA DequeueOrdered ==
  ASSUME WebInv, NEW c \in DOMAIN queues, NEW s \in Session, NEW last \in News,
         Ordered(s, queues[c], last, news)
  PROVE  Ordered(Dequeue(c, s), IF Taken(c, s) THEN Tail(queues[c]) ELSE queues[c], last, news)
<1>1. c \in Slots /\ queues[c] \in Seq(News) /\ news \in News
  BY DEF WebInv, QueueType
<1>2. CASE Taken(c, s)
  <2>1. Dequeue(c, s) = [s EXCEPT !.writing = TRUE, !.msg = Head(queues[c])]
    BY <1>1, <1>2, DequeueType
  <2>2. ~s.writing /\ queues[c] # <<>>
    BY <1>2 DEF Taken
  <2>3. Ordered([s EXCEPT !.writing = TRUE, !.msg = Head(queues[c])], Tail(queues[c]), last, news)
    BY <1>1, <2>2, TailOrdered
  <2> QED BY <1>2, <2>1, <2>3, Zenon
<1>3. CASE ~Taken(c, s)
  BY <1>1, <1>3, DequeueType
<1> QED BY <1>2, <1>3

(* A step that is none of a socket's own leaves its order alone.           *)
LEMMA OtherSessions ==
  ASSUME NewsInv, NEW c \in Slots, UNCHANGED <<got, news>>,
         \A d \in Slots \ {c} : sess'[d] = sess[d] /\ (sess[d].st = "ws" => queues'[d] = queues[d]),
         sess'[c].st # "ws", sess'[c].writing => sess'[c].st = "done"
  PROVE  NewsInv'
BY Zenon DEF NewsInv

LEMMA QuietSession ==
  ASSUME WebInv, NewsInv, NEW c \in Slots, NEW s, s.st # "ws", At(c, s), s.writing => s.st = "done",
         UNCHANGED <<queues, news, got>>
  PROVE  NewsInv'
<1>1. sess'[c] = s /\ \A d \in Slots \ {c} : sess'[d] = sess[d]
  BY DEF At, WebInv
<1> QED BY <1>1, OtherSessions

LEMMA SocketIsQueued ==
  ASSUME WebInv, NEW c \in Slots, sess[c].st = "ws"
  PROVE  c \in DOMAIN queues
BY WhileServing, Zenon DEF WebInv, OpenSockets

LEMMA SocketEndOrdered ==
  ASSUME WebInv, NewsInv, NEW c \in Slots, sess[c].st = "ws", At(c, Done(sess[c])),
         Unregister(c), UNCHANGED <<news, got>>
  PROVE  NewsInv'
<1>1. sess' = [sess EXCEPT ![c] = Done(sess[c])] /\ Done(sess[c]).st = "done"
  BY DEF At, Done, WebInv, Session
<1>2. \A d \in Slots \ {c} : sess'[d] = sess[d] /\ (sess[d].st = "ws" => queues'[d] = queues[d])
  BY <1>1, SocketIsQueued DEF WebInv, Unregister
<1>3. sess'[c].st = "done"
  BY <1>1 DEF WebInv
<1> QED BY <1>2, <1>3, OtherSessions

LEMMA HttpStepOrdered ==
  ASSUME WebInv, NewsInv, NEW c \in Slots, HttpSteps(c)
  PROVE  NewsInv'
<1> USE DEF HttpKeeps
<1>0. sess[c] \in Session /\ (sess[c].writing => sess[c].st \in {"ws", "done"})
  BY DEF WebInv, NewsInv
<1>1. ASSUME NEW ok \in BOOLEAN, OnSslHandshake(c, ok) PROVE NewsInv'
  <2>1. PICK s : s.st \in {"read", "done"} /\ ~s.writing /\ At(c, s)
    BY <1>0, <1>1 DEF OnSslHandshake, Done, Session
  <2> QED BY <1>1, <2>1, QuietSession DEF OnSslHandshake
<1>2. ASSUME NEW ok \in BOOLEAN, OnWsAccept(c, ok) PROVE NewsInv'
  <2>1. CASE ~ok
    <3>1. PICK s : s.st = "done" /\ At(c, s)
      BY <1>0, <1>2, <2>1 DEF OnWsAccept, Done, Session
    <3> QED BY <1>2, <2>1, <3>1, QuietSession DEF OnWsAccept
  <2>2. CASE ok
    <3>1. /\ sess[c].st = "accept" /\ sess' = [sess EXCEPT ![c] = [sess[c] EXCEPT !.st = "ws"]]
          /\ queues' = [d \in DOMAIN queues \cup {c} |-> IF d = c THEN <<0>> ELSE queues[d]]
          /\ got' = [got EXCEPT ![c] = 0] /\ news' = news
      BY <1>2, <2>2 DEF OnWsAccept, At
    <3>2. sess'[c].st = "ws" /\ ~sess'[c].writing
      BY <1>0, <3>1 DEF WebInv, Session
    <3>3. /\ got' \in [Slots -> News] /\ got'[c] = 0 /\ \A d \in Slots \ {c} : got'[d] = got[d]
      BY <3>1, HttpServerAssumption DEF NewsInv, News
    <3>4. queues'[c] = <<0>>
      BY <3>1
    <3>5. Ordered(sess'[c], queues'[c], got'[c], news')
      BY <3>1, <3>2, <3>3, <3>4, HttpServerAssumption DEF Ordered, WebInv, News
    <3>6. \A d \in Slots \ {c} : sess'[d] = sess[d] /\ (sess[d].st = "ws" => queues'[d] = queues[d])
      <4>1. \A d \in Slots \ {c} : sess'[d] = sess[d]
        BY <3>1 DEF WebInv
      <4>2. \A d \in Slots : sess[d].st = "ws" => d \in DOMAIN queues
        BY SocketIsQueued
      <4> QED BY <3>1, <4>1, <4>2
    <3> QED BY <3>1, <3>2, <3>3, <3>5, <3>6 DEF NewsInv
  <2> QED BY <2>1, <2>2
<1>3. ASSUME NEW what \in {"error", "eof", "shutdown", "request", "refused", "upgrade", "upgradeByHeader"},
             OnRead(c, what)
      PROVE  NewsInv'
  <2>1. PICK s : s.st # "ws" /\ ~s.writing /\ At(c, s)
    BY <1>0, <1>3 DEF OnRead, Done, Session
  <2> QED BY <1>3, <2>1, QuietSession DEF OnRead
<1>4. CASE Respond_(c)
  <2>1. PICK s : s.st # "ws" /\ ~s.writing /\ At(c, s)
    BY <1>0, <1>4 DEF Respond_, Session
  <2> QED BY <1>4, <2>1, QuietSession DEF Respond_
<1>5. ASSUME NEW what \in {"error", "close", "shutdown", "again"}, OnWrite(c, what) PROVE NewsInv'
  <2>1. PICK s : s.st # "ws" /\ ~s.writing /\ At(c, s)
    BY <1>0, <1>5 DEF OnWrite, Done, Session
  <2> QED BY <1>5, <2>1, QuietSession DEF OnWrite
<1>6. CASE OnShutdown(c)
  <2>1. PICK s : s.st = "done" /\ At(c, s)
    BY <1>0, <1>6 DEF OnShutdown, Done, Session
  <2> QED BY <1>6, <2>1, QuietSession DEF OnShutdown
<1>7. CASE OnWsRead(c)
  <2>1. sess[c].st = "ws" /\ At(c, Done(sess[c])) /\ Unregister(c) /\ UNCHANGED <<news, got>>
    BY <1>7 DEF OnWsRead
  <2> QED BY <2>1, SocketEndOrdered
<1>8. CASE TrustChanges(c)
  BY <1>8, Zenon DEF TrustChanges, NewsInv
<1> QED BY <1>1, <1>2, <1>3, <1>4, <1>5, <1>6, <1>7, <1>8, Zenon DEF HttpSteps

LEMMA WriteOrdered ==
  ASSUME WebInv, NewsInv, NEW c \in Slots, OnWsWrite(c)
  PROVE  NewsInv' /\ got'[c] >= got[c]
<1> DEFINE idle == [sess[c] EXCEPT !.writing = FALSE]
           next == Dequeue(c, idle)
           rest == IF Taken(c, idle) THEN Tail(queues[c]) ELSE queues[c]
<1>1. /\ sess[c].st = "ws" /\ sess[c].writing /\ sess' = [sess EXCEPT ![c] = next]
      /\ queues' = IF Taken(c, idle) THEN [queues EXCEPT ![c] = Tail(@)] ELSE queues
      /\ got' = [got EXCEPT ![c] = sess[c].msg] /\ news' = news
  BY DEF OnWsWrite, At
<1>2. c \in DOMAIN queues /\ sess[c] \in Session
  BY <1>1, SocketIsQueued DEF WebInv
<1>3. idle \in Session /\ idle.st = "ws" /\ ~idle.writing
  BY <1>1, <1>2 DEF Session
<1>4. Ordered(sess[c], queues[c], got[c], news)
  BY <1>1 DEF NewsInv
<1>5. sess[c].msg \in News
  BY <1>2 DEF Session, News
<1>6. Ordered(idle, queues[c], sess[c].msg, news) /\ sess[c].msg >= got[c]
  BY <1>1, <1>3, <1>4, <1>5, HttpServerAssumption DEF Ordered, NewsInv, News
<1> HIDE DEF idle
<1>7. Ordered(next, rest, sess[c].msg, news) /\ next.st = "ws"
  BY <1>2, <1>3, <1>5, <1>6, DequeueOrdered, DequeueType
<1> HIDE DEF next
<1>8. queues'[c] = rest /\ \A d \in Slots \ {c} : queues'[d] = queues[d]
  BY <1>1, <1>2
<1>9. sess'[c] = next /\ \A d \in Slots \ {c} : sess'[d] = sess[d]
  BY <1>1 DEF WebInv
<1>10. got' \in [Slots -> News] /\ got'[c] = sess[c].msg /\ \A d \in Slots \ {c} : got'[d] = got[d]
  BY <1>1, <1>5 DEF NewsInv
<1> HIDE DEF rest
<1>11. \A d \in Slots : sess'[d].st = "ws" => Ordered(sess'[d], queues'[d], got'[d], news')
  <2>1. TAKE d \in Slots
  <2>2. CASE d = c
    BY <1>1, <1>7, <1>8, <1>9, <1>10, <2>2, Zenon
  <2>3. CASE d # c
    BY <1>1, <1>8, <1>9, <1>10, <2>3, Zenon DEF NewsInv
  <2> QED BY <2>2, <2>3
<1>12. \A d \in Slots : sess'[d].writing => sess'[d].st \in {"ws", "done"}
  BY <1>7, <1>9 DEF NewsInv
<1> QED BY <1>6, <1>10, <1>11, <1>12 DEF NewsInv

LEMMA BroadcastOrdered ==
  ASSUME WebInv, NewsInv, Broadcast
  PROVE  NewsInv'
<1>1. /\ news < MaxNews /\ news' = news + 1
      /\ queues' = [c \in DOMAIN queues |-> Push(queues[c], news + 1)]
      /\ UNCHANGED <<sess, got>>
  BY DEF Broadcast
<1>2. ASSUME NEW c \in Slots, sess[c].st = "ws"
      PROVE  Ordered(sess[c], queues'[c], got[c], news')
  <2>1. c \in DOMAIN queues /\ queues'[c] = Push(queues[c], news + 1)
    BY <1>1, <1>2, SocketIsQueued
  <2>2. Ordered(sess[c], Push(queues[c], news + 1), got[c], news + 1)
    BY <1>2, <2>1, PushOrdered DEF NewsInv, WebInv, QueueType
  <2> QED BY <1>1, <2>1, <2>2
<1> QED BY <1>1, <1>2 DEF NewsInv

LEMMA PollOrdered ==
  ASSUME WebInv, NewsInv, PollServer
  PROVE  NewsInv'
<1> DEFINE ws == {c \in Slots : sess[c].st = "ws"}
           checked == {c \in ws : WsTick(sess[c]) >= Interval}
           closed == {c \in checked : Revoked(c)}
           tick(c) == IF c \in checked THEN 0 ELSE WsTick(sess[c])
           ticked(c) == [sess[c] EXCEPT !.tick = tick(c)]
<1>1. /\ serving
      /\ sess' = [c \in Slots |-> CASE Dead(c) \/ c \in closed -> Free
                                    [] c \in ws \ closed -> Dequeue(c, ticked(c))
                                    [] OTHER -> sess[c]]
      /\ queues' = [c \in DOMAIN queues \ closed |->
                      IF c \in ws /\ Taken(c, sess[c]) THEN Tail(queues[c]) ELSE queues[c]]
      /\ UNCHANGED <<news, got>>
  BY DEF PollServer, HttpKeeps
<1>2. ASSUME NEW c \in ws \ closed
      PROVE  /\ Ordered(sess'[c], queues'[c], got[c], news) /\ sess'[c].st = "ws"
  <2>1. c \in DOMAIN queues /\ sess[c] \in Session /\ c \in Slots
    BY SocketIsQueued DEF WebInv
  <2>2. ~Dead(c)
    BY DEF Dead
  <2>3. sess'[c] = Dequeue(c, ticked(c))
    BY <1>1, <2>1, <2>2
  <2>4. tick(c) \in 0 .. Interval - 1
    <3>1. WsTick(sess[c]) \in Nat /\ Interval \in Nat \ {0}
      BY <2>1, TickType, HttpServerAssumption
    <3> QED BY <3>1
  <2> HIDE DEF tick
  <2>5. /\ ticked(c) \in Session /\ ticked(c).writing = sess[c].writing
        /\ ticked(c).msg = sess[c].msg /\ ticked(c).st = "ws"
    BY <2>1, <2>4 DEF Session
  <2> HIDE DEF ticked
  <2>6. Ordered(ticked(c), queues[c], got[c], news)
    BY <2>1, <2>5 DEF NewsInv, Ordered
  <2>7. Taken(c, ticked(c)) <=> Taken(c, sess[c])
    BY <2>5 DEF Taken
  <2>8. queues'[c] = IF Taken(c, ticked(c)) THEN Tail(queues[c]) ELSE queues[c]
    BY <1>1, <2>1, <2>7
  <2>9. Dequeue(c, ticked(c)).st = "ws"
    BY <2>1, <2>5, DequeueType
  <2>10. got[c] \in News
    BY <2>1 DEF NewsInv
  <2>11. Ordered(Dequeue(c, ticked(c)), IF Taken(c, ticked(c)) THEN Tail(queues[c]) ELSE queues[c], got[c], news)
    BY <2>1, <2>5, <2>6, <2>10, DequeueOrdered
  <2> QED BY <2>3, <2>8, <2>9, <2>11, Zenon
<1>3. ASSUME NEW c \in Slots, c \notin ws \ closed
      PROVE  sess'[c].st # "ws" /\ (sess'[c].writing => sess'[c].st \in {"ws", "done"})
  <2>1. sess'[c] = Free \/ (sess'[c] = sess[c] /\ c \notin closed)
    BY <1>1, <1>3
  <2>2. Free.st = "free" /\ ~Free.writing
    BY DEF Free
  <2> QED BY <1>3, <2>1, <2>2 DEF NewsInv
<1> HIDE DEF ws, closed
<1> QED BY <1>1, <1>2, <1>3 DEF NewsInv

LEMMA AcceptOrdered ==
  ASSUME WebInv, NewsInv, NEW ip \in Addresses, NEW tls \in BOOLEAN, OnAccept(ip, tls)
  PROVE  NewsInv'
<1> DEFINE first == IF tls THEN "handshake" ELSE "read"
           new == [Free EXCEPT !.st = first, !.ip = ip]
<1>1. new.st # "ws" /\ ~new.writing /\ Free.st = "free" /\ ~Free.writing
  BY DEF Free
<1>2. /\ UNCHANGED <<queues, news, got>>
      /\ \/ sess' = [c \in Slots |-> IF Dead(c) THEN Free ELSE sess[c]]
         \/ \E c \in Slots : Dead(c) /\
              sess' = [d \in Slots |-> IF d = c THEN new ELSE IF Dead(d) THEN Free ELSE sess[d]]
  BY DEF OnAccept, HttpKeeps
<1> HIDE DEF new
<1>3. \A c \in Slots : sess'[c] = sess[c] \/ (sess'[c].st # "ws" /\ ~sess'[c].writing)
  BY <1>1, <1>2
<1> QED BY <1>2, <1>3, Zenon DEF NewsInv

LEMMA NewsStep ==
  ASSUME WebInv, NewsInv, [WebNext]_webVars
  PROVE  NewsInv'
<1>1. ASSUME NEW c \in Slots, WsWriteEnds(c) PROVE NewsInv'
  BY <1>1, WriteOrdered, SocketEndOrdered DEF WsWriteEnds, OnWsWriteFails, HttpKeeps
<1>2. CASE StopServer
  <2>1. sess' = [c \in Slots |-> Free] /\ UNCHANGED got
    BY <1>2 DEF StopServer
  <2> QED BY <2>1 DEF NewsInv, Free
<1>3. CASE UNCHANGED webVars
  BY <1>3, Zenon DEF webVars, NewsInv
<1> QED BY <1>1, <1>2, <1>3, AcceptOrdered, HttpStepOrdered, BroadcastOrdered, PollOrdered, Zenon DEF WebNext

(* The events of a socket are written in the order in which they were      *)
(* broadcast, also when its queue overflows, and the server itself closes  *)
(* only a socket whose credential no longer holds or was not kept          *)
(* (DequeueMessage, Broadcast, HttpSessionState::Poll).                    *)
THEOREM EventsInOrder == WebSpec => NewsInOrder /\ GoodSocketsStay
<1> DEFINE Ascends == \A c \in Slots : sess[c].st = "ws" /\ sess[c]'.st = "ws" => got[c]' >= got[c]
           Stays == \A c \in Slots : PollServer /\ sess[c].st = "ws" /\ sess[c]'.st # "ws"
                                       => c \notin trusted \/ sess[c].header
<1>1. WebInit => WebInv /\ NewsInv
  <2>1. WebInit => NewsInv
    <3>1. Free.st = "free" /\ ~Free.writing /\ 0 \in News
      BY HttpServerAssumption DEF Free, News
    <3> QED BY <3>1 DEF WebInit, NewsInv
  <2> QED BY <2>1, WebStart
<1>2. WebInv /\ NewsInv /\ [WebNext]_webVars => WebInv' /\ NewsInv'
  BY WebStep, NewsStep
<1>3. ASSUME WebInv, NewsInv, [WebNext]_webVars PROVE Ascends
  <2> SUFFICES ASSUME NEW c \in Slots, sess[c].st = "ws", sess[c]'.st = "ws"
               PROVE  got[c]' >= got[c]
    OBVIOUS
  <2>1. got[c] >= got[c]
    <3>1. got[c] \in News
      BY <1>3 DEF NewsInv
    <3>2. got[c] \in Int
      BY <3>1, HttpServerAssumption DEF News
    <3> QED BY <3>2
  <2>2. CASE \E d \in Slots : OnWsWrite(d)
    <3>1. PICK d \in Slots : OnWsWrite(d)
      BY <2>2
    <3>2. CASE d = c
      BY <1>3, <3>1, <3>2, WriteOrdered
    <3>3. CASE d # c
      BY <2>1, <3>1, <3>3 DEF OnWsWrite, NewsInv
    <3> QED BY <3>2, <3>3
  <2>3. CASE \E d \in Slots, ok \in BOOLEAN : OnWsAccept(d, ok)
    <3>1. PICK d \in Slots, ok \in BOOLEAN : OnWsAccept(d, ok)
      BY <2>3
    <3>2. got'[c] = got[c] \/ (d = c /\ ok)
      BY <1>3, <3>1 DEF OnWsAccept, NewsInv
    <3>3. d = c => sess[c].st = "accept"
      BY <3>1 DEF OnWsAccept
    <3> QED BY <2>1, <3>2, <3>3
  <2>4. ASSUME UNCHANGED got PROVE got[c]' >= got[c]
    BY <2>1, <2>4
  <2> QED BY <1>3, <2>2, <2>3, <2>4, Zenon
          DEF WebNext, HttpSteps, WsWriteEnds, OnAccept, OnSslHandshake, OnRead, Respond_, OnWrite,
              OnShutdown, OnWsRead, TrustChanges, OnWsWriteFails, Broadcast, PollServer, StopServer,
              HttpKeeps, webVars
<1>4. ASSUME WebInv PROVE Stays
  <2> SUFFICES ASSUME NEW c \in Slots, PollServer, sess[c].st = "ws", sess[c]'.st # "ws"
               PROVE  c \notin trusted \/ sess[c].header
    OBVIOUS
  <2>1. ~Revoked(c) => FALSE
    <3> SUFFICES ASSUME ~Revoked(c) PROVE FALSE
      OBVIOUS
    <3> DEFINE checked == {d \in {e \in Slots : sess[e].st = "ws"} : WsTick(sess[d]) >= Interval}
               s == [sess[c] EXCEPT !.tick = IF c \in checked THEN 0 ELSE WsTick(sess[c])]
    <3>1. sess'[c] = Dequeue(c, s)
      BY <1>4 DEF PollServer, Dead
    <3>2. s.st = "ws"
      BY <1>4 DEF WebInv, Session
    <3>3. Dequeue(c, s).st = "ws"
      BY <3>2 DEF Dequeue
    <3> QED BY <3>1, <3>3
  <2> QED BY <2>1 DEF Revoked
<1>5. WebInv /\ NewsInv /\ [WebNext]_webVars => [Ascends]_webVars /\ [Stays]_webVars
  BY <1>3, <1>4
<1> HIDE DEF Ascends, Stays
<1>6. WebSpec => [][Ascends]_webVars /\ [][Stays]_webVars
  BY <1>1, <1>2, <1>5, PTL DEF WebSpec
<1> QED BY <1>6 DEF NewsInOrder, GoodSocketsStay, Ascends, Stays

-----------------------------------------------------------------------------
(* Preferences.  PrefSafe is inductive; that the users' preferences are    *)
(* not dropped needs what a missing file stands for as well.               *)

PrefFile == [st : FileStates, doc : Stored]
UserDoc == [Users -> 0 .. 2]
UserFile == [st : FileStates, doc : UserDoc]

(* A document that passed the validation.                                  *)
Accepted(d) ==
  /\ d.units \in Values \cup {Omitted} /\ d.salt \in Values \cup {Omitted}
  /\ d.spa \in Values \cup {Omitted}
  /\ \A f \in Features : d.ui[f] \in Values \cup {0, Omitted}

LEMMA MergedType ==
  ASSUME NEW d, Accepted(d), NEW p \in Stored
  PROVE  /\ Merged(d, p) \in Stored
         /\ Merged(d, p).ui = [f \in Features |-> Given(d.ui[f], p.ui[f])]
BY DEF Accepted, Merged, Given, Stored, Values, Omitted

LEMMA SaveType ==
  ASSUME NEW p \in Stored, prefFile \in PrefFile, mishaps \in 0 .. MaxMishaps, SavePrefs(p)
  PROVE  /\ prefFile' \in PrefFile /\ dirty' \in BOOLEAN /\ mishaps' \in 0 .. MaxMishaps
         /\ ~dirty' => prefFile' = Readable(p)
<1>1. Readable(p) \in PrefFile /\ Torn(prefFile) \in PrefFile
  BY DEF Readable, Torn, PrefFile, FileStates
<1>2. CASE Smooth /\ prefFile' = Readable(p) /\ dirty' = FALSE
  BY <1>1, <1>2 DEF Smooth
<1>3. CASE Mishap /\ dirty' = TRUE /\ prefFile' \in {prefFile, Torn(prefFile)}
  BY <1>1, <1>3, PreferencesAssumption DEF Mishap
<1> QED BY <1>2, <1>3 DEF SavePrefs

LEMMA ApplyKeeps ==
  ASSUME PrefSafe, NEW d, Accepted(d), Apply(d, prefs)
  PROVE  /\ prefs' = Merged(d, prefs) /\ prefs' \in Stored /\ prefFile' \in PrefFile
         /\ dirty' \in BOOLEAN /\ announced' \in Values /\ mishaps' \in 0 .. MaxMishaps
         /\ FileIsHub' /\ UnitsAnnounced'
<1>1. prefs' = Merged(d, prefs) /\ SavePrefs(Merged(d, prefs)) /\ announced' = Merged(d, prefs).units
  BY DEF Apply
<1>2. Merged(d, prefs) \in Stored
  BY MergedType DEF PrefSafe, PrefTypeOK
<1>3. prefFile' \in PrefFile /\ dirty' \in BOOLEAN /\ mishaps' \in 0 .. MaxMishaps
      /\ (~dirty' => prefFile' = Readable(Merged(d, prefs)))
  BY <1>1, <1>2, SaveType DEF PrefSafe, PrefTypeOK, PrefFile
<1>4. announced' \in Values
  BY <1>1, <1>2 DEF Stored
<1> QED BY <1>1, <1>2, <1>3, <1>4 DEF FileIsHub, UnitsAnnounced

LEMMA PutUiKeeps ==
  ASSUME PrefSafe, PutUi
  PROVE  PrefSafe'
<1>1. PICK f \in Features, v \in Values \cup {0} :
        /\ Apply([Empty EXCEPT !.ui[f] = v], prefs)
        /\ wrote' = [wrote EXCEPT ![f] = v]
  BY DEF PutUi
<1> DEFINE d == [Empty EXCEPT !.ui[f] = v]
<1>2. /\ d.units = Omitted /\ d.salt = Omitted /\ d.spa = Omitted
      /\ d.ui = [g \in Features |-> IF g = f THEN v ELSE Omitted]
  BY DEF Empty
<1> HIDE DEF d
<1>3. Accepted(d)
  BY <1>2 DEF Accepted
<1>4. /\ prefs' = Merged(d, prefs) /\ prefs' \in Stored /\ prefFile' \in PrefFile
      /\ dirty' \in BOOLEAN /\ announced' \in Values /\ mishaps' \in 0 .. MaxMishaps
      /\ FileIsHub' /\ UnitsAnnounced'
  BY <1>1, <1>3, ApplyKeeps DEF d
<1>5. prefs'.ui = [g \in Features |-> Given(d.ui[g], prefs.ui[g])]
  BY <1>3, <1>4, MergedType DEF PrefSafe, PrefTypeOK
<1>6. wrote \in [Features -> Values \cup {0}] /\ wrote = prefs.ui
  BY DEF PrefSafe, PrefTypeOK, FeaturesIndependent
<1>7. \A g \in Features : wrote'[g] = prefs'.ui[g]
  BY <1>1, <1>2, <1>5, <1>6 DEF Given, Values, Omitted
<1>8. wrote' = prefs'.ui /\ wrote' \in [Features -> Values \cup {0}]
  BY <1>1, <1>5, <1>6, <1>7
<1>9. UNCHANGED <<overrides, userFile, process>> /\ puts' \in 0 .. MaxPuts
  BY PreferencesAssumption DEF PutUi, PrefEdit, PrefSafe, PrefTypeOK
<1> QED BY <1>4, <1>8, <1>9 DEF PrefSafe, PrefTypeOK, FeaturesIndependent, PrefFile

LEMMA DocumentAccepted ==
  ASSUME NEW d \in Documents, Valid(d)
  PROVE  Accepted(d) /\ \A f \in Features : d.ui[f] = Omitted
<1>1. /\ d.units \in Field /\ d.salt \in Field /\ d.spa \in Field
      /\ d.ui \in {[f \in Features |-> x] : x \in {Omitted, Bad}}
  BY DEF Documents
<1>2. \A f \in Features : d.ui[f] \in {Omitted, Bad}
  BY <1>1
<1> QED BY <1>1, <1>2
        DEF Accepted, Field, Valid, ValidateTemperatureUnits, ValidateAlert, ValidateUi, ValidateSpaSwitchButtons

LEMMA PutKeeps ==
  ASSUME PrefSafe, Put
  PROVE  PrefSafe'
<1> USE DEF PrefSafe, PrefTypeOK
<1>1. PICK d \in Documents :
        IF Valid(d) THEN Apply(d, prefs) ELSE UNCHANGED <<prefs, prefFile, dirty, announced, mishaps>>
  BY DEF Put
<1>2. UNCHANGED <<wrote, overrides, userFile, process>> /\ puts' \in 0 .. MaxPuts
  BY PreferencesAssumption DEF Put, PrefEdit
<1>3. CASE ~Valid(d)
  BY <1>1, <1>2, <1>3 DEF FileIsHub, UnitsAnnounced, FeaturesIndependent
<1>4. CASE Valid(d)
  <2>1. Accepted(d) /\ \A f \in Features : d.ui[f] = Omitted
    BY <1>4, DocumentAccepted
  <2>2. /\ prefs' = Merged(d, prefs) /\ prefs' \in Stored /\ prefFile' \in PrefFile
        /\ dirty' \in BOOLEAN /\ announced' \in Values /\ mishaps' \in 0 .. MaxMishaps
        /\ FileIsHub' /\ UnitsAnnounced'
    BY <1>1, <1>4, <2>1, ApplyKeeps
  <2>3. prefs'.ui = [g \in Features |-> Given(d.ui[g], prefs.ui[g])]
    BY <2>1, <2>2, MergedType
  <2>4. prefs'.ui = prefs.ui
    BY <2>1, <2>3 DEF Given, Stored
  <2> QED BY <1>2, <2>2, <2>4 DEF FeaturesIndependent, PrefFile
<1> QED BY <1>3, <1>4

LEMMA ButtonKeeps ==
  ASSUME PrefSafe, RecordSpaSwitchAssignment
  PROVE  PrefSafe'
<1> USE DEF PrefSafe, PrefTypeOK
<1>1. PICK v \in Values : prefs' = [prefs EXCEPT !.spa = v] /\ SavePrefs([prefs EXCEPT !.spa = v])
  BY DEF RecordSpaSwitchAssignment
<1>2. UNCHANGED <<wrote, announced, overrides, userFile, process>> /\ puts' \in 0 .. MaxPuts
  BY PreferencesAssumption DEF RecordSpaSwitchAssignment, PrefEdit
<1>3. prefs' \in Stored /\ prefs'.ui = prefs.ui /\ prefs'.units = prefs.units
  BY <1>1 DEF Stored, Values
<1>4. prefFile' \in PrefFile /\ dirty' \in BOOLEAN /\ mishaps' \in 0 .. MaxMishaps
      /\ (~dirty' => prefFile' = Readable(prefs'))
  BY <1>1, <1>3, SaveType DEF PrefFile
<1> QED BY <1>2, <1>3, <1>4 DEF FileIsHub, UnitsAnnounced, FeaturesIndependent, PrefFile

(* The store of the users' preferences.                                    *)
UserFileInv == userFile.st = "missing" => \A u \in Users : userFile.doc[u] = 0

LEMMA UserSaveKeeps ==
  ASSUME PrefSafe, UserFileInv, NEW o \in UserDoc, overrides' = o,
         \/ Smooth /\ userFile' = Readable(o)
         \/ Mishap /\ userFile' \in {userFile, Torn(userFile)},
         puts' \in 0 .. MaxPuts, UNCHANGED <<prefs, prefFile, dirty, wrote, announced, process>>
  PROVE  PrefSafe' /\ UserFileInv'
<1> USE DEF PrefSafe, PrefTypeOK
<1>1. Readable(o) \in UserFile /\ Readable(o).st = "readable"
  BY DEF Readable, UserFile, FileStates
<1>2. Torn(userFile) \in UserFile /\ Torn(userFile).st = "torn"
  BY DEF Torn, UserFile, UserDoc, FileStates
<1>3. userFile' \in UserFile /\ mishaps' \in 0 .. MaxMishaps
  BY <1>1, <1>2, PreferencesAssumption DEF Smooth, Mishap, UserFile, UserDoc
<1>4. UserFileInv'
  BY <1>1, <1>2 DEF UserFileInv
<1> QED BY <1>3, <1>4 DEF FileIsHub, UnitsAnnounced, FeaturesIndependent, UserFile, UserDoc

LEMMA UsersKeep ==
  ASSUME PrefSafe, UserFileInv, UserApply \/ Forget
  PROVE  PrefSafe' /\ UserFileInv'
<1>1. overrides \in UserDoc /\ puts' \in 0 .. MaxPuts
  BY PreferencesAssumption DEF PrefSafe, PrefTypeOK, UserDoc, UserApply, Forget, PrefEdit
<1>2. UNCHANGED <<prefs, prefFile, dirty, wrote, announced, process>>
  BY DEF UserApply, Forget
<1>3. CASE UserApply
  <2>1. PICK u \in Users, v \in Values \cup {Bad} :
          IF v = Bad THEN UNCHANGED <<overrides, userFile, mishaps>>
          ELSE /\ overrides' = [overrides EXCEPT ![u] = v]
               /\ \/ Smooth /\ userFile' = Readable([overrides EXCEPT ![u] = v])
                  \/ Mishap /\ userFile' \in {userFile, Torn(userFile)}
    BY <1>3 DEF UserApply
  <2>2. CASE v = Bad
    BY <1>1, <1>2, <2>1, <2>2
       DEF PrefSafe, PrefTypeOK, FileIsHub, UnitsAnnounced, FeaturesIndependent, UserFileInv
  <2>3. CASE v # Bad
    <3>1. [overrides EXCEPT ![u] = v] \in UserDoc
      BY <1>1, <2>3 DEF UserDoc, Values
    <3> QED BY <1>1, <1>2, <2>1, <2>3, <3>1, UserSaveKeeps
  <2> QED BY <2>2, <2>3
<1>4. CASE Forget
  <2>1. PICK u \in Users :
          /\ overrides' = [overrides EXCEPT ![u] = 0]
          /\ \/ Smooth /\ userFile' = Readable([overrides EXCEPT ![u] = 0])
             \/ Mishap /\ userFile' \in {userFile, Torn(userFile)}
    BY <1>4 DEF Forget
  <2>2. [overrides EXCEPT ![u] = 0] \in UserDoc
    BY <1>1 DEF UserDoc
  <2> QED BY <1>1, <1>2, <2>1, <2>2, UserSaveKeeps
<1> QED BY <1>3, <1>4

LEMMA SeedType == Seed \in Stored
BY DEF Seed, Stored, Values

LEMMA BootKeeps ==
  ASSUME PrefSafe, UserFileInv, Boot
  PROVE  PrefSafe' /\ UserFileInv'
<1> USE DEF PrefSafe, PrefTypeOK
<1>1. LoadPrefs /\ LoadUsers /\ wrote' = prefs'.ui /\ UNCHANGED userFile /\ puts' \in 0 .. MaxPuts
  BY PreferencesAssumption DEF Boot
<1>2. /\ prefs' \in Stored /\ prefFile' \in PrefFile /\ dirty' \in BOOLEAN
      /\ mishaps' \in 0 .. MaxMishaps /\ announced' = prefs'.units
      /\ (~dirty' => prefFile' = Readable(prefs'))
  <2>1. CASE prefFile.st # "readable"
    BY <1>1, <2>1, SeedType DEF LoadPrefs, PrefFile
  <2>2. CASE prefFile.st = "readable"
    <3>1. prefs' = prefFile.doc /\ announced' = prefFile.doc.units /\ SavePrefs(prefFile.doc)
      BY <1>1, <2>2 DEF LoadPrefs
    <3>2. prefFile.doc \in Stored
      OBVIOUS
    <3> QED BY <3>1, <3>2, SaveType DEF PrefFile
  <2> QED BY <2>1, <2>2
<1>3. announced' \in Values /\ wrote' \in [Features -> Values \cup {0}]
  BY <1>1, <1>2 DEF Stored
<1>4. overrides' \in UserDoc /\ process' \in {"up", "refused"}
  BY <1>1 DEF LoadUsers, UserDoc
<1> QED BY <1>1, <1>2, <1>3, <1>4
        DEF FileIsHub, UnitsAnnounced, FeaturesIndependent, PrefFile, UserDoc, UserFileInv

LEMMA PrefStep ==
  ASSUME PrefSafe, UserFileInv, [PrefNext]_prefVars
  PROVE  PrefSafe' /\ UserFileInv'
<1>1. CASE PutUi \/ Put \/ RecordSpaSwitchAssignment
  <2>1. UNCHANGED userFile
    BY <1>1 DEF PutUi, Put, RecordSpaSwitchAssignment
  <2> QED BY <1>1, <2>1, PutUiKeeps, PutKeeps, ButtonKeeps DEF UserFileInv
<1>2. CASE UNCHANGED prefVars
  BY <1>2 DEF prefVars, PrefSafe, PrefTypeOK, FileIsHub, UnitsAnnounced, FeaturesIndependent, UserFileInv
<1> QED BY <1>1, <1>2, UsersKeep, BootKeeps DEF PrefNext

LEMMA PrefStart == ASSUME PrefInit PROVE PrefSafe /\ UserFileInv
<1>1. /\ prefs \in Stored /\ prefFile = Missing(Seed) /\ dirty = TRUE /\ wrote = prefs.ui
      /\ announced = prefs.units /\ overrides \in UserDoc /\ userFile = Missing(overrides)
      /\ process = "up" /\ puts = 0 /\ mishaps = 0
  BY SeedType DEF PrefInit, UserDoc
<1>2. prefFile \in PrefFile /\ userFile \in UserFile
  BY <1>1, SeedType DEF Missing, PrefFile, UserFile, FileStates
<1>3. announced \in Values /\ wrote \in [Features -> Values \cup {0}]
  BY <1>1 DEF Stored
<1>4. userFile.doc = overrides /\ \A u \in Users : overrides[u] = 0
  BY <1>1 DEF Missing, PrefInit
<1> QED BY <1>1, <1>2, <1>3, <1>4, PreferencesAssumption
        DEF PrefSafe, PrefTypeOK, FileIsHub, UnitsAnnounced, FeaturesIndependent, UserFileInv,
            PrefFile, UserFile, UserDoc

(* A running process never drops the preferences of a user who has set     *)
(* some, also not by a start that finds the file unreadable                *)
(* (UserPreferencesStore::Load).                                           *)
THEOREM UsersAreKept == PrefSpec => UsersNotDropped
<1> DEFINE Kept_(u) == (process' = "up" /\ overrides[u] # 0 /\ overrides'[u] = 0) =>
                         (Forget \/ (Boot /\ userFile.st # "torn" /\ userFile.doc[u] = 0))
           AllKept == \A u \in Users : Kept_(u)
<1>1. ASSUME PrefSafe, UserFileInv, [PrefNext]_prefVars PROVE AllKept
  <2> SUFFICES ASSUME NEW u \in Users, process' = "up", overrides[u] # 0, overrides'[u] = 0, ~Forget
               PROVE  Boot /\ userFile.st # "torn" /\ userFile.doc[u] = 0
    OBVIOUS
  <2>1. overrides' # overrides
    OBVIOUS
  <2>2. CASE UserApply
    BY <1>1, <2>1, <2>2 DEF UserApply, Values, PrefSafe, PrefTypeOK
  <2>3. CASE Boot
    <3>1. userFile.st # "torn" /\ overrides' = IF userFile.st = "readable" THEN userFile.doc ELSE [w \in Users |-> 0]
      BY <2>3 DEF Boot, LoadUsers
    <3>2. userFile.st \in FileStates
      BY <1>1 DEF PrefSafe, PrefTypeOK
    <3> QED BY <1>1, <2>3, <3>1, <3>2 DEF UserFileInv, FileStates
  <2> QED BY <1>1, <2>1, <2>2, <2>3, Zenon
          DEF PrefNext, PutUi, Put, RecordSpaSwitchAssignment, prefVars
<1>2. PrefInit => PrefSafe /\ UserFileInv
  BY PrefStart
<1>3. PrefSafe /\ UserFileInv /\ [PrefNext]_prefVars => PrefSafe' /\ UserFileInv'
  BY PrefStep
<1>4. PrefSafe /\ UserFileInv /\ [PrefNext]_prefVars => [AllKept]_prefVars
  BY <1>1
<1> HIDE DEF AllKept
<1>5. PrefSpec => [][AllKept]_prefVars
  BY <1>2, <1>3, <1>4, PTL DEF PrefSpec
<1> QED BY <1>5 DEF UsersNotDropped, AllKept

-----------------------------------------------------------------------------
(* The equipment cache.  What the file holds were named devices, whose     *)
(* pumps carry the label by which a restore finds their role.              *)

Labelled(d) == d.kind = "Pump" => d.label = "Filter Pump"
Anonymous(d) == d.kind = "Auxillary" /\ ~d.hw

HubDevice == {d \in CachedDevice : Labelled(d)} \cup {Absent}
FileDevice == {d \in HubDevice : ~Anonymous(d)}

Boards == {"Unknown", "RS8", "PD8"}
CacheFile == [st : {"missing", "readable", "torn"}, board : Boards, devices : [Hardware -> FileDevice]]

CacheInv ==
  /\ hub \in [Hardware -> HubDevice] /\ board \in Boards /\ cacheFile \in CacheFile
  /\ unsaved \in BOOLEAN /\ mine \subseteq Hardware
  /\ finds \in 0 .. MaxFinds /\ trouble \in 0 .. MaxTrouble
  /\ PumpsHaveRoles /\ NoAnonymousRestored

LEMMA SnapshotType ==
  ASSUME CacheInv
  PROVE  Snapshot(hub, board) \in CacheFile
<1>1. Absent \in FileDevice
  BY DEF Absent, FileDevice, HubDevice, Anonymous
<1>2. \A i \in Hardware : Cached(hub[i]) => hub[i] \in FileDevice
  BY DEF CacheInv, Cached, FileDevice, Anonymous
<1> QED BY <1>1, <1>2 DEF Snapshot, CacheFile, CacheInv

LEMMA SaveNowKeeps ==
  ASSUME CacheInv,
         \/ Fine /\ cacheFile' = Snapshot(hub, board) /\ unsaved' = FALSE
         \/ Setback /\ unsaved' = TRUE /\ cacheFile' \in {cacheFile, [cacheFile EXCEPT !.st = "torn"]}
  PROVE  cacheFile' \in CacheFile /\ unsaved' \in BOOLEAN /\ trouble' \in 0 .. MaxTrouble
<1>1. [cacheFile EXCEPT !.st = "torn"] \in CacheFile
  BY DEF CacheInv, CacheFile
<1>2. Snapshot(hub, board) \in CacheFile
  BY SnapshotType
<1>3. trouble' \in 0 .. MaxTrouble
  BY EquipmentCacheAssumption DEF CacheInv, Fine, Setback
<1> QED BY <1>1, <1>2, <1>3 DEF CacheInv

LEMMA DiscoverKeeps ==
  ASSUME CacheInv, Discover
  PROVE  CacheInv'
<1>1. /\ finds' \in 0 .. MaxFinds /\ UNCHANGED <<board, cacheFile, unsaved, trouble>>
  <2>1. finds \in 0 .. MaxFinds /\ finds < MaxFinds /\ finds' = finds + 1
    BY DEF Discover, CacheInv
  <2>2. UNCHANGED <<board, cacheFile, unsaved, trouble>>
    BY DEF Discover
  <2> QED BY <2>1, <2>2, EquipmentCacheAssumption
<1>2. PICK i \in Hardware, d \in CachedDevice :
        /\ d.kind = "Pump" <=> d.label = "Filter Pump"
        /\ hub' = [hub EXCEPT ![i] = d] /\ mine' = mine \ {i}
  BY DEF Discover
<1>3. d \in HubDevice
  BY <1>2 DEF HubDevice, Labelled
<1>4. hub' \in [Hardware -> HubDevice] /\ mine' \subseteq Hardware /\ \A j \in mine' : hub'[j] = hub[j]
  BY <1>2, <1>3 DEF CacheInv
<1>5. PumpsHaveRoles' /\ NoAnonymousRestored'
  BY <1>2, <1>4 DEF CacheInv, PumpsHaveRoles, NoAnonymousRestored
<1> QED BY <1>1, <1>4, <1>5 DEF CacheInv

(* What a start makes of a device of the file.                             *)
LEMMA AdoptType ==
  ASSUME NEW d \in FileDevice
  PROVE  /\ Adopt(d) \in HubDevice /\ ~Anonymous(Adopt(d))
         /\ Adopt(d).kind = "Pump" => Adopt(d).role = "Filter"
         /\ Adopt(d) = Absent <=> d = Absent
<1>1. CASE d = Absent
  BY <1>1 DEF Adopt, Absent, HubDevice, Anonymous
<1>2. CASE d # Absent
  <2>1. d \in CachedDevice /\ Labelled(d) /\ ~Anonymous(d)
    BY <1>2 DEF FileDevice, HubDevice
  <2>2. CASE d.kind = "Pump" /\ d.label = "Filter Pump"
    <3>1. Adopt(d) = [d EXCEPT !.role = "Filter"]
      BY <2>2 DEF Adopt
    <3>2. /\ [d EXCEPT !.role = "Filter"] \in CachedDevice /\ [d EXCEPT !.role = "Filter"].kind = "Pump"
          /\ [d EXCEPT !.role = "Filter"].label = "Filter Pump"
          /\ [d EXCEPT !.role = "Filter"].role = "Filter"
      BY <2>1, <2>2 DEF CachedDevice
    <3>3. [d EXCEPT !.role = "Filter"] # Absent
      BY <3>2 DEF Absent
    <3> QED BY <1>2, <3>1, <3>2, <3>3 DEF HubDevice, Labelled, Anonymous
  <2>3. CASE ~(d.kind = "Pump" /\ d.label = "Filter Pump")
    BY <1>2, <2>1, <2>3 DEF Adopt, HubDevice, Labelled
  <2> QED BY <2>2, <2>3
<1> QED BY <1>1, <1>2

LEMMA KillKeeps ==
  ASSUME CacheInv, Kill
  PROVE  CacheInv'
<1> DEFINE file(i) == cacheFile.devices[i]
<1>1. /\ LoadCache /\ unsaved' \in BOOLEAN /\ trouble' \in 0 .. MaxTrouble
      /\ UNCHANGED <<cacheFile, finds>>
  BY EquipmentCacheAssumption DEF Kill, Setback, CacheInv
<1>2. Absent \in HubDevice
  BY DEF HubDevice
<1>3. CASE cacheFile.st = "readable"
  <2>1. /\ hub' = [i \in Hardware |-> Adopt(Restore(Nothing, i))] /\ board' = cacheFile.board
        /\ mine' = Known(hub')
    BY <1>1, <1>3 DEF LoadCache, ApplySnapshot
  <2>2. \A i \in Hardware : Restore(Nothing, i) = file(i) /\ file(i) \in FileDevice
    BY DEF Restore, Nothing, CacheInv, CacheFile
  <2>3. \A i \in Hardware : /\ hub'[i] \in HubDevice /\ ~Anonymous(hub'[i])
                            /\ hub'[i].kind = "Pump" => hub'[i].role = "Filter"
    BY <2>1, <2>2, AdoptType
  <2>4. hub' \in [Hardware -> HubDevice] /\ mine' \subseteq Hardware
    BY <2>1, <2>3 DEF Known
  <2>5. PumpsHaveRoles' /\ NoAnonymousRestored'
    BY <2>3, <2>4 DEF PumpsHaveRoles, NoAnonymousRestored, Anonymous
  <2> QED BY <1>1, <2>1, <2>4, <2>5 DEF CacheInv, CacheFile
<1>4. CASE cacheFile.st # "readable"
  <2>1. hub' = [i \in Hardware |-> Absent] /\ board' = "Unknown" /\ mine' = Known(hub')
    BY <1>1, <1>4 DEF LoadCache, Nothing
  <2>2. mine' = {}
    BY <2>1 DEF Known
  <2> QED BY <1>1, <1>2, <2>1, <2>2 DEF CacheInv, PumpsHaveRoles, NoAnonymousRestored, Boards
<1> QED BY <1>3, <1>4

LEMMA CacheStep ==
  ASSUME CacheInv, [CacheNext]_cacheVars
  PROVE  CacheInv'
<1>1. CASE ScheduleSave
  <2>1. SaveNow /\ UNCHANGED <<hub, board, mine, finds>>
    BY <1>1 DEF ScheduleSave
  <2>2. cacheFile' \in CacheFile /\ unsaved' \in BOOLEAN /\ trouble' \in 0 .. MaxTrouble
    BY <2>1, SaveNowKeeps DEF SaveNow
  <2> QED BY <2>1, <2>2 DEF CacheInv, PumpsHaveRoles, NoAnonymousRestored
<1>2. CASE StopCleanly
  <2>1. /\ UNCHANGED <<hub, board, mine>> /\ finds' \in 0 .. MaxFinds
    BY <1>2, EquipmentCacheAssumption DEF StopCleanly, CacheInv
  <2>2. cacheFile' \in CacheFile /\ unsaved' \in BOOLEAN /\ trouble' \in 0 .. MaxTrouble
    BY <1>2, SaveNowKeeps DEF StopCleanly
  <2> QED BY <2>1, <2>2 DEF CacheInv, PumpsHaveRoles, NoAnonymousRestored
<1>3. CASE DiscoverBoard
  BY <1>3, EquipmentCacheAssumption
     DEF DiscoverBoard, CacheInv, PumpsHaveRoles, NoAnonymousRestored, Boards
<1>4. CASE UNCHANGED cacheVars
  BY <1>4 DEF cacheVars, CacheInv, PumpsHaveRoles, NoAnonymousRestored
<1> QED BY <1>1, <1>2, <1>3, <1>4, DiscoverKeeps, KillKeeps DEF CacheNext

LEMMA CacheStart == ASSUME CacheInit PROVE CacheInv
<1>1. Absent \in FileDevice /\ Absent \in HubDevice
  BY DEF Absent, FileDevice, HubDevice, Anonymous
<1>2. Nothing \in [Hardware -> HubDevice] /\ Nothing \in [Hardware -> FileDevice]
  BY <1>1 DEF Nothing
<1>3. cacheFile \in CacheFile
  BY <1>2 DEF CacheInit, CacheFile, Boards
<1> QED BY <1>2, <1>3, EquipmentCacheAssumption
        DEF CacheInit, CacheInv, PumpsHaveRoles, NoAnonymousRestored, Boards

LEMMA CacheInvSafe == ASSUME CacheInv PROVE CacheSafe
<1>1. HubDevice \subseteq CachedDevice \cup {Absent} /\ FileDevice \subseteq CachedDevice \cup {Absent}
  BY DEF HubDevice, FileDevice
<1>2. hub \in [Hardware -> CachedDevice \cup {Absent}]
      /\ cacheFile.devices \in [Hardware -> CachedDevice \cup {Absent}]
  BY <1>1 DEF CacheInv, CacheFile
<1> QED BY <1>2 DEF CacheInv, CacheSafe, CacheTypeOK, CacheFile, Boards

-----------------------------------------------------------------------------
(* History.  First, what an insert does to the table: the row ids grow from*)
(* the largest one, which exists because the ids are bounded.              *)

LEMMA Least ==
  ASSUME NEW S \in SUBSET Nat, S # {}
  PROVE  \E m \in S : \A k \in S : m <= k
<1> DEFINE R == OpToRel(<, Nat)
<1>1. IsWellFoundedOn(R, Nat)
  BY NatLessThanWellFounded
<1>2. \A i, j \in Nat : i < j => <<i, j>> \in R
  BY DEF OpToRel
<1> HIDE DEF R
<1>3. PICK x \in S : \A y \in S : ~ (<<y, x>> \in R)
  BY <1>1, WFMin, Zenon
<1>4. ASSUME NEW y \in S PROVE x <= y
  <2>1. ~(y < x)
    BY <1>2, <1>3, Zenon
  <2> QED BY <2>1
<1> QED BY <1>4

Bounded(S) == S \subseteq Nat \ {0} /\ \E m \in Nat : \A i \in S : i <= m

LEMMA LastRowLargest ==
  ASSUME NEW rs, Bounded(DOMAIN rs)
  PROVE  LastRow(rs) \in Nat /\ \A i \in DOMAIN rs : i <= LastRow(rs)
<1>1. CASE DOMAIN rs = {}
  BY <1>1 DEF LastRow
<1>2. CASE DOMAIN rs # {}
  <2>1. PICK m \in Nat : \A i \in DOMAIN rs : i <= m
    BY DEF Bounded
  <2> DEFINE T == {n \in Nat : \E i \in DOMAIN rs : n = m - i}
  <2>2. T # {} /\ T \in SUBSET Nat
    <3>1. PICK i \in DOMAIN rs : TRUE
      BY <1>2
    <3>2. m - i \in Nat
      BY <2>1 DEF Bounded
    <3> QED BY <3>2
  <2>3. PICK n \in T : \A k \in T : n <= k
    BY <2>2, Least
  <2>4. PICK x \in DOMAIN rs : n = m - x
    OBVIOUS
  <2>5. ASSUME NEW y \in DOMAIN rs PROVE x >= y
    <3>1. m - y \in T
      BY <2>1 DEF Bounded
    <3>2. m - x <= m - y /\ x \in Nat /\ y \in Nat
      BY <2>3, <2>4, <3>1 DEF Bounded
    <3> QED BY <3>2
  <2>6. Max(DOMAIN rs) \in DOMAIN rs /\ \A y \in DOMAIN rs : Max(DOMAIN rs) >= y
    BY <2>5, Zenon DEF Max
  <2>7. Max(DOMAIN rs) \in Nat /\ \A y \in DOMAIN rs : y \in Nat
    BY <2>6 DEF Bounded
  <2> QED BY <1>2, <2>6, <2>7 DEF LastRow
<1> QED BY <1>1, <1>2

LEMMA InsertedRows ==
  ASSUME NEW rs, Bounded(DOMAIN rs), NEW q, NEW S, q \in Seq(S)
  PROVE  /\ Bounded(DOMAIN Inserted(rs, q))
         /\ \A i \in DOMAIN rs : i \in DOMAIN Inserted(rs, q) /\ Inserted(rs, q)[i] = rs[i]
         /\ \A j \in DOMAIN q : /\ LastRow(rs) + j \in DOMAIN Inserted(rs, q) \ DOMAIN rs
                                /\ Inserted(rs, q)[LastRow(rs) + j] = q[j]
         /\ \A i \in DOMAIN Inserted(rs, q) :
              i \in DOMAIN rs \/ \E j \in DOMAIN q : i = LastRow(rs) + j
<1> DEFINE l == LastRow(rs)
<1>1. l \in Nat /\ \A i \in DOMAIN rs : i <= l /\ i \in Nat \ {0}
  BY LastRowLargest DEF Bounded
<1>2. /\ DOMAIN Inserted(rs, q) = DOMAIN rs \cup {l + j : j \in DOMAIN q}
      /\ \A i \in DOMAIN Inserted(rs, q) :
           Inserted(rs, q)[i] = IF i \in DOMAIN rs THEN rs[i] ELSE q[i - l]
  BY DEF Inserted
<1>3. DOMAIN q = 1 .. Len(q) /\ Len(q) \in Nat
  OBVIOUS
<1> HIDE DEF l
<1>4. \A j \in DOMAIN q : l + j \notin DOMAIN rs /\ (l + j) - l = j
  BY <1>1, <1>3
<1>5. Bounded(DOMAIN Inserted(rs, q))
  <2>1. \A i \in DOMAIN Inserted(rs, q) : i \in Nat \ {0} /\ i <= l + Len(q)
    BY <1>1, <1>2, <1>3
  <2>2. l + Len(q) \in Nat
    BY <1>1, <1>3
  <2> QED BY <2>1, <2>2 DEF Bounded
<1>6. \A j \in DOMAIN q : /\ l + j \in DOMAIN Inserted(rs, q) \ DOMAIN rs
                          /\ Inserted(rs, q)[l + j] = q[j]
  BY <1>2, <1>4
<1>7. \A i \in DOMAIN rs : i \in DOMAIN Inserted(rs, q) /\ Inserted(rs, q)[i] = rs[i]
  BY <1>2
<1>8. \A i \in DOMAIN Inserted(rs, q) : i \in DOMAIN rs \/ \E j \in DOMAIN q : i = l + j
  BY <1>2
<1> QED BY <1>5, <1>6, <1>7, <1>8 DEF l

-----------------------------------------------------------------------------
(* The invariant: no sample is later than the clock, the legacy key is only*)
(* that of rows, and the merge cannot meet it in the buffer or the cache.  *)

Sample == [n : 1 .. MaxSamples, key : Keys, ts : 0 .. MaxTime]

RowsOK ==
  /\ Bounded(DOMAIN rows)
  /\ \A i \in DOMAIN rows : rows[i] \in Sample /\ rows[i].ts <= now /\ rows[i].key \in table
  /\ \A i, j \in DOMAIN rows : rows[i].n = rows[j].n => i = j

BufferOK ==
  /\ buffered \in Seq(Sample)
  /\ \A i \in DOMAIN buffered : buffered[i].ts <= now /\ buffered[i].key \in table \ {Legacy}
  /\ \A i, j \in DOMAIN buffered : buffered[i].n = buffered[j].n => i = j

CountsOK ==
  /\ recording \in BOOLEAN /\ table \subseteq Keys /\ ids \subseteq table \ {Legacy} /\ merged \subseteq {Legacy}
  /\ lastTs \in [Keys -> -1 .. MaxTime] /\ now \in 0 .. MaxTime
  /\ taken \in 0 .. MaxSamples /\ faults \in 0 .. MaxFaults

HistInv == CountsOK /\ RowsOK /\ BufferOK /\ InRows \cap InBuffer = {} /\ NothingLost

HistNats == MaxSamples \in Nat \ {0} /\ MaxFaults \in Nat /\ MaxTime \in Nat /\ MinInterval \in Nat /\ Retention \in Nat

LEMMA HistBounds == HistNats
BY HistoryAssumption DEF HistNats

(* A sample goes into the buffer.                                          *)
LEMMA SampleBuffered ==
  ASSUME HistInv, NEW key \in Keys \ {Legacy}, taken < MaxSamples, Buffered(key), now' = now,
         key \in table', table \ {Legacy} \subseteq table'
  PROVE  /\ BufferOK' /\ InBuffer' = InBuffer \cup {taken + 1}
         /\ taken' = taken + 1 /\ taken' \in 0 .. MaxSamples /\ lastTs' \in [Keys -> -1 .. MaxTime]
<1> DEFINE s == [n |-> taken + 1, key |-> key, ts |-> now]
<1>1. /\ taken' = taken + 1 /\ buffered' = Append(buffered, s) /\ lastTs' = [lastTs EXCEPT ![key] = now]
  BY DEF Buffered
<1>2. s \in Sample /\ s.n = taken + 1 /\ s.ts = now /\ s.key = key
  BY HistBounds DEF HistInv, CountsOK, Sample, HistNats
<1> HIDE DEF s
<1>3. buffered \in Seq(Sample)
  BY DEF HistInv, BufferOK
<1>4. /\ buffered' \in Seq(Sample) /\ DOMAIN buffered' = DOMAIN buffered \cup {Len(buffered) + 1}
      /\ Len(buffered) + 1 \notin DOMAIN buffered /\ buffered'[Len(buffered) + 1] = s
      /\ \A i \in DOMAIN buffered : buffered'[i] = buffered[i]
  BY <1>1, <1>2, <1>3
<1>5. \A i \in DOMAIN buffered : buffered[i].n # taken + 1
  <2>1. InBuffer \subseteq 1 .. taken /\ taken \in Nat
    BY HistBounds DEF HistInv, NothingLost, CountsOK, HistNats
  <2> QED BY <2>1 DEF InBuffer
<1>6. now <= now
  BY HistBounds DEF HistInv, CountsOK, HistNats
<1>7. \A i \in DOMAIN buffered' : buffered'[i].ts <= now /\ buffered'[i].key \in table' \ {Legacy}
  BY <1>2, <1>4, <1>6 DEF HistInv, BufferOK
<1>8. \A i, j \in DOMAIN buffered' : buffered'[i].n = buffered'[j].n => i = j
  BY <1>2, <1>4, <1>5 DEF HistInv, BufferOK
<1>9. BufferOK'
  BY <1>4, <1>7, <1>8 DEF BufferOK
<1>10. InBuffer' = InBuffer \cup {taken + 1}
  BY <1>2, <1>4 DEF InBuffer
<1>11. taken' \in 0 .. MaxSamples /\ lastTs' \in [Keys -> -1 .. MaxTime]
  BY <1>1, HistBounds DEF HistInv, CountsOK, HistNats
<1> QED BY <1>1, <1>9, <1>10, <1>11

(* The rows after a step that inserts none, re-pointed or not.             *)
LEMMA RowsRepointed ==
  ASSUME HistInv, now' = now, rows' = rows \/ rows' = Repointed(rows),
         \A i \in DOMAIN rows : rows'[i].key \in table'
  PROVE  RowsOK' /\ InRows' = InRows
<1>1. /\ DOMAIN rows' = DOMAIN rows
      /\ \A i \in DOMAIN rows : rows'[i] \in Sample /\ rows'[i].n = rows[i].n /\ rows'[i].ts = rows[i].ts
  <2>1. CASE rows' = rows
    BY <2>1 DEF HistInv, RowsOK
  <2>2. CASE rows' = Repointed(rows)
    <3>1. \A i \in DOMAIN rows : rows'[i] = IF rows[i].key = Legacy THEN [rows[i] EXCEPT !.key = Device] ELSE rows[i]
      BY <2>2 DEF Repointed
    <3>2. DOMAIN rows' = DOMAIN rows
      BY <2>2 DEF Repointed
    <3>3. \A s \in Sample : /\ [s EXCEPT !.key = Device] \in Sample
                            /\ [s EXCEPT !.key = Device].n = s.n /\ [s EXCEPT !.key = Device].ts = s.ts
      BY DEF Sample, Keys
    <3> QED BY <3>1, <3>2, <3>3 DEF HistInv, RowsOK
  <2> QED BY <2>1, <2>2
<1>2. RowsOK'
  BY <1>1 DEF HistInv, RowsOK
<1>3. InRows' = InRows
  BY <1>1 DEF InRows
<1> QED BY <1>2, <1>3

(* A step that leaves the stored and the buffered samples alone.           *)
LEMMA HistStays ==
  ASSUME HistInv, UNCHANGED <<rows, buffered, table, now, taken, gone>>, CountsOK'
  PROVE  HistInv'
<1>1. RowsOK'
  BY DEF HistInv, RowsOK
<1>2. BufferOK'
  BY DEF HistInv, BufferOK
<1>3. InRows' = InRows /\ InBuffer' = InBuffer
  BY DEF InRows, InBuffer
<1> QED BY <1>1, <1>2, <1>3 DEF HistInv, NothingLost

LEMMA RecordNumericKeeps ==
  ASSUME HistInv, NEW heartbeat, RecordNumeric(heartbeat)
  PROVE  HistInv'
<1>1. UNCHANGED <<recording, rows, merged, now, gone>> /\ taken < MaxSamples
  BY DEF RecordNumeric
<1>2. CASE Works /\ EnsureSeries(Numeric) /\ Buffered(Numeric)
  <2>1. table' = table \cup {Numeric} /\ ids' = ids \cup {Numeric} /\ faults' = faults
    BY <1>2 DEF EnsureSeries, Works
  <2>2. Numeric \in Keys \ {Legacy} /\ Numeric \in table' /\ table \ {Legacy} \subseteq table'
    BY <2>1 DEF Keys, Numeric, Legacy
  <2>3. /\ BufferOK' /\ InBuffer' = InBuffer \cup {taken + 1}
        /\ taken' = taken + 1 /\ taken' \in 0 .. MaxSamples /\ lastTs' \in [Keys -> -1 .. MaxTime]
    BY <1>1, <1>2, <2>2, SampleBuffered
  <2>4. \A i \in DOMAIN rows : rows'[i].key \in table'
    BY <1>1, <2>1 DEF HistInv, RowsOK
  <2>5. RowsOK' /\ InRows' = InRows
    BY <1>1, <2>4, RowsRepointed
  <2>6. InRows \subseteq 1 .. taken /\ 1 .. taken + 1 = 1 .. taken \cup {taken + 1} /\ taken + 1 \notin 1 .. taken
    BY HistBounds DEF HistInv, NothingLost, CountsOK, HistNats
  <2>7. CountsOK'
    BY <1>1, <2>1, <2>2, <2>3 DEF HistInv, CountsOK
  <2> QED BY <1>1, <2>3, <2>5, <2>6, <2>7 DEF HistInv, NothingLost
<1>3. CASE Fault /\ UNCHANGED <<table, ids, taken, buffered, lastTs>>
  <2>1. faults' \in 0 .. MaxFaults
    BY <1>3, HistBounds DEF Fault, HistInv, CountsOK, HistNats
  <2>2. CountsOK'
    BY <1>1, <1>3, <2>1 DEF HistInv, CountsOK
  <2> QED BY <1>1, <1>3, <2>2, HistStays
<1> QED BY <1>2, <1>3 DEF RecordNumeric

LEMMA RecordDeviceKeeps ==
  ASSUME HistInv, RecordDeviceState
  PROVE  HistInv'
<1>1. UNCHANGED <<recording, now, gone>> /\ taken < MaxSamples /\ merged' = merged \cup {Legacy}
  BY DEF RecordDeviceState
<1>2. Device \in Keys \ {Legacy} /\ Legacy \in Keys /\ Device # Legacy
  BY DEF Keys, Device, Legacy
<1>3. ASSUME Buffered(Device), Works, ids' = ids \cup {Device},
             \/ table' = table \cup {Device} /\ rows' = rows
             \/ table' = (table \cup {Device}) \ {Legacy} /\ rows' = Repointed(rows)
      PROVE  HistInv'
  <2>1. Device \in table' /\ table \ {Legacy} \subseteq table' /\ table' \subseteq table \cup {Device}
    BY <1>2, <1>3
  <2>2. /\ BufferOK' /\ InBuffer' = InBuffer \cup {taken + 1}
        /\ taken' = taken + 1 /\ taken' \in 0 .. MaxSamples /\ lastTs' \in [Keys -> -1 .. MaxTime]
    BY <1>1, <1>2, <1>3, <2>1, SampleBuffered
  <2>3. ASSUME NEW i \in DOMAIN rows PROVE rows'[i].key \in table'
    <3>1. rows[i].key \in table /\ rows[i] \in Sample
      BY DEF HistInv, RowsOK
    <3>2. CASE rows' = rows /\ table' = table \cup {Device}
      BY <3>1, <3>2
    <3>3. CASE rows' = Repointed(rows) /\ table' = (table \cup {Device}) \ {Legacy}
      <4>1. rows'[i] = IF rows[i].key = Legacy THEN [rows[i] EXCEPT !.key = Device] ELSE rows[i]
        BY <3>3 DEF Repointed
      <4>2. [rows[i] EXCEPT !.key = Device].key = Device
        BY <3>1 DEF Sample
      <4> QED BY <1>2, <3>1, <3>3, <4>1, <4>2
    <3> QED BY <1>3, <3>2, <3>3
  <2>4. RowsOK' /\ InRows' = InRows
    BY <1>1, <1>3, <2>3, RowsRepointed
  <2>5. InRows \subseteq 1 .. taken /\ 1 .. taken + 1 = 1 .. taken \cup {taken + 1} /\ taken + 1 \notin 1 .. taken
    BY HistBounds DEF HistInv, NothingLost, CountsOK, HistNats
  <2>6. CountsOK'
    BY <1>1, <1>2, <1>3, <2>1, <2>2 DEF HistInv, CountsOK, Works
  <2> QED BY <1>1, <2>2, <2>4, <2>5, <2>6 DEF HistInv, NothingLost
<1>4. ASSUME Fault, ids' = ids \cup {Device}, table' = table \cup {Device},
             UNCHANGED <<rows, taken, buffered, lastTs>>
      PROVE  HistInv'
  <2>1. faults' \in 0 .. MaxFaults
    BY <1>4, HistBounds DEF Fault, HistInv, CountsOK, HistNats
  <2>2. CountsOK'
    BY <1>1, <1>2, <1>4, <2>1 DEF HistInv, CountsOK
  <2>3. RowsOK'
    BY <1>1, <1>4 DEF HistInv, RowsOK
  <2>4. BufferOK'
    BY <1>1, <1>4 DEF HistInv, BufferOK
  <2> QED BY <1>1, <1>4, <2>2, <2>3, <2>4 DEF HistInv, NothingLost, InRows, InBuffer
<1> QED BY <1>3, <1>4 DEF RecordDeviceState, EnsureSeries, MergeLegacyDeviceSeries

LEMMA FaultCounts ==
  ASSUME HistInv, Works \/ Fault
  PROVE  faults' \in 0 .. MaxFaults
BY HistBounds DEF Works, Fault, HistInv, CountsOK, HistNats

(* The whole buffer goes into the table, or nothing.                       *)
LEMMA FlushKeeps ==
  ASSUME HistInv, NEW ok \in BOOLEAN, FlushTo(ok), Works \/ Fault, recording' \in BOOLEAN,
         UNCHANGED <<table, ids, merged, lastTs, now, taken, gone>>
  PROVE  HistInv'
<1>1. CountsOK'
  BY FaultCounts DEF HistInv, CountsOK
<1>2. CASE ~ok
  <2>1. UNCHANGED <<rows, buffered>>
    BY <1>2 DEF FlushTo
  <2>2. RowsOK' /\ BufferOK'
    BY <2>1 DEF HistInv, RowsOK, BufferOK
  <2> QED BY <1>1, <2>1, <2>2 DEF HistInv, NothingLost, InRows, InBuffer
<1>3. CASE ok
  <2> DEFINE l == LastRow(rows)
  <2>1. rows' = Inserted(rows, buffered) /\ buffered' = <<>>
    BY <1>3 DEF FlushTo
  <2>2. Bounded(DOMAIN rows) /\ buffered \in Seq(Sample)
    BY DEF HistInv, RowsOK, BufferOK
  <2>3. /\ Bounded(DOMAIN rows')
        /\ \A i \in DOMAIN rows : i \in DOMAIN rows' /\ rows'[i] = rows[i]
        /\ \A j \in DOMAIN buffered : l + j \in DOMAIN rows' \ DOMAIN rows /\ rows'[l + j] = buffered[j]
        /\ \A i \in DOMAIN rows' : i \in DOMAIN rows \/ \E j \in DOMAIN buffered : i = l + j
    BY <2>1, <2>2, InsertedRows
  <2> HIDE DEF l
  <2>4. \A i \in DOMAIN rows : rows[i] \in Sample /\ rows[i].ts <= now /\ rows[i].key \in table
    BY DEF HistInv, RowsOK
  <2>5. \A j \in DOMAIN buffered : /\ buffered[j] \in Sample /\ buffered[j].ts <= now
                                   /\ buffered[j].key \in table
    BY <2>2 DEF HistInv, BufferOK
  <2>6. ASSUME NEW i \in DOMAIN rows'
        PROVE  rows'[i] \in Sample /\ rows'[i].ts <= now /\ rows'[i].key \in table
    BY <2>3, <2>4, <2>5
  <2>7. ASSUME NEW i \in DOMAIN rows', NEW j \in DOMAIN rows', rows'[i].n = rows'[j].n
        PROVE  i = j
    <3>1. \A a \in DOMAIN rows, b \in DOMAIN buffered : rows[a].n # buffered[b].n
      BY DEF HistInv, InRows, InBuffer
    <3>2. /\ \A a, b \in DOMAIN rows : rows[a].n = rows[b].n => a = b
          /\ \A a, b \in DOMAIN buffered : buffered[a].n = buffered[b].n => a = b
      BY DEF HistInv, RowsOK, BufferOK
    <3>3. CASE i \in DOMAIN rows /\ j \in DOMAIN rows
      BY <2>3, <2>7, <3>2, <3>3
    <3>4. CASE i \in DOMAIN rows /\ j \notin DOMAIN rows
      BY <2>3, <2>7, <3>1, <3>4
    <3>5. CASE i \notin DOMAIN rows /\ j \in DOMAIN rows
      BY <2>3, <2>7, <3>1, <3>5
    <3>6. CASE i \notin DOMAIN rows /\ j \notin DOMAIN rows
      BY <2>3, <2>7, <3>2, <3>6
    <3> QED BY <3>3, <3>4, <3>5, <3>6
  <2>8. RowsOK'
    BY <2>3, <2>6, <2>7 DEF RowsOK
  <2>9. BufferOK' /\ InBuffer' = {}
    BY <2>1 DEF BufferOK, InBuffer
  <2>10. InRows' = InRows \cup InBuffer
    <3>1. \A i \in DOMAIN rows' : rows'[i].n \in InRows \cup InBuffer
      BY <2>3 DEF InRows, InBuffer
    <3>2. \A x \in InRows : \E i \in DOMAIN rows' : rows'[i].n = x
      BY <2>3 DEF InRows
    <3>3. \A x \in InBuffer : \E i \in DOMAIN rows' : rows'[i].n = x
      BY <2>3 DEF InBuffer
    <3>4. InRows' = {rows'[i].n : i \in DOMAIN rows'}
      BY DEF InRows
    <3> QED BY <3>1, <3>2, <3>3, <3>4
  <2> QED BY <1>1, <2>8, <2>9, <2>10 DEF HistInv, NothingLost
<1> QED BY <1>2, <1>3

LEMMA PurgeKeeps ==
  ASSUME HistInv, PurgeOld
  PROVE  HistInv'
<1> DEFINE kept == {i \in DOMAIN rows : Kept(rows[i])}
           old == {rows[i].n : i \in {j \in DOMAIN rows : ~Kept(rows[j])}}
<1>1. /\ rows' = [i \in kept |-> rows[i]] /\ gone' = gone \cup old
      /\ UNCHANGED <<recording, table, ids, merged, buffered, lastTs, now, taken, faults>>
  BY DEF PurgeOld, Works
<1>2. DOMAIN rows' \subseteq DOMAIN rows /\ \A i \in DOMAIN rows' : rows'[i] = rows[i]
  BY <1>1
<1>3. RowsOK'
  <2>1. Bounded(DOMAIN rows')
    BY <1>2 DEF HistInv, RowsOK, Bounded
  <2> QED BY <1>1, <1>2, <2>1 DEF HistInv, RowsOK
<1>4. BufferOK' /\ InBuffer' = InBuffer /\ CountsOK'
  BY <1>1 DEF HistInv, BufferOK, InBuffer, CountsOK
<1>5. InRows' = {rows[i].n : i \in kept}
  BY <1>1 DEF InRows
<1>6. InRows = InRows' \cup old /\ InRows' \subseteq InRows
  BY <1>5 DEF InRows
<1> HIDE DEF kept, old
<1> QED BY <1>1, <1>3, <1>4, <1>6 DEF HistInv, NothingLost

LEMMA CrashKeeps ==
  ASSUME HistInv, HistoryCrash
  PROVE  HistInv'
<1>1. /\ recording' = TRUE /\ ids' = {} /\ merged' = {} /\ buffered' = <<>>
      /\ lastTs' = [k \in Keys |-> -1] /\ gone' = gone \cup InBuffer
      /\ UNCHANGED <<table, rows, now, taken>> /\ Fault
  BY DEF HistoryCrash, InBuffer
<1>2. CountsOK'
  BY <1>1, FaultCounts, HistBounds DEF HistInv, CountsOK, HistNats
<1>3. RowsOK' /\ InRows' = InRows
  BY <1>1 DEF HistInv, RowsOK, InRows
<1>4. BufferOK' /\ InBuffer' = {}
  BY <1>1 DEF BufferOK, InBuffer
<1> QED BY <1>1, <1>2, <1>3, <1>4 DEF HistInv, NothingLost

LEMMA ClockKeeps ==
  ASSUME HistInv, HistoryClock
  PROVE  HistInv'
<1>1. /\ now < MaxTime /\ now' = now + 1
      /\ UNCHANGED <<recording, table, rows, ids, merged, buffered, lastTs, taken, faults, gone>>
  BY DEF HistoryClock
<1>2. now' \in 0 .. MaxTime /\ \A t \in 0 .. MaxTime : t <= now => t <= now'
  BY <1>1, HistBounds DEF HistInv, CountsOK, HistNats
<1>3. CountsOK'
  BY <1>1, <1>2 DEF HistInv, CountsOK
<1>4. RowsOK'
  BY <1>1, <1>2 DEF HistInv, RowsOK, Sample
<1>5. BufferOK'
  <2>1. ASSUME NEW i \in DOMAIN buffered PROVE buffered[i].ts \in 0 .. MaxTime
    <3>1. buffered \in Seq(Sample)
      BY DEF HistInv, BufferOK
    <3>2. buffered[i] \in Sample
      BY <3>1
    <3> QED BY <3>2 DEF Sample
  <2> QED BY <1>1, <1>2, <2>1 DEF HistInv, BufferOK
<1> QED BY <1>1, <1>3, <1>4, <1>5 DEF HistInv, NothingLost, InRows, InBuffer

LEMMA HistStep ==
  ASSUME HistInv, [HistoryNext]_histVars
  PROVE  HistInv'
<1>1. CASE RecordDeviceFails
  <2>1. /\ UNCHANGED <<recording, table, rows, ids, merged, buffered, lastTs, now, taken, gone>>
        /\ Works \/ Fault
    BY <1>1 DEF RecordDeviceFails
  <2>2. CountsOK'
    BY <2>1, FaultCounts DEF HistInv, CountsOK
  <2> QED BY <2>1, <2>2, HistStays
<1>2. CASE Flush
  <2>1. recording' \in BOOLEAN
    BY <1>2 DEF Flush, HistInv, CountsOK
  <2> QED BY <1>2, <2>1, FlushKeeps DEF Flush
<1>3. CASE StopHistory
  BY <1>3, FlushKeeps DEF StopHistory
<1>4. CASE StartHistory
  <2>1. CountsOK' /\ UNCHANGED <<rows, buffered, table, now, taken, gone>>
    BY <1>4 DEF StartHistory, HistInv, CountsOK
  <2> QED BY <2>1, HistStays
<1>5. CASE UNCHANGED histVars
  <2>1. CountsOK' /\ UNCHANGED <<rows, buffered, table, now, taken, gone>>
    BY <1>5 DEF histVars, HistInv, CountsOK
  <2> QED BY <2>1, HistStays
<1> QED BY <1>1, <1>2, <1>3, <1>4, <1>5, RecordNumericKeeps, RecordDeviceKeeps, PurgeKeeps,
           CrashKeeps, ClockKeeps, Zenon
        DEF HistoryNext, OnConfigEvent, Heartbeat

LEMMA HistStart == ASSUME HistoryInit PROVE HistInv
<1>1. BufferOK /\ InBuffer = {} /\ gone = {}
  BY DEF HistoryInit, BufferOK, InBuffer
<1>2. CASE table = {} /\ rows = <<>> /\ taken = 0
  <2>1. RowsOK /\ InRows = {}
    BY <1>2 DEF RowsOK, InRows, Bounded
  <2>2. CountsOK
    BY <1>2, HistBounds DEF HistoryInit, CountsOK, HistNats
  <2> QED BY <1>1, <1>2, <2>1, <2>2 DEF HistInv, NothingLost
<1>3. CASE table = {Legacy} /\ rows = <<[n |-> 1, key |-> Legacy, ts |-> 0]>> /\ taken = 1
  <2>1. DOMAIN rows = {1} /\ rows[1] = [n |-> 1, key |-> Legacy, ts |-> 0]
    BY <1>3
  <2>2. rows[1] \in Sample
    BY <2>1, HistBounds DEF Sample, Keys, HistNats
  <2>3. RowsOK
    BY <1>3, <2>1, <2>2 DEF RowsOK, Bounded, HistoryInit
  <2>4. InRows = {1}
    BY <2>1 DEF InRows
  <2>5. CountsOK
    BY <1>3, HistBounds DEF HistoryInit, CountsOK, HistNats, Keys
  <2> QED BY <1>1, <1>3, <2>3, <2>4, <2>5 DEF HistInv, NothingLost
<1> QED BY <1>2, <1>3 DEF HistoryInit

(* Buckets of equal width: a time lies in the bucket of its quotient, and  *)
(* as many buckets as there are quotients cover a range.                   *)
LEMMA Divides ==
  ASSUME NEW a \in Nat, NEW w \in Nat \ {0}
  PROVE  a \div w \in Nat /\ (a \div w) * w <= a /\ a < (a \div w) * w + w
OBVIOUS

LEMMA WidthIsPositive ==
  ASSUME NEW t \in Nat, NEW points \in 1 .. 2
  PROVE  /\ Width(0, t, points) \in Nat \ {0}
         /\ t \div Width(0, t, points) < 2 * points
<1>1. points \in Nat \ {0} /\ t - 0 = t
  OBVIOUS
<1> DEFINE q == t \div points
<1>2. q \in Nat /\ t < q * points + points
  BY <1>1, Divides
<1>3. Width(0, t, points) = IF q < 1 THEN 1 ELSE q
  BY <1>1 DEF Width
<1> HIDE DEF q
<1>4. CASE q < 1
  <2>1. q = 0 /\ Width(0, t, points) = 1
    BY <1>2, <1>3, <1>4
  <2>2. t < points /\ t \div 1 = t
    <3>1. q * points = 0
      BY <1>1, <2>1
    <3>2. t \div 1 = t
      OBVIOUS
    <3> QED BY <1>1, <1>2, <3>1, <3>2
  <2> QED BY <1>1, <2>1, <2>2
<1>5. CASE q >= 1
  <2>1. Width(0, t, points) = q /\ q \in Nat \ {0}
    BY <1>2, <1>3, <1>5
  <2> DEFINE x == t \div q
  <2>2. x \in Nat /\ x * q <= t
    BY <2>1, Divides
  <2> HIDE DEF x
  <2>3. CASE points = 1
    <3>1. t < q + q
      BY <1>2, <2>1, <2>3
    <3>2. ASSUME x >= 2 PROVE FALSE
      <4>1. x * q >= 2 * q
        BY <2>1, <2>2, <3>2
      <4> QED BY <2>1, <2>2, <3>1, <4>1
    <3> QED BY <2>1, <2>2, <2>3, <3>2 DEF x
  <2>4. CASE points = 2
    <3>1. t < 4 * q
      BY <1>2, <2>1, <2>4
    <3>2. ASSUME x >= 4 PROVE FALSE
      <4>1. x * q >= 4 * q
        BY <2>1, <2>2, <3>2
      <4> QED BY <2>1, <2>2, <3>1, <4>1
    <3> QED BY <2>1, <2>2, <2>4, <3>2 DEF x
  <2> QED BY <2>3, <2>4
<1> QED BY <1>2, <1>4, <1>5

LEMMA FewBuckets ==
  ASSUME NEW n \in Nat, NEW w \in Nat, NEW B, B \subseteq {x * w : x \in 0 .. n - 1}
  PROVE  IsFiniteSet(B) /\ Cardinality(B) <= n
<1> DEFINE D == 0 .. n - 1
           T == {x * w : x \in D}
           f == [x \in D |-> x * w]
<1>1. IsFiniteSet(D) /\ Cardinality(D) = n
  <2>1. IsFiniteSet(D) /\ Cardinality(D) = IF 0 > n - 1 THEN 0 ELSE (n - 1) - 0 + 1
    BY FS_Interval
  <2> QED BY <2>1
<1>2. f \in Surjection(D, T)
  BY DEF Surjection
<1>3. IsFiniteSet(T) /\ Cardinality(T) <= n
  BY <1>1, <1>2, FS_Surjection
<1> HIDE DEF T
<1>4. B \subseteq T
  BY DEF T
<1>5. IsFiniteSet(B) /\ Cardinality(B) <= Cardinality(T)
  BY <1>3, <1>4, FS_Subset
<1> QED BY <1>3, <1>5, FS_CardinalityType

LEMMA QueriesAreComplete == ASSUME HistInv PROVE QueriesComplete
<1> SUFFICES ASSUME NEW points \in 1 .. 2
             PROVE  /\ \A i \in DOMAIN rows :
                         \E k \in ListSeries : \E b \in QuerySeries(k, 0, now, points) :
                            b <= rows[i].ts /\ rows[i].ts < b + Width(0, now, points)
                    /\ \A k \in Keys : Cardinality(QuerySeries(k, 0, now, points)) <= 2 * points
  BY DEF QueriesComplete
<1> DEFINE w == Width(0, now, points)
<1>1. now \in Nat
  BY HistBounds DEF HistInv, CountsOK, HistNats
<1>2. w \in Nat \ {0} /\ now \div w < 2 * points
  BY <1>1, WidthIsPositive
<1>3. \A k : QuerySeries(k, 0, now, points) =
               {(rows[i].ts \div w) * w : i \in {j \in DOMAIN rows : /\ rows[j].key = k /\ k \in table
                                                                    /\ rows[j].ts \in 0 .. now}}
  BY DEF QuerySeries
<1> HIDE DEF w
<1>4. ASSUME NEW i \in DOMAIN rows
      PROVE  rows[i].ts \in 0 .. now /\ rows[i].ts \in Nat /\ rows[i].key \in table
  BY HistBounds, <1>1 DEF HistInv, RowsOK, Sample, HistNats
<1>5. ASSUME NEW i \in DOMAIN rows
      PROVE  \E k \in ListSeries : \E b \in QuerySeries(k, 0, now, points) :
               b <= rows[i].ts /\ rows[i].ts < b + w
  <2> DEFINE b == (rows[i].ts \div w) * w
  <2>1. rows[i].key \in ListSeries
    BY <1>4 DEF ListSeries
  <2>2. b \in QuerySeries(rows[i].key, 0, now, points)
    BY <1>3, <1>4
  <2>3. b <= rows[i].ts /\ rows[i].ts < b + w
    BY <1>2, <1>4, Divides
  <2> QED BY <2>1, <2>2, <2>3
<1>6. ASSUME NEW k \in Keys
      PROVE  Cardinality(QuerySeries(k, 0, now, points)) <= 2 * points
  <2>1. \A i \in DOMAIN rows : rows[i].ts \div w \in 0 .. 2 * points - 1
    <3> SUFFICES ASSUME NEW i \in DOMAIN rows PROVE rows[i].ts \div w \in 0 .. 2 * points - 1
      OBVIOUS
    <3> DEFINE t == rows[i].ts
               a == t \div w
               c == now \div w
    <3>1. t \in Nat /\ t <= now
      BY <1>1, <1>4
    <3>2. a \in Nat /\ a * w <= t /\ c \in Nat /\ now < c * w + w
      BY <1>1, <1>2, <3>1, Divides
    <3>3. c < 2 * points
      BY <1>2
    <3> HIDE DEF t, a, c
    <3>4. a <= c
      <4>1. ASSUME a >= c + 1 PROVE FALSE
        <5>1. a * w >= (c + 1) * w /\ (c + 1) * w = c * w + w
          BY <1>2, <3>2, <4>1
        <5> QED BY <1>1, <1>2, <3>1, <3>2, <5>1
      <4> QED BY <3>2, <4>1
    <3>5. a \in 0 .. 2 * points - 1
      BY <3>2, <3>3, <3>4
    <3> QED BY <3>5 DEF a, t
  <2>2. QuerySeries(k, 0, now, points) \subseteq {x * w : x \in 0 .. 2 * points - 1}
    BY <1>3, <2>1
  <2>3. 2 * points \in Nat /\ w \in Nat
    BY <1>2
  <2> QED BY <2>2, <2>3, FewBuckets
<1> QED BY <1>5, <1>6 DEF w

LEMMA HistInvSafe == ASSUME HistInv PROVE HistorySafe
<1>1. HistoryTypeOK
  <2>1. \A i \in DOMAIN buffered : buffered[i] \in Sample
    BY DEF HistInv, BufferOK
  <2>2. gone \subseteq 1 .. MaxSamples
    <3>1. 1 .. taken \subseteq 1 .. MaxSamples
      BY HistBounds DEF HistInv, CountsOK, HistNats
    <3> QED BY <3>1 DEF HistInv, NothingLost
  <2> QED BY <2>1, <2>2 DEF HistInv, CountsOK, RowsOK, HistoryTypeOK, Sample
<1>2. StoredOnce
  BY DEF HistInv, RowsOK, StoredOnce
<1>3. NoStrays
  BY DEF HistInv, RowsOK, BufferOK, CountsOK, NoStrays
<1> QED BY <1>1, <1>2, <1>3, QueriesAreComplete DEF HistorySafe, HistInv

-----------------------------------------------------------------------------
(* The services together: a step is one service's, or leaves it alone.     *)

ServicesInv == WebInv /\ AlertsSafe /\ HistInv /\ CacheInv /\ PrefSafe /\ UserFileInv

(* The services that share the program's thread keep their promises: no    *)
(* queue without its socket (WebSocketManager), the alerts shown are the   *)
(* ones latched (AlertMonitor), every sample taken is stored once and found*)
(* by the queries (HistoryService), a restored pump has its role           *)
(* (EquipmentCacheService), and the files hold what the hubs show          *)
(* (PreferencesService).                                                   *)
THEOREM ServicesAreSafe == ServicesSpec => [](SocketsSafe /\ AlertsSafe /\ StoresSafe)
<1>1. ServicesInit => ServicesInv
  BY WebStart, AlertStart, HistStart, CacheStart, PrefStart DEF ServicesInit, ServicesInv
<1>2. ASSUME ServicesInv, [ServicesNext]_servicesVars
      PROVE  ServicesInv'
  <2>1. /\ [WebNext]_webVars /\ [AlertNext]_alertVars /\ [HistoryNext]_histVars
        /\ [CacheNext]_cacheVars /\ [PrefNext]_prefVars
    BY <1>2, Zenon DEF ServicesNext, servicesVars, storeVars
  <2> QED BY <1>2, <2>1, WebStep, AlertStep, HistStep, CacheStep, PrefStep DEF ServicesInv
<1>3. ServicesInv => SocketsSafe /\ AlertsSafe /\ StoresSafe
  BY WebInvSafe, HistInvSafe, CacheInvSafe DEF ServicesInv, StoresSafe
<1> QED BY <1>1, <1>2, <1>3, PTL DEF ServicesSpec
=============================================================================
