----------------------------- MODULE MqttClient -----------------------------
(***************************************************************************)
(* core/mqtt/mqtt_client.cpp: the connection state machine of the MQTT     *)
(* client, its reconnect timer and its bounded publish queue.              *)
(*                                                                         *)
(* Everything runs on the frame loop's thread; what interleaves are the    *)
(* completion handlers of asynchronous operations.  A handler belongs to   *)
(* the endpoint its operation was started on and may run after Stop(), or  *)
(* after a reconnect, replaced that endpoint: IsCurrent() is what makes it *)
(* harmless.  An expiry handler of the timer that is already queued is not *)
(* cancelled by cancel() and runs before handlers queued later.            *)
(***************************************************************************)
EXTENDS Naturals, Sequences, FiniteSets

CONSTANTS
  Endpoints,      \* identities of endpoint objects, 0 not among them
  MaxQueue,       \* MAX_PUBLISH_QUEUE_SIZE
  MaxPublishes,   \* bound on the published messages
  MaxOutages,     \* bound on the outages of the broker
  MaxStarts,      \* bound on the calls of Start
  AttemptRange,   \* the values of the reconnect counter, 2^16
  InitialDelay, MaxDelay, \* reconnect_delay_initial, reconnect_delay_max
  BrokerAnswers   \* the broker answers a CONNECT

ASSUME MqttClientAssumption ==
  /\ MaxQueue \in Nat \ {0} /\ MaxPublishes \in Nat /\ 0 \notin Endpoints
  /\ MaxOutages \in Nat /\ MaxStarts \in Nat /\ AttemptRange \in Nat \ {0}
  /\ InitialDelay \in Nat \ {0} /\ MaxDelay \in Nat \ {0}
  /\ BrokerAnswers \in BOOLEAN

VARIABLES
  running,    \* m_Running
  state,      \* m_State
  ep,         \* the active endpoint, 0 when there is none
  handlers,   \* pending completions [ep, at] of the connection chain
  armed,      \* an async_wait of the reconnect timer is pending
  fired,      \* expiry handlers that are queued to run
  attempts,   \* m_ReconnectAttempts
  delay,      \* the delay the timer was last set to
  queue,      \* m_PublishQueue, messages by their number
  inflight,   \* async_sends of PUBLISH that have not completed, [ep, id]
  up,         \* the broker can be reached and accepts the client
  outages, starts, published, \* counts of what the environment did
  delivered   \* number of the last message the broker took

conn == <<running, state, ep, handlers, armed, fired, attempts, delay>>
vars == <<conn, queue, inflight, up, outages, starts, published, delivered>>
-----------------------------------------------------------------------------
Least(a, b) == IF a < b THEN a ELSE b

(* Mutant: full jitter, a delay anywhere below the exponential one.        *)
FullJitterDelay(n) == 0 .. Least(InitialDelay * 2 ^ Least(n, 10), MaxDelay)

(* The delays CalculateReconnectDelay may return after n attempts: base    *)
(* times 2^min(n, 10), capped, plus up to a quarter of jitter.             *)
CalculateReconnectDelay(n) ==
  LET d == Least(InitialDelay * 2 ^ Least(n, 10), MaxDelay)
  IN  d .. (d + d \div 4)

IsCurrent(h) == running /\ ep = h.ep

(* BeginConnect replaces the active endpoint and starts its handshake.     *)
BeginConnect(rest) ==
  /\ state' = "Connecting"
  /\ \E e \in Endpoints :
        /\ e # ep
        /\ \A h \in rest : h.ep # e
        /\ \A k \in DOMAIN inflight : inflight[k].ep # e
        /\ ep' = e
        /\ handlers' = rest \cup {[ep |-> e, at |-> "handshake"]}

(* Mutant: the failed attempt is recorded and no timer is armed.           *)
ScheduleReconnectUnarmed(rest) ==
  /\ ep' = 0
  /\ handlers' = rest
  /\ state' = "Reconnecting"
  /\ attempts' = (attempts + 1) % AttemptRange
  /\ delay' \in CalculateReconnectDelay(attempts')
  /\ UNCHANGED <<running, armed, fired>>

(* ScheduleReconnect: close the endpoint, arm the timer.  The counter is   *)
(* 16 bits wide and wraps.                                                 *)
ScheduleReconnect(rest) ==
  /\ ep' = 0
  /\ handlers' = rest
  /\ state' = "Reconnecting"
  /\ attempts' = (attempts + 1) % AttemptRange
  /\ delay' \in CalculateReconnectDelay(attempts')
  /\ armed' = TRUE
  /\ UNCHANGED <<running, fired>>

(* Mutant: the failure is counted before IsCurrent is asked.               *)
BowOutCounting(h) ==
  /\ ~IsCurrent(h)
  /\ handlers' = handlers \ {h}
  /\ attempts' = (attempts + 1) % AttemptRange
  /\ UNCHANGED <<running, state, ep, armed, fired, delay>>

(* A handler that finds its endpoint superseded only returns.              *)
BowOut(h) ==
  /\ ~IsCurrent(h)
  /\ handlers' = handlers \ {h}
  /\ UNCHANGED <<running, state, ep, armed, fired, attempts, delay>>

Continue(h, next) ==
  /\ handlers' = (handlers \ {h}) \cup {[ep |-> h.ep, at |-> next]}
  /\ UNCHANGED <<running, ep, armed, fired, delay>>
-----------------------------------------------------------------------------
(* Completion handlers.  Those of the active endpoint were queued after    *)
(* an expiry handler left over from before Start, and run after it.        *)

HandshakeDone(h) ==
  /\ h.at = "handshake"
  /\ \/ BowOut(h)
     \/ IsCurrent(h) /\ fired = 0 /\ up /\ Continue(h, "connect")
                     /\ UNCHANGED <<state, attempts>>
     \/ IsCurrent(h) /\ fired = 0 /\ ~up /\ ScheduleReconnect(handlers \ {h})
  /\ UNCHANGED queue

ConnectSent(h) ==
  /\ h.at = "connect"
  /\ \/ BowOut(h)
     \/ IsCurrent(h) /\ up /\ Continue(h, "connack")
                     /\ UNCHANGED <<state, attempts>>
     \/ IsCurrent(h) /\ ~up /\ ScheduleReconnect(handlers \ {h})
  /\ UNCHANGED queue

(* The CONNACK accepts: OnConnected, the receive loop and a first flush.   *)
(* A broker that refuses is one that is not up.                            *)
HandleConnack(h) ==
  /\ h.at = "connack"
  /\ \/ BowOut(h)
     \/ /\ IsCurrent(h) /\ up /\ BrokerAnswers
        /\ state' = "Connected"
        /\ attempts' = 0
        /\ Continue(h, "recv")
     \/ IsCurrent(h) /\ ~up /\ ScheduleReconnect(handlers \ {h})
  /\ queue' = IF state' = "Connected" /\ state # "Connected" THEN <<>> ELSE queue

(* The connection breaks while the client waits for the next packet.  A    *)
(* packet that does arrive is delivered and the loop waits again, which    *)
(* changes nothing here.                                                   *)
RecvDone(h) ==
  /\ h.at = "recv"
  /\ \/ BowOut(h)
     \/ IsCurrent(h) /\ ~up /\ ScheduleReconnect(handlers \ {h})
  /\ UNCHANGED queue

Flushed == [k \in DOMAIN queue |-> [ep |-> ep, id |-> queue[k]]]

HandlerRuns(e) ==
  \E h \in handlers :
     /\ h.ep = e
     /\ HandshakeDone(h) \/ ConnectSent(h) \/ HandleConnack(h) \/ RecvDone(h)
     /\ inflight' = IF queue' = queue THEN inflight ELSE inflight \o Flushed
     /\ UNCHANGED <<up, outages, starts, published, delivered>>

TimerExpires ==
  /\ armed
  /\ armed' = FALSE /\ fired' = fired + 1
  /\ UNCHANGED <<running, state, ep, handlers, attempts, delay, queue, inflight,
                 up, outages, starts, published, delivered>>

(* Mutant: the expiry handler does not look whether the client runs.       *)
ReconnectTimerFiredUnguarded ==
  /\ fired > 0
  /\ fired' = fired - 1
  /\ BeginConnect(handlers)
  /\ UNCHANGED <<running, armed, attempts, delay, queue, inflight,
                 up, outages, starts, published, delivered>>

ReconnectTimerFired ==
  /\ fired > 0
  /\ fired' = fired - 1
  /\ \/ running /\ BeginConnect(handlers)
     \/ ~running /\ UNCHANGED <<state, ep, handlers>>
  /\ UNCHANGED <<running, armed, attempts, delay, queue, inflight,
                 up, outages, starts, published, delivered>>
-----------------------------------------------------------------------------
(* The client's operations.                                                *)

Start ==
  /\ starts < MaxStarts
  /\ ~running
  /\ running' = TRUE
  /\ attempts' = 0
  /\ BeginConnect(handlers)
  /\ starts' = starts + 1
  /\ UNCHANGED <<armed, fired, delay, queue, inflight, up, outages, published, delivered>>

Stop ==
  /\ running
  /\ running' = FALSE
  /\ armed' = FALSE
  /\ ep' = 0
  /\ queue' = <<>>
  /\ state' = "Disconnected"
  /\ UNCHANGED <<handlers, fired, attempts, delay, inflight, up, outages, starts,
                 published, delivered>>


(* Mutant: no bound. *)
EnqueueUnbounded(m) == queue' = Append(queue, m)

Enqueue(m) ==
  queue' = Append(IF Len(queue) >= MaxQueue THEN Tail(queue) ELSE queue, m)

Publish ==
  /\ published < MaxPublishes
  /\ published' = published + 1
  /\ Enqueue(published + 1)
  /\ UNCHANGED <<conn, inflight, up, outages, starts, delivered>>

(* Mutant: the queue is flushed newest first.                              *)
PollFlushesBackwards ==
  /\ running /\ state = "Connected" /\ queue # <<>>
  /\ inflight' = inflight \o [k \in DOMAIN queue |-> Flushed[Len(queue) + 1 - k]]
  /\ queue' = <<>>
  /\ UNCHANGED <<conn, up, outages, starts, published, delivered>>

(* Mutant: the flush does not look at the state.                           *)
PollUnchecked ==
  /\ running /\ queue # <<>>
  /\ inflight' = inflight \o Flushed
  /\ queue' = <<>>
  /\ UNCHANGED <<conn, up, outages, starts, published, delivered>>

(* Poll: FlushIfConnected hands every queued message to the endpoint.      *)
Poll ==
  /\ running /\ state = "Connected" /\ queue # <<>>
  /\ inflight' = inflight \o Flushed
  /\ queue' = <<>>
  /\ UNCHANGED <<conn, up, outages, starts, published, delivered>>

(* An async_send of a PUBLISH completes: the broker has it, or it is lost  *)
(* with the connection.                                                    *)
SendCompletes ==
  /\ inflight # <<>>
  /\ inflight' = Tail(inflight)
  /\ \/ up /\ delivered' = Head(inflight).id
     \/ (~up \/ Head(inflight).ep # ep) /\ UNCHANGED delivered
  /\ UNCHANGED <<conn, queue, up, outages, starts, published>>
-----------------------------------------------------------------------------
(* The broker and the network.                                             *)
BrokerFails ==
  /\ up /\ outages < MaxOutages
  /\ up' = FALSE /\ outages' = outages + 1
  /\ UNCHANGED <<conn, queue, inflight, starts, published, delivered>>

(* It stays away until every connection to it is known to be broken.       *)
BrokerReturns ==
  /\ ~up /\ \A h \in handlers : h.at \notin {"connack", "recv"}
  /\ inflight = <<>>
  /\ up' = TRUE
  /\ UNCHANGED <<conn, queue, inflight, outages, starts, published, delivered>>
-----------------------------------------------------------------------------
Init ==
  /\ running = FALSE /\ state = "Disconnected" /\ ep = 0 /\ handlers = {}
  /\ armed = FALSE /\ fired = 0 /\ attempts = 0 /\ delay = 0
  /\ queue = <<>> /\ inflight = <<>> /\ up = TRUE
  /\ outages = 0 /\ starts = 0 /\ published = 0 /\ delivered = 0

Next ==
  \/ (\E e \in Endpoints : HandlerRuns(e)) \/ TimerExpires \/ ReconnectTimerFired
  \/ Start \/ Stop \/ Publish \/ Poll \/ SendCompletes
  \/ BrokerFails \/ BrokerReturns

Spec == Init /\ [][Next]_vars

(* The frame loop polls the io_context, whose queue is first in first out, *)
(* and the client for ever, timers expire, and the broker comes back.      *)
FairSpec ==
  /\ Spec
  /\ \A e \in Endpoints : WF_vars(HandlerRuns(e))
  /\ WF_vars(TimerExpires) /\ WF_vars(ReconnectTimerFired)
  /\ WF_vars(Poll) /\ WF_vars(SendCompletes) /\ WF_vars(BrokerReturns)
-----------------------------------------------------------------------------
TypeOK ==
  /\ running \in BOOLEAN /\ armed \in BOOLEAN /\ up \in BOOLEAN
  /\ state \in {"Disconnected", "Connecting", "Connected", "Reconnecting"}
  /\ ep \in Endpoints \cup {0}
  /\ handlers \subseteq [ep : Endpoints, at : {"handshake", "connect", "connack", "recv"}]
  /\ fired \in Nat /\ attempts \in Nat /\ delay \in Nat
  /\ queue \in Seq(1 .. MaxPublishes)
  /\ inflight \in Seq([ep : Endpoints, id : 1 .. MaxPublishes])
  /\ delivered <= published /\ published <= MaxPublishes

Mine == {h \in handlers : h.ep = ep}

(* The client is never stranded: while it runs, either its endpoint has    *)
(* exactly one operation pending, of the kind its state says, or it has no *)
(* endpoint and the timer will start the next attempt; stopped, it has     *)
(* neither (BeginConnect, ScheduleReconnect, Stop).                        *)
NeverStranded ==
  CASE state = "Connecting" ->
         running /\ ep # 0 /\ \E h \in Mine : Mine = {h} /\ h.at # "recv"
    [] state = "Connected" ->
         running /\ ep # 0 /\ Mine = {[ep |-> ep, at |-> "recv"]}
    [] state = "Reconnecting" ->
         running /\ ep = 0 /\ (armed \/ fired > 0)
    [] OTHER -> ~running /\ ep = 0 /\ ~armed

(* A completion of a superseded connection, however late, changes neither  *)
(* the state nor the endpoint nor the attempt count (IsCurrent).           *)
StaleIsHarmless ==
  [][(handlers \ handlers' # {} /\ \A h \in handlers \ handlers' : ~IsCurrent(h))
       => UNCHANGED <<state, ep, attempts, armed>>]_vars

(* Backoff: the second and later of consecutive failures wait at least as  *)
(* long as the one before, up to the maximum, and no wait is longer than   *)
(* the maximum and a quarter of it (CalculateReconnectDelay).              *)
BackoffGrows ==
  [][state # "Reconnecting" /\ state' = "Reconnecting" =>
       /\ attempts' > 1 => delay' >= Least(delay, MaxDelay)
       /\ 4 * delay' <= 5 * MaxDelay]_vars

(* The publish queue keeps its bound over any outage (Enqueue).            *)
QueueBounded == Len(queue) <= MaxQueue

(* Publishing implements QoS 0: in order and at most once, over outages,   *)
(* overflow of the queue, reconnects and restarts of the client.           *)
Fifo == INSTANCE AtMostOnceFifo WITH published <- published, delivered <- delivered
ImplementsFifo == Fifo!Spec

(* A client that is left running is connected again after every outage and *)
(* its queue is drained.                                                   *)
Reconnects == []<>((state = "Connected" /\ queue = <<>>) \/ ~running)

(* The docs: the CONNACK timeout is 10 seconds, so a client leaves         *)
(* Connecting.                                                             *)
ConnackTimesOut == (state = "Connecting") ~> (state # "Connecting")

(* What the client is at any moment: not stranded, its queue bounded.      *)
ClientSafe == TypeOK /\ NeverStranded /\ QueueBounded

(* What an outage does to the client: late completions do not disturb it,  *)
(* the waits grow up to their bound, and in the end it is connected again. *)
Recovers == StaleIsHarmless /\ BackoffGrows /\ Reconnects
=============================================================================
