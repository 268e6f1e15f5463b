------------------------------- MODULE Alerting -------------------------------
(***************************************************************************)
(* The alert monitor and its webhook (src/core/alerting). Six conditions   *)
(* are evaluated whenever a hub signals a change and at every tick of a    *)
(* timer. A condition that changes is an edge, and only edges reach the    *)
(* sinks: the UI, the webhook (a detached POST with one retry) and the     *)
(* retained MQTT state. The latches are kept in memory only.               *)
(***************************************************************************)
EXTENDS Naturals, FiniteSets

CONSTANTS Timeout,     \* AlertCommsTimeoutSeconds, in ticks of the timer
          Followed,    \* conditions whose deliveries are followed: the webhook treats all alike
          MaxChanges   \* bound on what happens to the pool, the panel and the process

ASSUME AlertingAssumption == Timeout \in Nat \ {0} /\ MaxChanges \in Nat

VARIABLES world,    \* what the hubs and the preferences say
          fresh,    \* the statistics hub has counted messages since the last look
          silent,   \* ticks since the count was last seen to change
          latched,  \* m_Latched
          hooks,    \* POSTs under way: the transition and the attempt
          heard,    \* what the webhook's receiver was told last
          shown,    \* the retained MQTT state
          changes   \* changes so far, which also numbers the transitions

alertVars == <<world, fresh, silent, latched, hooks, heard, shown, changes>>

Conditions == {"salt_low", "chlorinator_warning", "chlorinator_fault",
               "service_mode", "serial_comms_loss", "temperature_stale"}

\* salt in hundreds of ppm above the level where the alert matters: 0 is no
\* sample; flags is what the cell reports, NoCell when none is known
NoCell == {"absent"}
Health == {"LowSalt", "CheckPCB"}
World == [salt : 0..3, threshold : {0, 2}, flags : {NoCell} \cup SUBSET Health,
          mode : {"Normal", "Service"}, pumping : BOOLEAN, spa : BOOLEAN,
          stale : SUBSET {"pool", "spa"}, url : BOOLEAN]

Quiet == [c \in Conditions |-> FALSE]

Hysteresis == 1 \* 100 ppm

-----------------------------------------------------------------------------
(* The conditions                                                          *)

IsChlorinatorFault(flag) == flag = "CheckPCB"
ChlorinatorWarningLabel(flag) == flag = "LowSalt"

\* a mutant of the next: raised again within the hysteresis
SaltLowFlapping(was) == world.salt # 0 /\ world.salt < world.threshold + Hysteresis
\* a threshold of 0 and a missing sample both return early: the latch stays
SaltLow(was) ==
  IF world.threshold = 0 \/ world.salt = 0 THEN was
  ELSE IF was THEN world.salt < world.threshold + Hysteresis
       ELSE world.salt < world.threshold

ChlorinatorWarning == \E f \in world.flags : ChlorinatorWarningLabel(f)
\* a mutant of the next: a fault once seen is kept while a cell is present
ChlorinatorFaultSticky(was) ==
  world.flags # NoCell /\ (was \/ \E f \in world.flags : IsChlorinatorFault(f))
ChlorinatorFault(was) == \E f \in world.flags : IsChlorinatorFault(f)

ServiceMode == world.mode = "Service"

\* a mutant of the next: traffic is noted but does not clear
SerialCommsLossSticky(was, counted, quiet) == quiet >= Timeout \/ was
\* traffic clears; silence for the timeout raises; in between the latch stays
SerialCommsLoss(was, counted, quiet) == ~counted /\ (quiet >= Timeout \/ was)

TemperatureStale ==
  world.pumping /\ (IF world.spa THEN "spa" ELSE "pool") \in world.stale

\* EvaluateAll: from the latches, the traffic since the last look and the
\* time that has passed
Verdict(was, counted, quiet) ==
  [c \in Conditions |->
     CASE c = "salt_low" -> SaltLow(was[c])
       [] c = "chlorinator_warning" -> ChlorinatorWarning
       [] c = "chlorinator_fault" -> ChlorinatorFault(was[c])
       [] c = "service_mode" -> ServiceMode
       [] c = "serial_comms_loss" -> SerialCommsLoss(was[c], counted, quiet)
       [] c = "temperature_stale" -> TemperatureStale]

-----------------------------------------------------------------------------
(* Edges and sinks                                                         *)

\* Post: the URL is read now; an empty or unusable one posts nothing
Post(pending, edges, to) ==
  hooks' = pending \cup (IF world.url THEN {[cond |-> c, raised |-> to[c], at |-> changes, try |-> 1] : c \in edges \cap Followed}
                       ELSE {})

\* a mutant of the next: the state is published before the latch is set
TransitionLate(was, seen, pending, to) ==
  LET edges == {c \in Conditions : to[c] # was[c]} IN
  /\ latched' = to
  /\ Post(pending, edges, to)
  /\ shown' = IF edges = {} THEN seen ELSE was
\* SetCondition for every condition, and the sinks. BuildStateJson is the
\* whole state, so the last publication of a sweep shows all of it.
Transition(was, seen, pending, to) ==
  LET edges == {c \in Conditions : to[c] # was[c]} IN
  /\ latched' = to
  /\ Post(pending, edges, to)
  /\ shown' = IF edges = {} THEN seen ELSE to

EvaluateAll(quiet) ==
  /\ Transition(latched, shown, hooks, Verdict(latched, fresh, quiet))
  /\ fresh' = FALSE
  /\ silent' = IF fresh THEN 0 ELSE quiet

\* ConfigUpdateSignal and EquipmentStatusChangeSignal
HubSignal == EvaluateAll(silent) /\ UNCHANGED <<world, heard, changes>>

\* ScheduleCommsTimer
TimerTick ==
  /\ EvaluateAll(IF silent < Timeout THEN silent + 1 ELSE silent)
  /\ UNCHANGED <<world, heard, changes>>

\* a mutant of the next: the attempts are not counted
RunWithRetryForever(h, ok, arrives) ==
  /\ hooks' = (hooks \ {h}) \cup (IF ok THEN {} ELSE {h})
  /\ heard' = IF arrives THEN [heard EXCEPT ![h.cond] = h.raised] ELSE heard
\* a mutant of the next: one attempt too many
RunWithRetryThrice(h, ok, arrives) ==
  /\ hooks' = (hooks \ {h}) \cup (IF ok \/ h.try = 3 THEN {} ELSE {[h EXCEPT !.try = @ + 1]})
  /\ heard' = IF arrives THEN [heard EXCEPT ![h.cond] = h.raised] ELSE heard
\* RunWithRetry: an attempt may fail before or after the receiver has heard it
RunWithRetry(h, ok, arrives) ==
  /\ hooks' = (hooks \ {h}) \cup (IF ok \/ h.try = 2 THEN {} ELSE {[h EXCEPT !.try = 2]})
  /\ heard' = IF arrives THEN [heard EXCEPT ![h.cond] = h.raised] ELSE heard

AttemptHttp ==
  /\ \E h \in hooks, ok \in BOOLEAN, arrives \in BOOLEAN :
       (ok => arrives) /\ RunWithRetry(h, ok, arrives)
  /\ UNCHANGED <<world, fresh, silent, latched, shown, changes>>

-----------------------------------------------------------------------------
(* The world                                                               *)

Moves == [salt : 0..3] \cup [threshold : {0, 2}] \cup [flags : {NoCell} \cup SUBSET Health]
         \cup [mode : {"Normal", "Service"}] \cup [pumping : BOOLEAN] \cup [spa : BOOLEAN]
         \cup [stale : SUBSET {"pool", "spa"}] \cup [url : BOOLEAN]

WorldChanges ==
  /\ changes < MaxChanges
  /\ changes' = changes + 1
  /\ \E m \in Moves : world' = [f \in DOMAIN world |-> IF f \in DOMAIN m THEN m[f] ELSE world[f]]
  /\ UNCHANGED <<fresh, silent, latched, hooks, heard, shown>>

\* the protocol task decodes a message
MessageCounted ==
  /\ changes < MaxChanges
  /\ changes' = changes + 1
  /\ fresh' = TRUE
  /\ UNCHANGED <<world, silent, latched, hooks, heard, shown>>

\* The process restarts: the retained state is seeded before Start runs, and
\* Start takes the comms baseline and evaluates at once
Restart ==
  /\ changes < MaxChanges
  /\ changes' = changes + 1
  /\ Transition(Quiet, Quiet, {}, Verdict(Quiet, FALSE, 0))
  /\ fresh' = FALSE /\ silent' = 0
  /\ UNCHANGED <<world, heard>>

AlertInit ==
  /\ world = [salt |-> 0, threshold |-> 2, flags |-> NoCell, mode |-> "Normal",
              pumping |-> FALSE, spa |-> FALSE, stale |-> {}, url |-> TRUE]
  /\ fresh = FALSE /\ silent = 0 /\ hooks = {} /\ changes = 0
  /\ latched = Quiet
  /\ heard = [c \in Followed |-> FALSE] /\ shown = latched

AlertNext == HubSignal \/ TimerTick \/ AttemptHttp \/ WorldChanges \/ MessageCounted \/ Restart

\* the timer is re-armed by its own handler and the io_context is polled every
\* frame; a POST ends by an answer, an error or the socket's timeout
AlertFairness == WF_alertVars(TimerTick) /\ WF_alertVars(AttemptHttp)

AlertSpec == AlertInit /\ [][AlertNext]_alertVars /\ AlertFairness

-----------------------------------------------------------------------------
(* Properties                                                              *)

\* The values of the monitor's variables.
AlertTypeOK ==
  /\ world \in World /\ fresh \in BOOLEAN /\ silent \in 0..Timeout
  /\ latched \in [Conditions -> BOOLEAN]
  /\ heard \in [Followed -> BOOLEAN] /\ shown \in [Conditions -> BOOLEAN]
  /\ hooks \subseteq [cond : Followed, raised : BOOLEAN, at : 0..MaxChanges, try : {1, 2}]
  /\ changes \in 0..MaxChanges

\* The retained MQTT state, published on edges only, is the state of the
\* latches, across restarts too, where the seed and the empty latches agree.
ShownIsLatched == shown = latched

\* What the pool, the panel and the bus say when they have settled
Truth ==
  /\ (world.threshold # 0 /\ world.salt # 0) =>
       /\ world.salt < world.threshold => shown["salt_low"]
       /\ world.salt >= world.threshold + Hysteresis => ~shown["salt_low"]
  /\ shown["chlorinator_warning"] = ("LowSalt" \in world.flags)
  /\ shown["chlorinator_fault"] = ("CheckPCB" \in world.flags)
  /\ shown["service_mode"] = (world.mode = "Service")
  /\ shown["temperature_stale"] = (world.pumping /\ (IF world.spa THEN "spa" ELSE "pool") \in world.stale)
  /\ shown["serial_comms_loss"]

\* Once nothing changes any more, the retained state comes to tell the truth
\* about all six conditions and stays so: no signal is needed, the timer
\* re-evaluates everything, and a silent bus is reported as lost.
AlertsSettle == <>[](fresh \/ Truth)

\* The loss of the bus is latched only at the end of the timeout, and the look
\* that finds traffic, whichever signal or timer makes it, ends it: also when
\* the traffic came between the timeout and the next tick.
TrafficClears ==
  [][/\ fresh /\ ~fresh' => ~latched'["serial_comms_loss"]
     /\ latched'["serial_comms_loss"] /\ ~latched["serial_comms_loss"] => silent' >= Timeout]_alertVars

\* Every delivery ends: an unreachable webhook is given up, never retried on
\* and on while the monitor runs.
HooksEnd == []<>(hooks = {})

\* The salt alert does not flap: between the threshold and the threshold plus
\* the hysteresis it is left as it is.
NoSaltFlap ==
  [][(world.salt >= world.threshold /\ world.salt < world.threshold + Hysteresis)
       => (latched'["salt_low"] => latched["salt_low"])]_alertVars

\* What is retained on the broker is what the monitor latched.
AlertsSafe == AlertTypeOK /\ ShownIsLatched
=============================================================================
