------------------------- MODULE CommandDispatcher -------------------------
(* The command dispatcher: a request (switch this device, set that setpoint) *)
(* is offered to the connected controllers that have the capability, the     *)
(* most direct one first, until one accepts it.  A controller that accepts   *)
(* queues the command and emits it on a later poll; the panel then carries   *)
(* it out.  Several controllers drive the same panel, so a request that two  *)
(* of them accepted would be carried out twice: a toggle would cancel        *)
(* itself.                                                                   *)
EXTENDS Naturals, Sequences, FiniteSets

CONSTANTS Relays,         \* devices of the hub
          MaxRequests     \* bound on the requests of a behaviour

ASSUME DispatchConstants == MaxRequests \in Nat

VARIABLES controllers,    \* the controllers on the bus and what each is doing
          knows,          \* the devices each can map onto a wire command
          queued,         \* the toggles each has accepted and not emitted
          relay,          \* the panel's relays
          wanted,         \* history: the relays as the accepted requests leave them
          answer,         \* history: the last request, its result and who took it
          requests

dispatchVars == <<controllers, knows, queued, relay, wanted, answer, requests>>

(* The most direct channel first.                                            *)
ActuationPriority == [serial_adapter |-> 0, iaq |-> 1, onetouch |-> 2]
Controller == {"serial_adapter", "iaq", "onetouch"}

Capable(cap) ==
    CASE cap = "DeviceActuator"           -> Controller
      [] cap = "SetpointController"       -> Controller
      [] cap = "ChlorinatorController"    -> {"iaq", "onetouch"}
      [] cap = "ControllerScheduleWriter" -> {"iaq", "onetouch"}
      [] cap = "PageNavigator"            -> {"iaq"}
      [] cap = "CirculationController"    -> {"serial_adapter"}
      [] cap = "HeaterController"         -> {"serial_adapter"}

WhenNone(cap) ==
    IF cap \in {"ChlorinatorController", "PageNavigator"} THEN "DeviceNotFound"
    ELSE "NoSerialAdapter"

(* What a controller answers: one that only listens supports nothing, a      *)
(* device must be one it can map, the serial adapter always has room, and    *)
(* the page and menu controllers do one thing at a time.  How a controller   *)
(* carries out what it accepted is the subject of SerialAdapter, Iaq and     *)
(* KeypadGoals; here it does so on a later poll.                             *)
Answer(c, cap, r) ==
    IF controllers[c] = "passive" THEN "NotSupported"
    ELSE IF cap = "DeviceActuator" /\ r \notin knows[c] THEN "MappingFailed"
    ELSE IF controllers[c] = "busy" THEN "Busy"
    ELSE "Accepted"

-----------------------------------------------------------------------------
Candidates(cap) == DOMAIN controllers \cap Capable(cap)

(* The first candidate that accepts, or rejects the value, ends the search.  *)
Stopping(cap, r) == {c \in Candidates(cap) : Answer(c, cap, r) \in {"Accepted", "InvalidValue"}}
FirstOf(cs) == CHOOSE c \in cs : \A d \in cs : ActuationPriority[c] <= ActuationPriority[d]

Unserved(cap, r) ==
    LET answers == {Answer(c, cap, r) : c \in Candidates(cap)}
    IN  CASE "Busy" \in answers -> "Busy"
          [] "Busy" \notin answers /\ "MappingFailed" \in answers -> "UnknownEquipmentType"
          [] OTHER -> WhenNone(cap)

(* Mutant: the search goes on after an acceptance.                           *)
DispatchToAll(cap, r) ==
    IF Stopping(cap, r) = {} THEN [result |-> Unserved(cap, r), takers |-> {}]
    ELSE [result |-> "Success", takers |-> Stopping(cap, r)]

(* Mutant: a busy candidate ends the search.                                 *)
DispatchUntilBusy(cap, r) ==
    LET stops == {c \in Candidates(cap) : Answer(c, cap, r) \in {"Accepted", "Busy"}}
    IN  IF stops = {} THEN [result |-> Unserved(cap, r), takers |-> {}]
        ELSE IF Answer(FirstOf(stops), cap, r) = "Busy" THEN [result |-> "Busy", takers |-> {}]
        ELSE [result |-> "Success", takers |-> {FirstOf(stops)}]

(* Mutant: capability is enough, whatever the controller answers.            *)
DispatchToFirst(cap, r) ==
    IF Candidates(cap) = {} THEN [result |-> WhenNone(cap), takers |-> {}]
    ELSE [result |-> "Success", takers |-> {FirstOf(Candidates(cap))}]

DispatchToCapable(cap, r) ==
    LET first == FirstOf(Stopping(cap, r))
    IN  IF Stopping(cap, r) = {} THEN [result |-> Unserved(cap, r), takers |-> {}]
        ELSE IF Answer(first, cap, r) = "InvalidValue"
             THEN [result |-> "InvalidValue", takers |-> {}]
             ELSE [result |-> "Success", takers |-> {first}]

(* Switching a device of the hub, by uuid, by label or by the native name of *)
(* an auxiliary relay: a toggle.                                             *)
CommandByUuid(r) ==
    \E d \in {DispatchToCapable("DeviceActuator", r)} :
       /\ answer' = [cap |-> "DeviceActuator", target |-> r, result |-> d.result, takers |-> d.takers]
       /\ queued' = [c \in Controller |-> IF c \in d.takers THEN Append(queued[c], r) ELSE queued[c]]
       /\ controllers' = [c \in DOMAIN controllers |->
                            IF c \in d.takers /\ c # "serial_adapter" THEN "busy" ELSE controllers[c]]
       /\ wanted' = IF d.result = "Success" THEN [wanted EXCEPT ![r] = ~@] ELSE wanted

Command ==
    /\ requests > 0 /\ requests' = requests - 1
    /\ \E r \in Relays : CommandByUuid(r)
    /\ UNCHANGED <<knows, relay>>

(* The requests that do not switch a relay: setpoints, chlorinator, boost,   *)
(* circulation, heater modes, page buttons and controller programs.          *)
OtherRequest ==
    /\ requests > 0 /\ requests' = requests - 1
    /\ \E cap \in {"SetpointController", "ChlorinatorController", "ControllerScheduleWriter",
                   "PageNavigator", "CirculationController", "HeaterController"} :
       \E d \in {DispatchToCapable(cap, "none")} :
          /\ answer' = [cap |-> cap, target |-> "none", result |-> d.result, takers |-> d.takers]
          /\ controllers' = [c \in DOMAIN controllers |->
                                IF c \in d.takers /\ c # "serial_adapter" THEN "busy"
                                ELSE controllers[c]]
    /\ UNCHANGED <<knows, queued, relay, wanted>>

(* Mutant: a controller that is busy with a command does not emit it.        *)
EmitIdleOnly(c) ==
    /\ c \in DOMAIN controllers /\ queued[c] # <<>> /\ controllers[c] = "idle"
    /\ relay' = [relay EXCEPT ![Head(queued[c])] = ~@]
    /\ queued' = [queued EXCEPT ![c] = Tail(@)]
    /\ UNCHANGED <<controllers, knows, wanted, answer, requests>>

(* A controller's next poll carries its oldest command to the panel, or ends *)
(* whatever else kept it busy.                                               *)
Emit(c) ==
    /\ c \in DOMAIN controllers
    /\ \/ /\ queued[c] # <<>>
          /\ relay' = [relay EXCEPT ![Head(queued[c])] = ~@]
          /\ queued' = [queued EXCEPT ![c] = Tail(@)]
       \/ /\ queued[c] = <<>> /\ controllers[c] = "busy"
          /\ UNCHANGED <<relay, queued>>
    /\ controllers' = [controllers EXCEPT ![c] = "idle"]
    /\ UNCHANGED <<knows, wanted, answer, requests>>

(* A controller learns how to reach one more device (a page or a scan).      *)
Learn(c) ==
    /\ \E r \in Relays \ knows[c] : knows' = [knows EXCEPT ![c] = @ \cup {r}]
    /\ UNCHANGED <<controllers, queued, relay, wanted, answer, requests>>

DispatchInit ==
    /\ \E present \in SUBSET Controller :
          controllers \in [present -> {"idle", "passive"}]
    /\ knows = [c \in Controller |-> {}]
    /\ queued = [c \in Controller |-> <<>>]
    /\ relay = [r \in Relays |-> FALSE] /\ wanted = relay
    /\ answer = [cap |-> "none", target |-> "none", result |-> "none", takers |-> {}]
    /\ requests = MaxRequests

DispatchNext ==
    \/ Command \/ OtherRequest
    \/ \E c \in Controller : Emit(c) \/ Learn(c)

DispatchFairness == WF_dispatchVars(\E c \in Controller : Emit(c))

DispatchSpec == DispatchInit /\ [][DispatchNext]_dispatchVars /\ DispatchFairness

-----------------------------------------------------------------------------
(* Every variable has its type; a controller that is absent or only listens  *)
(* is never given a command, and one that walks menus never a second one.    *)
DispatchTypeOK ==
    /\ \A c \in Controller : queued[c] # <<>> =>
          c \in DOMAIN controllers /\ controllers[c] # "passive"
    /\ \A c \in DOMAIN controllers \ {"serial_adapter"} :
          /\ Len(queued[c]) <= 1
          /\ queued[c] # <<>> => controllers[c] = "busy"
    /\ relay \in [Relays -> BOOLEAN] /\ wanted \in [Relays -> BOOLEAN]
    /\ requests \in 0..MaxRequests

(* Every request that was answered with Success is carried out, once: when   *)
(* the queues have drained the relays are as the accepted toggles leave them.*)
CarriedOutOnce ==
    (\A c \in Controller : queued[c] = <<>>) => relay = wanted

(* "Busy" is said only when waiting can help and nobody else could serve: no *)
(* idle controller that has the capability and knows the device was passed   *)
(* over.  (The refusal is judged in the state the request was made in.)      *)
NobodyPassedOver ==
    [][ answer' # answer /\ answer'.result # "Success" =>
          \A c \in DOMAIN controllers \cap Capable(answer'.cap) :
             Answer(c, answer'.cap, answer'.target) # "Accepted" ]_dispatchVars

(* Accepted requests do not wait for ever: the queues drain.                 *)
RequestsCarriedOut == []<>(relay = wanted)

(* Accepted requests are carried out once, by controllers that may.          *)
DispatchSafe == DispatchTypeOK /\ CarriedOutOnce

(* A request finds the controller that can serve it, and is served.          *)
RequestsServed == NobodyPassedOver /\ RequestsCarriedOut
=============================================================================
