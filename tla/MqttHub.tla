------------------------------ MODULE MqttHub -------------------------------
(***************************************************************************)
(* core/mqtt/mqtt_hub.cpp, mqtt_integration.cpp and ha_discovery.cpp: what *)
(* the program keeps retained at the broker and in Home Assistant for the  *)
(* devices it knows.  A device that is removed or relabelled, here or      *)
(* while the program was not running or not connected, must not stay       *)
(* behind as a retained topic or as an entity.                             *)
(*                                                                         *)
(* A device is its slug.  Its JSON topic (MqttHub) and its state topic     *)
(* (HomeAssistantDiscovery) are published and cleared by the same rule at  *)
(* the same points and are one topic here.                                 *)
(***************************************************************************)
EXTENDS Naturals, Sequences

CONSTANTS
  Slugs,        \* slugs of device labels
  MaxChanges,   \* bound on changes of the device set
  MaxOutages,   \* bound on lost connections
  MaxRestarts,  \* bound on restarts of the program
  MaxOut        \* bound on packets on the way when a sweep begins

ASSUME MqttHubAssumption ==
  {MaxChanges, MaxOutages, MaxRestarts, MaxOut} \subseteq Nat

VARIABLES
  devices,      \* devices of the data hub that have a label
  connected,    \* the client is connected
  published,    \* m_PublishedDeviceTopics and m_PublishedStateTopics
  keys,         \* m_PublishedComponentKeys, of the components of devices
  reconcile,    \* m_RetainedReconcile: [pending, due, seen]
  seed,         \* m_HaSeedPending and whether m_HaSeedDeadline has passed
  queue,        \* the client's publish queue while it is not connected
  out, in,      \* packets on the way to and from the broker
  retained,     \* device topics the broker retains
  config,       \* {components of the retained discovery config}, {} if there is none
  entities,     \* what Home Assistant shows
  swept,        \* (history) the devices have not changed since the last sweep
  blind,        \* (history) a config was published before the retained one was read
  changes, outages, restarts

hub    == <<published, keys, reconcile, seed, queue>>
broker == <<retained, config, entities>>
counts == <<blind, changes, outages, restarts>>
vars   == <<devices, swept, connected, hub, out, in, broker, counts>>

(* Packets: a SUBSCRIBE; retained publishes to the topics s and empty     *)
(* ones that clear the topics t; a discovery config with live components s *)
(* and tombstones t; or what the broker replays of the last two.           *)
Packet(k, s, t) == [kind |-> k, s |-> s, t |-> t]
Packets == [kind : {"subscribe", "topics", "config", "replayed topics", "replayed config"},
            s : SUBSET Slugs, t : SUBSET Slugs]
-----------------------------------------------------------------------------
(* PublishDeviceStatus and PublishDeviceStates: publish every device, then *)
(* clear the topics of the last sweep that are gone.                       *)
PublishDeviceStatus ==
  <<Packet("topics", devices, published \ devices)>>

(* Mutant: no tombstones.                                                  *)
DiscoveryConfigWithoutTombstones(known) == <<Packet("config", devices, {})>>

(* PublishDiscoveryConfigs: the live components, and a tombstone for every *)
(* component of the last config that is gone.                              *)
PublishDiscoveryConfigs(known) == <<Packet("config", devices, known \ devices)>>

(* Mutant: everything the broker replayed is cleared.                      *)
ReconcileEverything == <<Packet("topics", {}, reconcile.seen)>>

(* ReconcileRetainedTopics: clear what the broker replayed and the current *)
(* devices do not own.                                                     *)
ReconcileRetainedTopics == <<Packet("topics", {}, reconcile.seen \ devices)>>

Send(packets) == out' = out \o packets
-----------------------------------------------------------------------------
(* Mutant: the reconciliation is armed by the first connection only.       *)
OnConnectedOnce ==
  /\ ~connected
  /\ connected' = TRUE
  /\ seed' = [pending |-> TRUE, due |-> FALSE]
  /\ reconcile' = IF outages > 0 THEN reconcile
                  ELSE [pending |-> TRUE, due |-> FALSE, seen |-> {}]
  /\ out' = <<Packet("subscribe", {}, {})>> \o queue \o PublishDeviceStatus
  /\ queue' = <<>>
  /\ published' = devices /\ swept' = TRUE
  /\ UNCHANGED <<devices, keys, in, broker, counts>>

(* OnConnected, the slot of the integration and then the slot of the hub:  *)
(* subscribe (at once, before the client flushes its queue), arm both      *)
(* grace windows, publish every device.  The config waits for the seed.    *)
OnConnected ==
  /\ ~connected
  /\ connected' = TRUE
  /\ seed' = [pending |-> TRUE, due |-> FALSE]
  /\ reconcile' = [pending |-> TRUE, due |-> FALSE, seen |-> {}]
  /\ out' = <<Packet("subscribe", {}, {})>> \o queue \o PublishDeviceStatus
  /\ queue' = <<>>
  /\ published' = devices /\ swept' = TRUE
  /\ UNCHANGED <<devices, keys, in, broker, counts>>

(* MqttIntegration::Poll when a deadline or a publish interval has passed. *)
(* sweep: the debounced on-change or the periodic publish is due.          *)
(* Connected, the hub reconciles, then publishes (OnDevicesPublished adds  *)
(* the config unless the seed is pending); then the seed's deadline.       *)
Poll(sweep) ==
  LET reconciles == connected /\ reconcile.pending /\ reconcile.due
      sweeps     == connected /\ sweep
      seeds      == seed.pending /\ seed.due
      first      == IF reconciles THEN ReconcileRetainedTopics ELSE <<>>
      second     == IF sweeps
                    THEN PublishDeviceStatus \o
                         (IF seed.pending THEN <<>> ELSE PublishDiscoveryConfigs(keys))
                    ELSE <<>>
      third      == IF seeds THEN PublishDiscoveryConfigs(keys) ELSE <<>>
  IN  /\ reconciles \/ sweeps \/ seeds
      /\ sweeps => Len(out) + Len(in) < MaxOut
      /\ reconcile' = IF reconciles THEN [pending |-> FALSE, due |-> FALSE, seen |-> {}]
                                    ELSE reconcile
      /\ published' = IF sweeps THEN devices ELSE published
      /\ swept' = (swept \/ sweeps)
      /\ keys' = IF seeds \/ (sweeps /\ ~seed.pending) THEN devices ELSE keys
      /\ seed' = IF seeds THEN [pending |-> FALSE, due |-> FALSE] ELSE seed
      /\ IF connected
         THEN Send(first \o second \o third) /\ UNCHANGED queue
         ELSE queue' = queue \o third /\ UNCHANGED out
      /\ blind' = (blind \/ (seeds /\ ~connected))
      /\ UNCHANGED <<devices, connected, in, broker, changes, outages, restarts>>

(* The display units change: the configs are published whatever the seed.  *)
DisplayUnitsChanged ==
  /\ changes < MaxChanges /\ changes' = changes + 1
  /\ keys' = devices
  /\ IF connected
     THEN Send(PublishDiscoveryConfigs(keys)) /\ UNCHANGED queue
     ELSE queue' = queue \o PublishDiscoveryConfigs(keys) /\ UNCHANGED out
  /\ blind' = (blind \/ ~connected \/ seed.pending)
  /\ UNCHANGED <<devices, swept, connected, published, reconcile, seed, in, broker,
                 outages, restarts>>

(* Mutant: topics are recorded when the window is over, too.               *)
TopicsReceivedAlways(p) ==
  /\ p.kind \in {"topics", "replayed topics"}
  /\ reconcile' = [reconcile EXCEPT !.seen = @ \cup p.s]
  /\ UNCHANGED <<keys, seed, out>>

(* MqttHub::HandleMessage for replayed or echoed device topics.            *)
TopicsReceived(p) ==
  /\ p.kind \in {"topics", "replayed topics"}
  /\ reconcile' = [reconcile EXCEPT !.seen = IF reconcile.pending THEN @ \cup p.s ELSE @]
  /\ UNCHANGED <<keys, seed, out>>

(* The seed: adopt the components of the retained config, then publish.    *)
ConfigReceived(p) ==
  /\ p.kind \in {"config", "replayed config"}
  /\ \/ /\ seed.pending
        /\ seed' = [pending |-> FALSE, due |-> FALSE]
        /\ Send(PublishDiscoveryConfigs(keys \cup p.s \cup p.t))
        /\ keys' = devices
     \/ ~seed.pending /\ UNCHANGED <<seed, keys, out>>
  /\ UNCHANGED reconcile

HandleMessage ==
  /\ connected /\ in # <<>>
  /\ TopicsReceived(Head(in)) \/ ConfigReceived(Head(in))
  /\ in' = Tail(in)
  /\ UNCHANGED <<devices, swept, connected, published, queue, broker, counts>>
-----------------------------------------------------------------------------
(* The broker takes the next packet; it replays what it retains to a new   *)
(* subscriber, and echoes publishes to subscribed topics.                  *)
Replay == (IF config = {} THEN <<>> ELSE <<Packet("replayed config", UNION config, {})>>)
          \o <<Packet("replayed topics", retained, {})>>

Apply(p) ==
  /\ retained' = IF p.kind = "topics" THEN (retained \cup p.s) \ p.t ELSE retained
  /\ config' = IF p.kind = "config" THEN {p.s \cup p.t} ELSE config
  /\ entities' = IF p.kind = "config" THEN (entities \cup p.s) \ p.t ELSE entities

(* An echo that HandleMessage would ignore is left out: a window that is   *)
(* over opens again with the next connection only.                         *)
Echo(p) ==
  IF (p.kind = "topics" /\ reconcile.pending /\ p.s # {}) \/ (p.kind = "config" /\ seed.pending)
  THEN <<p>> ELSE <<>>

BrokerReceives ==
  /\ connected /\ out # <<>>
  /\ Apply(Head(out))
  /\ in' = in \o (IF Head(out).kind = "subscribe" THEN Replay ELSE Echo(Head(out)))
  /\ out' = Tail(out)
  /\ UNCHANGED <<devices, swept, connected, hub, counts>>

(* The connection breaks: of the packets on the way, the broker may still  *)
(* have taken a part of the next publishes, the rest is lost.              *)
ConnectionLost ==
  /\ connected /\ outages < MaxOutages
  /\ connected' = FALSE /\ outages' = outages + 1
  /\ out' = <<>> /\ in' = <<>>
  /\ \/ UNCHANGED broker
     \/ /\ out # <<>> /\ Head(out).kind = "topics"
        /\ \E s \in SUBSET Head(out).s : Apply(Packet("topics", s, {}))
  /\ UNCHANGED <<devices, swept, hub, blind, changes, restarts>>

(* A crash and a restart: the broker and Home Assistant remember, the      *)
(* program does not; it starts with the devices it has discovered so far.  *)
ProgramRestarts ==
  /\ restarts < MaxRestarts /\ restarts' = restarts + 1
  /\ connected' = FALSE
  /\ devices' \in SUBSET Slugs /\ swept' = FALSE
  /\ published' = {} /\ keys' = {} /\ queue' = <<>>
  /\ reconcile' = [pending |-> FALSE, due |-> FALSE, seen |-> {}]
  /\ seed' = [pending |-> FALSE, due |-> FALSE]
  /\ out' = <<>> /\ in' = <<>>
  /\ UNCHANGED <<broker, blind, changes, outages>>

(* A device is discovered, removed or relabelled.  While the client is     *)
(* connected two changes are further apart than two sweeps are: a device   *)
(* that comes after the sweep of the connection, is spared by the          *)
(* reconciliation and goes before the next sweep would leave its old       *)
(* retained topic behind until the next connection.                        *)
DevicesChange ==
  /\ connected => swept
  /\ changes < MaxChanges /\ changes' = changes + 1
  /\ devices' \in SUBSET Slugs /\ devices' # devices /\ swept' = FALSE
  /\ UNCHANGED <<connected, hub, out, in, broker, blind, outages, restarts>>

Replayed == /\ \A i \in DOMAIN out : out[i].kind # "subscribe"
            /\ \A i \in DOMAIN in : in[i].kind \notin {"replayed topics", "replayed config"}

(* A grace window passes; while the client is connected the broker has     *)
(* replayed what it retains by then.                                       *)
GracePasses ==
  /\ connected => Replayed
  /\ \/ seed.pending /\ ~seed.due /\ seed' = [seed EXCEPT !.due = TRUE] /\ UNCHANGED reconcile
     \/ /\ reconcile.pending /\ ~reconcile.due
        /\ reconcile' = [reconcile EXCEPT !.due = TRUE] /\ UNCHANGED seed
  /\ UNCHANGED <<devices, swept, connected, published, keys, queue, out, in, broker, counts>>
-----------------------------------------------------------------------------
Init ==
  /\ devices \in SUBSET Slugs
  /\ connected = FALSE
  /\ published = {} /\ keys = {} /\ queue = <<>>
  /\ reconcile = [pending |-> FALSE, due |-> FALSE, seen |-> {}]
  /\ seed = [pending |-> FALSE, due |-> FALSE]
  /\ out = <<>> /\ in = <<>>
  /\ retained = {} /\ config = {} /\ entities = {}
  /\ swept = FALSE /\ blind = FALSE /\ changes = 0 /\ outages = 0 /\ restarts = 0

Next ==
  \/ OnConnected \/ HandleMessage \/ BrokerReceives \/ ConnectionLost
  \/ ProgramRestarts \/ DevicesChange \/ DisplayUnitsChanged \/ GracePasses
  \/ \E sweep \in BOOLEAN : Poll(sweep)

Spec == Init /\ [][Next]_vars

(* The client reconnects, packets are delivered, time passes, and the      *)
(* frame loop polls; the periodic publish comes again and again.           *)
FairSpec ==
  /\ Spec
  /\ WF_vars(OnConnected) /\ WF_vars(HandleMessage) /\ WF_vars(BrokerReceives)
  /\ WF_vars(GracePasses) /\ SF_vars(Poll(TRUE)) /\ WF_vars(Poll(FALSE))
-----------------------------------------------------------------------------
(* The types; and no topic is remembered once the reconciliation is over.  *)
TypeOK ==
  /\ devices \subseteq Slugs /\ published \subseteq Slugs /\ keys \subseteq Slugs
  /\ reconcile \in [pending : BOOLEAN, due : BOOLEAN, seen : SUBSET Slugs]
  /\ reconcile.seen # {} => reconcile.pending
  /\ seed \in [pending : BOOLEAN, due : BOOLEAN]
  /\ {queue, out, in} \subseteq Seq(Packets)
  /\ retained \subseteq Slugs /\ entities \subseteq Slugs
  /\ config \subseteq SUBSET Slugs
  /\ connected \in BOOLEAN /\ swept \in BOOLEAN /\ blind \in BOOLEAN

Settled ==
  /\ connected /\ out = <<>> /\ in = <<>>
  /\ ~reconcile.pending /\ ~seed.pending
  /\ swept /\ keys = devices

(* Once both grace windows are over and the last sweep is on the broker,   *)
(* the retained topics are those of the present devices: no lost clear, no *)
(* restart and no outage leaves a ghost (PublishDeviceStatus,              *)
(* ReconcileRetainedTopics).                                               *)
NoGhostTopics == Settled => retained = devices

(* Likewise Home Assistant shows the present devices and no other, unless  *)
(* a config went out before the retained one was read                      *)
(* (PublishDiscoveryConfigs, AdoptRetainedComponents).                     *)
NoGhostEntities == Settled /\ ~blind => entities = devices /\ config # {}

(* Whatever happened, the broker and Home Assistant converge to the        *)
(* devices the program has.                                                *)
Converges == <>[](retained = devices /\ (entities = devices \/ blind))

(* mqtt_integration.cpp: any entity for a device that no longer exists is  *)
(* tombstoned rather than left as a ghost.                                 *)
GhostsAreTombstoned == Settled => entities = devices

(* No ghost is left on the broker nor in Home Assistant once the traffic   *)
(* has settled.                                                            *)
NoGhosts == TypeOK /\ NoGhostTopics /\ NoGhostEntities
=============================================================================
