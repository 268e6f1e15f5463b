------------------------------ MODULE DataHub ------------------------------
(* The data hub: the readings every device writes into it, the bodies of     *)
(* water that repeat some of them, the circulation mode that decides which   *)
(* body is active, and the change events that are all a subscriber (MQTT,    *)
(* the web sockets) ever hears.  The writers are the IAQ main status frame,  *)
(* the menu pages that report one value at a time, and the three places that *)
(* apply a pool configuration.  "told" is the sum of the events: what a      *)
(* subscriber that applied every one of them believes.                       *)
EXTENDS Naturals, FiniteSets

CONSTANTS Degrees,      \* temperatures, as small positive numbers
          Statuses,     \* the main status frames of the IAQ bus
          MaxHubFrames     \* bound on the frames and values a behaviour delivers

NoTemp == 0             \* an std::optional with no value

ASSUME HubConstants ==
    /\ Degrees \subseteq Nat \ {NoTemp}
    /\ MaxHubFrames \in Nat
    /\ \A m \in Statuses :
          /\ m.spaMode \in BOOLEAN /\ m.pumpOn \in BOOLEAN
          /\ {m.pool, m.spa, m.air, m.poolSet, m.spaSet, m.heaterSet}
                \subseteq Degrees \cup {NoTemp}
          /\ m.heat \in {"Off", "Heating"}

VARIABLES readings,     \* the m_* members of the hub
          bodies,       \* m_Bodies: the bodies that exist, by id
          conf,         \* PoolConfiguration and PoolConfigurationSource
          circulation,  \* CirculationMode
          equipment,    \* the filter pumps and heaters of the devices graph
          lastButton,   \* m_LastButtonState: the last state announced, by device
          told,         \* what the events have told a subscriber
          framesLeft

hubVars == <<readings, bodies, conf, circulation, equipment, lastButton, told, framesLeft>>

Readings == {"air", "pool", "spa", "poolSet", "spaSet", "poolSet2", "heater2", "orp", "ph"}
Body     == {"pool", "spa"}
SpaModes == {"Spa", "SpaFill", "SpaDrain"}
Modes    == SpaModes \cup {"Pool"}
Configs  == {"Unknown", "SingleBody", "DualBody"}
Pumps    == {"cachedPump", "newPump"}
Heaters  == {"Pool Heat", "Spa Heat", "Solar Heat"}

-----------------------------------------------------------------------------
(* The hub as one record, so that a handler that calls several of its        *)
(* setters is one action.                                                    *)
Hub == [readings |-> readings, bodies |-> bodies, conf |-> conf, mode |-> circulation,
        equipment |-> equipment, last |-> lastButton, told |-> told]

Becomes(h) ==
    /\ readings' = h.readings /\ bodies' = h.bodies /\ conf' = h.conf
    /\ circulation' = h.mode /\ equipment' = h.equipment
    /\ lastButton' = h.last /\ told' = h.told

TemperatureChanged(current, next) == current = NoTemp \/ current # next

(* A temperature or chemistry event carries the one value that changed.      *)
EmitReading(h, f, v) == [h EXCEPT !.told.readings[f] = v]

EmitCirculationEvent(h) ==
    [h EXCEPT !.told.mode = h.mode,
              !.told.active = [b \in DOMAIN h.bodies |-> h.bodies[b].active]]

(* A reading that no body repeats: air temperature, second pool setpoint,    *)
(* ORP, pH ... An event goes out only when the value is a new one.           *)
Set(h, f, v) ==
    LET written == [h EXCEPT !.readings[f] = v]
    IN  IF TemperatureChanged(h.readings[f], v) THEN EmitReading(written, f, v) ELSE written

AirTemp(h, t)            == Set(h, "air", t)
PoolTempSetpoint2(h, t)  == Set(h, "poolSet2", t)
PoolHeater2Enabled(h, e) == Set(h, "heater2", e)
ORP(h, v)                == Set(h, "orp", v)
PH(h, v)                 == Set(h, "ph", v)

GetBody(h, b) == b \in DOMAIN h.bodies

SetPoolTempBody(h, t)    == IF GetBody(h, "pool") THEN [h EXCEPT !.bodies["pool"].temp = t] ELSE h

(* Mutant: the body of the other water is given the temperature.             *)
PoolTempCrossed(h, t) ==
    Set(IF GetBody(h, "spa") THEN [h EXCEPT !.bodies["spa"].temp = t] ELSE h, "pool", t)

(* Mutant: the comparison is made after the assignment.                      *)
PoolTempSilent(h, t) ==
    [SetPoolTempBody(h, t) EXCEPT !.readings["pool"] = t]

PoolTemp(h, t)           == Set(SetPoolTempBody(h, t), "pool", t)
SpaTemp(h, t)            ==
    Set(IF GetBody(h, "spa") THEN [h EXCEPT !.bodies["spa"].temp = t] ELSE h, "spa", t)
PoolTempSetpoint(h, t)   ==
    Set(IF GetBody(h, "pool") THEN [h EXCEPT !.bodies["pool"].setpoint = t] ELSE h, "poolSet", t)
SpaTempSetpoint(h, t)    ==
    Set(IF GetBody(h, "spa") THEN [h EXCEPT !.bodies["spa"].setpoint = t] ELSE h, "spaSet", t)

(* What a reader of the hub is given: the body's value when the body exists. *)
CurrentTemp(b) == IF b \in DOMAIN bodies THEN bodies[b].temp ELSE readings[b]

(* An inactive body has no temperature to report.                            *)
CurrentTempForReporting(b) ==
    IF b \in DOMAIN bodies /\ ~bodies[b].active THEN NoTemp ELSE CurrentTemp(b)

-----------------------------------------------------------------------------
(* Bodies of water and the circulation mode.                                 *)
SpaActive(mode) == mode \in SpaModes

(* Mutant: a lone body follows the mode too.                                 *)
ActivateLoneToo(h, mode) ==
    [b \in DOMAIN h.bodies |-> [h.bodies[b] EXCEPT !.active = ((b = "spa") = SpaActive(mode))]]

Activate(h, mode) ==
    IF DOMAIN h.bodies = Body
    THEN [b \in Body |-> [h.bodies[b] EXCEPT !.active = ((b = "spa") = SpaActive(mode))]]
    ELSE h.bodies

(* Mutant: whether anything changed is decided after the assignments.        *)
SetCirculationModeSilent(h, mode) ==
    [h EXCEPT !.mode = mode, !.bodies = Activate(h, mode)]

SetCirculationMode(h, mode) ==
    LET next == [h EXCEPT !.mode = mode, !.bodies = Activate(h, mode)]
    IN  IF next = h THEN h ELSE EmitCirculationEvent(next)

NewBody(active) == [active |-> active, temp |-> NoTemp, setpoint |-> NoTemp]

BodiesFor(config, kind, mode) ==
    CASE config = "DualBody"   -> [b \in Body |-> NewBody((b = "spa") = SpaActive(mode))]
      [] config = "SingleBody" -> [b \in {kind} |-> NewBody(TRUE)]
      [] OTHER                 -> <<>>

(* Existing bodies are kept whatever the new configuration says, and no      *)
(* event announces the ones that are made.                                   *)
ApplyPoolConfiguration(h, config, source, kind) ==
    LET noted == [h EXCEPT !.conf = [config |-> config, source |-> source]]
    IN  IF DOMAIN h.bodies # {} THEN noted
        ELSE [noted EXCEPT !.bodies = BodiesFor(config, kind, h.mode)]

-----------------------------------------------------------------------------
(* Filter pumps, heaters and the button events.                              *)
With(f, x, v) == [y \in DOMAIN f \cup {x} |-> IF y = x THEN v ELSE f[y]]

EmitButtonOnce(h, d, status) ==      \* mutant: only the first state is remembered
    IF d \in DOMAIN h.last /\ h.last[d] = status THEN h
    ELSE [h EXCEPT !.told.buttons = With(@, d, status),
                   !.last = IF d \in DOMAIN @ THEN @ ELSE With(@, d, status)]

EmitButtonStateChange(h, d, status) ==
    IF d \in DOMAIN h.last /\ h.last[d] = status THEN h
    ELSE [h EXCEPT !.told.buttons = With(@, d, status), !.last = With(@, d, status)]

FilterPumps(h) == {p \in DOMAIN h.equipment \cap Pumps : h.equipment[p].role = "filter"}

(* A pump that the equipment cache restored without its role is recognised   *)
(* by its label.                                                             *)
AdoptUntypedFilterPumps(h) ==
    [h EXCEPT !.equipment = [d \in DOMAIN @ |->
        IF d \in Pumps /\ @[d].role = "none" /\ @[d].label = "Filter Pump"
        THEN [@[d] EXCEPT !.role = "filter"] ELSE @[d]]]

AddFilterPump(h) ==
    [h EXCEPT !.equipment =
        With(@, "newPump", [label |-> "Filter Pump", role |-> "filter", status |-> "Unknown"])]

(* Mutant: the cached pump is never recognised.                              *)
ResolveFilterPumpsAnew(h) == IF FilterPumps(h) # {} THEN h ELSE AddFilterPump(h)

ResolveFilterPumps(h) ==
    IF FilterPumps(h) # {} THEN h
    ELSE LET adopted == AdoptUntypedFilterPumps(h)
         IN  IF FilterPumps(adopted) # {} THEN adopted ELSE AddFilterPump(h)

SetFilterPump(h, on) ==
    LET status  == IF on THEN "Running" ELSE "Off"
        p       == CHOOSE x \in FilterPumps(h) : TRUE
        written == [h EXCEPT !.equipment[p].status = status]
    IN  EmitButtonStateChange(written, p, status)

(* Mutant: a heater that is not in the devices graph is not added to it.     *)
UpdateHeaterDeviceUnlisted(h, label, status) == EmitButtonStateChange(h, label, status)

UpdateHeaterDevice(h, label, status) ==
    EmitButtonStateChange(
        [h EXCEPT !.equipment =
            With(@, label, [label |-> label, role |-> "heater", status |-> status])],
        label, status)

-----------------------------------------------------------------------------
(* The main status frame of the IAQ bus.  Seeing spa mode on a system whose  *)
(* configuration nobody has stated proves that there are two bodies.         *)
DetectDualBody(h, m) ==
    IF /\ m.spaMode /\ DOMAIN h.bodies = {}
       /\ h.conf = [config |-> "Unknown", source |-> "Auto"]
    THEN ApplyPoolConfiguration(h, "DualBody", "Auto", "pool") ELSE h

WriteIf(h, v, Write(_, _)) == IF v = NoTemp THEN h ELSE Write(h, v)

MainSetpoints(h, m) ==
    IF m.poolSet # NoTemp \/ m.spaSet # NoTemp
    THEN WriteIf(WriteIf(h, m.poolSet, PoolTempSetpoint), m.spaSet, SpaTempSetpoint)
    ELSE IF m.spaMode THEN WriteIf(h, m.heaterSet, SpaTempSetpoint)
         ELSE WriteIf(h, m.heaterSet, PoolTempSetpoint)

ProcessMainStatus(h, m) ==
    LET h1 == SetCirculationMode(DetectDualBody(h, m), IF m.spaMode THEN "Spa" ELSE "Pool")
        h2 == WriteIf(WriteIf(WriteIf(h1, m.pool, PoolTemp), m.spa, SpaTemp), m.air, AirTemp)
        h3 == SetFilterPump(ResolveFilterPumps(MainSetpoints(h2, m)), m.pumpOn)
    IN  UpdateHeaterDevice(
            UpdateHeaterDevice(UpdateHeaterDevice(h3, "Pool Heat", m.heat), "Spa Heat", m.heat),
            "Solar Heat", "Off")

Slot_MainStatus ==
    /\ framesLeft > 0
    /\ framesLeft' = framesLeft - 1
    /\ \E m \in Statuses : Becomes(ProcessMainStatus(Hub, m))

(* One value from a menu page or from the serial adapter.                    *)
SetValue(h, f, v) ==
    CASE f = "air" -> AirTemp(h, v)               [] f = "pool" -> PoolTemp(h, v)
      [] f = "spa" -> SpaTemp(h, v)               [] f = "poolSet" -> PoolTempSetpoint(h, v)
      [] f = "spaSet" -> SpaTempSetpoint(h, v)    [] f = "poolSet2" -> PoolTempSetpoint2(h, v)
      [] f = "heater2" -> PoolHeater2Enabled(h, v) [] f = "orp" -> ORP(h, v)
      [] f = "ph" -> PH(h, v)

PageValue ==
    /\ framesLeft > 0
    /\ framesLeft' = framesLeft - 1
    /\ \E f \in Readings, v \in Degrees : Becomes(SetValue(Hub, f, v))

(* A page that names the panel's mode: the spa drain and fill modes too.     *)
PageMode ==
    /\ framesLeft > 0
    /\ framesLeft' = framesLeft - 1
    /\ \E mode \in Modes : Becomes(SetCirculationMode(Hub, mode))

(* The version page names the panel type; a configuration the user stated is *)
(* left alone.  (The cache restores one the same way.)                       *)
ConfigurationFound ==
    /\ conf.source = "Auto"
    /\ \E config \in {"SingleBody", "DualBody"} :
          Becomes(ApplyPoolConfiguration(Hub, config, "Auto", "pool"))
    /\ UNCHANGED framesLeft

(* Start: nothing known, or the configuration of the settings, and perhaps   *)
(* the pump that the equipment cache restored.                               *)
EmptyHub ==
    [readings |-> [f \in Readings |-> NoTemp], bodies |-> <<>>,
     conf |-> [config |-> "Unknown", source |-> "Auto"], mode |-> "Pool",
     equipment |-> <<>>, last |-> <<>>,
     told |-> [readings |-> [f \in Readings |-> NoTemp], mode |-> "Pool",
               active |-> <<>>, buttons |-> <<>>]]

CachedPump ==
    [p \in {"cachedPump"} |-> [label |-> "Filter Pump", role |-> "none", status |-> "Unknown"]]

StartHubs ==
    LET configured == {EmptyHub} \cup
            {ApplyPoolConfiguration(EmptyHub, c, "UserSpecified", k) :
                c \in {"SingleBody", "DualBody"}, k \in Body}
    IN  configured \cup {[h EXCEPT !.equipment = CachedPump] : h \in configured}

HubInit ==
    /\ \E h \in StartHubs :
          /\ readings = h.readings /\ bodies = h.bodies /\ conf = h.conf
          /\ circulation = h.mode /\ equipment = h.equipment
          /\ lastButton = h.last /\ told = h.told
    /\ framesLeft = MaxHubFrames

HubNext == Slot_MainStatus \/ PageValue \/ PageMode \/ ConfigurationFound

HubSpec == HubInit /\ [][HubNext]_hubVars

-----------------------------------------------------------------------------
(* Every member has its type: data_hub.h lines 88 to 141 and the m_ members. *)
HubTypeOK ==
    /\ readings \in [Readings -> Degrees \cup {NoTemp}]
    /\ DOMAIN bodies \subseteq Body
    /\ \A b \in DOMAIN bodies :
          /\ bodies[b].active \in BOOLEAN
          /\ {bodies[b].temp, bodies[b].setpoint} \subseteq Degrees \cup {NoTemp}
    /\ conf \in [config : Configs, source : {"Auto", "UserSpecified"}]
    /\ circulation \in Modes
    /\ DOMAIN equipment \subseteq Pumps \cup Heaters
    /\ DOMAIN lastButton \subseteq DOMAIN equipment
    /\ framesLeft \in 0..MaxHubFrames

(* A subscriber that applies every event knows every reading the hub holds:  *)
(* an event is suppressed only when it would repeat the last one.            *)
ToldReadings == told.readings = readings

(* A body never shows a temperature or a setpoint other than the last one    *)
(* announced for that body (PoolTemp() reads the body, the event carried the *)
(* hub's own member: two copies of one value).                               *)
BodiesShowTold ==
    \A b \in DOMAIN bodies :
       /\ bodies[b].temp \in {NoTemp, told.readings[b]}
       /\ bodies[b].setpoint \in {NoTemp, told.readings[IF b = "pool" THEN "poolSet" ELSE "spaSet"]}

(* As soon as there are bodies exactly one is active, so that exactly one    *)
(* temperature is reported; of two bodies it is the one the mode names.      *)
OneBodyActive ==
    DOMAIN bodies # {} =>
       /\ \E b \in DOMAIN bodies : {x \in DOMAIN bodies : bodies[x].active} = {b}
       /\ DOMAIN bodies = Body => bodies["spa"].active = SpaActive(circulation)
       /\ Cardinality({b \in Body : CurrentTempForReporting(b) # NoTemp /\ b \in DOMAIN bodies}) <= 1

(* Subscribers know the circulation mode, and the activity of the bodies as  *)
(* soon as any circulation event listed them.                                *)
ToldCirculation ==
    /\ told.mode = circulation
    /\ DOMAIN told.active # {} => told.active = [b \in DOMAIN bodies |-> bodies[b].active]

(* The state last announced for a pump or heater is its state: a suppressed  *)
(* repeat never hides a change back.                                         *)
ButtonsTold ==
    \A d \in DOMAIN told.buttons : told.buttons[d] = equipment[d].status

(* The pump a cache restored and the pump a status frame describes are one   *)
(* device: there are never two called "Filter Pump".                         *)
OneFilterPump == Cardinality(DOMAIN equipment \cap Pumps) <= 1

(* Whoever follows the hub's events knows what the hub holds, and the hub    *)
(* holds one pump, one active body and one value of each reading.            *)
HubSafe ==
    /\ HubTypeOK /\ ToldReadings /\ BodiesShowTold /\ OneBodyActive
    /\ ToldCirculation /\ ButtonsTold /\ OneFilterPump
=============================================================================
