------------------------------- MODULE Pentair ------------------------------
(* The Pentair side of the bus: its frames (pentair/messages/...), the       *)
(* factory, the discovery of devices by the address they send from           *)
(* (pentair/equipment) and the three devices that put what they hear into    *)
(* the data hub (pentair/devices): variable-speed pumps, the IntelliChlor    *)
(* and the controller. Each device has a watchdog                            *)
(* (core/devices/capabilities/restartable.cpp).                              *)
(*                                                                           *)
(* One pump, at PumpAddress; its device in the hub may be removed by others  *)
(* (a cleared cache, a merge of duplicates) at any time.                     *)
EXTENDS Integers, Sequences, FiniteSets

CONSTANTS
    Senders,     \* the addresses frames come from
    MaxDevices,  \* bound: hub devices ever created for the pump
    Deadline     \* ticks without a frame after which a watchdog expires

ASSUME PentairConstants == MaxDevices \in Nat /\ Deadline \in Nat /\ Senders \subseteq 0..255

VARIABLES
    frame,       \* the frame under way: [sent, bytes, damaged] or NoFrame
    known,       \* addresses with a device in the equipment hub
    pump,        \* the pump device: its readings, its hub identifier, its watchdog
    hubPumps,    \* the data hub's pump devices, by identifier
    hubChlor,    \* the data hub's chlorinator
    hubBodies,   \* temperatures and circulation mode in the data hub
    made         \* devices created so far

pentairVars == <<frame, known, pump, hubPumps, hubChlor, hubBodies, made>>

-----------------------------------------------------------------------------
(* Frames: A5 from dest command length data checksum, offsets from 0.        *)

CONTROLLER_ADDRESS == 16

CHLORINATOR_ADDRESS == 80

PumpAddress == 96

START_OF_FRAME == 165

HEADER_LENGTH == 5

CHECKSUM_LENGTH == 2

ByteAt(f, i) == f[i + 1]

(* The sum of the first n bytes, kept in sixteen bits. *)
PentairPacket_CalculateChecksum(bytes) ==
    LET sum[n \in 0 .. Len(bytes)] == IF n = 0 THEN 0 ELSE (sum[n - 1] + bytes[n]) % 65536
    IN  sum[Len(bytes)]

AppendBigEndianChecksum(bytes) ==
    LET sum == PentairPacket_CalculateChecksum(bytes) IN bytes \o <<sum \div 256, sum % 256>>

SerializeFrame(from, dest, command, data) ==
    AppendBigEndianChecksum(<<START_OF_FRAME, from, dest, command, Len(data)>> \o data)

FrameSizeIsValid(f) == Len(f) >= HEADER_LENGTH + CHECKSUM_LENGTH /\ Len(f) = HEADER_LENGTH + ByteAt(f, 4) + CHECKSUM_LENGTH

(* MUTANT: only the low byte of the sum is compared. *)
FrameChecksumLowByte(f) == PentairPacket_CalculateChecksum(SubSeq(f, 1, Len(f) - 2)) % 256 = f[Len(f)]

FrameChecksumIsValid(f) ==
    PentairPacket_CalculateChecksum(SubSeq(f, 1, Len(f) - CHECKSUM_LENGTH)) = 256 * f[Len(f) - 1] + f[Len(f)]

(* A data byte beyond the advertised length reads as zero. *)
DataByteAt(f, i) == IF i >= ByteAt(f, 4) THEN 0 ELSE ByteAt(f, HEADER_LENGTH + i)

BigEndian(f, high) == 256 * DataByteAt(f, high) + DataByteAt(f, high + 1)

FlagSet(byte, mask) == (byte \div mask) % 2 = 1

-----------------------------------------------------------------------------
(* The message classes: command byte, what a frame must have to be taken,    *)
(* what is read of it, and the data sent for it.                             *)

Controller_Status == 2

Pump_Speed == 1

Pump_Power == 6

Pump_Status == 7

Chlorinator_SetOutput == 17

Chlorinator_Status == 18

PumpStatusOf(f) ==
    [kind |-> "pump", running |-> DataByteAt(f, 0) = 10, watts |-> BigEndian(f, 3), rpm |-> BigEndian(f, 5), gpm |-> DataByteAt(f, 7)]

PumpStatusData(m) ==
    <<IF m.running THEN 10 ELSE 4, 0, 0, m.watts \div 256, m.watts % 256, m.rpm \div 256, m.rpm % 256, m.gpm>>

PowerOf(f) == [kind |-> "power", on |-> DataByteAt(f, 0) = 10]

PowerData(m) == <<IF m.on THEN 10 ELSE 4>>

SpeedOf(f) == [kind |-> "speed", rpm |-> BigEndian(f, 0)]

SpeedData(m) == <<m.rpm \div 256, m.rpm % 256>>

SALT_PPM_PER_UNIT == 50

ChlorinatorStatusOf(f) ==
    [kind |-> "chlorinator", salt |-> DataByteAt(f, 0) * SALT_PPM_PER_UNIT, output |-> DataByteAt(f, 1), flags |-> DataByteAt(f, 2)]

ChlorinatorStatusData(m) == <<(m.salt \div SALT_PPM_PER_UNIT) % 256, m.output, m.flags>>

SetOutputOf(f) == [kind |-> "output", output |-> DataByteAt(f, 0)]

SetOutputData(m) == <<m.output>>

(* The controller's frame may be short: its temperatures may be missing. *)
ControllerStatusOf(f) ==
    [kind |-> "controller", hour |-> DataByteAt(f, 0), minute |-> DataByteAt(f, 1), circuits |-> DataByteAt(f, 2),
     hasWater |-> ByteAt(f, 4) > 3, water |-> DataByteAt(f, 3), hasAir |-> ByteAt(f, 4) > 4, air |-> DataByteAt(f, 4),
     heaters |-> DataByteAt(f, 5)]

ControllerStatusData(m) == <<m.hour, m.minute, m.circuits, m.water, m.air, m.heaters>>

UnknownOf(f) == [kind |-> "unknown", payload |-> SubSeq(f, HEADER_LENGTH + 1, HEADER_LENGTH + ByteAt(f, 4))]

(* Command byte, fewest data bytes and the reader of each class. *)
CommandOf(m) ==
    CASE m.kind = "pump" -> Pump_Status [] m.kind = "power" -> Pump_Power [] m.kind = "speed" -> Pump_Speed
      [] m.kind = "chlorinator" -> Chlorinator_Status [] m.kind = "output" -> Chlorinator_SetOutput
      [] m.kind = "controller" -> Controller_Status [] OTHER -> 0

Data(m) ==
    CASE m.kind = "pump" -> PumpStatusData(m) [] m.kind = "power" -> PowerData(m) [] m.kind = "speed" -> SpeedData(m)
      [] m.kind = "chlorinator" -> ChlorinatorStatusData(m) [] m.kind = "output" -> SetOutputData(m)
      [] m.kind = "controller" -> ControllerStatusData(m) [] OTHER -> m.payload

Least(command) ==
    CASE command = Pump_Status -> 8 [] command = Pump_Power -> 1 [] command = Pump_Speed -> 2
      [] command = Chlorinator_Status -> 3 [] command = Chlorinator_SetOutput -> 1 [] OTHER -> 0

CreateMessageFromCommand(command, f) ==
    CASE command = Pump_Status -> PumpStatusOf(f) [] command = Pump_Power -> PowerOf(f) [] command = Pump_Speed -> SpeedOf(f)
      [] command = Chlorinator_Status -> ChlorinatorStatusOf(f) [] command = Chlorinator_SetOutput -> SetOutputOf(f)
      [] command = Controller_Status -> ControllerStatusOf(f) [] OTHER -> UnknownOf(f)

NotAccepted == [kind |-> "none"]

DeserializeFrame(f) ==
    IF FrameSizeIsValid(f) /\ FrameChecksumIsValid(f) /\ ByteAt(f, 4) >= Least(ByteAt(f, 3))
    THEN CreateMessageFromCommand(ByteAt(f, 3), f)
    ELSE NotAccepted

-----------------------------------------------------------------------------
(* What equipment on the bus says. *)

PumpReports ==
    {[kind |-> "pump", running |-> TRUE, watts |-> 300, rpm |-> 2400, gpm |-> 40],
     [kind |-> "pump", running |-> FALSE, watts |-> 0, rpm |-> 0, gpm |-> 0]}

ChlorinatorReports == {[kind |-> "chlorinator", salt |-> s, output |-> o, flags |-> g] : s \in {3000}, o \in {0, 60}, g \in {5, 18}}

ControllerReports ==
    {[kind |-> "controller", hour |-> 7, minute |-> 30, circuits |-> c, hasWater |-> TRUE, water |-> w, hasAir |-> TRUE, air |-> 70, heaters |-> 1] :
        c \in {1, 32}, w \in {0, 80}}

OtherTraffic ==
    {[kind |-> "power", on |-> TRUE], [kind |-> "speed", rpm |-> 1500], [kind |-> "output", output |-> 50],
     [kind |-> "unknown", payload |-> <<1, 2>>]}

NoFrame == [sent |-> NotAccepted, from |-> 0, bytes |-> <<>>, damaged |-> FALSE]

Send(m, from) ==
    /\ frame = NoFrame
    /\ frame' = [sent |-> m, from |-> from, bytes |-> SerializeFrame(from, CONTROLLER_ADDRESS, CommandOf(m), Data(m)), damaged |-> FALSE]
    /\ UNCHANGED <<known, pump, hubPumps, hubChlor, hubBodies, made>>

(* Bound: a byte is changed only before the first device is found; what is   *)
(* made of the frame does not depend on the devices.                         *)
DamageFrame ==
    /\ frame # NoFrame /\ ~ frame.damaged /\ known = {}
    /\ \E i \in 2..Len(frame.bytes), b \in {0, 1, 255} :
          b # frame.bytes[i] /\ frame' = [frame EXCEPT !.bytes[i] = b, !.damaged = TRUE]
    /\ UNCHANGED <<known, pump, hubPumps, hubChlor, hubBodies, made>>

LoseFrame ==
    /\ frame # NoFrame
    /\ frame' = NoFrame
    /\ UNCHANGED <<known, pump, hubPumps, hubChlor, hubBodies, made>>

-----------------------------------------------------------------------------
(* Discovery: only an address of the right range makes a device, and only    *)
(* the first time.                                                           *)

ValidSender(m, from) ==
    CASE m.kind = "pump" -> from \in 96..111 [] m.kind = "chlorinator" -> from = CHLORINATOR_ADDRESS
      [] m.kind = "controller" -> from = CONTROLLER_ADDRESS [] OTHER -> FALSE

(* MUTANT: any sender makes a device. *)
IdentifyAndAddAnyone(m, from) == IF m.kind \in {"pump", "chlorinator", "controller"} THEN known \cup {from} ELSE known

IdentifyAndAdd(m, from) == IF ValidSender(m, from) THEN known \cup {from} ELSE known

(* The hub's device of the pump: the one it made, or a new one if that is    *)
(* gone.                                                                     *)
Off == [status |-> "Off", gpm |-> 0]

(* MUTANT: a report always makes a device. *)
ResolvePumpDeviceAnew == made + 1

ResolvePumpDevice == IF pump.id \in DOMAIN hubPumps THEN pump.id ELSE made + 1

PutPump(id, status) == [i \in DOMAIN hubPumps \cup {id} |-> IF i = id THEN status ELSE hubPumps[i]]

(* A kick is ignored once the watchdog has expired: nothing starts it again. *)
Kicked(p) == IF p.watching THEN [p EXCEPT !.quiet = 0] ELSE p

Slot_Pump_Status(m) ==
    LET id == ResolvePumpDevice
    IN /\ pump' = Kicked([pump EXCEPT !.running = m.running, !.rpm = m.rpm, !.id = id])
       /\ hubPumps' = PutPump(id, [status |-> IF m.running THEN "Running" ELSE "Off", gpm |-> m.gpm])
       /\ made' = IF id = made + 1 THEN id ELSE made

FlagsToHealth(flags) ==
    CASE FlagSet(flags, 4) -> "NoFlow" [] FlagSet(flags, 1) -> "LowSalt" [] FlagSet(flags, 2) -> "HighSalt"
      [] FlagSet(flags, 16) -> "CleanCell" [] OTHER -> "Ok"

Slot_Chlorinator_Status(m) ==
    hubChlor' = [salt |-> m.salt, percent |-> m.output, health |-> FlagsToHealth(m.flags), on |-> m.output > 0]

(* MUTANT: the water temperature goes to the pool whatever circulates. *)
SlotControllerStatusPool(m) ==
    LET spa == FlagSet(m.circuits, 1)
    IN hubBodies' = [hubBodies EXCEPT !.air = IF m.hasAir /\ m.air # 0 THEN m.air ELSE @,
                                      !.pool = IF m.hasWater /\ m.water # 0 THEN m.water ELSE @,
                                      !.mode = IF spa THEN "Spa" ELSE "Pool"]

Slot_Controller_Status(m) ==
    LET spa == FlagSet(m.circuits, 1)
        water == m.hasWater /\ m.water # 0
    IN hubBodies' = [hubBodies EXCEPT !.air = IF m.hasAir /\ m.air # 0 THEN m.air ELSE @,
                                      !.spa = IF water /\ spa THEN m.water ELSE @,
                                      !.pool = IF water /\ ~ spa THEN m.water ELSE @,
                                      !.mode = IF spa THEN "Spa" ELSE "Pool"]

(* A frame arrives. The device the frame itself brings into being may or may *)
(* not hear it: the signal is being emitted while it connects.               *)
ReceiveFrame ==
    /\ frame # NoFrame
    /\ frame' = NoFrame
    /\ LET m == DeserializeFrame(frame.bytes)
           from == IF m = NotAccepted THEN 0 ELSE ByteAt(frame.bytes, 1)
       IN /\ known' = IF m = NotAccepted THEN known ELSE IdentifyAndAdd(m, from)
          /\ \E hears \in {from \in known} \cup (IF from \in known' THEN {TRUE} ELSE {}) :
                IF hears /\ m.kind = "pump" /\ from = PumpAddress /\ (made < MaxDevices \/ pump.id \in DOMAIN hubPumps)
                THEN Slot_Pump_Status(m) /\ UNCHANGED <<hubChlor, hubBodies>>
                ELSE IF hears /\ m.kind = "chlorinator" /\ from = CHLORINATOR_ADDRESS
                THEN Slot_Chlorinator_Status(m) /\ UNCHANGED <<pump, hubPumps, hubBodies, made>>
                ELSE IF hears /\ m.kind = "controller" /\ from = CONTROLLER_ADDRESS
                THEN Slot_Controller_Status(m) /\ UNCHANGED <<pump, hubPumps, hubChlor, made>>
                ELSE UNCHANGED <<pump, hubPumps, hubChlor, hubBodies, made>>

-----------------------------------------------------------------------------
(* Time passes; the main loop polls the watchdogs once per frame. *)
PentairTimePasses ==
    /\ PumpAddress \in known
    /\ pump.quiet <= Deadline
    /\ pump' = [pump EXCEPT !.quiet = @ + 1]
    /\ UNCHANGED <<frame, known, hubPumps, hubChlor, hubBodies, made>>

(* MUTANT: the readings are cleared and the hub is not told. *)
PumpTimedOutQuiet ==
    /\ PumpAddress \in known /\ pump.watching /\ pump.quiet > Deadline
    /\ pump' = [pump EXCEPT !.watching = FALSE, !.running = FALSE, !.rpm = 0]
    /\ UNCHANGED <<frame, known, hubPumps, hubChlor, hubBodies, made>>

(* CheckWatchdog and WatchdogTimeoutOccurred: the watchdog stops, the pump   *)
(* is taken to be off. Those of the chlorinator and the controller only log. *)
PumpTimedOut ==
    /\ PumpAddress \in known /\ pump.watching /\ pump.quiet > Deadline
    /\ made < MaxDevices \/ pump.id \in DOMAIN hubPumps
    /\ LET id == ResolvePumpDevice
       IN /\ pump' = [pump EXCEPT !.watching = FALSE, !.running = FALSE, !.rpm = 0, !.id = id]
          /\ hubPumps' = PutPump(id, Off)
          /\ made' = IF id = made + 1 THEN id ELSE made
    /\ UNCHANGED <<frame, known, hubChlor, hubBodies>>

(* Somebody else takes the device out of the hub. *)
Removed ==
    /\ \E id \in DOMAIN hubPumps : hubPumps' = [i \in DOMAIN hubPumps \ {id} |-> hubPumps[i]]
    /\ UNCHANGED <<frame, known, pump, hubChlor, hubBodies, made>>

PentairInit ==
    /\ frame = NoFrame /\ known = {} /\ made = 0
    /\ pump = [running |-> FALSE, rpm |-> 0, id |-> 0, watching |-> TRUE, quiet |-> 0]
    /\ hubPumps = [i \in {} |-> Off]
    /\ hubChlor = [salt |-> 0, percent |-> 0, health |-> "Ok", on |-> FALSE]
    /\ hubBodies = [air |-> 0, pool |-> 0, spa |-> 0, mode |-> "Unknown"]

PentairNext ==
    \/ \E m \in PumpReports \cup ChlorinatorReports \cup ControllerReports \cup OtherTraffic, from \in Senders : Send(m, from)
    \/ DamageFrame
    \/ LoseFrame
    \/ ReceiveFrame
    \/ PentairTimePasses
    \/ PumpTimedOut
    \/ Removed

PentairSpec == PentairInit /\ [][PentairNext]_pentairVars

-----------------------------------------------------------------------------
(* Devices exist for valid addresses only, whoever sent what, so a spoofed   *)
(* or garbled sender brings none into being; the pump's own reading agrees   *)
(* with its kind: IdentifyAndAdd.                                            *)
PentairTypeOK ==
    /\ known \subseteq (96..111) \cup {CHLORINATOR_ADDRESS, CONTROLLER_ADDRESS}
    /\ pump.quiet \in 0..(Deadline + 1) /\ pump.id \in 0..made
    /\ DOMAIN hubPumps \subseteq 1..made
    /\ hubChlor.on <=> hubChlor.percent > 0

(* What a class writes it reads back, and a frame with one byte changed is   *)
(* never accepted: Serialize, FrameSizeIsValid, FrameChecksumIsValid.        *)
FrameFidelity ==
    frame # NoFrame =>
        IF frame.damaged THEN DeserializeFrame(frame.bytes) = NotAccepted
        ELSE DeserializeFrame(frame.bytes) = frame.sent

(* The hub never has two devices for the one pump, however often its device  *)
(* was removed and made again: ResolvePumpDevice.                            *)
OnePumpDevice == Cardinality(DOMAIN hubPumps) <= 1

(* The hub's device shows what the pump device last heard, and off once the  *)
(* watchdog has run out on it: PushStatusToDataHub, WatchdogTimeoutOccurred. *)
HubShowsPump == pump.id \in DOMAIN hubPumps => (hubPumps[pump.id].status = "Running" <=> pump.running)

(* A reading of the circulating water changes the temperature of the body    *)
(* that circulates and never that of the other one: Slot_Controller_Status.  *)
BodiesApart ==
    [][ hubBodies' # hubBodies =>
            /\ hubBodies'.spa # hubBodies.spa => hubBodies'.mode = "Spa"
            /\ hubBodies'.pool # hubBodies.pool => hubBodies'.mode = "Pool" ]_pentairVars

(* The Pentair frames are read back or refused, and one pump is one device,  *)
(* shown as it was last heard.                                               *)
PentairSafe == PentairTypeOK /\ FrameFidelity /\ OnePumpDevice /\ HubShowsPump
=============================================================================
