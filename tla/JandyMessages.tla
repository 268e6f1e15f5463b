---------------------------- MODULE JandyMessages ---------------------------
(* The Jandy message classes (jandy/messages/...) and the factory that turns *)
(* a packet into one of them (factories/jandy_message_factory.h).            *)
(*                                                                           *)
(* Of each class there are two definitions: the fields its header lays out,  *)
(* and the class itself: its identifier, the highest offset a packet must    *)
(* have to be accepted, the text it extracts, and what it writes when it is  *)
(* sent. Getters and ToString only repeat the fields.                        *)
(*                                                                           *)
(* The state machine around them is one packet on its way: sent by this      *)
(* program or by other equipment, possibly damaged on the wire, received.    *)
(*                                                                           *)
(* First the packet every message travels in: header, destination, type,     *)
(* contents, checksum and footer (messages/jandy_message.cpp), the DLE-NUL   *)
(* stuffing of its bytes (utility/jandy_null_handler.cpp), and the reading   *)
(* of fields and texts out of an unstuffed packet                            *)
(* (messages/jandy_message_text_helpers.h). Bytes are the numbers 0..255 and *)
(* the code's offsets, which start at 0, are kept: At(p, i) reads offset i.  *)
EXTENDS Integers, Sequences, FiniteSets
LOCAL INSTANCE SequencesExt
LOCAL INSTANCE FiniteSetsExt
LOCAL INSTANCE Folds

CONSTANTS
    Bytes,      \* the byte values a sender puts into its fields
    Lines,      \* the texts sent
    Payloads,   \* the contents of packets other equipment sends
    Addresses   \* the destinations

ASSUME MessageConstants ==
    /\ Bytes \subseteq 0..255
    /\ Addresses \subseteq 0..255

VARIABLE
    letter      \* the packet under way and what was made of it

msgVars == <<letter>>

-----------------------------------------------------------------------------
(* The packet.                                                               *)

DLE == 16

STX == 2

ETX == 3

Index_MessageType == 3

Index_DataStart == 4

PACKET_FOOTER_LENGTH == 3

MINIMUM_PACKET_LENGTH == Index_DataStart + PACKET_FOOTER_LENGTH

MAXIMUM_PACKET_LENGTH == 128

At(p, i) == p[i + 1]

JandyPacket_CalculateChecksum(bytes) == FoldSeq(LAMBDA b, sum : (sum + b) % 256, 0, bytes)

-----------------------------------------------------------------------------
(* Stuffing. A NUL goes after every DLE between the start marker and the end *)
(* marker, the checksum included.                                            *)

Stuffed(bytes) == FlattenSeq([i \in DOMAIN bytes |-> IF bytes[i] = DLE THEN <<DLE, 0>> ELSE <<bytes[i]>>])

(* MUTANT: the checksum byte is left out of the stuffing. *)
SerializationBareChecksum(packet) ==
    SubSeq(packet, 1, 2) \o Stuffed(SubSeq(packet, 3, Len(packet) - 3)) \o SubSeq(packet, Len(packet) - 2, Len(packet))

JandyPacket_NullCharHandler_Serialization(packet) ==
    SubSeq(packet, 1, 2) \o Stuffed(SubSeq(packet, 3, Len(packet) - 2)) \o SubSeq(packet, Len(packet) - 1, Len(packet))

(* A NUL that follows a DLE is dropped, wherever in the packet it stands. *)
JandyPacket_NullCharHandler_Deserialization(bytes) ==
    LET kept == {i \in DOMAIN bytes : ~ (i > 1 /\ bytes[i] = 0 /\ bytes[i - 1] = DLE)}
        at(k) == CHOOSE i \in kept : Cardinality({j \in kept : j <= i}) = k
    IN [k \in 1..Cardinality(kept) |-> bytes[at(k)]]

-----------------------------------------------------------------------------
(* The packet around the contents, and the three checks of a received one.   *)

Framed(dest, type, contents) ==
    LET head == <<DLE, STX, dest, type>> \o contents
    IN head \o <<JandyPacket_CalculateChecksum(head), DLE, ETX>>

Serialize(dest, type, contents) == JandyPacket_NullCharHandler_Serialization(Framed(dest, type, contents))

PacketSizeIsValid(bytes) == Len(bytes) \in MINIMUM_PACKET_LENGTH..MAXIMUM_PACKET_LENGTH

PacketFramingIsValid(p) ==
    /\ Len(p) >= MINIMUM_PACKET_LENGTH
    /\ At(p, 0) = DLE /\ At(p, 1) = STX
    /\ At(p, Len(p) - 2) = DLE /\ At(p, Len(p) - 1) = ETX

(* MUTANT: the checksum is computed and not compared. *)
PacketChecksumUnread(p) == Len(p) >= MINIMUM_PACKET_LENGTH

PacketChecksumIsValid(p) ==
    /\ Len(p) >= MINIMUM_PACKET_LENGTH
    /\ JandyPacket_CalculateChecksum(SubSeq(p, 1, Len(p) - 3)) = At(p, Len(p) - 3)

-----------------------------------------------------------------------------
(* Fields. A field is read when the packet is longer than its "from": for    *)
(* most of them that is what the class requires of every packet it accepts.  *)
(* Garbage stands for a byte read beyond the end of the packet.              *)

Garbage == -1000000

ReadU8(p, i) == IF i < Len(p) THEN At(p, i) ELSE Garbage

ReadU16LE(p, low) == ReadU8(p, low) + 256 * ReadU8(p, low + 1)

RequireIndex(p, i) == Len(p) > i

(* A field: where it starts, its bytes, the bits kept of it, the scale, and  *)
(* the enumerators it is cast to with what stands for any other value.       *)
U8(at) == [at |-> at, bytes |-> 1, shift |-> 0, width |-> 8, times |-> 1, over |-> 1, known |-> {}, other |-> 0, from |-> at]

U16(at, over) == [U8(at) EXCEPT !.bytes = 2, !.width = 16, !.over = over, !.from = at + 1]

Bits(at, shift, width, known, other) == [U8(at) EXCEPT !.shift = shift, !.width = width, !.known = known, !.other = other]

Enum(at, known, other) == [U8(at) EXCEPT !.known = known, !.other = other]

FromSize(f, size) == [f EXCEPT !.from = size]

Cast(f, v) == IF f.known = {} \/ v \in f.known \/ v < 0 THEN v ELSE f.other

(* MUTANT: the bits of the neighbouring fields are not masked off. *)
ReadUnmasked(p, f) ==
    LET raw == IF f.bytes = 1 THEN ReadU8(p, f.at) ELSE ReadU16LE(p, f.at)
    IN IF raw < 0 THEN Garbage ELSE ((raw \div 2^f.shift) * f.times) \div f.over

Read(p, f) ==
    LET raw == IF f.bytes = 1 THEN ReadU8(p, f.at) ELSE ReadU16LE(p, f.at)
    IN IF raw < 0 THEN Garbage ELSE Cast(f, (((raw \div 2^f.shift) % 2^f.width) * f.times) \div f.over)

-----------------------------------------------------------------------------
(* Texts.                                                                    *)

Printable == 32..126

SanitisePrintableAsciiByte(b) == IF b \in Printable THEN b ELSE 63

AppendSanitisedAscii(bytes) == [i \in DOMAIN bytes |-> SanitisePrintableAsciiByte(bytes[i])]

(* What lies between an offset and the footer. *)
Trailing(p, start) == IF Len(p) <= start + PACKET_FOOTER_LENGTH THEN <<>> ELSE SubSeq(p, start + 1, Len(p) - PACKET_FOOTER_LENGTH)

(* MUTANT: the checksum is taken for the last character. *)
ExtractTrailingDisplayLineLong(p, start) ==
    LET payload == SubSeq(p, start + 1, Len(p) - 2)
    IN AppendSanitisedAscii(payload)

(* Trailing unprintable bytes are trimmed and an inner NUL becomes a space.  *)
ExtractTrailingDisplayLine(p, start) ==
    LET payload == Trailing(p, start)
        visible_end == Max({0} \cup {i \in DOMAIN payload : payload[i] \in Printable})
    IN [i \in 1..visible_end |-> IF payload[i] = 0 THEN 32 ELSE SanitisePrintableAsciiByte(payload[i])]

-----------------------------------------------------------------------------
(* The parts of a class. "sends" lists what SerializeContents appends: the   *)
(* names of fields, "zero", "text"; NotSent when it returns false.           *)

NotSent == <<"never">>

NoText == [kind |-> "none", at |-> 0, cut |-> 0]

Line(at) == [kind |-> "line", at |-> at, cut |-> MAXIMUM_PACKET_LENGTH]

LineOf16(at) == [kind |-> "line", at |-> at, cut |-> 16]

UpToNul(at) == [kind |-> "id", at |-> at, cut |-> MAXIMUM_PACKET_LENGTH]

RawPayload(at) == [kind |-> "raw", at |-> at, cut |-> MAXIMUM_PACKET_LENGTH]

NoFields == [none \in {} |-> U8(0)]

Class(id, fields, least, text, sends) ==
    [id |-> id, fields |-> fields, least |-> least, text |-> text, sends |-> sends]

(* Signals without contents: accepted whatever follows the header. *)
Signal(id) == Class(id, NoFields, 0, NoText, NotSent)

-----------------------------------------------------------------------------
(* The common messages.                                                      *)

Probe == Class(0, NoFields, 0, NoText, <<>>)

AckFields == [AckType |-> U8(4), Command |-> U8(5)]

Ack == Class(1, AckFields, 5, NoText, <<"AckType", "Command">>)

AuxillaryStatuses == 0..3

PumpStatuses == 0..2

HeaterStatuses == {0, 1, 4, 5}

ComboModes == 0..1

StatusFields ==
    [Aux5 |-> Bits(5, 7, 1, AuxillaryStatuses, 4), Aux2 |-> Bits(5, 6, 1, AuxillaryStatuses, 4),
     Aux3 |-> Bits(5, 4, 1, AuxillaryStatuses, 4), Aux7 |-> Bits(5, 0, 1, AuxillaryStatuses, 4),
     FilterPump |-> Bits(6, 4, 1, PumpStatuses, 3), Mode |-> Bits(6, 2, 1, ComboModes, 2),
     Aux1 |-> Bits(6, 0, 1, AuxillaryStatuses, 4), Aux6 |-> Bits(7, 6, 1, AuxillaryStatuses, 4),
     Aux4 |-> Bits(7, 0, 1, AuxillaryStatuses, 4), PoolHeater |-> Bits(8, 4, 3, HeaterStatuses, 6),
     SolarHeater |-> FromSize(Bits(9, 4, 3, HeaterStatuses, 6), 12),
     SpaHeater |-> FromSize(Bits(9, 0, 3, HeaterStatuses, 6), 12)]

(* MUTANT: the second heater byte is taken to be always there. *)
StatusShort == Class(2, [StatusFields EXCEPT !.SpaHeater.from = 8], 8, NoText, <<"zero", "zero", "zero", "zero", "zero">>)

Status == Class(2, StatusFields, MINIMUM_PACKET_LENGTH + 5 - 1, NoText, <<"zero", "zero", "zero", "zero", "zero">>)

MessageFields == NoFields

Message == Class(3, MessageFields, 4 + PACKET_FOOTER_LENGTH, LineOf16(4), <<"text">>)

MessageLongFields == [LineId |-> U8(4)]

MessageLong == Class(4, MessageLongFields, 5 + PACKET_FOOTER_LENGTH, LineOf16(5), <<"LineId", "text">>)

DisplayUpdate == Signal(5)

(* Any other type: the bytes are kept as they came. *)
Unknown == Class(255, NoFields, 0, RawPayload(4), <<"text">>)

-----------------------------------------------------------------------------
(* Keypad and PDA.                                                           *)

HighlightFields == [LineId |-> U8(4)]

Highlight == Class(8, HighlightFields, 4, NoText, <<"LineId", "zero", "zero">>)

Clear == Signal(9)

ShiftLinesFields == [FirstLineId |-> U8(4), LastLineId |-> U8(5), LineShift |-> U8(6)]

ShiftLines == Class(15, ShiftLinesFields, 6, NoText, NotSent)

HighlightCharsFields == [LineId |-> U8(4), StartIndex |-> U8(5), StopIndex |-> U8(6)]

HighlightChars == Class(16, HighlightCharsFields, 6, NoText, NotSent)

-----------------------------------------------------------------------------
(* Chlorinator, chemistry, pump, heater, light.                              *)

PercentFields == [Percent |-> U8(4)]

Percent == Class(17, PercentFields, 4, NoText, <<"Percent">>)

PanelDataTypes == {1, 2}

GetIdFields == [RequestedDataFlag |-> Enum(4, PanelDataTypes, 255)]

GetId == Class(20, GetIdFields, 4, NoText, <<"RequestedDataFlag">>)

SetPercentFields == [Percent |-> U8(4)]

SetPercent == Class(21, SetPercentFields, 4, NoText, <<"Percent">>)

(* On, TurningOff, Off, GeneralFault and Unknown are whole bytes; the others *)
(* are single bits.                                                          *)
AquariteStatuses == {0, 9, 255, 1, 2, 4, 16, 8, 32, 64, 128, 253, 254}

SingleBits == {2^k : k \in 0..7}

PPMFields == [PPM |-> [U8(4) EXCEPT !.times = 100], Status |-> Enum(5, AquariteStatuses, 254)]

(* The warnings a status byte stands for: itself if it is an enumerator,     *)
(* otherwise the single bits set in it.                                      *)
DecomposeStatusFlags(raw) ==
    IF raw \in AquariteStatuses THEN {raw}
    ELSE {bit \in AquariteStatuses \cap SingleBits : (raw \div bit) % 2 = 1}

PPM == Class(22, PPMFields, 5, NoText, <<"PPM", "Status">>)

ChemlinkDataTag == {2, 3, 8, 24}

ChemlinkFields == [DataTag |-> Enum(4, ChemlinkDataTag, 255), ValueLow |-> U8(5), ValueHigh |-> U8(6)]

Chemlink == Class(33, ChemlinkFields, 4, NoText, NotSent)

EPumpStatusFields == [SubCommand |-> U8(4)]

EPumpStatus == Class(31, EPumpStatusFields, 4, NoText, <<"SubCommand">>)

EPumpRPMFields == [RPM |-> U16(6, 4)]

EPumpRPM == Class(68, EPumpRPMFields, 7, NoText, NotSent)

EPumpWattsFields == [Watts |-> U16(7, 1)]

EPumpWatts == Class(69, EPumpWattsFields, 8, NoText, NotSent)

HeaterOperatingModes == {0, 1, 2, 9, 10, 17, 18, 25, 26, 41}

HeaterRequestFields ==
    [OperatingMode |-> Enum(4, HeaterOperatingModes, 255), PoolSetpoint |-> U8(5), SpaSetpoint |-> U8(6), WaterTemperature |-> U8(7)]

HeaterRequest == Class(12, HeaterRequestFields, 7, NoText, <<"OperatingMode", "PoolSetpoint", "SpaSetpoint", "WaterTemperature">>)

HeaterStates == {0, 8, 64, 72, 104}

HeaterErrors == {0, 2, 8, 16}

HeaterStatusFields == [HeaterState |-> Enum(4, HeaterStates, 255), ErrorCode |-> Enum(6, HeaterErrors, 255)]

HeaterStatus == Class(13, HeaterStatusFields, 6, NoText, <<"HeaterState", "zero", "ErrorCode">>)

LightStates == 0..1

LightFields == [State |-> Enum(4, LightStates, 255), LightMode |-> U8(5)]

Light == Class(25, LightFields, 4, NoText, <<"State", "LightMode">>)

-----------------------------------------------------------------------------
(* The serial adapter's two polls (their contents are in SerialAdapter).     *)

DevReady == Signal(7)

DevStatus == Class(19, [StatusType |-> U8(4), DeviceId |-> U8(7)], 7, NoText, NotSent)

-----------------------------------------------------------------------------
(* AqualinkTouch.                                                            *)

PageStartFields == [PageId |-> U8(4)]

PageStart == Class(35, PageStartFields, 0, NoText, NotSent)

ButtonStatuses == 0..3

ButtonTypes == 0..11

PageButtonFields ==
    [ButtonIndex |-> U8(4), ButtonState |-> Enum(5, ButtonStatuses, 255), ButtonType |-> Enum(7, ButtonTypes, 255)]

PageButton == Class(36, PageButtonFields, 8 + PACKET_FOOTER_LENGTH - 1, Line(8), NotSent)

PageMessageClassFields == [LineId |-> U8(4)]

PageMessageClass == Class(37, PageMessageClassFields, 5 + PACKET_FOOTER_LENGTH, Line(5), NotSent)

TableMessageFields == [LineId |-> U8(4), Attribute |-> U8(5)]

TableMessage == Class(38, TableMessageFields, 6 + PACKET_FOOTER_LENGTH, Line(6), NotSent)

PageEnd == Signal(40)

StartUp == Signal(41)

IaqMessageLong == Signal(44)

TitleMessageFields == NoFields

TitleMessage == Class(45, TitleMessageFields, 4 + PACKET_FOOTER_LENGTH, Line(4), NotSent)

PollClass == Signal(48)

ControlReady == Signal(49)

PageContinue == Signal(64)

DeviceIdFields == NoFields

DeviceId == Class(81, DeviceIdFields, 4 + PACKET_FOOTER_LENGTH, UpToNul(4), NotSent)

Heartbeat == Signal(83)

OneTouchStatusFields == NoFields

OneTouchStatus == Class(113, OneTouchStatusFields, 0, RawPayload(4), NotSent)

CommandReady == Signal(115)

(* Sent only, under the identifier of a page button: 17 bytes of text.       *)
ControlDataResponse == Class(36, NoFields, MAXIMUM_PACKET_LENGTH, NoText, <<"text17">>)

-----------------------------------------------------------------------------
(* Two classes walk a payload of variable length. A walk is the position     *)
(* reached and what was read, or Short when the payload ends too early.      *)

Short == [ok |-> FALSE, pos |-> 0, items |-> <<>>]

Walk(pos, items) == [ok |-> TRUE, pos |-> pos, items |-> items]

(* One device: status, type, two bytes of padding, the length of the name    *)
(* and the name.                                                             *)
AuxDeviceInfo(payload, index, pos) ==
    [device_index |-> index, is_on |-> payload[pos + 1] = 1, type |-> payload[pos + 2],
     name |-> AppendSanitisedAscii(SubSeq(payload, pos + 6, pos + 5 + payload[pos + 5]))]

(* MUTANT: the two bytes of padding are not counted. *)
AuxDevicesUnpadded(payload, count) ==
    LET walk[i \in 0..count] ==
            IF i = 0 THEN Walk(1 + count, <<>>)
            ELSE LET w == walk[i - 1]
                 IN IF ~ w.ok \/ w.pos + 3 > Len(payload) THEN Short
                    ELSE Walk(w.pos + 5 + (IF w.pos + 5 <= Len(payload) THEN payload[w.pos + 5] ELSE 0),
                              Append(w.items, [device_index |-> payload[1 + i]]))
    IN walk[count]

AuxDevices(payload, count) ==
    LET walk[i \in 0..count] ==
            IF i = 0 THEN Walk(1 + count, <<>>)
            ELSE LET w == walk[i - 1]
                 IN IF ~ w.ok \/ w.pos + 5 > Len(payload) THEN Short
                    ELSE IF w.pos + 5 + payload[w.pos + 5] > Len(payload) THEN Short
                    ELSE Walk(w.pos + 5 + payload[w.pos + 5], Append(w.items, AuxDeviceInfo(payload, payload[1 + i], w.pos)))
    IN walk[count]

AuxStatus(payload) == IF payload = <<>> \/ 1 + payload[1] > Len(payload) THEN Short ELSE AuxDevices(payload, payload[1])

Word(payload, pos) == 256 * payload[pos + 1] + payload[pos + 2]

(* Panels that end the device list with 0x0E 0x0F report pump and spa mode,  *)
(* two unknown bytes and temperatures in tenths, with a set point if there   *)
(* is room left for one.                                                     *)
DeserializeLegacyStatus(payload, pos) ==
    IF pos + 10 > Len(payload) THEN Short
    ELSE LET setpoint == pos + 12 <= Len(payload)
         IN Walk(IF setpoint THEN pos + 12 ELSE pos + 10,
                 <<[PumpOn |-> payload[pos + 1] # 0, SpaMode |-> payload[pos + 2] # 0,
                    PoolTemp |-> Word(payload, pos + 4), SpaTemp |-> Word(payload, pos + 6), AirTemp |-> Word(payload, pos + 8),
                    HeaterSetpoint |-> IF setpoint THEN Word(payload, pos + 10) ELSE -1]>>)

(* The larger panels report the heaters, the two set points, the air and the *)
(* circulating water: in a body only while the pump runs and the reading is  *)
(* one.                                                                      *)
RawToHeaterStatus(raw) == CASE raw = 0 -> 0 [] raw = 1 -> 1 [] raw = 3 -> 4 [] OTHER -> 6

DeserializeCurrentStatus(payload, pos) ==
    IF pos + 13 > Len(payload) THEN Short
    ELSE LET pump == payload[pos + 1] # 0
             spa == payload[pos + 3] # 0
             water == Word(payload, pos + 11)
             measured == pump /\ water > 1
         IN Walk(pos + 13,
                 <<[PumpOn |-> pump, SpaMode |-> spa,
                    PoolHeater |-> RawToHeaterStatus(payload[pos + 2]), SpaHeater |-> RawToHeaterStatus(payload[pos + 4]),
                    SolarHeater |-> RawToHeaterStatus(payload[pos + 5]),
                    PoolTemp |-> IF measured /\ ~ spa THEN water ELSE -1, SpaTemp |-> IF measured /\ spa THEN water ELSE -1,
                    AirTemp |-> Word(payload, pos + 9),
                    HeaterSetpoint |-> IF spa THEN Word(payload, pos + 7) ELSE Word(payload, pos + 5)]>>)

MainStatusValues(payload) ==
    IF payload = <<>> \/ 1 + payload[1] > Len(payload) THEN Short
    ELSE LET pos == 1 + payload[1]
         IN IF pos + 1 < Len(payload) /\ payload[pos + 1] = 14 /\ payload[pos + 2] = 15
            THEN DeserializeLegacyStatus(payload, pos + 2)
            ELSE DeserializeCurrentStatus(payload, pos)

AuxStatusId == 114

MainStatusId == 112

-----------------------------------------------------------------------------
(* The factory: the registered classes, and the choice among them by the     *)
(* type byte of the packet as it came, still stuffed.                        *)

Registered ==
    {Probe, Ack, Status, Message, MessageLong, DisplayUpdate, Unknown, Highlight, Clear, ShiftLines, HighlightChars,
     Percent, GetId, SetPercent, PPM, Chemlink, EPumpStatus, EPumpRPM, EPumpWatts, HeaterRequest, HeaterStatus, Light,
     DevReady, DevStatus, PageStart, PageButton, PageMessageClass, TableMessage, PageEnd, StartUp, IaqMessageLong,
     TitleMessage, PollClass, ControlReady, PageContinue, DeviceId, Heartbeat, OneTouchStatus, CommandReady}

Sendable == {c \in Registered : c.sends # NotSent} \cup {ControlDataResponse}

CreateMessageFromRaw(id) ==
    IF \E c \in Registered : c.id = id THEN CHOOSE c \in Registered : c.id = id ELSE Unknown

(* MUTANT: the type is read at its fixed place, whatever was stuffed before. *)
TypeByteFixed(bytes) == At(bytes, Index_MessageType)

TypeByte(bytes) ==
    IF At(bytes, 2) = DLE /\ At(bytes, Index_MessageType) = 0 THEN At(bytes, Index_MessageType + 1) ELSE At(bytes, Index_MessageType)

(* What a class makes of an unstuffed packet. *)
Text(c, p) ==
    LET body == Trailing(p, c.text.at)
        line == ExtractTrailingDisplayLine(p, c.text.at)
        nul == Min({Len(body) + 1} \cup {i \in DOMAIN body : body[i] = 0})
    IN CASE c.text.kind = "line" -> SubSeq(line, 1, IF Len(line) > c.text.cut THEN c.text.cut ELSE Len(line))
         [] c.text.kind = "id" -> AppendSanitisedAscii(SubSeq(body, 1, nul - 1))
         [] c.text.kind = "raw" -> body
         [] c.text.kind = "none" -> <<>>

DeserializeContents(c, p) ==
    [fields |-> [n \in {m \in DOMAIN c.fields : RequireIndex(p, c.fields[m].from)} |-> Read(p, c.fields[n])],
     text |-> Text(c, p)]

Refused == [ok |-> FALSE]

Walked(w) == IF w.ok THEN [ok |-> TRUE, pos |-> w.pos, items |-> w.items] ELSE Refused

CreateFromSerialData(bytes) ==
    LET p == JandyPacket_NullCharHandler_Deserialization(bytes)
        id == TypeByte(bytes)
        class == CreateMessageFromRaw(id)
    IN IF ~ (PacketSizeIsValid(bytes) /\ PacketFramingIsValid(p) /\ PacketChecksumIsValid(p)) THEN Refused
       ELSE IF id = AuxStatusId THEN Walked(AuxStatus(Trailing(p, Index_DataStart)))
       ELSE IF id = MainStatusId THEN Walked(MainStatusValues(Trailing(p, Index_DataStart)))
       ELSE IF ~ RequireIndex(p, class.least) THEN Refused
       ELSE [ok |-> TRUE, class |-> class, dest |-> At(p, 2), contents |-> DeserializeContents(class, p)]

-----------------------------------------------------------------------------
(* Sending: the values of the fields are put into bytes, scaled back.        *)

Padded17(text) == [i \in 1..17 |-> IF i <= Len(text) THEN text[i] ELSE 0]

SerializeContents(c, values, text) ==
    FlattenSeq([i \in DOMAIN c.sends |->
        CASE c.sends[i] = "zero" -> <<0>>
          [] c.sends[i] = "text" -> text
          [] c.sends[i] = "text17" -> Padded17(text)
          [] OTHER -> <<(values[c.sends[i]] \div c.fields[c.sends[i]].times) % 256>>])

(* The values a sender can hold: enumerators, and whole multiples of the     *)
(* scale.                                                                    *)
Holdable(f) == {b * f.times : b \in IF f.known = {} THEN Bytes ELSE f.known \cap Bytes}

Sent(c) == {n \in DOMAIN c.fields : \E i \in DOMAIN c.sends : c.sends[i] = n}

FieldValues(c) == {v \in [Sent(c) -> UNION {Holdable(c.fields[n]) : n \in Sent(c)}] : \A n \in Sent(c) : v[n] \in Holdable(c.fields[n])}

Texts(c) == IF \E i \in DOMAIN c.sends : c.sends[i] \in {"text", "text17"} THEN Lines ELSE {<<>>}

-----------------------------------------------------------------------------
NoLetter == [stage |-> "none"]

Compose(c, dest) ==
    /\ letter = NoLetter
    /\ \E v \in FieldValues(c), t \in Texts(c) :
          letter' = [stage |-> "wire", class |-> c, dest |-> dest, values |-> v, text |-> t, damaged |-> FALSE,
                     bytes |-> Serialize(dest, c.id, SerializeContents(c, v, t))]

(* Other equipment talks: any type, any payload, framed like ours. *)
Overhear(id, dest) ==
    /\ letter = NoLetter
    /\ \E payload \in Payloads :
          letter' = [stage |-> "heard", payload |-> payload, id |-> id, dest |-> dest, bytes |-> Serialize(dest, id, payload)]

(* A byte is changed on the wire; next to a NUL the stuffing could hide it.  *)
Damage ==
    /\ letter.stage = "wire" /\ ~ letter.damaged
    /\ \E i \in DOMAIN letter.bytes, b \in Bytes :
          /\ b # letter.bytes[i]
          /\ ~ (i < Len(letter.bytes) /\ letter.bytes[i + 1] = 0)
          /\ letter' = [letter EXCEPT !.bytes[i] = b, !.damaged = TRUE]

Receive ==
    /\ letter.stage \in {"wire", "heard"}
    /\ letter' = [letter EXCEPT !.stage = IF letter.stage = "wire" THEN "read" ELSE "overheard"]
                 @@ [out |-> CreateFromSerialData(letter.bytes)]

Discard ==
    /\ letter.stage \in {"read", "overheard"}
    /\ letter' = NoLetter

MsgInit == letter = NoLetter

Ids == {c.id : c \in Registered} \cup {AuxStatusId, MainStatusId, 128}

MsgNext ==
    \/ \E c \in Sendable, dest \in Addresses : Compose(c, dest)
    \/ \E id \in Ids, dest \in Addresses : Overhear(id, dest)
    \/ Damage
    \/ Receive
    \/ Discard

MsgSpec == MsgInit /\ [][MsgNext]_msgVars

-----------------------------------------------------------------------------
Decoded == letter.stage \in {"read", "overheard"} /\ letter.out.ok /\ "contents" \in DOMAIN letter.out

(* Every field of a decoded message was read from inside its packet, is no   *)
(* larger than its bits allow and, where it is cast to an enumeration, is    *)
(* one of its members; every text is printable and no longer than what lies  *)
(* before the footer: RequireIndex and the size tests of each                *)
(* DeserializeContents against the offsets it then reads.                    *)
MsgTypeOK ==
    Decoded =>
        /\ \A n \in DOMAIN letter.out.contents.fields :
              LET f == letter.out.class.fields[n]
                  v == letter.out.contents.fields[n]
              IN /\ v \in 0..((2^f.width - 1) * f.times)
                 /\ f.known # {} => v \in f.known \cup {f.other}
        /\ letter.out.class.text.kind \in {"line", "id"} =>
              /\ Range(letter.out.contents.text) \subseteq Printable
              /\ letter.stage = "overheard" => Len(letter.out.contents.text) <= Len(letter.payload)

(* A message this program sends and reads comes back as it was: the class,   *)
(* the destination, each field and the text, whatever DLE bytes the          *)
(* destination, the type, the contents or the checksum hold. (A text of no   *)
(* characters is refused.) Serialize and CreateFromSerialData.               *)
RoundTrip ==
    (letter.stage = "read" /\ ~ letter.damaged /\ letter.class # ControlDataResponse
        /\ (letter.text = <<>> => letter.class.text.kind # "line")) =>
        /\ letter.out.ok
        /\ letter.out.class = letter.class
        /\ letter.out.dest = letter.dest
        /\ \A n \in DOMAIN letter.values : letter.out.contents.fields[n] = letter.values[n]
        /\ letter.out.contents.text = letter.text

(* Between the start and the end marker of a packet this program sends every *)
(* DLE is followed by a NUL, so no receiver can take a part of it for a      *)
(* marker: JandyPacket_NullCharHandler_Serialization.                        *)
FrameUnambiguous ==
    letter.stage = "wire" /\ ~ letter.damaged =>
        \A i \in 3..(Len(letter.bytes) - 2) : letter.bytes[i] = DLE => letter.bytes[i + 1] = 0

(* A packet with one byte changed is never accepted, unless the change is    *)
(* before a NUL, where the removal of stuffing can undo it:                  *)
(* PacketFramingIsValid and PacketChecksumIsValid.                           *)
DamageNoticed == letter.stage = "read" /\ letter.damaged => ~ letter.out.ok

(* A walk over a payload of variable length ends inside it, and an auxiliary *)
(* status yields as many devices as it announces, each with the index given  *)
(* for it: IAQMessage_AuxStatus and IAQMessage_MainStatus.                   *)
WalksEndInside ==
    letter.stage = "overheard" /\ letter.id \in {AuxStatusId, MainStatusId} /\ letter.out.ok =>
        /\ letter.out.pos <= Len(letter.payload)
        /\ letter.id = AuxStatusId =>
              /\ Len(letter.out.items) = letter.payload[1]
              /\ \A i \in DOMAIN letter.out.items : letter.out.items[i].device_index = letter.payload[1 + i]

(* The message classes and the framing around them: what is sent is read     *)
(* back, what is damaged is refused, no walk leaves its payload.             *)
MessagesSafe == MsgTypeOK /\ RoundTrip /\ FrameUnambiguous /\ DamageNoticed /\ WalksEndInside
=============================================================================
