---------------------------- MODULE SerialAdapter ----------------------------
(***************************************************************************)
(* The RS Serial Adapter (RSSA) the program emulates on the Jandy bus:     *)
(* jandy/devices/serial_adapter_device.cpp with its message slots, the     *)
(* Emulated capability (presence gating) and the Restartable watchdog.     *)
(*                                                                         *)
(* The master polls the adapter's address and the adapter may speak only   *)
(* in reply.  A reply carries a queued command, a query of the next status *)
(* type of a rotation, or nothing.  A setpoint write takes two replies:    *)
(* readySP on a CMD_STATUS poll, setSP on the DEV_READY poll the master    *)
(* then sends.  Every handler runs to completion on the one frame-loop     *)
(* thread, so it is one action.                                            *)
(***************************************************************************)
EXTENDS Naturals, Sequences, SequencesExt, FiniteSetsExt

CONSTANTS
  ConfigurationStatuses,  \* sequence: MODEL, OPTIONS, then the others
  TemperatureCommands,    \* sequence in enum order, UNITS somewhere in it
  AuxillaryIds,           \* sequence of the aux relays the protocol knows
  Span,                   \* the aux relays this panel's model has
  HasCleaner, HasSpillover, \* the panel's option switches
  SingleBody,             \* the pool configuration is known to be single-body
  Emulations,             \* how the device may be configured: {TRUE} if as an emulation
  GatingDisabled,         \* --jandy-disable-presence-gating
  RealAdapter,            \* a real adapter answers at the same address
  Lossy,                  \* the bus may lose the master's answers
  MaxCommands             \* bound on the accepted commands

ASSUME SerialAdapterAssumption ==
  /\ MaxCommands \in Nat
  /\ {HasCleaner, HasSpillover, SingleBody,
      GatingDisabled, RealAdapter, Lossy} \subseteq BOOLEAN
  /\ Emulations \subseteq BOOLEAN

\* OPTIONS is the second enumerator of its type and in no other; the pump
\* commands CLEANR and SPILLOVER are no temperatures.
ASSUME EnumerationsAssumption ==
  /\ {ConfigurationStatuses, TemperatureCommands, AuxillaryIds} \subseteq Seq(STRING)
  /\ Len(ConfigurationStatuses) >= 2 /\ ConfigurationStatuses[2] = "OPTIONS"
  /\ \A k \in 3 .. Len(ConfigurationStatuses) : ConfigurationStatuses[k] # "OPTIONS"
  /\ "OPTIONS" \notin ToSet(TemperatureCommands) \cup ToSet(AuxillaryIds)
  /\ "UNITS" \in ToSet(TemperatureCommands) \ ToSet(AuxillaryIds)
  /\ (ToSet(ConfigurationStatuses) \cup {"CLEANR", "SPILLOVER"}) \cap ToSet(TemperatureCommands) = {}

VARIABLES
  types,       \* m_StatusTypesCollection
  iter,        \* m_StatusTypesCollectionIter
  pending,     \* m_PendingCommands
  suppressed,  \* m_EmulationSuppressed
  claimed,     \* m_HasClaimedAddress
  running,     \* Restartable::m_IsRunning
  lapsed,      \* Now() - m_LastKick exceeds the timeout
  normal,      \* the device status left Initializing
  units,       \* the data hub holds the panel's temperature units
  emulated,    \* Emulated::m_IsEmulated, set by the constructor
  spanKnown,   \* the panel model was decoded (by another device)
  result,      \* what the last command call returned
  issued,      \* number of accepted commands; the newest one's number
  reply,       \* the last frame put on the wire
  command,     \* the last command frame put on the wire
  asked,       \* master: the status type it was asked for
  readied,     \* master: it has seen a readySP and will send DEV_READY
  polled,      \* a frame for this address came within the timeout
  queried,     \* the types queried on the wire so far
  misread      \* a temperature was decoded in the wrong units

device == <<types, iter, pending, suppressed, claimed, normal, units>>
watchdog == <<running, lapsed, polled>>
wire == <<reply, command, asked, readied, queried>>
vars == <<device, watchdog, wire, emulated, spanKnown, result, issued, misread>>
-----------------------------------------------------------------------------
NoType == "none"

Frame(kind, id, type) == [kind |-> kind, id |-> id, type |-> type]
Nothing == Frame("nothing", 0, NoType)
Set(n) == Frame("set", n, NoType)          \* {state, devID}
ReadySP(n) == Frame("readySP", n, NoType)  \* {typeID, 0x35}
SetSP(n) == Frame("setSP", n, NoType)      \* {0x00, temperature}
Query(t) == Frame("query", 0, t)

Rotated(s) == LET u == SelectInSeq(s, LAMBDA t : t = "UNITS")
              IN  <<s[u]>> \o RemoveAt(s, u)

(* Mutant: UNITS left where the enumeration has it.                       *)
StatusTypesInEnumOrder == Tail(ConfigurationStatuses) \o TemperatureCommands
                  \o AuxillaryIds

(* The rotation the constructor builds: MODEL is dropped and UNITS moved   *)
(* in front of the other temperature types.                                *)
StatusTypes == Tail(ConfigurationStatuses) \o Rotated(TemperatureCommands)
                  \o AuxillaryIds

IsEmulationActive == emulated /\ ~suppressed

IsPollableStatusType(t) ==
  (spanKnown /\ t \in ToSet(AuxillaryIds)) => t \in Span

(* How many entries SkipUnpollableStatusTypes passes over, at most all.    *)
SkipUnpollableStatusTypes(s, i) ==
  LET At(d) == s[((i - 1 + d) % Len(s)) + 1]
      ok == {d \in 0 .. (Len(s) - 1) : IsPollableStatusType(At(d))}
  IN  IF ok = {} THEN Len(s) ELSE Min(ok)

-----------------------------------------------------------------------------
(* Signal_AckMessage: an active emulation puts f on the wire, claiming the *)
(* address; anybody else stays silent.  The master takes note of a query   *)
(* and of a readySP.                                                       *)
Signal_AckMessage(poll, f) ==
  IF emulated /\ ~suppressed'
  THEN /\ claimed' = TRUE
       /\ reply' = [poll |-> poll, frame |-> f]
       /\ command' = IF f.id = 0 THEN command ELSE f
       /\ asked' = IF f.kind = "query" THEN f.type ELSE NoType
       /\ readied' = (f.kind = "readySP")
       /\ queried' = IF f.kind = "query" THEN queried \cup {f.type} ELSE queried
  ELSE UNCHANGED <<claimed, wire>>

(* ProcessControllerUpdates with m_StatusMessageReceived = received, on    *)
(* the queue q and the rotation s at entry i the handler has left.         *)
ProcessControllerUpdates(poll, received, q, s, i) ==
  /\ types' = s
  /\ IF received /\ q # <<>>
     THEN /\ pending' = Tail(q)
          /\ iter' = i
          /\ UNCHANGED normal
          /\ Signal_AckMessage(poll, Head(q))
     ELSE IF received
     THEN LET d == SkipUnpollableStatusTypes(s, i)
          IN  /\ iter' = ((i + d) % Len(s)) + 1
              /\ normal' = (normal \/ i + d >= Len(s))
              /\ pending' = q
              /\ Signal_AckMessage(poll, Query(s[((i - 1 + d) % Len(s)) + 1]))
     ELSE /\ pending' = q
          /\ iter' = i
          /\ UNCHANGED normal
          /\ Signal_AckMessage(poll, Nothing)

Kick ==
  /\ lapsed' = (lapsed /\ ~running)
  /\ polled' = TRUE
  /\ UNCHANGED running

(* An unsolicited status push: seen before this instance ever transmitted. *)
RealAdapterDetected ==
  IsEmulationActive /\ ~GatingDisabled /\ ~claimed

(* Whether or not HandleEmulationCollision relocates, this instance is     *)
(* suppressed; the queue it leaves is empty.                               *)
DetectRealAdapterAndSuppressEmulation ==
  /\ suppressed' = (suppressed \/ RealAdapterDetected)

(* Mutant: the queue is not dropped.                                       *)
QueueKeptAfterDetection == pending

QueueAfterDetection == IF RealAdapterDetected THEN <<>> ELSE pending

Replaced(s, old, new) == [k \in DOMAIN s |-> IF s[k] = old THEN new ELSE s[k]]

(* Mutant: the cleaner takes the wrong relay.                              *)
WithCleanerOnAux2(s) == Replaced(s, "Aux_2", "CLEANR")

WithOptions(s) ==
  LET c == IF HasCleaner THEN Replaced(s, "Aux_1", "CLEANR") ELSE s
  IN  IF HasSpillover THEN Replaced(c, "Aux_3", "SPILLOVER") ELSE c

Rotation(s, i) == [types |-> s, iter |-> i]

(* Mutants: the front is erased whatever it is; the iterator is not reset. *)
RotationErasedBlindly(t) ==
  IF t = "OPTIONS" THEN Rotation(Tail(WithOptions(types)), 1) ELSE Rotation(types, iter)
RotationNotReset(t) ==
  IF t = "OPTIONS" /\ Head(types) = "OPTIONS"
  THEN Rotation(Tail(WithOptions(types)), iter) ELSE Rotation(types, iter)

(* The options rename two relays; OPTIONS itself is dropped the first time *)
(* and the rotation restarts.                                              *)
RotationAfter(t) ==
  IF t # "OPTIONS" THEN Rotation(types, iter)
  ELSE LET s == WithOptions(types)
       IN  IF Head(s) = "OPTIONS" THEN Rotation(Tail(s), 1) ELSE Rotation(s, iter)
-----------------------------------------------------------------------------
(* Messages for the adapter's address.                                     *)

(* The master's next CMD_STATUS poll; on a bus that loses nothing it comes *)
(* after the answer to what it was asked.                                  *)
Slot_SerialAdapter_Status ==
  /\ ~Lossy => (asked = NoType /\ ~readied)
  /\ UNCHANGED suppressed
  /\ ProcessControllerUpdates("Status", TRUE, pending, types, iter)
  /\ Kick
  /\ UNCHANGED <<units, emulated, spanKnown, result, issued, misread>>

Slot_SerialAdapter_ProbeOrUnknown ==
  /\ ~Lossy => (asked = NoType /\ ~readied)
  /\ UNCHANGED suppressed
  /\ ProcessControllerUpdates("Probe", FALSE, pending, types, iter)
  /\ Kick
  /\ UNCHANGED <<units, emulated, spanKnown, result, issued, misread>>

(* An acknowledge of a real adapter; only a passive instance listens.      *)
Slot_SerialAdapter_Ack ==
  /\ ~emulated
  /\ Kick
  /\ UNCHANGED <<device, wire, emulated, spanKnown, result, issued, misread>>

(* DEV_READY: the second half of a setpoint write, ours or a real          *)
(* adapter's.  DrainPendingCommandForDevReady sends whatever is in front.  *)
Slot_SerialAdapter_DevReady ==
  /\ readied \/ RealAdapter
  /\ DetectRealAdapterAndSuppressEmulation
  /\ LET q == QueueAfterDetection
     IN  /\ pending' = IF q = <<>> THEN q ELSE Tail(q)
         /\ Signal_AckMessage("DevReady", IF q = <<>> THEN Nothing ELSE Head(q))
  /\ Kick
  /\ UNCHANGED <<types, iter, normal, units, emulated, spanKnown, result, issued, misread>>

(* The master's status push for type t.  OPTIONS rewrites the rotation,    *)
(* UNITS sets the hub's units, a temperature is decoded in them.           *)
Slot_SerialAdapter_DevStatus(t) ==
  /\ t # NoType /\ (asked = t \/ RealAdapter)
  /\ DetectRealAdapterAndSuppressEmulation
  /\ LET r == RotationAfter(t)
     IN  ProcessControllerUpdates("DevStatus", FALSE, QueueAfterDetection,
                                  r.types, r.iter)
  /\ units' = (units \/ t = "UNITS")
  /\ misread' = (misread \/ (t \in ToSet(TemperatureCommands) \ {"UNITS"} /\ ~units))
  /\ Kick
  /\ UNCHANGED <<emulated, spanKnown, result, issued>>

-----------------------------------------------------------------------------
(* Commands.                                                               *)

(* Mutant: a new command queues behind the pending ones.                   *)
QueueCommandAppends(frames) == pending' = pending \o frames

(* Mutant: the command that came first wins.                               *)
QueueCommandKeepsFirst(frames) == pending' = IF pending # <<>> THEN pending ELSE frames

QueueCommand(frames) == pending' = IF suppressed THEN pending ELSE frames

Accept(frames) ==
  /\ issued < MaxCommands
  /\ issued' = issued + 1
  /\ QueueCommand(frames)
  /\ result' = "Accepted"
Refuse(why) ==
  /\ result' = why
  /\ UNCHANGED <<issued, pending>>

ActuateDevice ==
  \/ ~(IsEmulationActive /\ running) /\ Refuse("NotSupported")
  \/ IsEmulationActive /\ running /\ Accept(<<Set(issued + 1)>>)
  \/ IsEmulationActive /\ running /\ Refuse("MappingFailed")

(* Mutant: the setSP goes through QueueCommand and clears the readySP.     *)
QueueSetpointWrite_TwoQueueCommands == Accept(<<SetSP(issued + 1)>>)

(* SetPoolSetpoint and SetSpaSetpoint: the readySP clears the queue, the   *)
(* setSP is appended behind it.                                            *)
QueueSetpointWrite_TwoStep == Accept(<<ReadySP(issued + 1), SetSP(issued + 1)>>)

SetSetpoint ==
  \/ ~IsEmulationActive /\ Refuse("NotSupported")
  \/ IsEmulationActive /\ QueueSetpointWrite_TwoStep

SetCirculationMode(mode) ==
  \/ ~IsEmulationActive /\ Refuse("NotSupported")
  \/ /\ IsEmulationActive
     /\ mode \in {"SpaFill", "SpaDrain"} \/ (SingleBody /\ mode \in {"Spa", "Spillover"})
     /\ Refuse("NotSupported")
  \/ /\ IsEmulationActive
     /\ mode = "Pool" \/ (~SingleBody /\ mode \in {"Spa", "Spillover"})
     /\ Accept(<<Set(issued + 1)>>)
  \/ IsEmulationActive /\ mode = "Unknown" /\ Refuse("InvalidValue")

SetHeaterMode(body) ==
  \/ ~IsEmulationActive /\ Refuse("NotSupported")
  \/ IsEmulationActive /\ body = "Unknown" /\ Refuse("MappingFailed")
  \/ IsEmulationActive /\ body # "Unknown" /\ Accept(<<Set(issued + 1)>>)

Modes == {"Pool", "Spa", "Spillover", "SpaFill", "SpaDrain", "Unknown"}
Bodies == {"Pool", "Spa", "Shared", "Unknown"}

Command ==
  /\ \/ ActuateDevice
     \/ SetSetpoint
     \/ \E mode \in Modes : SetCirculationMode(mode)
     \/ \E body \in Bodies : SetHeaterMode(body)
  /\ UNCHANGED <<types, iter, suppressed, claimed, normal, units,
                 watchdog, wire, emulated, spanKnown, misread>>
-----------------------------------------------------------------------------
(* The timeout passes without a frame for this address.                    *)
TimePasses ==
  /\ lapsed' = TRUE
  /\ polled' = FALSE
  /\ UNCHANGED <<device, running, wire, emulated, spanKnown, result, issued, misread>>

(* Restartable::CheckWatchdog, called from the frame loop.                 *)
CheckWatchdog ==
  /\ running /\ lapsed
  /\ running' = FALSE
  /\ UNCHANGED <<device, lapsed, polled, wire, emulated, spanKnown, result, issued, misread>>

(* Another device decodes the panel's model.                               *)
ModelDecoded ==
  /\ ~spanKnown
  /\ spanKnown' = TRUE
  /\ UNCHANGED <<device, watchdog, wire, emulated, result, issued, misread>>
-----------------------------------------------------------------------------
AllTypes == ToSet(ConfigurationStatuses) \cup ToSet(TemperatureCommands)
              \cup ToSet(AuxillaryIds) \cup {"CLEANR", "SPILLOVER"}

Init ==
  /\ types = StatusTypes /\ iter = 1 /\ pending = <<>>
  /\ emulated \in Emulations
  /\ suppressed = FALSE /\ claimed = FALSE /\ normal = FALSE
  /\ units = FALSE /\ spanKnown = FALSE
  /\ running = TRUE /\ lapsed = FALSE /\ polled = TRUE
  /\ result = "None" /\ issued = 0
  /\ reply = [poll |-> "none", frame |-> Nothing] /\ command = Nothing
  /\ asked = NoType /\ readied = FALSE
  /\ queried = {} /\ misread = FALSE

Next ==
  \/ Slot_SerialAdapter_Status
  \/ Slot_SerialAdapter_ProbeOrUnknown
  \/ Slot_SerialAdapter_Ack
  \/ Slot_SerialAdapter_DevReady
  \/ \E t \in AllTypes : Slot_SerialAdapter_DevStatus(t)
  \/ Command
  \/ TimePasses
  \/ CheckWatchdog
  \/ ModelDecoded

Spec == Init /\ [][Next]_vars

(* The master keeps polling and answers what it is asked.                  *)
FairSpec ==
  /\ Spec
  /\ WF_vars(Slot_SerialAdapter_Status)
  /\ WF_vars(Slot_SerialAdapter_DevReady)
  /\ \A t \in AllTypes : WF_vars(Slot_SerialAdapter_DevStatus(t))
-----------------------------------------------------------------------------
TypeOK ==
  /\ types \in Seq(AllTypes) /\ iter \in 1 .. Len(types)
  /\ pending \in Seq([kind : {"set", "readySP", "setSP"}, id : 1 .. MaxCommands,
                       type : {NoType}])
  /\ {emulated, suppressed, claimed, normal, units, spanKnown, running, lapsed, polled,
      readied, misread} \subseteq BOOLEAN
  /\ issued \in 0 .. MaxCommands
  /\ asked \in AllTypes \cup {NoType}
  /\ queried \subseteq AllTypes

(* An instance that is passive, by configuration or since it met a real    *)
(* adapter, puts nothing on the wire and holds no command: the bus never   *)
(* has its frame next to the real adapter's, however late (emulated.h,     *)
(* Signal_AckMessage_Impl; QueueCommand).                                  *)
PassiveIsSilent ==
  [][~IsEmulationActive => /\ UNCHANGED <<reply, command, claimed>>
                           /\ pending' = <<>>]_vars

(* A command that was superseded while it waited is never sent: what goes  *)
(* on the wire belongs to the newest accepted command (QueueCommand's      *)
(* last-write-wins).                                                       *)
LastWriteWins == [][command' # command => command'.id = issued]_vars

(* The newest accepted command is not lost: it waits, or its last frame    *)
(* was the last command sent, or the emulation was suppressed.             *)
NewestIsKept ==
  (issued > 0 /\ ~suppressed /\ pending = <<>>) =>
     command.id = issued /\ command.kind # "readySP"

(* A setpoint value goes out only as the next command frame after the      *)
(* readySP of the same write, whatever was issued in between               *)
(* (QueueSetpointWrite_TwoStep).                                           *)
ValueFollowsItsReady ==
  [][(command' # command /\ command'.kind = "setSP") =>
       command = ReadySP(command'.id)]_vars

(* The device reports Normal only after every type of its rotation was     *)
(* asked for on the wire (AdvanceStatusTypeIter), although reading OPTIONS *)
(* rewrites the rotation and restarts it.                                  *)
NormalMeansSwept ==
  normal => \A k \in DOMAIN types :
               IsPollableStatusType(types[k]) => types[k] \in queried

(* No temperature is decoded before the panel's units are known: the order *)
(* of the rotation, over commands and restarts, guarantees it.             *)
UnitsFirst == ~misread

(* Every pollable type stays in the rotation: it is asked for again and    *)
(* again, OPTIONS until it was read.                                       *)
Swept ==
  \A t \in ToSet(StatusTypes) \ {"OPTIONS", "Aux_1", "Aux_3"} :
     []<>(reply.frame = Query(t) \/ ~IsPollableStatusType(t))

(* While the master polls, an accepted command is sent in full or          *)
(* superseded by a newer one.                                              *)
Delivered ==
  \A n \in 1 .. MaxCommands :
     issued = n ~> (issued > n \/ (command.id = n /\ command.kind # "readySP"))

(* "Master is not polling this adapter's address": an adapter that is      *)
(* polled is running.                                                      *)
PolledMeansRunning == polled => running

(* What goes on the wire: nothing from a passive instance, the newest      *)
(* command only, and a value only after its readySP.                       *)
WiresInOrder == PassiveIsSilent /\ LastWriteWins /\ ValueFollowsItsReady

(* The rotation of status queries keeps what the decoders and the state    *)
(* Normal rely on (StatusTypesCollection, AdvanceStatusTypeIter).          *)
SweepInOrder == TypeOK /\ NormalMeansSwept /\ UnitsFirst

(* While the master polls, every query and every command gets its turn.    *)
Served == Swept /\ Delivered
=============================================================================
