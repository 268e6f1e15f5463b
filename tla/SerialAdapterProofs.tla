------------------------- MODULE SerialAdapterProofs -------------------------
(***************************************************************************)
(* Proofs about the command queue of SerialAdapter, for every rotation,    *)
(* panel and number of commands: a passive instance is silent, a           *)
(* superseded command is never sent, the newest one is not lost and a      *)
(* setpoint value follows its readySP.  And about what the adapter's       *)
(* reports on relays, and those of the other sources, add up to            *)
(* (Auxiliaries).                                                          *)
(*                                                                         *)
(* The argument: seen from the queue, a step does one of four things       *)
(* (lemma StepKinds), and the queue has one of four shapes, of which a     *)
(* lone setSP is one only just after its readySP was sent (Inv).           *)
(***************************************************************************)
EXTENDS SerialAdapter, Auxiliaries, SequenceTheorems, WellFoundedInduction, TLAPS

Shapes(n) == {<< >>, <<Set(n)>>, <<ReadySP(n), SetSP(n)>>, <<SetSP(n)>>}

(* The inductive invariant.                                                *)
Inv ==
  /\ issued \in Nat
  /\ suppressed \in BOOLEAN
  /\ pending \in Shapes(issued)
  /\ pending # << >> => issued > 0
  /\ pending = <<SetSP(issued)>> => command = ReadySP(issued)
  /\ ~IsEmulationActive => pending = << >>
  /\ NewestIsKept

Quiet ==
  /\ UNCHANGED <<pending, command, suppressed, issued>>
  /\ ~IsEmulationActive => UNCHANGED <<reply, claimed>>
Drain ==
  /\ IsEmulationActive /\ pending # << >>
  /\ pending' = Tail(pending) /\ command' = Head(pending)
  /\ UNCHANGED <<suppressed, issued>>
Yield ==
  /\ IsEmulationActive
  /\ suppressed' = TRUE /\ pending' = << >>
  /\ UNCHANGED <<command, issued>>
Enqueue ==
  /\ IsEmulationActive
  /\ issued' = issued + 1
  /\ pending' \in {<<Set(issued + 1)>>, <<ReadySP(issued + 1), SetSP(issued + 1)>>}
  /\ UNCHANGED <<command, suppressed>>
Kinds == Quiet \/ Drain \/ Yield \/ Enqueue

(* What is at the front of the queue is a command of the newest number.    *)
LEMMA FrontOfQueue ==
  ASSUME Inv, pending # << >>
  PROVE  /\ Head(pending).id = issued
         /\ Head(pending).id # 0
         /\ Head(pending) \in {Set(issued), ReadySP(issued), SetSP(issued)}
<1>1. issued \in Nat /\ issued > 0
  BY DEF Inv
<1>2. CASE pending = <<Set(issued)>>
  <2>1. Head(pending) = Set(issued)
    BY <1>2
  <2> QED BY <2>1, <1>1 DEF Set, Frame
<1>3. CASE pending = <<ReadySP(issued), SetSP(issued)>>
  <2>1. Head(pending) = ReadySP(issued)
    BY <1>3
  <2> QED BY <2>1, <1>1 DEF ReadySP, Frame
<1>4. CASE pending = <<SetSP(issued)>>
  <2>1. Head(pending) = SetSP(issued)
    BY <1>4
  <2> QED BY <2>1, <1>1 DEF SetSP, Frame
<1> QED BY <1>2, <1>3, <1>4 DEF Inv, Shapes

(* A reply that carries no command leaves the last command alone.          *)
LEMMA SilentReply ==
  ASSUME Inv, NEW poll, NEW f, f.id = 0, UNCHANGED <<pending, suppressed, issued>>,
         Signal_AckMessage(poll, f)
  PROVE  Quiet
BY DEF Quiet, Signal_AckMessage, IsEmulationActive, wire, Inv

(* A reply that carries the front of the queue drains it.                  *)
LEMMA CommandReply ==
  ASSUME Inv, NEW poll, pending # << >>, pending' = Tail(pending),
         UNCHANGED <<suppressed, issued>>, Signal_AckMessage(poll, Head(pending))
  PROVE  Drain
<1>1. Head(pending).id # 0
  BY FrontOfQueue
<1>2. IsEmulationActive
  BY DEF Inv
<1>3. command' = Head(pending)
  BY <1>1, <1>2 DEF Signal_AckMessage, IsEmulationActive
<1> QED BY <1>2, <1>3 DEF Drain

LEMMA IdsOfReplies ==
  /\ Nothing.id = 0
  /\ \A t : Query(t).id = 0
BY DEF Nothing, Query, Frame

(* Seen from the queue, a step of the adapter is quiet, drains a command,  *)
(* yields to a real adapter or takes a new command.                        *)
LEMMA StepKinds ==
  ASSUME Inv, [Next]_vars
  PROVE  Kinds
<1>1. CASE Slot_SerialAdapter_Status
  <2>1. UNCHANGED <<suppressed, issued>>
    BY <1>1 DEF Slot_SerialAdapter_Status
  <2>2. ProcessControllerUpdates("Status", TRUE, pending, types, iter)
    BY <1>1 DEF Slot_SerialAdapter_Status
  <2>3. CASE pending # << >>
    <3>1. pending' = Tail(pending) /\ Signal_AckMessage("Status", Head(pending))
      BY <2>2, <2>3 DEF ProcessControllerUpdates
    <3> QED BY <2>1, <2>3, <3>1, CommandReply DEF Kinds
  <2>4. CASE pending = << >>
    <3> DEFINE d == SkipUnpollableStatusTypes(types, iter)
               t == types[((iter - 1 + d) % Len(types)) + 1]
    <3>1. pending' = pending /\ Signal_AckMessage("Status", Query(t))
      BY <2>2, <2>4 DEF ProcessControllerUpdates
    <3> HIDE DEF t
    <3> QED BY <2>1, <3>1, SilentReply, IdsOfReplies DEF Kinds
  <2> QED BY <2>3, <2>4
<1>2. CASE Slot_SerialAdapter_ProbeOrUnknown
  <2>1. UNCHANGED <<suppressed, issued>>
    BY <1>2 DEF Slot_SerialAdapter_ProbeOrUnknown
  <2>2. pending' = pending /\ Signal_AckMessage("Probe", Nothing)
    BY <1>2 DEF Slot_SerialAdapter_ProbeOrUnknown, ProcessControllerUpdates
  <2> QED BY <2>1, <2>2, SilentReply, IdsOfReplies DEF Kinds
<1>3. CASE Slot_SerialAdapter_Ack
  BY <1>3 DEF Slot_SerialAdapter_Ack, device, wire, Kinds, Quiet
<1>4. CASE Slot_SerialAdapter_DevReady
  <2> DEFINE q == QueueAfterDetection
  <2>1. /\ UNCHANGED issued
        /\ suppressed' = (suppressed \/ RealAdapterDetected)
        /\ pending' = IF q = << >> THEN q ELSE Tail(q)
        /\ Signal_AckMessage("DevReady", IF q = << >> THEN Nothing ELSE Head(q))
    BY <1>4 DEF Slot_SerialAdapter_DevReady, DetectRealAdapterAndSuppressEmulation
  <2>2. CASE RealAdapterDetected
    <3>1. q = << >> /\ suppressed' = TRUE
      BY <2>1, <2>2 DEF QueueAfterDetection
    <3>2. command' = command /\ pending' = << >>
      BY <2>1, <3>1 DEF Signal_AckMessage, wire
    <3> QED BY <2>1, <2>2, <3>1, <3>2 DEF Kinds, Yield, RealAdapterDetected
  <2>3. CASE ~RealAdapterDetected
    <3>1. q = pending /\ suppressed' = suppressed
      BY <2>1, <2>3 DEF QueueAfterDetection, Inv
    <3>2. CASE pending = << >>
      BY <2>1, <3>1, <3>2, SilentReply, IdsOfReplies DEF Kinds
    <3>3. CASE pending # << >>
      BY <2>1, <3>1, <3>3, CommandReply DEF Kinds
    <3> QED BY <3>2, <3>3
  <2> QED BY <2>2, <2>3
<1>5. CASE \E t \in AllTypes : Slot_SerialAdapter_DevStatus(t)
  <2> PICK t \in AllTypes : Slot_SerialAdapter_DevStatus(t)
    BY <1>5
  <2>1. /\ UNCHANGED issued
        /\ suppressed' = (suppressed \/ RealAdapterDetected)
        /\ pending' = QueueAfterDetection
        /\ Signal_AckMessage("DevStatus", Nothing)
    BY DEF Slot_SerialAdapter_DevStatus, DetectRealAdapterAndSuppressEmulation,
           ProcessControllerUpdates
  <2>2. CASE RealAdapterDetected
    <3>1. pending' = << >> /\ suppressed' = TRUE
      BY <2>1, <2>2 DEF QueueAfterDetection
    <3>2. command' = command
      BY <2>1, <3>1 DEF Signal_AckMessage, wire
    <3> QED BY <2>1, <2>2, <3>1, <3>2 DEF Kinds, Yield, RealAdapterDetected
  <2>3. CASE ~RealAdapterDetected
    <3>1. pending' = pending /\ suppressed' = suppressed
      BY <2>1, <2>3 DEF QueueAfterDetection, Inv
    <3> QED BY <2>1, <3>1, SilentReply, IdsOfReplies DEF Kinds
  <2> QED BY <2>2, <2>3
<1>6. CASE Command
  <2>1. UNCHANGED <<suppressed, command, reply, claimed>>
    BY <1>6 DEF Command, wire
  <2>2. \/ UNCHANGED <<issued, pending>>
        \/ IsEmulationActive /\ Accept(<<Set(issued + 1)>>)
        \/ IsEmulationActive /\ Accept(<<ReadySP(issued + 1), SetSP(issued + 1)>>)
    BY <1>6 DEF Command, ActuateDevice, SetSetpoint, QueueSetpointWrite_TwoStep,
                SetCirculationMode, SetHeaterMode, Refuse
  <2>3. CASE UNCHANGED <<issued, pending>>
    BY <2>1, <2>3 DEF Kinds, Quiet
  <2>4. ASSUME NEW q, IsEmulationActive, Accept(q)
        PROVE  issued' = issued + 1 /\ pending' = q
    BY <2>4 DEF Accept, QueueCommand, IsEmulationActive
  <2> QED BY <2>1, <2>2, <2>3, <2>4 DEF Kinds, Enqueue
<1>7. CASE TimePasses \/ CheckWatchdog \/ ModelDecoded \/ UNCHANGED vars
  BY <1>7 DEF TimePasses, CheckWatchdog, ModelDecoded, vars, device, wire, Kinds, Quiet
<1> QED BY <1>1, <1>2, <1>3, <1>4, <1>5, <1>6, <1>7 DEF Next

(* The frames of different kinds and numbers differ.                       *)
LEMMA FramesDiffer ==
  /\ \A n \in Nat : Set(n).kind = "set" /\ Set(n).id = n
  /\ \A n \in Nat : ReadySP(n).kind = "readySP" /\ ReadySP(n).id = n
  /\ \A n \in Nat : SetSP(n).kind = "setSP" /\ SetSP(n).id = n
BY DEF Set, ReadySP, SetSP, Frame

(* What a drain leaves behind, by the shape of the queue.                  *)
LEMMA DrainedShapes ==
  ASSUME Inv, Drain
  PROVE  \/ /\ pending = <<Set(issued)>>
            /\ command' = Set(issued) /\ pending' = << >>
         \/ /\ pending = <<ReadySP(issued), SetSP(issued)>>
            /\ command' = ReadySP(issued) /\ pending' = <<SetSP(issued)>>
         \/ /\ pending = <<SetSP(issued)>> /\ command = ReadySP(issued)
            /\ command' = SetSP(issued) /\ pending' = << >>
<1>1. CASE pending = <<Set(issued)>>
  BY <1>1 DEF Drain
<1>2. CASE pending = <<ReadySP(issued), SetSP(issued)>>
  BY <1>2 DEF Drain
<1>3. CASE pending = <<SetSP(issued)>>
  BY <1>3 DEF Drain, Inv
<1> QED BY <1>1, <1>2, <1>3 DEF Inv, Shapes, Drain

LEMMA InvInit == Init => Inv
<1> SUFFICES ASSUME Init PROVE Inv
  OBVIOUS
<1>1. issued = 0 /\ pending = << >> /\ suppressed = FALSE
  BY DEF Init
<1>2. << >> # <<SetSP(issued)>>
  OBVIOUS
<1>3. NewestIsKept
  BY <1>1 DEF NewestIsKept
<1>4. pending \in Shapes(issued)
  BY <1>1 DEF Shapes
<1> QED BY <1>1, <1>2, <1>3, <1>4 DEF Inv

(* The configuration is the constructor's.                                 *)
LEMMA ConfigurationFixed == [Next]_vars => UNCHANGED emulated
BY DEF Next, vars, Slot_SerialAdapter_Status, Slot_SerialAdapter_ProbeOrUnknown,
       Slot_SerialAdapter_Ack, Slot_SerialAdapter_DevReady,
       Slot_SerialAdapter_DevStatus, Command, TimePasses, CheckWatchdog, ModelDecoded

(* Every step keeps the invariant: one case per kind of step.              *)
LEMMA InvStep == Inv /\ [Next]_vars => Inv'
<1> SUFFICES ASSUME Inv, [Next]_vars PROVE Inv'
  OBVIOUS
<1>0. issued \in Nat /\ suppressed \in BOOLEAN /\ emulated' = emulated
  BY ConfigurationFixed DEF Inv
<1>1. CASE Quiet
  BY <1>0, <1>1 DEF Quiet, Inv, NewestIsKept, IsEmulationActive
<1>2. CASE Drain
  <2>1. UNCHANGED <<issued, suppressed>> /\ IsEmulationActive /\ issued > 0
    BY <1>2 DEF Drain, Inv
  <2>2. IsEmulationActive'
    BY <1>0, <2>1 DEF IsEmulationActive
  <2>3. /\ pending' \in Shapes(issued)
        /\ pending' = <<SetSP(issued)>> => command' = ReadySP(issued)
    <3>1. << >> # <<SetSP(issued)>>
      OBVIOUS
    <3> QED BY <1>2, <3>1, DrainedShapes DEF Shapes
  <2>4. pending' = << >> => command'.id = issued /\ command'.kind # "readySP"
    <3>1. << >> # <<SetSP(issued)>>
      OBVIOUS
    <3> QED BY <1>0, <1>2, <3>1, DrainedShapes, FramesDiffer
  <2>5. NewestIsKept'
    BY <2>1, <2>4 DEF NewestIsKept
  <2>6. Shapes(issued)' = Shapes(issued)
    BY <2>1 DEF Shapes, Set, ReadySP, SetSP, Frame
  <2> QED BY <1>0, <2>1, <2>2, <2>3, <2>5, <2>6 DEF Inv, ReadySP, SetSP, Frame
<1>3. CASE Yield
  <2>1. suppressed' = TRUE /\ pending' = << >> /\ issued' = issued
    BY <1>3 DEF Yield
  <2>2. << >> # <<SetSP(issued')>>
    OBVIOUS
  <2>3. NewestIsKept'
    BY <2>1 DEF NewestIsKept
  <2> QED BY <1>0, <2>1, <2>2, <2>3 DEF Inv, Shapes, IsEmulationActive
<1>4. CASE Enqueue
  <2>1. /\ issued' = issued + 1 /\ suppressed' = suppressed
        /\ pending' \in {<<Set(issued')>>, <<ReadySP(issued'), SetSP(issued')>>}
        /\ IsEmulationActive
    BY <1>4 DEF Enqueue
  <2>2. issued' \in Nat /\ issued' > 0
    BY <1>0, <2>1
  <2>3. pending' # <<SetSP(issued')>> /\ pending' # << >>
    <3>1. <<Set(issued')>> # <<SetSP(issued')>>
      BY DEF Set, SetSP, Frame
    <3>2. <<ReadySP(issued'), SetSP(issued')>> # <<SetSP(issued')>>
      OBVIOUS
    <3>3. <<Set(issued')>> # << >> /\ <<ReadySP(issued'), SetSP(issued')>> # << >>
      OBVIOUS
    <3> QED BY <2>1, <3>1, <3>2, <3>3
  <2>4. IsEmulationActive'
    BY <1>0, <2>1 DEF IsEmulationActive
  <2>5. NewestIsKept'
    BY <2>3 DEF NewestIsKept
  <2> QED BY <1>0, <2>1, <2>2, <2>3, <2>4, <2>5 DEF Inv, Shapes
<1> QED BY StepKinds, <1>1, <1>2, <1>3, <1>4 DEF Kinds

LEMMA Invariance == Spec => []Inv
BY InvInit, InvStep, PTL DEF Spec

(* The newest accepted command is never lost: NewestIsKept holds whatever  *)
(* the panel, the bus and the callers do.                                  *)
THEOREM NothingLost == Spec => []NewestIsKept
<1>1. Inv => NewestIsKept
  BY DEF Inv
<1> QED BY <1>1, Invariance, PTL

(* QueueCommand's last-write-wins: LastWriteWins for every instance.       *)
THEOREM NewestOnly == Spec => LastWriteWins
<1>1. Inv /\ [Next]_vars => [command' # command => command'.id = issued]_vars
  <2> SUFFICES ASSUME Inv, [Next]_vars, command' # command
               PROVE  command'.id = issued
    OBVIOUS
  <2>1. Drain
    BY StepKinds DEF Kinds, Quiet, Yield, Enqueue
  <2>2. command' = Head(pending) /\ pending # << >>
    BY <2>1 DEF Drain
  <2> QED BY <2>2, FrontOfQueue
<1> QED BY <1>1, Invariance, PTL DEF Spec, LastWriteWins

(* The two-step setpoint write: ValueFollowsItsReady for every instance.   *)
THEOREM SetpointInOrder == Spec => ValueFollowsItsReady
<1>1. Inv /\ [Next]_vars =>
        [(command' # command /\ command'.kind = "setSP") =>
            command = ReadySP(command'.id)]_vars
  <2> SUFFICES ASSUME Inv, [Next]_vars, command' # command, command'.kind = "setSP"
               PROVE  command = ReadySP(command'.id)
    OBVIOUS
  <2>1. Drain /\ issued \in Nat
    BY StepKinds DEF Kinds, Quiet, Yield, Enqueue, Inv
  <2> QED BY <2>1, DrainedShapes, FramesDiffer
<1> QED BY <1>1, Invariance, PTL DEF Spec, ValueFollowsItsReady

(* Presence gating: PassiveIsSilent for every instance.                    *)
THEOREM Passive == Spec => PassiveIsSilent
<1>1. Inv /\ [Next]_vars =>
        [~IsEmulationActive => /\ UNCHANGED <<reply, command, claimed>>
                               /\ pending' = << >>]_vars
  <2> SUFFICES ASSUME Inv, [Next]_vars, ~IsEmulationActive
               PROVE  UNCHANGED <<reply, command, claimed>> /\ pending' = << >>
    OBVIOUS
  <2>1. Quiet
    BY StepKinds DEF Kinds, Drain, Yield, Enqueue
  <2> QED BY <2>1 DEF Quiet, Inv
<1> QED BY <1>1, Invariance, PTL DEF Spec, PassiveIsSilent

(* WiresInOrder: what goes on the wire is in order for every instance,     *)
(* rotation, panel and number of commands.                                 *)
THEOREM OnTheWire == Spec => WiresInOrder
BY Passive, NewestOnly, SetpointInOrder DEF WiresInOrder

-----------------------------------------------------------------------------
(* The rotation.  Once OPTIONS was read it is Order: no entry is OPTIONS,  *)
(* and no temperature comes before UNITS.                                  *)

Order == Tail(WithOptions(StatusTypes))
UnitsAt == Len(ConfigurationStatuses) - 1

(* OPTIONS is asked for first, and until it is answered nothing else.      *)
FirstPhase ==
  /\ types = StatusTypes /\ ~normal /\ ~units
  /\ (iter = 1 /\ asked = NoType) \/ (iter = 2 /\ asked = "OPTIONS")

SweepPhase ==
  /\ types = Order /\ iter \in 1 .. Len(Order)
  /\ asked \in ToSet(Order) \cup {NoType}
  /\ \A k \in 1 .. Len(Order) :
       (IsPollableStatusType(Order[k]) /\ (normal \/ k < iter)) => Order[k] \in queried
  /\ \/ units \/ asked = "UNITS"
     \/ asked \notin ToSet(TemperatureCommands) \ {NoType} /\ iter <= UnitsAt

RotInv ==
  /\ emulated = TRUE /\ suppressed = FALSE /\ misread = FALSE
  /\ {claimed, normal, units, spanKnown, running, lapsed, polled, readied} \subseteq BOOLEAN
  /\ issued \in 0 .. MaxCommands
  /\ asked # NoType => claimed
  /\ readied => claimed /\ asked = NoType
  /\ queried \subseteq AllTypes
  /\ FirstPhase \/ SweepPhase

LEMMA LeastOf ==
  ASSUME NEW S \in SUBSET Nat, S # {}
  PROVE  Min(S) \in S /\ \A k \in S : Min(S) <= k
<1> DEFINE R == OpToRel(<, Nat)
<1>1. IsWellFoundedOn(R, Nat)
  BY NatLessThanWellFounded
<1>2. \A i, j \in Nat : i < j => <<i, j>> \in R
  BY DEF OpToRel
<1> HIDE DEF R
<1>3. PICK x \in S : \A y \in S : ~ (<<y, x>> \in R)
  BY <1>1, WFMin, Zenon
<1>4. \A y \in S : x <= y
  <2> SUFFICES ASSUME NEW y \in S PROVE x <= y
    OBVIOUS
  <2>1. ~(y < x)
    BY <1>2, <1>3, Zenon
  <2> QED BY <2>1
<1> QED BY <1>3, <1>4, Zenon DEF Min

(* The options rename entries, at most.                                    *)
LEMMA OptionsRename ==
  ASSUME NEW s \in Seq(AllTypes)
  PROVE  /\ WithOptions(s) \in Seq(AllTypes) /\ Len(WithOptions(s)) = Len(s)
         /\ \A k \in 1 .. Len(s) : \/ WithOptions(s)[k] = s[k]
                                   \/ s[k] \in {"Aux_1", "Aux_3"} /\ WithOptions(s)[k] \in {"CLEANR", "SPILLOVER"}
<1>1. ASSUME NEW q \in Seq(AllTypes), NEW old, NEW new \in AllTypes
      PROVE  /\ Replaced(q, old, new) \in Seq(AllTypes) /\ Len(Replaced(q, old, new)) = Len(q)
             /\ \A k \in 1 .. Len(q) : Replaced(q, old, new)[k] = IF q[k] = old THEN new ELSE q[k]
  <2>1. Replaced(q, old, new) = [k \in 1 .. Len(q) |-> IF q[k] = old THEN new ELSE q[k]]
    BY DEF Replaced
  <2>2. \A k \in 1 .. Len(q) : q[k] \in AllTypes
    OBVIOUS
  <2> QED BY <2>1, <2>2, IsASeq
<1>2. {"CLEANR", "SPILLOVER"} \subseteq AllTypes
  BY DEF AllTypes
<1> DEFINE c == IF HasCleaner THEN Replaced(s, "Aux_1", "CLEANR") ELSE s
<1>3. /\ c \in Seq(AllTypes) /\ Len(c) = Len(s)
      /\ \A k \in 1 .. Len(s) : c[k] = s[k] \/ (s[k] = "Aux_1" /\ c[k] = "CLEANR")
  BY <1>1, <1>2
<1> HIDE DEF c
<1>4. /\ WithOptions(s) \in Seq(AllTypes) /\ Len(WithOptions(s)) = Len(s)
      /\ \A k \in 1 .. Len(s) : WithOptions(s)[k] = c[k] \/ (c[k] = "Aux_3" /\ WithOptions(s)[k] = "SPILLOVER")
  BY <1>1, <1>2, <1>3 DEF WithOptions, c
<1> QED BY <1>3, <1>4

(* The rotation the constructor builds.                                    *)
LEMMA FirstRotation ==
  /\ StatusTypes \in Seq(AllTypes) /\ Len(StatusTypes) >= Len(ConfigurationStatuses)
  /\ StatusTypes[1] = "OPTIONS" /\ StatusTypes[Len(ConfigurationStatuses)] = "UNITS"
  /\ \A k \in 2 .. Len(StatusTypes) : StatusTypes[k] # "OPTIONS"
  /\ \A k \in 1 .. Len(ConfigurationStatuses) - 1 : StatusTypes[k] \notin ToSet(TemperatureCommands)
<1> DEFINE C == ConfigurationStatuses
           T == TemperatureCommands
           R == Rotated(T)
           I == {i \in 1 .. Len(T) : T[i] = "UNITS"}
           u == Min(I)
<1>1. C \in Seq(STRING) /\ T \in Seq(STRING) /\ AuxillaryIds \in Seq(STRING) /\ Len(C) >= 2 /\ Len(C) \in Nat
  BY EnumerationsAssumption
<1>2. u \in 1 .. Len(T) /\ T[u] = "UNITS"
  <2>1. I # {} /\ I \in SUBSET Nat
    BY <1>1, EnumerationsAssumption DEF ToSet
  <2>2. u \in I
    BY <2>1, LeastOf
  <2> QED BY <2>2
<1>3. R = <<"UNITS">> \o RemoveAt(T, u)
  <2>1. I # {}
    BY <1>2
  <2> QED BY <1>2, <2>1 DEF Rotated, SelectInSeq
<1> HIDE DEF u, I
<1>4. /\ RemoveAt(T, u) \in Seq(STRING)
      /\ \A k \in 1 .. Len(RemoveAt(T, u)) : RemoveAt(T, u)[k] \in ToSet(T)
  <2> DEFINE a == SubSeq(T, 1, u - 1)
             b == SubSeq(T, u + 1, Len(T))
  <2>1. /\ a \in Seq(STRING) /\ Len(a) = u - 1
        /\ \A k \in 1 .. Len(a) : a[k] = T[k] /\ k \in 1 .. Len(T)
    BY <1>1, <1>2, SubSeqProperties
  <2>2. /\ b \in Seq(STRING) /\ Len(b) = Len(T) - u
        /\ \A k \in 1 .. Len(b) : b[k] = T[u + k] /\ u + k \in 1 .. Len(T)
    BY <1>1, <1>2, SubSeqProperties
  <2>3. RemoveAt(T, u) = a \o b
    BY DEF RemoveAt
  <2> HIDE DEF a, b
  <2>4. /\ a \o b \in Seq(STRING) /\ Len(a \o b) = Len(a) + Len(b)
        /\ \A k \in 1 .. Len(a) + Len(b) : (a \o b)[k] = IF k <= Len(a) THEN a[k] ELSE b[k - Len(a)]
    BY <2>1, <2>2, ConcatProperties
  <2>5. ASSUME NEW k \in 1 .. Len(a \o b) PROVE (a \o b)[k] \in ToSet(T)
    <3>1. DOMAIN T = 1 .. Len(T)
      BY <1>1
    <3>2. CASE k <= Len(a)
      BY <2>1, <2>4, <3>1, <3>2 DEF ToSet
    <3>3. CASE ~(k <= Len(a))
      <4>1. k - Len(a) \in 1 .. Len(b) /\ (a \o b)[k] = b[k - Len(a)]
        BY <2>1, <2>2, <2>4, <3>3
      <4>2. b[k - Len(a)] = T[u + (k - Len(a))] /\ u + (k - Len(a)) \in 1 .. Len(T)
        BY <2>2, <4>1
      <4> QED BY <3>1, <4>1, <4>2 DEF ToSet
    <3> QED BY <3>2, <3>3
  <2> QED BY <2>3, <2>4, <2>5
<1>5. /\ R \in Seq(STRING) /\ Len(R) >= 1 /\ R[1] = "UNITS"
      /\ \A k \in 1 .. Len(R) : R[k] \in ToSet(T)
  <2> DEFINE q == RemoveAt(T, u)
  <2> HIDE DEF q
  <2>1. q \in Seq(STRING) /\ \A k \in 1 .. Len(q) : q[k] \in ToSet(T)
    BY <1>4 DEF q
  <2>2. R = <<"UNITS">> \o q
    BY <1>3 DEF q
  <2>0. "UNITS" \in STRING
    BY <1>1, <1>2
  <2>3. <<"UNITS">> \in Seq(STRING) /\ Len(<<"UNITS">>) = 1 /\ <<"UNITS">>[1] = "UNITS"
    BY <2>0
  <2>4. /\ R \in Seq(STRING) /\ Len(R) = 1 + Len(q)
        /\ \A k \in 1 .. 1 + Len(q) : R[k] = IF k <= 1 THEN "UNITS" ELSE q[k - 1]
    BY <2>1, <2>2, <2>3, ConcatProperties
  <2>5. Len(q) \in Nat
    BY <2>1
  <2>6. "UNITS" \in ToSet(T)
    BY EnumerationsAssumption
  <2>7. \A k \in 1 .. Len(R) : R[k] \in ToSet(T)
    <3> SUFFICES ASSUME NEW k \in 1 .. Len(R) PROVE R[k] \in ToSet(T)
      OBVIOUS
    <3>1. CASE k = 1
      BY <2>4, <2>5, <2>6, <3>1
    <3>2. CASE k # 1
      <4>1. k - 1 \in 1 .. Len(q) /\ R[k] = q[k - 1]
        BY <2>4, <2>5, <3>2
      <4> QED BY <2>1, <4>1
    <3> QED BY <3>1, <3>2
  <2> QED BY <2>4, <2>5, <2>7
<1> HIDE DEF R
<1> DEFINE L == Tail(C) \o R
<1>6. /\ Tail(C) \in Seq(STRING) /\ Len(Tail(C)) = Len(C) - 1
      /\ \A k \in 1 .. Len(C) - 1 : Tail(C)[k] = C[k + 1]
  BY <1>1, HeadTailProperties
<1>7. /\ L \in Seq(STRING) /\ Len(L) = Len(C) - 1 + Len(R)
      /\ \A k \in 1 .. Len(L) : L[k] = IF k <= Len(C) - 1 THEN C[k + 1] ELSE R[k - (Len(C) - 1)]
  BY <1>1, <1>5, <1>6, ConcatProperties
<1>8. StatusTypes = L \o AuxillaryIds
  BY DEF StatusTypes, R
<1> HIDE DEF L
<1> DEFINE n == Len(L)
<1>9. /\ StatusTypes \in Seq(STRING) /\ Len(StatusTypes) = n + Len(AuxillaryIds)
      /\ \A k \in 1 .. Len(StatusTypes) : StatusTypes[k] = IF k <= n THEN L[k] ELSE AuxillaryIds[k - n]
  <2>1. L \in Seq(STRING) /\ AuxillaryIds \in Seq(STRING)
    BY <1>1, <1>7
  <2> QED BY <1>8, <2>1, ConcatProperties
<1>10. n \in Nat /\ n >= Len(C) /\ Len(AuxillaryIds) \in Nat /\ Len(R) \in Nat
  BY <1>1, <1>5, <1>7
<1>11. \A k \in 1 .. Len(C) - 1 : StatusTypes[k] = C[k + 1] /\ k + 1 \in 2 .. Len(C)
  <2> SUFFICES ASSUME NEW k \in 1 .. Len(C) - 1
               PROVE  StatusTypes[k] = C[k + 1] /\ k + 1 \in 2 .. Len(C)
    OBVIOUS
  <2>1. k \in 1 .. n /\ k \in 1 .. Len(StatusTypes) /\ k <= n /\ k <= Len(C) - 1
    BY <1>1, <1>9, <1>10
  <2>2. StatusTypes[k] = L[k] /\ L[k] = C[k + 1]
    BY <1>7, <1>9, <2>1
  <2> QED BY <1>1, <2>2
<1>12. \A k \in 1 .. Len(StatusTypes) :
         \/ k < Len(C)
         \/ StatusTypes[k] \in ToSet(T) \/ StatusTypes[k] \in ToSet(AuxillaryIds)
  <2> SUFFICES ASSUME NEW k \in 1 .. Len(StatusTypes), k >= Len(C)
               PROVE  StatusTypes[k] \in ToSet(T) \/ StatusTypes[k] \in ToSet(AuxillaryIds)
    BY <1>1
  <2>1. CASE k <= n
    <3>1. k - (Len(C) - 1) \in 1 .. Len(R) /\ k \in 1 .. n /\ ~(k <= Len(C) - 1)
      BY <1>1, <1>7, <1>10, <2>1
    <3>2. StatusTypes[k] = R[k - (Len(C) - 1)]
      BY <1>7, <1>9, <2>1, <3>1
    <3> QED BY <1>5, <3>1, <3>2
  <2>2. CASE k > n
    <3>1. k - n \in 1 .. Len(AuxillaryIds) /\ ~(k <= n)
      BY <1>9, <1>10, <2>2
    <3>2. DOMAIN AuxillaryIds = 1 .. Len(AuxillaryIds)
      BY <1>1
    <3> QED BY <1>9, <3>1, <3>2 DEF ToSet
  <2> QED BY <1>10, <2>1, <2>2
<1>13. StatusTypes \in Seq(AllTypes)
  <2>1. \A k \in 1 .. Len(StatusTypes) : StatusTypes[k] \in AllTypes
    <3>1. \A k \in 2 .. Len(C) : C[k] \in ToSet(C)
      BY <1>1 DEF ToSet
    <3> QED BY <1>1, <1>11, <1>12, <3>1 DEF AllTypes
  <2> QED BY <1>9, <2>1, SeqOfRange
<1>14. StatusTypes[1] = "OPTIONS"
  BY <1>1, <1>11, EnumerationsAssumption
<1>15. StatusTypes[Len(C)] = "UNITS"
  <2>1. Len(C) \in 1 .. n /\ Len(C) - (Len(C) - 1) = 1 /\ ~(Len(C) <= Len(C) - 1)
    BY <1>1, <1>10
  <2>2. Len(C) \in 1 .. Len(StatusTypes)
    BY <1>9, <1>10, <2>1
  <2> QED BY <1>5, <1>7, <1>9, <2>1, <2>2
<1>16. \A k \in 2 .. Len(StatusTypes) : StatusTypes[k] # "OPTIONS"
  BY <1>1, <1>11, <1>12, EnumerationsAssumption
<1>17. \A k \in 1 .. Len(C) - 1 : StatusTypes[k] \notin ToSet(T)
  <2>1. \A k \in 2 .. Len(C) : C[k] \in ToSet(C)
    BY <1>1 DEF ToSet
  <2> QED BY <1>1, <1>11, <2>1, EnumerationsAssumption
<1> QED BY <1>9, <1>10, <1>13, <1>14, <1>15, <1>16, <1>17

LEMMA OrderFacts ==
  /\ Order \in Seq(AllTypes) /\ Len(Order) \in Nat /\ UnitsAt \in 1 .. Len(Order)
  /\ Order[UnitsAt] = "UNITS"
  /\ \A k \in 1 .. Len(Order) : Order[k] # "OPTIONS"
  /\ \A k \in 1 .. UnitsAt - 1 : Order[k] \notin ToSet(TemperatureCommands)
  /\ Head(WithOptions(StatusTypes)) = "OPTIONS"
<1> DEFINE w == WithOptions(StatusTypes)
           s == StatusTypes
           c == Len(ConfigurationStatuses)
<1>1. /\ s \in Seq(AllTypes) /\ Len(s) \in Nat /\ c \in Nat /\ Len(s) >= c /\ c >= 2
      /\ s[1] = "OPTIONS" /\ s[c] = "UNITS"
      /\ \A k \in 2 .. Len(s) : s[k] # "OPTIONS"
      /\ \A k \in 1 .. c - 1 : s[k] \notin ToSet(TemperatureCommands)
  BY FirstRotation, EnumerationsAssumption
<1>2. /\ w \in Seq(AllTypes) /\ Len(w) = Len(s)
      /\ \A k \in 1 .. Len(s) : \/ w[k] = s[k]
                                \/ s[k] \in {"Aux_1", "Aux_3"} /\ w[k] \in {"CLEANR", "SPILLOVER"}
  BY <1>1, OptionsRename
<1> HIDE DEF w, s, c
<1>3. w # << >>
  BY <1>1, <1>2
<1>4. /\ Order \in Seq(AllTypes) /\ Len(Order) = Len(s) - 1
      /\ \A k \in 1 .. Len(s) - 1 : Order[k] = w[k + 1]
      /\ Head(w) = w[1]
  <2>1. Order = Tail(w)
    BY DEF Order, w, s
  <2> QED BY <1>2, <1>3, <2>1, HeadTailProperties
<1>5. UnitsAt = c - 1
  BY DEF UnitsAt, c
<1>6. w[1] = "OPTIONS" /\ w[c] = "UNITS"
  BY <1>1, <1>2
<1>7. \A k \in 1 .. Len(Order) : Order[k] # "OPTIONS"
  <2> SUFFICES ASSUME NEW k \in 1 .. Len(Order) PROVE w[k + 1] # "OPTIONS"
    BY <1>1, <1>4
  <2>1. k + 1 \in 2 .. Len(s) /\ k + 1 \in 1 .. Len(s)
    BY <1>1, <1>4
  <2> QED BY <1>1, <1>2, <2>1
<1>8. \A k \in 1 .. UnitsAt - 1 : Order[k] \notin ToSet(TemperatureCommands)
  <2> SUFFICES ASSUME NEW k \in 1 .. UnitsAt - 1 PROVE w[k + 1] \notin ToSet(TemperatureCommands)
    BY <1>1, <1>4, <1>5
  <2>1. k + 1 \in 1 .. c - 1 /\ k + 1 \in 1 .. Len(s)
    BY <1>1, <1>5
  <2> QED BY <1>1, <1>2, <2>1, EnumerationsAssumption
<1> QED BY <1>1, <1>4, <1>5, <1>6, <1>7, <1>8 DEF w, s

LEMMA Modulo ==
  ASSUME NEW n \in Nat \ {0}, NEW a \in Nat
  PROVE  a % n \in 0 .. n - 1 /\ (a < n => a % n = a) /\ (a = n => a % n = 0)
OBVIOUS

(* The next entry to ask for, at the place p, and what is passed over.     *)
LEMMA SkipFacts ==
  ASSUME NEW s \in Seq(AllTypes), Len(s) >= 1, NEW i \in 1 .. Len(s), NEW d,
         d = SkipUnpollableStatusTypes(s, i)
  PROVE  /\ d \in Nat
         /\ ((i - 1 + d) % Len(s)) + 1 \in 1 .. Len(s) /\ ((i + d) % Len(s)) + 1 \in 1 .. Len(s)
         /\ \A k \in i .. Len(s) : k < i + d => ~IsPollableStatusType(s[k])
         /\ i + d <= Len(s) => ((i - 1 + d) % Len(s)) + 1 = i + d
         /\ i + d < Len(s) => ((i + d) % Len(s)) + 1 = i + d + 1
<1> DEFINE n == Len(s)
           At(x) == s[((i - 1 + x) % n) + 1]
           ok == {x \in 0 .. (n - 1) : IsPollableStatusType(At(x))}
<1>1. n \in Nat \ {0} /\ i \in Nat \ {0} /\ i <= n
  OBVIOUS
<1>2. d = IF ok = {} THEN n ELSE Min(ok)
  BY DEF SkipUnpollableStatusTypes
<1>3. ok \in SUBSET Nat
  BY <1>1
<1> HIDE DEF n, ok
<1>4. d \in Nat /\ \A x \in 0 .. n - 1 : x < d => x \notin ok
  <2>1. CASE ok = {}
    BY <1>1, <1>2, <2>1
  <2>2. CASE ok # {}
    <3>1. d \in ok /\ \A x \in ok : d <= x
      <4>1. Min(ok) \in ok /\ \A x \in ok : Min(ok) <= x
        BY <1>3, <2>2, LeastOf, Zenon
      <4>2. d = Min(ok)
        BY <1>2, <2>2
      <4> QED BY <4>1, <4>2, Zenon
    <3>2. d \in Nat /\ \A x \in ok : x \in Nat
      BY <1>3, <3>1
    <3> QED BY <3>1, <3>2
  <2> QED BY <2>1, <2>2
<1>5. ASSUME NEW k \in i .. n, k < i + d PROVE ~IsPollableStatusType(s[k])
  <2>1. k - i \in 0 .. n - 1 /\ k - i < d /\ i - 1 + (k - i) = k - 1 /\ k - 1 \in Nat /\ k - 1 < n
    BY <1>1, <1>4, <1>5
  <2>2. (k - 1) % n = k - 1
    BY <1>1, <2>1, Modulo
  <2>3. At(k - i) = s[k]
    BY <1>1, <2>1, <2>2
  <2>4. k - i \notin ok
    BY <1>4, <2>1
  <2> QED BY <2>1, <2>3, <2>4 DEF ok
<1>6. i - 1 + d \in Nat /\ i + d \in Nat
  BY <1>1, <1>4
<1>7. /\ (i - 1 + d) % n \in 0 .. n - 1 /\ (i + d) % n \in 0 .. n - 1
      /\ i - 1 + d < n => (i - 1 + d) % n = i - 1 + d
      /\ i + d < n => (i + d) % n = i + d
  BY <1>1, <1>6, Modulo
<1>8. /\ ((i - 1 + d) % n) + 1 \in 1 .. n /\ ((i + d) % n) + 1 \in 1 .. n
      /\ i + d <= n => ((i - 1 + d) % n) + 1 = i + d
      /\ i + d < n => ((i + d) % n) + 1 = i + d + 1
  <2> DEFINE a == (i - 1 + d) % n
             b == (i + d) % n
  <2>1. a \in 0 .. n - 1 /\ b \in 0 .. n - 1 /\ (i - 1 + d < n => a = i - 1 + d) /\ (i + d < n => b = i + d)
    BY <1>7
  <2> HIDE DEF a, b
  <2>2. a + 1 \in 1 .. n /\ b + 1 \in 1 .. n
    BY <1>1, <2>1
  <2>3. i + d <= n => a + 1 = i + d
    BY <1>1, <1>4, <2>1
  <2>4. i + d < n => b + 1 = i + d + 1
    BY <2>1
  <2> QED BY <2>2, <2>3, <2>4 DEF a, b
<1> QED BY <1>4, <1>5, <1>8 DEF n

-----------------------------------------------------------------------------
(* The steps. A frame that is answered sets the wire, and claims.          *)

LEMMA ActiveReply ==
  ASSUME RotInv, suppressed' = FALSE, NEW poll, NEW f, Signal_AckMessage(poll, f)
  PROVE  /\ claimed' = TRUE
         /\ asked' = IF f.kind = "query" THEN f.type ELSE NoType
         /\ readied' = (f.kind = "readySP") /\ readied' \in BOOLEAN
         /\ queried' = IF f.kind = "query" THEN queried \cup {f.type} ELSE queried
BY DEF RotInv, Signal_AckMessage

LEMMA KickKeeps ==
  ASSUME RotInv, Kick
  PROVE  {running', lapsed', polled'} \subseteq BOOLEAN
BY DEF RotInv, Kick

(* A step after which the rotation waits for nothing, or as before.        *)
LEMMA RotationWaits ==
  ASSUME RotInv, UNCHANGED <<types, iter, suppressed, normal, units, emulated, misread, queried>>,
         asked' = asked, claimed' \in BOOLEAN, readied' \in BOOLEAN,
         claimed => claimed', readied' => claimed' /\ asked = NoType,
         spanKnown' \in BOOLEAN, spanKnown => spanKnown',
         {running', lapsed', polled'} \subseteq BOOLEAN, issued' \in 0 .. MaxCommands
  PROVE  RotInv'
<1>1. \A t : IsPollableStatusType(t)' => IsPollableStatusType(t)
  BY DEF IsPollableStatusType
<1>2. FirstPhase => FirstPhase'
  BY DEF FirstPhase
<1>3. SweepPhase => SweepPhase'
  BY <1>1 DEF SweepPhase
<1>4. {normal', units'} \subseteq BOOLEAN
  BY DEF RotInv
<1> QED BY <1>2, <1>3, <1>4 DEF RotInv

LEMMA ReplyWaits ==
  ASSUME RotInv, UNCHANGED <<types, iter, suppressed, normal, units, emulated, spanKnown, misread, issued>>,
         asked = NoType, NEW poll, NEW f, f.kind # "query", Signal_AckMessage(poll, f), Kick
  PROVE  RotInv'
<1>1. suppressed' = FALSE
  BY DEF RotInv
<1>2. claimed' = TRUE /\ asked' = NoType /\ readied' \in BOOLEAN /\ queried' = queried
  BY <1>1, ActiveReply
<1>3. spanKnown' \in BOOLEAN /\ (spanKnown => spanKnown') /\ issued' \in 0 .. MaxCommands
  BY DEF RotInv
<1> QED BY <1>2, <1>3, KickKeeps, RotationWaits

LEMMA QueueFrames ==
  ASSUME Inv, pending # << >>
  PROVE  Head(pending).kind # "query"
BY FrontOfQueue, FramesDiffer DEF Inv

LEMMA StatusSweeps ==
  ASSUME RotInv, Inv, ~Lossy, Slot_SerialAdapter_Status
  PROVE  RotInv'
<1>1. /\ asked = NoType /\ ~readied
      /\ UNCHANGED <<suppressed, units, emulated, spanKnown, issued, misread>>
      /\ ProcessControllerUpdates("Status", TRUE, pending, types, iter) /\ Kick
  BY DEF Slot_SerialAdapter_Status
<1>2. CASE pending # << >>
  <2>1. UNCHANGED <<types, iter, normal>> /\ Signal_AckMessage("Status", Head(pending))
    BY <1>1, <1>2 DEF ProcessControllerUpdates
  <2> QED BY <1>1, <1>2, <2>1, QueueFrames, ReplyWaits
<1>3. CASE pending = << >>
  <2> DEFINE d == SkipUnpollableStatusTypes(types, iter)
             p == ((iter - 1 + d) % Len(types)) + 1
             t == types[p]
  <2>1. /\ types' = types /\ iter' = ((iter + d) % Len(types)) + 1
        /\ normal' = (normal \/ iter + d >= Len(types))
        /\ Signal_AckMessage("Status", Query(t))
    BY <1>1, <1>3 DEF ProcessControllerUpdates
  <2>2. types \in Seq(AllTypes) /\ Len(types) >= 1 /\ iter \in 1 .. Len(types) /\ Len(types) \in Nat
    <3>1. StatusTypes \in Seq(AllTypes) /\ Len(StatusTypes) \in Nat /\ Len(StatusTypes) >= 2
      <4>1. Len(ConfigurationStatuses) \in Nat /\ Len(ConfigurationStatuses) >= 2
        BY EnumerationsAssumption
      <4> QED BY <4>1, FirstRotation
    <3>2. CASE FirstPhase
      BY <3>1, <3>2 DEF FirstPhase
    <3>3. CASE SweepPhase
      BY <3>3, OrderFacts DEF SweepPhase
    <3> QED BY <3>2, <3>3 DEF RotInv
  <2>3. /\ d \in Nat /\ p \in 1 .. Len(types) /\ iter' \in 1 .. Len(types)
        /\ \A k \in iter .. Len(types) : k < iter + d => ~IsPollableStatusType(types[k])
        /\ iter + d <= Len(types) => p = iter + d
        /\ iter + d < Len(types) => iter' = iter + d + 1
    BY <2>1, <2>2, SkipFacts
  <2> HIDE DEF d, p
  <2>4. suppressed' = FALSE
    BY <1>1 DEF RotInv
  <2>5. Query(t).kind = "query" /\ Query(t).type = t
    BY DEF Query, Frame
  <2>6. claimed' = TRUE /\ asked' = t /\ readied' = FALSE /\ queried' = queried \cup {t}
    <3>1. readied' = (Query(t).kind = "readySP") /\ Query(t).kind # "readySP"
      BY <2>1, <2>4, <2>5, ActiveReply
    <3>2. claimed' = TRUE /\ asked' = t /\ queried' = queried \cup {t}
      BY <2>1, <2>4, <2>5, ActiveReply
    <3>3. readied' \in BOOLEAN
      BY <2>1, <2>4, ActiveReply
    <3> QED BY <3>1, <3>2, <3>3
  <2>7. t \in AllTypes /\ t \in ToSet(types)
    <3>1. DOMAIN types = 1 .. Len(types)
      BY <2>2
    <3> QED BY <2>2, <2>3, <3>1 DEF ToSet
  <2>8. normal' \in BOOLEAN
    BY <2>1 DEF RotInv
  <2>9. CASE FirstPhase
    <3>1. iter = 1 /\ ~normal /\ ~units /\ types = StatusTypes
      BY <1>1, <2>9 DEF FirstPhase, NoType
    <3>2. types[1] = "OPTIONS" /\ Len(types) >= 2 /\ "OPTIONS" \notin ToSet(AuxillaryIds)
      BY <3>1, FirstRotation, EnumerationsAssumption
    <3>3. IsPollableStatusType(types[1])
      BY <3>2 DEF IsPollableStatusType
    <3>4. d = 0
      BY <2>2, <2>3, <3>1, <3>3
    <3>5. p = 1 /\ iter' = 2 /\ iter + d < Len(types)
      BY <2>2, <2>3, <3>1, <3>2, <3>4
    <3>6. ~normal'
      <4>1. ~(iter + d >= Len(types))
        BY <2>2, <2>3, <3>5
      <4> QED BY <2>1, <3>1, <4>1, Zenon
    <3>7. FirstPhase'
      BY <1>1, <2>1, <2>6, <3>1, <3>2, <3>5, <3>6 DEF FirstPhase
    <3> QED BY <1>1, <2>6, <2>7, <2>8, <3>7, KickKeeps DEF RotInv
  <2>10. CASE SweepPhase
    <3>1. types = Order /\ types' = Order
      BY <2>1, <2>10 DEF SweepPhase
    <3>2. ASSUME NEW k \in 1 .. Len(Order), IsPollableStatusType(Order[k]), normal' \/ k < iter'
          PROVE  Order[k] \in queried'
      <4>1. CASE normal \/ k < iter
        BY <2>6, <2>10, <3>2, <4>1 DEF SweepPhase
      <4>2. CASE ~normal /\ ~(k < iter)
        <5>1. k \in iter .. Len(types) /\ ~(k < iter + d)
          BY <2>2, <2>3, <3>1, <3>2, <4>2
        <5>2. k = iter + d
          <6>1. CASE iter + d < Len(types)
            <7>1. ~normal'
              <8>1. ~(iter + d >= Len(types))
                BY <2>2, <2>3, <6>1
              <8> QED BY <2>1, <4>2, <8>1, Zenon
            <7> QED BY <2>2, <2>3, <3>2, <5>1, <6>1, <7>1
          <6>2. CASE ~(iter + d < Len(types))
            BY <2>2, <2>3, <5>1, <6>2
          <6> QED BY <6>1, <6>2
        <5>3. p = k
          BY <2>2, <2>3, <5>1, <5>2
        <5> QED BY <2>6, <3>1, <5>3
      <4> QED BY <4>1, <4>2
    <3>3. \A u : IsPollableStatusType(u)' <=> IsPollableStatusType(u)
      BY <1>1 DEF IsPollableStatusType
    <3>4. units \/ asked' = "UNITS" \/ (asked' \notin ToSet(TemperatureCommands) \ {NoType} /\ iter' <= UnitsAt)
      <4> SUFFICES ASSUME ~units
                   PROVE  asked' = "UNITS" \/ (asked' \notin ToSet(TemperatureCommands) /\ iter' <= UnitsAt)
        OBVIOUS
      <4>1. iter <= UnitsAt
        BY <1>1, <2>10 DEF SweepPhase, NoType
      <4>2. UnitsAt \in 1 .. Len(types) /\ types[UnitsAt] = "UNITS"
        BY <3>1, OrderFacts
      <4>3. CASE iter + d = UnitsAt
        <5>1. p = UnitsAt
          BY <2>2, <2>3, <4>2, <4>3
        <5> QED BY <2>6, <4>2, <5>1
      <4>4. CASE iter + d < UnitsAt
        <5>1. p = iter + d /\ iter' = iter + d + 1 /\ p \in 1 .. UnitsAt - 1
          BY <2>2, <2>3, <4>2, <4>4
        <5>2. t \notin ToSet(TemperatureCommands)
          BY <3>1, <5>1, OrderFacts
        <5> QED BY <2>2, <2>3, <2>6, <4>2, <4>4, <5>1, <5>2
      <4>5. CASE iter + d > UnitsAt
        <5>1. ~IsPollableStatusType("UNITS")
          BY <2>2, <2>3, <4>1, <4>2, <4>5
        <5>2. "UNITS" \in ToSet(AuxillaryIds)
          BY <5>1 DEF IsPollableStatusType
        <5> QED BY <5>2, EnumerationsAssumption
      <4> QED BY <2>2, <2>3, <4>2, <4>3, <4>4, <4>5
    <3>5. SweepPhase'
      BY <1>1, <2>3, <2>6, <2>7, <3>1, <3>2, <3>3, <3>4 DEF SweepPhase
    <3> QED BY <1>1, <2>6, <2>7, <2>8, <3>5, KickKeeps DEF RotInv
  <2> QED BY <2>9, <2>10 DEF RotInv
<1> QED BY <1>2, <1>3

LEMMA DevReadyWaits ==
  ASSUME RotInv, Inv, ~RealAdapter, Slot_SerialAdapter_DevReady
  PROVE  RotInv'
<1> DEFINE q == QueueAfterDetection
           f == IF q = << >> THEN Nothing ELSE Head(q)
<1>1. /\ readied /\ DetectRealAdapterAndSuppressEmulation /\ Signal_AckMessage("DevReady", f) /\ Kick
      /\ UNCHANGED <<types, iter, normal, units, emulated, spanKnown, issued, misread>>
  BY DEF Slot_SerialAdapter_DevReady
<1>2. claimed /\ asked = NoType
  BY <1>1 DEF RotInv
<1>3. ~RealAdapterDetected
  BY <1>2 DEF RealAdapterDetected
<1>4. suppressed' = suppressed /\ q = pending
  BY <1>1, <1>3 DEF DetectRealAdapterAndSuppressEmulation, QueueAfterDetection, RotInv
<1>5. f.kind # "query"
  BY <1>4, QueueFrames DEF Nothing, Frame
<1> HIDE DEF f
<1> QED BY <1>1, <1>2, <1>4, <1>5, ReplyWaits

LEMMA ProbeWaits ==
  ASSUME RotInv, ~Lossy, Slot_SerialAdapter_ProbeOrUnknown
  PROVE  RotInv'
<1>1. /\ asked = NoType /\ Signal_AckMessage("Probe", Nothing) /\ Kick
      /\ UNCHANGED <<types, iter, normal, suppressed, units, emulated, spanKnown, issued, misread>>
  BY DEF Slot_SerialAdapter_ProbeOrUnknown, ProcessControllerUpdates
<1>2. Nothing.kind # "query"
  BY DEF Nothing, Frame
<1> QED BY <1>1, <1>2, ReplyWaits

(* The answer to what was asked: OPTIONS rewrites the rotation, once.      *)
LEMMA AnswerSweeps ==
  ASSUME RotInv, ~RealAdapter, NEW t \in AllTypes, Slot_SerialAdapter_DevStatus(t)
  PROVE  RotInv'
<1>1. /\ t # NoType /\ asked = t /\ DetectRealAdapterAndSuppressEmulation /\ Kick
      /\ units' = (units \/ t = "UNITS")
      /\ misread' = (misread \/ (t \in ToSet(TemperatureCommands) \ {"UNITS"} /\ ~units))
      /\ UNCHANGED <<emulated, spanKnown, issued>>
      /\ types' = RotationAfter(t).types /\ iter' = RotationAfter(t).iter /\ UNCHANGED normal
      /\ Signal_AckMessage("DevStatus", Nothing)
  BY DEF Slot_SerialAdapter_DevStatus, ProcessControllerUpdates
<1>2. claimed
  BY <1>1 DEF RotInv
<1>3. ~RealAdapterDetected
  BY <1>2 DEF RealAdapterDetected
<1>4. suppressed' = FALSE
  BY <1>1, <1>3 DEF DetectRealAdapterAndSuppressEmulation, RotInv
<1>5. Nothing.kind # "query" /\ Nothing.kind # "readySP"
  BY DEF Nothing, Frame
<1>6. claimed' = TRUE /\ asked' = NoType /\ queried' = queried
  BY <1>1, <1>4, <1>5, ActiveReply
<1>7. readied' = FALSE
  <2>1. readied' = (Nothing.kind = "readySP")
    BY <1>1, <1>4, ActiveReply
  <2>2. readied' \in BOOLEAN
    BY <1>1, <1>4, ActiveReply
  <2> QED BY <1>5, <2>1, <2>2
<1>8. units' \in BOOLEAN /\ (t = "UNITS" => units') /\ (units => units') /\ (t # "UNITS" => units' = units)
  BY <1>1 DEF RotInv
<1>9. issued' \in 0 .. MaxCommands /\ normal' \in BOOLEAN /\ spanKnown' \in BOOLEAN
      /\ emulated' = TRUE /\ queried' \subseteq AllTypes
  BY <1>1, <1>6 DEF RotInv
<1>10. \A u : IsPollableStatusType(u)' <=> IsPollableStatusType(u)
  BY <1>1 DEF IsPollableStatusType
<1>11. CASE FirstPhase
  <2>1. t = "OPTIONS" /\ types = StatusTypes /\ ~normal /\ ~units
    BY <1>1, <1>11 DEF FirstPhase
  <2>2. RotationAfter(t) = Rotation(Order, 1)
    BY <2>1, OrderFacts DEF RotationAfter, Order
  <2>3. types' = Order /\ iter' = 1
    BY <1>1, <2>2 DEF Rotation
  <2>4. misread' = FALSE
    BY <1>1, <2>1, EnumerationsAssumption DEF RotInv
  <2>5. UnitsAt \in 1 .. Len(Order) /\ Len(Order) \in Nat
    BY OrderFacts
  <2>6. iter' \in 1 .. Len(Order) /\ iter' <= UnitsAt /\ \A k \in 1 .. Len(Order) : ~(k < iter')
    BY <2>3, <2>5
  <2>7. SweepPhase'
    BY <1>1, <1>6, <2>1, <2>3, <2>6 DEF SweepPhase
  <2> QED BY <1>1, <1>4, <1>6, <1>7, <1>8, <1>9, <2>4, <2>7, KickKeeps DEF RotInv
<1>12. CASE SweepPhase
  <2>1. t \in ToSet(Order) /\ DOMAIN Order = 1 .. Len(Order)
    BY <1>1, <1>12, OrderFacts DEF SweepPhase
  <2>2. t # "OPTIONS"
    BY <2>1, OrderFacts DEF ToSet
  <2>3. types' = types /\ iter' = iter
    BY <1>1, <2>2 DEF RotationAfter, Rotation
  <2>4. units \/ t = "UNITS" \/ t \notin ToSet(TemperatureCommands)
    BY <1>1, <1>12 DEF SweepPhase
  <2>5. misread' = FALSE
    BY <1>1, <2>4 DEF RotInv
  <2>6. units' \/ iter' <= UnitsAt
    BY <1>1, <1>8, <1>12, <2>3 DEF SweepPhase
  <2>7. SweepPhase'
    BY <1>1, <1>6, <1>10, <1>12, <2>3, <2>6 DEF SweepPhase
  <2> QED BY <1>1, <1>4, <1>6, <1>7, <1>8, <1>9, <2>5, <2>7, KickKeeps DEF RotInv
<1> QED BY <1>11, <1>12 DEF RotInv

LEMMA RotStep ==
  ASSUME ~RealAdapter, ~Lossy, RotInv, Inv, [Next]_vars
  PROVE  RotInv'
<1>1. CASE Slot_SerialAdapter_Ack
  BY <1>1 DEF Slot_SerialAdapter_Ack, RotInv
<1>2. CASE Command
  <2>1. issued' \in 0 .. MaxCommands
    BY <1>2, SerialAdapterAssumption
       DEF Command, ActuateDevice, SetSetpoint, QueueSetpointWrite_TwoStep, SetCirculationMode,
           SetHeaterMode, Refuse, Accept, RotInv
  <2> QED BY <1>2, <2>1, RotationWaits DEF Command, watchdog, wire, RotInv
<1>3. CASE TimePasses \/ CheckWatchdog
  <2>1. /\ UNCHANGED <<types, iter, suppressed, normal, units, emulated, misread, queried>>
        /\ UNCHANGED <<asked, claimed, readied, spanKnown, issued>>
    BY <1>3 DEF TimePasses, CheckWatchdog, device, wire
  <2>2. {running', lapsed', polled'} \subseteq BOOLEAN
    BY <1>3 DEF TimePasses, CheckWatchdog, RotInv
  <2> QED BY <2>1, <2>2, RotationWaits DEF RotInv
<1>4. CASE ModelDecoded
  BY <1>4, RotationWaits DEF ModelDecoded, device, wire, watchdog, RotInv
<1>5. CASE UNCHANGED vars
  BY <1>5, RotationWaits DEF vars, device, wire, watchdog, RotInv
<1> QED BY <1>1, <1>2, <1>3, <1>4, <1>5, StatusSweeps, ProbeWaits, DevReadyWaits, AnswerSweeps DEF Next

LEMMA RotStart ==
  ASSUME Emulations = {TRUE}, Init
  PROVE  RotInv
<1>1. FirstPhase
  BY DEF Init, FirstPhase
<1>2. /\ emulated = TRUE /\ suppressed = FALSE /\ misread = FALSE /\ asked = NoType /\ readied = FALSE
      /\ issued = 0 /\ queried = {}
      /\ {claimed, normal, units, spanKnown, running, lapsed, polled, readied} \subseteq BOOLEAN
  BY DEF Init
<1>3. issued \in 0 .. MaxCommands
  BY <1>2, SerialAdapterAssumption
<1> QED BY <1>1, <1>2, <1>3, Zenon DEF RotInv

(* SweepInOrder, of an emulation that is alone at its address on a bus that*)
(* delivers the answers: the device reports Normal only after every type of*)
(* the rotation was asked for (AdvanceStatusTypeIter), and no temperature  *)
(* is decoded before the units (StatusTypesCollection).                    *)
THEOREM SweepsInOrder ==
  ASSUME ~RealAdapter, ~Lossy, Emulations = {TRUE}
  PROVE  Spec => []SweepInOrder
<1>1. Init => RotInv
  BY RotStart
<1>2. RotInv /\ Inv /\ [Next]_vars => RotInv'
  BY RotStep
<1>3. ASSUME RotInv, Inv PROVE SweepInOrder
  <2>1. types \in Seq(AllTypes) /\ iter \in 1 .. Len(types)
    <3>1. StatusTypes \in Seq(AllTypes) /\ Len(StatusTypes) \in Nat /\ Len(StatusTypes) >= 2
      <4>1. Len(ConfigurationStatuses) \in Nat /\ Len(ConfigurationStatuses) >= 2
        BY EnumerationsAssumption
      <4> QED BY <4>1, FirstRotation
    <3>2. CASE FirstPhase
      BY <3>1, <3>2 DEF FirstPhase
    <3>3. CASE SweepPhase
      BY <3>3, OrderFacts DEF SweepPhase
    <3> QED BY <1>3, <3>2, <3>3 DEF RotInv
  <2>2. asked \in AllTypes \cup {NoType}
    <3>1. "OPTIONS" \in AllTypes
      <4>1. 2 \in DOMAIN ConfigurationStatuses
        BY EnumerationsAssumption
      <4> QED BY <4>1, EnumerationsAssumption DEF AllTypes, ToSet
    <3>2. ToSet(Order) \subseteq AllTypes
      BY OrderFacts DEF ToSet
    <3> QED BY <1>3, <3>1, <3>2 DEF RotInv, FirstPhase, SweepPhase
  <2>3. pending \in Seq([kind : {"set", "readySP", "setSP"}, id : 1 .. MaxCommands, type : {NoType}])
    <3> DEFINE F == [kind : {"set", "readySP", "setSP"}, id : 1 .. MaxCommands, type : {NoType}]
    <3>1. CASE pending = << >>
      BY <3>1
    <3>2. CASE pending # << >>
      <4>1. issued \in 1 .. MaxCommands
        BY <1>3, <3>2, SerialAdapterAssumption DEF Inv, RotInv
      <4>2. Set(issued) \in F /\ ReadySP(issued) \in F /\ SetSP(issued) \in F
        BY <4>1 DEF Set, ReadySP, SetSP, Frame
      <4> HIDE DEF F
      <4>3. /\ <<Set(issued)>> \in Seq(F) /\ <<ReadySP(issued), SetSP(issued)>> \in Seq(F)
            /\ <<SetSP(issued)>> \in Seq(F)
        BY <4>2
      <4>4. pending \in Shapes(issued)
        BY <1>3 DEF Inv
      <4> QED BY <3>2, <4>3, <4>4 DEF Shapes, F
    <3> QED BY <3>1, <3>2
  <2>4. TypeOK
    BY <1>3, <2>1, <2>2, <2>3 DEF TypeOK, RotInv
  <2>5. NormalMeansSwept
    <3>1. CASE FirstPhase
      BY <3>1 DEF FirstPhase, NormalMeansSwept
    <3>2. CASE SweepPhase
      <4>1. DOMAIN types = 1 .. Len(Order)
        BY <3>2, OrderFacts DEF SweepPhase
      <4> QED BY <3>2, <4>1 DEF SweepPhase, NormalMeansSwept
    <3> QED BY <1>3, <3>1, <3>2 DEF RotInv
  <2> QED BY <1>3, <2>4, <2>5 DEF SweepInOrder, UnitsFirst, RotInv
<1> QED BY <1>1, <1>2, <1>3, Invariance, PTL DEF Spec

-----------------------------------------------------------------------------
(***************************************************************************)
(* The auxiliary relays, for every set of relays, owner's names, panel     *)
(* models and old caches.  First two facts about numbers and functions:    *)
(* what holds of 0 and of n if of n - 1, and that a function defined from  *)
(* its value before is what the steps make of it.                          *)
(***************************************************************************)

LEMMA LeastNumber ==
  ASSUME NEW S, S \subseteq Nat, S # {}
  PROVE  \E x \in S : \A y \in S : x <= y
<1> DEFINE R == OpToRel(<, Nat)
<1>1. \E x \in S : \A y \in S : ~ (<<y, x>> \in R)
  BY NatLessThanWellFounded, WFMin
<1>2. \A x, y \in Nat : y < x => <<y, x>> \in R
  BY DEF OpToRel
<1> HIDE DEF R
<1>3. PICK x \in S : \A y \in S : ~ (<<y, x>> \in R)
  BY <1>1
<1>4. \A y \in S : ~ (y < x)
  BY <1>2, <1>3, Zenon
<1>5. \A y \in S : x <= y
  BY <1>4
<1> QED BY <1>5

LEMMA NumbersUpTo ==
  ASSUME NEW N \in Nat, NEW P, 0 \in P, \A n \in 1 .. N : n - 1 \in P => n \in P
  PROVE  \A n \in 0 .. N : n \in P
<1> DEFINE bad == {n \in 0 .. N : n \notin P}
<1> SUFFICES ASSUME bad # {} PROVE FALSE
  OBVIOUS
<1>1. PICK k \in bad : \A j \in bad : k <= j
  <2>1. bad \subseteq Nat
    OBVIOUS
  <2> HIDE DEF bad
  <2> QED BY <2>1, LeastNumber
<1>2. k \in 1 .. N /\ k - 1 \in 0 .. N /\ ~(k <= k - 1)
  OBVIOUS
<1>3. k - 1 \in P
  BY <1>1, <1>2
<1> QED BY <1>2, <1>3

(* What one step after the other makes of a sequence.                      *)
Runs(z, step, q, k, s) ==
  /\ s[0] = z
  /\ \A n \in 1 .. k : s[n] = step[<<s[n - 1], q[n]>>]

(* There is such a sequence of results.                                    *)
LEMMA RecursionExists ==
  ASSUME NEW S, NEW B, NEW step \in [S \X B -> S], NEW z \in S, NEW q \in Seq(B)
  PROVE  \E s \in [0 .. Len(q) -> S] : Runs(z, step, q, Len(q), s)
<1> DEFINE N == Len(q)
           P == {k \in 0 .. N : \E s \in [0 .. k -> S] : Runs(z, step, q, k, s)}
<1>0. N \in Nat /\ \A n \in 1 .. N : q[n] \in B
  OBVIOUS
<1> HIDE DEF N
<1>1. 0 \in P
  <2> DEFINE s == [n \in 0 .. 0 |-> z]
  <2>1. s \in [0 .. 0 -> S] /\ s[0] = z
    OBVIOUS
  <2> HIDE DEF s
  <2>2. Runs(z, step, q, 0, s)
    BY <2>1 DEF Runs
  <2> QED BY <1>0, <2>1, <2>2
<1>2. ASSUME NEW k \in 1 .. N, k - 1 \in P PROVE k \in P
  <2>0. k \in Nat /\ k \in 0 .. N /\ k # 0
    BY <1>0
  <2>1. PICK s \in [0 .. k - 1 -> S] : Runs(z, step, q, k - 1, s)
    BY <1>2
  <2> DEFINE t == [n \in 0 .. k |-> IF n = k THEN step[<<s[k - 1], q[k]>>] ELSE s[n]]
  <2>2. k - 1 \in 0 .. k - 1 /\ 0 \in 0 .. k - 1 /\ \A n \in 0 .. k : n # k => n \in 0 .. k - 1
    BY <2>0
  <2>3. t \in [0 .. k -> S]
    <3>1. s[k - 1] \in S /\ q[k] \in B
      BY <1>0, <2>2
    <3>2. step[<<s[k - 1], q[k]>>] \in S
      BY <3>1
    <3> QED BY <2>2, <3>2
  <2>4. t[0] = z
    BY <2>0, <2>1, <2>2 DEF Runs
  <2>5. ASSUME NEW n \in 1 .. k PROVE t[n] = step[<<t[n - 1], q[n]>>]
    <3>1. n \in 0 .. k /\ n - 1 \in 0 .. k /\ n - 1 # k
      BY <2>0
    <3>2. CASE n = k
      BY <3>1, <3>2
    <3>3. CASE n # k
      <4>1. n \in 1 .. k - 1
        BY <2>0, <3>3
      <4>2. s[n] = step[<<s[n - 1], q[n]>>]
        BY <2>1, <4>1 DEF Runs
      <4> QED BY <3>1, <3>3, <4>2
    <3> QED BY <3>2, <3>3
  <2> HIDE DEF t
  <2>6. Runs(z, step, q, k, t)
    BY <2>4, <2>5 DEF Runs
  <2> QED BY <2>0, <2>3, <2>6
<1> HIDE DEF P
<1>3. N \in P
  <2>1. \A n \in 0 .. N : n \in P
    BY <1>0, <1>1, <1>2, NumbersUpTo
  <2> QED BY <1>0, <2>1
<1> QED BY <1>3 DEF P, N

(* Two functions that start alike and go on alike are alike.               *)
GoAlike(N, s, t) == s[0] = t[0] /\ \A n \in 1 .. N : s[n - 1] = t[n - 1] => s[n] = t[n]
Alike(N, s, t) == \A n \in 0 .. N : s[n] = t[n]

LEMMA RecursionIsUnique ==
  ASSUME NEW N \in Nat, NEW s, NEW t, GoAlike(N, s, t)
  PROVE  Alike(N, s, t)
<1> DEFINE P == {n \in 0 .. N : s[n] = t[n]}
<1>1. 0 \in P
  BY DEF GoAlike
<1>2. \A n \in 1 .. N : n - 1 \in P => n \in P
  BY DEF GoAlike
<1> HIDE DEF P
<1>3. \A n \in 0 .. N : n \in P
  BY <1>1, <1>2, NumbersUpTo
<1> QED BY <1>3 DEF P, Alike

-----------------------------------------------------------------------------
(* A relay's name is unambiguous.                                            *)
BankOf(a) == CHOOSE b \in {"A", "B", "C", "D"} : a \in FirstOf(b) .. FirstOf(b) + SizeOf(b) - 1

LEMMA BanksAre ==
  ASSUME NEW a \in 1 .. 31
  PROVE  /\ BankOf(a) \in {"A", "B", "C", "D"}
         /\ a \in FirstOf(BankOf(a)) .. FirstOf(BankOf(a)) + SizeOf(BankOf(a)) - 1
         /\ FirstOf(BankOf(a)) \in Nat /\ SizeOf(BankOf(a)) \in Nat
         /\ EnumName(a) = <<"Aux", BankOf(a), a - FirstOf(BankOf(a)) + 1>>
<1>1. /\ FirstOf("A") = 1 /\ FirstOf("B") = 8 /\ FirstOf("C") = 16 /\ FirstOf("D") = 24
      /\ SizeOf("A") = 7 /\ SizeOf("B") = 8 /\ SizeOf("C") = 8 /\ SizeOf("D") = 8
  BY DEF FirstOf, SizeOf
<1>2. \E b \in {"A", "B", "C", "D"} : a \in FirstOf(b) .. FirstOf(b) + SizeOf(b) - 1
  BY <1>1
<1>3. /\ BankOf(a) \in {"A", "B", "C", "D"}
      /\ a \in FirstOf(BankOf(a)) .. FirstOf(BankOf(a)) + SizeOf(BankOf(a)) - 1
  BY <1>2 DEF BankOf
<1>4. FirstOf(BankOf(a)) \in Nat /\ SizeOf(BankOf(a)) \in Nat
  BY <1>1, <1>3
<1>5. EnumName(a) = <<"Aux", BankOf(a), a - FirstOf(BankOf(a)) + 1>>
  BY DEF EnumName, BankOf
<1> QED BY <1>3, <1>4, <1>5

LEMMA NameParses ==
  ASSUME NEW a \in 0 .. 31
  PROVE  ParseAuxId(EnumName(a)) = a
<1>1. CASE a = 0
  <2>1. EnumName(a) = <<"Extra">>
    BY <1>1 DEF EnumName
  <2>2. Len(<<"Extra">>) = 1
    OBVIOUS
  <2> QED BY <1>1, <2>1, <2>2 DEF ParseAuxId
<1>2. CASE a # 0
  <2>0. a \in 1 .. 31
    BY <1>2
  <2> DEFINE b == BankOf(a)
             n == a - FirstOf(b) + 1
  <2>1. /\ a \in FirstOf(b) .. FirstOf(b) + SizeOf(b) - 1
        /\ FirstOf(b) \in Nat /\ SizeOf(b) \in Nat
        /\ EnumName(a) = <<"Aux", b, n>>
    BY <2>0, BanksAre
  <2>2. n \in 1 .. SizeOf(b) /\ FirstOf(b) + n - 1 = a
    BY <2>1
  <2> HIDE DEF b, n
  <2>3. BankValue(b, n) = a
    BY <2>2 DEF BankValue
  <2>4. Len(<<"Aux", b, n>>) = 3 /\ <<"Aux", b, n>>[2] = b /\ <<"Aux", b, n>>[3] = n
    OBVIOUS
  <2> QED BY <2>1, <2>3, <2>4 DEF ParseAuxId
<1> QED BY <1>1, <1>2

LEMMA NoTextParses == ParseAuxId(<<>>) = NoAux
<1>1. Len(<<>>) = 0 /\ <<>> # <<"Extra">>
  OBVIOUS
<1> QED BY <1>1 DEF ParseAuxId

LEMMA PowerCentersAre ==
  ASSUME NEW a \in 1 .. 31
  PROVE  Banks[PowerCenterForAuxId(a) + 1] = EnumName(a)[2]
<1>0. /\ Banks[1] = "A" /\ Banks[2] = "B" /\ Banks[3] = "C" /\ Banks[4] = "D"
  BY DEF Banks
<1>1. /\ FirstOf("A") = 1 /\ FirstOf("B") = 8 /\ FirstOf("C") = 16 /\ FirstOf("D") = 24
      /\ SizeOf("A") = 7 /\ SizeOf("B") = 8 /\ SizeOf("C") = 8 /\ SizeOf("D") = 8
  BY DEF FirstOf, SizeOf
<1> DEFINE p == PowerCenterForAuxId(a)
           On(c) == a \in FirstOf(Banks[c + 1]) .. FirstOf(Banks[c + 1]) + SizeOf(Banks[c + 1]) - 1
<1>2. p = CHOOSE c \in 0 .. 3 : On(c)
  BY DEF PowerCenterForAuxId
<1>3. \E c \in 0 .. 3 : On(c)
  <2>1. On(0) <=> a \in 1 .. 7
    BY <1>0, <1>1
  <2>2. On(1) <=> a \in 8 .. 15
    BY <1>0, <1>1
  <2>3. On(2) <=> a \in 16 .. 23
    BY <1>0, <1>1
  <2>4. On(3) <=> a \in 24 .. 31
    BY <1>0, <1>1
  <2> HIDE DEF On
  <2>5. On(0) \/ On(1) \/ On(2) \/ On(3)
    BY <2>1, <2>2, <2>3, <2>4
  <2> QED BY <2>5
<1>4. p \in 0 .. 3 /\ On(p)
  <2> HIDE DEF p, On
  <2> QED BY <1>2, <1>3
<1> HIDE DEF p
<1>5. p + 1 \in 1 .. 4 /\ (p = 0 \/ p = 1 \/ p = 2 \/ p = 3)
  BY <1>4
<1>6. Banks[p + 1] \in {"A", "B", "C", "D"}
  BY <1>0, <1>5
<1> DEFINE b == Banks[p + 1]
           c == BankOf(a)
<1>7. a \in FirstOf(b) .. FirstOf(b) + SizeOf(b) - 1
  BY <1>4
<1>8. c \in {"A", "B", "C", "D"} /\ a \in FirstOf(c) .. FirstOf(c) + SizeOf(c) - 1
  BY BanksAre
<1>9. EnumName(a)[2] = c
  <2>1. EnumName(a) = <<"Aux", c, a - FirstOf(c) + 1>>
    BY BanksAre
  <2> HIDE DEF c
  <2> QED BY <2>1
<1> HIDE DEF b, c
<1>10. b = c
  BY <1>1, <1>6, <1>7, <1>8 DEF b
<1> QED BY <1>9, <1>10 DEF b, p

LEMMA NamesAreParsed == NamesParse
<1>1. \A a \in 0 .. 31 : a # 0 => a \in 1 .. 31
  OBVIOUS
<1> QED BY <1>1, NameParses, PowerCentersAre DEF NamesParse

LEMMA NamesDiffer ==
  ASSUME NEW a \in 0 .. 31
  PROVE  /\ ParseAuxId(EnumName(a)) = a /\ ParseAuxId(EnumName(a)) # NoAux
         /\ EnumName(a) \notin Names /\ EnumName(a) # <<>>
         /\ \A b \in 0 .. 31 : EnumName(a) = EnumName(b) => a = b
<1>1. \A b \in 0 .. 31 : ParseAuxId(EnumName(b)) = b
  BY NameParses
<1>2. a # NoAux /\ \A n \in Names : ParseAuxId(n) = NoAux
  BY AuxConstants DEF NoAux
<1> QED BY <1>1, <1>2, NoTextParses

-----------------------------------------------------------------------------
(* What a device can be: one with the id of a relay, or an old one.          *)
Statuses3 == {"off", "on", "unknown"}
Texts == {<<>>} \cup Names \cup {EnumName(a) : a \in 0 .. 31}
AuxRecords == [id : Nat, aux : {NoAux} \cup (0 .. 31), hw : Texts, label : Texts, synth : BOOLEAN, status : Statuses3]

OfRelay(d) ==
  /\ d.id \in Aux /\ d.aux \in {NoAux, d.id} /\ d.hw = EnumName(d.id)
  /\ d.label \in Names \cup {EnumName(d.id)}

OfOldCache(d) ==
  /\ d.id \in Nat \ (0 .. 31) /\ d.aux = NoAux /\ ~d.synth
  /\ \E a \in 0 .. 31 : d.hw \in {<<>>, EnumName(a)} /\ d.label \in Names \cup {EnumName(a)}

AuxDevices == {d \in AuxRecords : OfRelay(d) \/ OfOldCache(d)}

LEMMA RelaysAre == /\ \A a \in Aux : a \in 0 .. 31 /\ a \in Nat /\ a # NoAux
                   /\ \A a \in 0 .. 31 : a \in Nat /\ a # NoAux
BY AuxConstants DEF NoAux

LEMMA TextsAre == <<>> \in Texts /\ (\A n \in Names : n \in Texts) /\ \A a \in 0 .. 31 : EnumName(a) \in Texts
BY DEF Texts

LEMMA DeviceFacts ==
  ASSUME NEW d \in AuxDevices
  PROVE  /\ d.id \in Nat /\ d.aux \in {NoAux} \cup (0 .. 31) /\ d.synth \in BOOLEAN
         /\ OfRelay(d) \/ OfOldCache(d)
         /\ d.id \in Aux => OfRelay(d)
         /\ d.id \notin Aux => OfOldCache(d)
<1>1. d \in AuxRecords /\ (OfRelay(d) \/ OfOldCache(d))
  BY DEF AuxDevices
<1>2. OfRelay(d) => d.id \in Aux /\ d.id \in 0 .. 31
  BY RelaysAre DEF OfRelay
<1>3. OfOldCache(d) => d.id \notin 0 .. 31
  BY DEF OfOldCache
<1>4. d.id \in Nat /\ d.aux \in {NoAux} \cup (0 .. 31) /\ d.synth \in BOOLEAN
  BY <1>1 DEF AuxRecords
<1>5. \A a \in Aux : a \in 0 .. 31
  BY RelaysAre
<1> QED BY <1>1, <1>2, <1>3, <1>4, <1>5

(* A label replaced by a name, by the relay's own name, or by the same.      *)
Relabelled(d, label) == [d EXCEPT !.label = label]

LEMMA RelabelledFacts ==
  ASSUME NEW d \in AuxDevices, d.id \in Aux, NEW label, label \in Names \cup {EnumName(d.id)}
  PROVE  /\ Relabelled(d, label) \in AuxDevices /\ Relabelled(d, label).label = label
         /\ Relabelled(d, label).id = d.id /\ Relabelled(d, label).aux = d.aux /\ Relabelled(d, label).hw = d.hw
         /\ Relabelled(d, label).synth = d.synth /\ Relabelled(d, label).status = d.status
<1>1. d \in AuxRecords /\ OfRelay(d) /\ d.id \in 0 .. 31
  BY DeviceFacts, RelaysAre DEF AuxDevices
<1>2. label \in Texts
  BY <1>1, TextsAre
<1>3. Relabelled(d, label) \in AuxRecords /\ Relabelled(d, label).label = label
      /\ Relabelled(d, label).id = d.id /\ Relabelled(d, label).aux = d.aux /\ Relabelled(d, label).hw = d.hw
      /\ Relabelled(d, label).synth = d.synth /\ Relabelled(d, label).status = d.status
  <2> HIDE DEF Texts
  <2> QED BY <1>1, <1>2 DEF AuxRecords, Relabelled
<1>4. OfRelay(Relabelled(d, label))
  BY <1>1, <1>3 DEF OfRelay
<1> QED BY <1>3, <1>4 DEF AuxDevices

LEMMA RelabelledTwice ==
  ASSUME NEW d \in AuxDevices, NEW p, NEW q
  PROVE  Relabelled(Relabelled(d, p), q) = Relabelled(d, q) /\ Relabelled(d, d.label) = d
<1>1. d \in AuxRecords
  BY DEF AuxDevices
<1> HIDE DEF Texts
<1> QED BY <1>1 DEF Relabelled, AuxRecords

-----------------------------------------------------------------------------
(* A graph is a sequence of devices whose ids differ; it is looked at as the *)
(* set of its devices.                                                       *)
IdsDiffer(devs) == \A i, j \in DOMAIN devs : i # j => devs[i].id # devs[j].id
AuxGraphs == {devs \in Seq(AuxDevices) : IdsDiffer(devs)}

LEMMA GraphFacts ==
  ASSUME NEW s \in AuxGraphs
  PROVE  /\ s \in Seq(AuxDevices) /\ IdsDiffer(s)
         /\ DevicesOf(s) \subseteq AuxDevices
         /\ \A d, e \in DevicesOf(s) : d.id = e.id => d = e
         /\ \A id : Has(s, id) <=> \E d \in DevicesOf(s) : d.id = id
<1>1. s \in Seq(AuxDevices) /\ IdsDiffer(s)
  BY DEF AuxGraphs
<1>2. DevicesOf(s) \subseteq AuxDevices
  BY <1>1 DEF DevicesOf
<1>3. \A d, e \in DevicesOf(s) : d.id = e.id => d = e
  BY <1>1 DEF DevicesOf, IdsDiffer
<1>4. \A id : Has(s, id) <=> \E d \in DevicesOf(s) : d.id = id
  BY DEF DevicesOf, Has
<1> QED BY <1>1, <1>2, <1>3, <1>4

LEMMA EmptyGraph == <<>> \in AuxGraphs /\ DevicesOf(<<>>) = {}
<1>1. <<>> \in Seq(AuxDevices) /\ DOMAIN <<>> = {}
  OBVIOUS
<1> QED BY <1>1 DEF AuxGraphs, IdsDiffer, DevicesOf

LEMMA FoundById ==
  ASSUME NEW s \in AuxGraphs, NEW id, Has(s, id)
  PROVE  FindById(s, id) \in DevicesOf(s) /\ FindById(s, id).id = id
<1>1. \E d \in DevicesOf(s) : d.id = id
  BY GraphFacts
<1> QED BY <1>1 DEF FindById

(* One device more, at the end.                                              *)
LEMMA GraphAppend ==
  ASSUME NEW s \in AuxGraphs, NEW d \in AuxDevices, \A e \in DevicesOf(s) : e.id # d.id
  PROVE  Append(s, d) \in AuxGraphs /\ DevicesOf(Append(s, d)) = DevicesOf(s) \cup {d}
<1> DEFINE t == Append(s, d)
           N == Len(s)
<1>0. s \in Seq(AuxDevices) /\ N \in Nat /\ DOMAIN s = 1 .. N
  BY GraphFacts
<1>1. t \in Seq(AuxDevices) /\ Len(t) = N + 1 /\ t[N + 1] = d /\ \A n \in 1 .. N : t[n] = s[n]
  BY <1>0, AppendProperties
<1> HIDE DEF t
<1>2. DOMAIN t = 1 .. N + 1 /\ \A n \in DOMAIN t : n = N + 1 \/ n \in 1 .. N
  BY <1>0, <1>1
<1>3. DevicesOf(t) = DevicesOf(s) \cup {d}
  <2>1. ASSUME NEW e \in DevicesOf(t) PROVE e \in DevicesOf(s) \cup {d}
    BY <1>0, <1>1, <1>2, <2>1 DEF DevicesOf
  <2>2. \A n \in 1 .. N : n \in DOMAIN t
    BY <1>0, <1>2
  <2>3. N + 1 \in DOMAIN t
    BY <1>0, <1>2
  <2>4. ASSUME NEW e \in DevicesOf(s) PROVE e \in DevicesOf(t)
    BY <1>0, <1>1, <2>2, <2>4 DEF DevicesOf
  <2>5. d \in DevicesOf(t)
    BY <1>1, <2>3 DEF DevicesOf
  <2> QED BY <2>1, <2>4, <2>5
<1>4. IdsDiffer(t)
  <2>1. \A n \in 1 .. N : s[n] \in DevicesOf(s)
    BY <1>0 DEF DevicesOf
  <2>2. \A n \in 1 .. N : t[n].id # d.id
    BY <1>1, <2>1
  <2>3. \A i, j \in 1 .. N : i # j => t[i].id # t[j].id
    BY <1>0, <1>1, GraphFacts DEF IdsDiffer
  <2> QED BY <1>1, <1>2, <2>2, <2>3 DEF IdsDiffer
<1> QED BY <1>1, <1>3, <1>4 DEF AuxGraphs, t

LEMMA GraphAddFacts ==
  ASSUME NEW s \in AuxGraphs, NEW d \in AuxDevices, ~Has(s, d.id)
  PROVE  /\ GraphAdd(s, d) \in AuxGraphs
         /\ DevicesOf(GraphAdd(s, d)) =
              IF \E e \in DevicesOf(s) : e.label = d.label THEN DevicesOf(s) ELSE DevicesOf(s) \cup {d}
<1>1. \A e \in DevicesOf(s) : e.id # d.id
  BY GraphFacts
<1>2. GraphContains(s, d) <=> \E e \in DevicesOf(s) : e.label = d.label
  BY DEF GraphContains, DevicesOf
<1> QED BY <1>1, <1>2, GraphAppend DEF GraphAdd

LEMMA GraphPutFacts ==
  ASSUME NEW s \in AuxGraphs, NEW d \in AuxDevices
  PROVE  /\ GraphPut(s, d) \in AuxGraphs
         /\ \A e : e \in DevicesOf(GraphPut(s, d)) <=>
              \/ e \in DevicesOf(s) /\ e.id # d.id
              \/ e = d /\ Has(s, d.id)
<1> DEFINE t == GraphPut(s, d)
           N == Len(s)
<1>0. s \in Seq(AuxDevices) /\ N \in Nat /\ DOMAIN s = 1 .. N /\ IdsDiffer(s)
  BY GraphFacts
<1>1. DOMAIN t = 1 .. N /\ \A n \in 1 .. N : t[n] = IF s[n].id = d.id THEN d ELSE s[n]
  BY <1>0 DEF GraphPut
<1>2. t = [n \in 1 .. N |-> IF s[n].id = d.id THEN d ELSE s[n]]
  BY <1>0 DEF GraphPut
<1>3. \A n \in 1 .. N : (IF s[n].id = d.id THEN d ELSE s[n]) \in AuxDevices
  BY <1>0
<1>4. t \in Seq(AuxDevices)
  <2> HIDE DEF t
  <2>1. t \in [1 .. N -> AuxDevices]
    BY <1>2, <1>3
  <2> QED BY <1>0, <2>1
<1> HIDE DEF t
<1>5. IdsDiffer(t)
  <2>1. \A n \in 1 .. N : t[n].id = s[n].id
    BY <1>1
  <2> QED BY <1>0, <1>1, <2>1 DEF IdsDiffer
<1>6. \A e : e \in DevicesOf(t) <=> (e \in DevicesOf(s) /\ e.id # d.id) \/ (e = d /\ Has(s, d.id))
  <2>1. ASSUME NEW e \in DevicesOf(t) PROVE (e \in DevicesOf(s) /\ e.id # d.id) \/ (e = d /\ Has(s, d.id))
    BY <1>0, <1>1, <2>1 DEF DevicesOf, Has
  <2>2. ASSUME NEW e \in DevicesOf(s), e.id # d.id PROVE e \in DevicesOf(t)
    BY <1>0, <1>1, <2>2 DEF DevicesOf
  <2>3. ASSUME Has(s, d.id) PROVE d \in DevicesOf(t)
    BY <1>0, <1>1, <2>3 DEF DevicesOf, Has
  <2> QED BY <2>1, <2>2, <2>3
<1> QED BY <1>4, <1>5, <1>6 DEF AuxGraphs, t

-----------------------------------------------------------------------------
(* Keeping some of the devices.                                              *)
KeepOne(s, d, staying) == IF d \in staying THEN Append(s, d) ELSE s

KeepSteps(devs, staying, s) ==
  /\ s \in [0 .. Len(devs) -> Seq(AuxDevices)] /\ s[0] = <<>>
  /\ \A n \in 1 .. Len(devs) : s[n] = KeepOne(s[n - 1], devs[n], staying)
  /\ Keeping(devs, staying) = s[Len(devs)]

LEMMA KeepingSteps ==
  ASSUME NEW devs \in Seq(AuxDevices), NEW staying
  PROVE  \E s : KeepSteps(devs, staying, s)
<1> DEFINE N == Len(devs)
           Rec(s) == s = [n \in 0 .. N |-> IF n = 0 THEN <<>>
                             ELSE IF devs[n] \in staying THEN Append(s[n - 1], devs[n]) ELSE s[n - 1]]
           kept == CHOOSE s : Rec(s)
           step == [p \in Seq(AuxDevices) \X AuxDevices |-> KeepOne(p[1], p[2], staying)]
<1>0. N \in Nat /\ \A n \in 1 .. N : devs[n] \in AuxDevices
  OBVIOUS
<1>1. step \in [Seq(AuxDevices) \X AuxDevices -> Seq(AuxDevices)] /\ <<>> \in Seq(AuxDevices)
  <2>1. \A a \in Seq(AuxDevices), b \in AuxDevices : KeepOne(a, b, staying) \in Seq(AuxDevices)
    BY AppendProperties DEF KeepOne
  <2> QED BY <2>1
<1>2. PICK s \in [0 .. N -> Seq(AuxDevices)] : Runs(<<>>, step, devs, N, s)
  <2> HIDE DEF step
  <2> QED BY <1>1, RecursionExists
<1>3. s[0] = <<>> /\ \A n \in 1 .. N : s[n] = KeepOne(s[n - 1], devs[n], staying)
  <2>1. ASSUME NEW n \in 1 .. N PROVE s[n] = KeepOne(s[n - 1], devs[n], staying)
    <3>1. n - 1 \in 0 .. N
      BY <1>0
    <3>2. s[n - 1] \in Seq(AuxDevices) /\ devs[n] \in AuxDevices
      BY <1>0, <3>1
    <3>3. s[n] = step[<<s[n - 1], devs[n]>>]
      BY <1>2 DEF Runs
    <3> QED BY <3>2, <3>3
  <2> QED BY <1>2, <2>1 DEF Runs
<1>4. Rec(s)
  <2>1. \A n \in 0 .. N : n # 0 => n \in 1 .. N
    BY <1>0
  <2> HIDE DEF N, step
  <2>2. \A n \in 0 .. N : s[n] = IF n = 0 THEN <<>>
                             ELSE IF devs[n] \in staying THEN Append(s[n - 1], devs[n]) ELSE s[n - 1]
    BY <1>3, <2>1 DEF KeepOne
  <2> QED BY <1>2, <2>2
<1>5. Rec(kept)
  BY <1>4
<1>6. Keeping(devs, staying) = kept[N]
  BY DEF Keeping
<1> HIDE DEF N, kept, step
<1>7. kept[0] = <<>> /\ \A n \in 1 .. N : kept[n] = KeepOne(kept[n - 1], devs[n], staying)
  <2>1. 0 \in 0 .. N /\ \A n \in 1 .. N : n \in 0 .. N /\ n # 0
    BY <1>0
  <2> QED BY <1>5, <2>1 DEF KeepOne
<1>8. Alike(N, kept, s)
  <2> HIDE DEF Rec
  <2>1. GoAlike(N, kept, s)
    BY <1>3, <1>7 DEF GoAlike
  <2> QED BY <1>0, <2>1, RecursionIsUnique
<1>9. Keeping(devs, staying) = s[N]
  BY <1>0, <1>6, <1>8 DEF Alike
<1> QED BY <1>3, <1>9 DEF KeepSteps, N

LEMMA KeepingFacts ==
  ASSUME NEW devs \in AuxGraphs, NEW staying
  PROVE  /\ Keeping(devs, staying) \in AuxGraphs
         /\ \A d : d \in DevicesOf(Keeping(devs, staying)) <=> d \in DevicesOf(devs) /\ d \in staying
<1> DEFINE N == Len(devs)
<1>0. /\ N \in Nat /\ devs \in Seq(AuxDevices) /\ DOMAIN devs = 1 .. N /\ IdsDiffer(devs)
      /\ \A n \in 1 .. N : devs[n] \in AuxDevices
  BY GraphFacts
<1>1. PICK s : KeepSteps(devs, staying, s)
  BY <1>0, KeepingSteps
<1> HIDE DEF N
<1>2. /\ s[0] = <<>> /\ \A n \in 1 .. N : s[n] = KeepOne(s[n - 1], devs[n], staying)
      /\ Keeping(devs, staying) = s[N]
  BY <1>1 DEF KeepSteps, N
<1> DEFINE Of(n) == {devs[i] : i \in 1 .. n} \cap staying
           P == {n \in 0 .. N : s[n] \in AuxGraphs /\ DevicesOf(s[n]) = Of(n)}
<1>3. 0 \in P
  <2>1. Of(0) = {} /\ 0 \in 0 .. N
    BY <1>0
  <2> HIDE DEF Of
  <2> QED BY <1>2, <2>1, EmptyGraph
<1>4. ASSUME NEW n \in 1 .. N, n - 1 \in P PROVE n \in P
  <2>0. n \in 0 .. N /\ s[n - 1] \in AuxGraphs /\ DevicesOf(s[n - 1]) = Of(n - 1)
    BY <1>0, <1>4
  <2>1. Of(n) = IF devs[n] \in staying THEN Of(n - 1) \cup {devs[n]} ELSE Of(n - 1)
    <3>1. \A i \in 1 .. n : i = n \/ i \in 1 .. n - 1
      BY <1>0
    <3>2. n \in 1 .. n /\ \A i \in 1 .. n - 1 : i \in 1 .. n
      BY <1>0
    <3> QED BY <3>1, <3>2
  <2>2. CASE devs[n] \in staying
    <3>1. \A e \in Of(n - 1) : e.id # devs[n].id
      <4>1. \A i \in 1 .. n - 1 : i \in 1 .. N /\ i # n
        BY <1>0
      <4> QED BY <1>0, <4>1 DEF IdsDiffer
    <3> HIDE DEF Of
    <3>2. s[n] = Append(s[n - 1], devs[n]) /\ devs[n] \in AuxDevices
      BY <1>0, <1>2, <2>2 DEF KeepOne
    <3>3. s[n] \in AuxGraphs /\ DevicesOf(s[n]) = DevicesOf(s[n - 1]) \cup {devs[n]}
      BY <2>0, <3>1, <3>2, GraphAppend
    <3> QED BY <2>0, <2>1, <2>2, <3>3
  <2>3. CASE devs[n] \notin staying
    <3> HIDE DEF Of
    <3>1. s[n] = s[n - 1]
      BY <1>2, <2>3 DEF KeepOne
    <3> QED BY <2>0, <2>1, <2>3, <3>1
  <2> QED BY <2>2, <2>3
<1> HIDE DEF P
<1>5. N \in P
  <2>1. \A n \in 0 .. N : n \in P
    BY <1>0, <1>3, <1>4, NumbersUpTo
  <2> QED BY <1>0, <2>1
<1>6. s[N] \in AuxGraphs /\ DevicesOf(s[N]) = Of(N)
  BY <1>5 DEF P
<1>7. Of(N) = DevicesOf(devs) \cap staying
  BY <1>0 DEF DevicesOf
<1> QED BY <1>2, <1>6, <1>7

LEMMA GraphRemoveFacts ==
  ASSUME NEW s \in AuxGraphs, NEW id
  PROVE  /\ GraphRemove(s, id) \in AuxGraphs
         /\ \A d : d \in DevicesOf(GraphRemove(s, id)) <=> d \in DevicesOf(s) /\ d.id # id
         /\ \A b : Has(GraphRemove(s, id), b) <=> Has(s, b) /\ b # id
<1> DEFINE staying == {d \in DevicesOf(s) : d.id # id}
<1>1. GraphRemove(s, id) = Keeping(s, staying)
  BY DEF GraphRemove
<1> HIDE DEF staying
<1>2. /\ GraphRemove(s, id) \in AuxGraphs
      /\ \A d : d \in DevicesOf(GraphRemove(s, id)) <=> d \in DevicesOf(s) /\ d \in staying
  BY <1>1, KeepingFacts
<1>3. \A d \in DevicesOf(s) : d \in staying <=> d.id # id
  BY DEF staying
<1>4. \A d : d \in DevicesOf(GraphRemove(s, id)) <=> d \in DevicesOf(s) /\ d.id # id
  BY <1>2, <1>3
<1>5. \A b : Has(GraphRemove(s, id), b) <=> \E d \in DevicesOf(GraphRemove(s, id)) : d.id = b
  BY <1>2, GraphFacts
<1>6. \A b : Has(s, b) <=> \E d \in DevicesOf(s) : d.id = b
  BY GraphFacts
<1> QED BY <1>2, <1>4, <1>5, <1>6

-----------------------------------------------------------------------------
(* The overrides, one after the other.                                       *)
LEMMA SynthesizedFacts ==
  ASSUME NEW a \in Aux
  PROVE  /\ Synthesized(a) \in AuxDevices /\ Synthesized(a).id = a /\ Synthesized(a).aux = a /\ Synthesized(a).synth
         /\ Synthesized(a).label = EnumName(a) /\ Synthesized(a).hw = EnumName(a)
<1>1. a \in 0 .. 31 /\ a \in Nat /\ EnumName(a) \in Texts
  BY RelaysAre, TextsAre
<1>2. Synthesized(a) = [id |-> a, aux |-> a, hw |-> EnumName(a), label |-> EnumName(a), synth |-> TRUE, status |-> "unknown"]
  BY DEF Synthesized, Device
<1>3. Synthesized(a) \in AuxRecords
  <2> HIDE DEF Texts
  <2> QED BY <1>1, <1>2 DEF AuxRecords, Statuses3
<1>4. /\ Synthesized(a).id = a /\ Synthesized(a).aux = a /\ Synthesized(a).synth
      /\ Synthesized(a).label = EnumName(a) /\ Synthesized(a).hw = EnumName(a)
  BY <1>2
<1> QED BY <1>3, <1>4 DEF AuxDevices, OfRelay

(* What one override does.                                                   *)
Overridden(s, a, over, t) ==
  /\ a \notin Aux => t = s
  /\ \A e : e \in DevicesOf(t) => e \in DevicesOf(s) \/ (a \in Aux /\ over[a] = "present" /\ e = Synthesized(a))
  /\ \A e : e \in DevicesOf(s) /\ e \notin DevicesOf(t) => e.id = a /\ a \in Aux /\ over[a] = "absent"
  /\ a \in Aux /\ over[a] = "absent" => \A e \in DevicesOf(t) : e.id # a
  /\ a \in Aux /\ over[a] = "present" => \E e \in DevicesOf(t) : e.id = a \/ e.label = EnumName(a)

LEMMA OverrideFacts ==
  ASSUME NEW s \in AuxGraphs, NEW a \in 0 .. 31, NEW over
  PROVE  /\ ApplyOverride(s, a, over) \in AuxGraphs
         /\ Overridden(s, a, over, ApplyOverride(s, a, over))
<1> DEFINE t == ApplyOverride(s, a, over)
<1>1. CASE a \notin Aux
  <2>1. t = s
    BY <1>1 DEF ApplyOverride
  <2> HIDE DEF t, Overridden
  <2> QED BY <1>1, <2>1 DEF t, Overridden
<1>2. CASE a \in Aux /\ over[a] = "present" /\ ~Has(s, a)
  <2>1. t = GraphAdd(s, Synthesized(a))
    BY <1>2 DEF ApplyOverride
  <2>2. Synthesized(a) \in AuxDevices /\ Synthesized(a).id = a /\ Synthesized(a).label = EnumName(a)
    BY <1>2, SynthesizedFacts
  <2>3. /\ t \in AuxGraphs
        /\ DevicesOf(t) = IF \E e \in DevicesOf(s) : e.label = Synthesized(a).label THEN DevicesOf(s)
                                                                           ELSE DevicesOf(s) \cup {Synthesized(a)}
    BY <1>2, <2>1, <2>2, GraphAddFacts
  <2> HIDE DEF t, Overridden
  <2>4. \A e : e \in DevicesOf(s) => e \in DevicesOf(t)
    BY <2>3
  <2>5. \A e : e \in DevicesOf(t) => e \in DevicesOf(s) \/ e = Synthesized(a)
    BY <2>3
  <2>6. \E e \in DevicesOf(t) : e.id = a \/ e.label = EnumName(a)
    BY <2>2, <2>3
  <2> QED BY <1>2, <2>3, <2>4, <2>5, <2>6 DEF t, Overridden
<1>3. CASE a \in Aux /\ over[a] = "present" /\ Has(s, a)
  <2>1. t = s
    BY <1>3 DEF ApplyOverride
  <2>2. \E e \in DevicesOf(s) : e.id = a
    BY <1>3, GraphFacts
  <2> HIDE DEF t, Overridden
  <2> QED BY <1>3, <2>1, <2>2 DEF t, Overridden
<1>4. CASE a \in Aux /\ over[a] = "absent"
  <2>1. t = GraphRemove(s, a)
    BY <1>4 DEF ApplyOverride
  <2>2. t \in AuxGraphs /\ \A d : d \in DevicesOf(t) <=> d \in DevicesOf(s) /\ d.id # a
    BY <2>1, GraphRemoveFacts
  <2> HIDE DEF t, Overridden
  <2> QED BY <1>4, <2>2 DEF t, Overridden
<1>5. CASE a \in Aux /\ over[a] # "present" /\ over[a] # "absent"
  <2>1. t = s
    BY <1>5 DEF ApplyOverride
  <2> HIDE DEF t, Overridden
  <2> QED BY <1>5, <2>1 DEF t, Overridden
<1> QED BY <1>1, <1>2, <1>3, <1>4, <1>5

LEMMA FunctionsAreSequences ==
  ASSUME NEW n \in Nat, NEW S, NEW f \in [1 .. n -> S]
  PROVE  f \in Seq(S) /\ Len(f) = n
OBVIOUS

LEMMA KeysAre == /\ Keys \in Seq(0 .. 31) /\ Len(Keys) \in Nat
                 /\ \A n \in 1 .. Len(Keys) : Keys[n] \in 0 .. 31
                 /\ \A a \in 0 .. 31 : \E n \in 1 .. Len(Keys) : Keys[n] = a
<1>1. Keys \in [1 .. 32 -> 0 .. 31] /\ 32 \in Nat
  BY DEF Keys
<1>2. Keys \in Seq(0 .. 31) /\ Len(Keys) = 32
  <2> HIDE DEF Keys
  <2> QED BY <1>1, FunctionsAreSequences
<1>3. ASSUME NEW a \in 0 .. 31 PROVE \E n \in 1 .. 32 : Keys[n] = a
  <2>1. CASE a = 0
    <3>1. 32 \in 1 .. 32 /\ Keys[32] = 0
      BY DEF Keys
    <3> QED BY <2>1, <3>1
  <2>2. CASE a \in 1 .. 7
    <3>1. a + 24 \in 1 .. 32 /\ Keys[a + 24] = a
      BY <2>2 DEF Keys
    <3> QED BY <3>1
  <2>3. CASE a \in 8 .. 31
    <3>1. a - 7 \in 1 .. 32 /\ Keys[a - 7] = a
      BY <2>3 DEF Keys
    <3> QED BY <3>1
  <2> QED BY <2>1, <2>2, <2>3
<1>4. \A n \in 1 .. 32 : Keys[n] \in 0 .. 31
  <2> HIDE DEF Keys
  <2> QED BY <1>1
<1> QED BY <1>1, <1>2, <1>3, <1>4

ApplySteps(devs, over, s) ==
  /\ s \in [0 .. Len(Keys) -> AuxGraphs] /\ s[0] = devs
  /\ \A n \in 1 .. Len(Keys) : s[n] = ApplyOverride(s[n - 1], Keys[n], over)
  /\ ApplyPresenceOverrides(devs, over) = s[Len(Keys)]

LEMMA AppliedSteps ==
  ASSUME NEW devs \in AuxGraphs, NEW over
  PROVE  \E s : ApplySteps(devs, over, s)
<1> DEFINE K == Len(Keys)
           Rec(s) == s = [n \in 0 .. K |-> IF n = 0 THEN devs ELSE ApplyOverride(s[n - 1], Keys[n], over)]
           applied == CHOOSE s : Rec(s)
           step == [p \in AuxGraphs \X (0 .. 31) |-> ApplyOverride(p[1], p[2], over)]
<1>0. K \in Nat /\ K = Len(Keys)
  BY KeysAre
<1>1. step \in [AuxGraphs \X (0 .. 31) -> AuxGraphs]
  <2>1. \A a \in AuxGraphs, b \in 0 .. 31 : ApplyOverride(a, b, over) \in AuxGraphs
    BY OverrideFacts
  <2> QED BY <2>1
<1> HIDE DEF K
<1>2. PICK s \in [0 .. K -> AuxGraphs] : Runs(devs, step, Keys, K, s)
  <2> HIDE DEF step
  <2> QED BY <1>0, <1>1, KeysAre, RecursionExists
<1>3. s[0] = devs /\ \A n \in 1 .. K : s[n] = ApplyOverride(s[n - 1], Keys[n], over)
  <2>1. ASSUME NEW n \in 1 .. K PROVE s[n] = ApplyOverride(s[n - 1], Keys[n], over)
    <3>1. n - 1 \in 0 .. K
      BY <1>0
    <3>2. s[n - 1] \in AuxGraphs /\ Keys[n] \in 0 .. 31
      BY <1>0, <3>1, KeysAre
    <3>3. s[n] = step[<<s[n - 1], Keys[n]>>]
      BY <1>2 DEF Runs
    <3> QED BY <3>2, <3>3
  <2> QED BY <1>2, <2>1 DEF Runs
<1>4. Rec(s)
  <2>1. \A n \in 0 .. K : n # 0 => n \in 1 .. K
    BY <1>0
  <2> HIDE DEF step
  <2>2. \A n \in 0 .. K : s[n] = IF n = 0 THEN devs ELSE ApplyOverride(s[n - 1], Keys[n], over)
    BY <1>3, <2>1
  <2> QED BY <1>2, <2>2
<1>5. Rec(applied)
  BY <1>4
<1>6. ApplyPresenceOverrides(devs, over) = applied[K]
  BY DEF ApplyPresenceOverrides, K
<1> HIDE DEF applied, step, K
<1>7. applied[0] = devs /\ \A n \in 1 .. K : applied[n] = ApplyOverride(applied[n - 1], Keys[n], over)
  <2>1. 0 \in 0 .. K /\ \A n \in 1 .. K : n \in 0 .. K /\ n # 0
    BY <1>0
  <2> QED BY <1>5, <2>1
<1>8. Alike(K, applied, s)
  <2> HIDE DEF Rec
  <2>1. GoAlike(K, applied, s)
    BY <1>3, <1>7 DEF GoAlike
  <2> QED BY <1>0, <2>1, RecursionIsUnique
<1>9. ApplyPresenceOverrides(devs, over) = s[K]
  <2>1. K \in 0 .. K
    BY <1>0
  <2> QED BY <1>6, <1>8, <2>1 DEF Alike
<1> QED BY <1>0, <1>2, <1>3, <1>9 DEF ApplySteps

(* What they do together: what is declared absent is gone, what is declared  *)
(* present is there, or a device under its name, and the rest is as it was.  *)
Covered(s, a) == \E e \in DevicesOf(s) : e.id = a \/ e.label = EnumName(a)

(* Only removing its own device, or an old one, uncovers a relay.            *)
LEMMA StaysCovered ==
  ASSUME NEW s \in AuxGraphs, NEW t \in AuxGraphs, NEW a \in Aux, NEW b, Covered(s, a), b # a, b \in Aux,
         \A e : e \in DevicesOf(s) /\ e \notin DevicesOf(t) => e.id = b
  PROVE  Covered(t, a)
<1>1. PICK e \in DevicesOf(s) : e.id = a \/ e.label = EnumName(a)
  BY DEF Covered
<1>2. e.id # b
  <2>1. SUFFICES ASSUME e.id = b PROVE FALSE
    OBVIOUS
  <2>2. e \in AuxDevices /\ OfRelay(e)
    BY <2>1, GraphFacts, DeviceFacts
  <2>3. e.label = EnumName(a) /\ e.label \in Names \cup {EnumName(b)}
    BY <1>1, <2>1, <2>2 DEF OfRelay
  <2> QED BY <2>3, RelaysAre, NamesDiffer
<1> QED BY <1>1, <1>2 DEF Covered

LEMMA AppliedFacts ==
  ASSUME NEW devs \in AuxGraphs, NEW over
  PROVE  /\ ApplyPresenceOverrides(devs, over) \in AuxGraphs
         /\ \A e : e \in DevicesOf(ApplyPresenceOverrides(devs, over)) =>
              e \in DevicesOf(devs) \/ \E a \in Aux : over[a] = "present" /\ e = Synthesized(a)
         /\ \A e : e \in DevicesOf(devs) /\ e \notin DevicesOf(ApplyPresenceOverrides(devs, over)) =>
              e.id \in Aux /\ over[e.id] = "absent"
         /\ \A a \in Aux : over[a] = "absent" => \A e \in DevicesOf(ApplyPresenceOverrides(devs, over)) : e.id # a
         /\ \A a \in Aux : over[a] = "present" => Covered(ApplyPresenceOverrides(devs, over), a)
<1> DEFINE K == Len(Keys)
<1>0. K \in Nat /\ K = Len(Keys)
  BY KeysAre
<1>1. PICK s : ApplySteps(devs, over, s)
  BY AppliedSteps
<1>2. /\ s \in [0 .. K -> AuxGraphs] /\ s[0] = devs
      /\ \A n \in 1 .. K : s[n] = ApplyOverride(s[n - 1], Keys[n], over)
      /\ ApplyPresenceOverrides(devs, over) = s[K]
  BY <1>1 DEF ApplySteps
<1> HIDE DEF K
<1> DEFINE Done(n) == {Keys[i] : i \in 1 .. n}
           Said(n) == /\ \A e \in DevicesOf(s[n]) :
                           e \in DevicesOf(devs) \/ \E a \in Aux : over[a] = "present" /\ e = Synthesized(a)
                      /\ \A e \in DevicesOf(devs) : e \notin DevicesOf(s[n]) => e.id \in Aux /\ over[e.id] = "absent"
                      /\ \A a \in Aux \cap Done(n) :
                           /\ over[a] = "absent" => \A e \in DevicesOf(s[n]) : e.id # a
                           /\ over[a] = "present" => Covered(s[n], a)
           P == {n \in 0 .. K : Said(n)}
<1>3. 0 \in P
  <2>1. Done(0) = {} /\ 0 \in 0 .. K
    BY <1>0
  <2> HIDE DEF Done
  <2> QED BY <1>2, <2>1
<1>4. ASSUME NEW n \in 1 .. K, n - 1 \in P PROVE n \in P
  <2> DEFINE b == Keys[n]
  <2>0. n - 1 \in 0 .. K /\ n \in 0 .. K /\ Said(n - 1)
    BY <1>0, <1>4
  <2>1. Done(n) = Done(n - 1) \cup {b}
    <3>1. \A i \in 1 .. n : i = n \/ i \in 1 .. n - 1
      BY <1>0
    <3>2. n \in 1 .. n /\ \A i \in 1 .. n - 1 : i \in 1 .. n
      BY <1>0
    <3> QED BY <3>1, <3>2
  <2>2. s[n - 1] \in AuxGraphs /\ s[n] \in AuxGraphs /\ s[n] = ApplyOverride(s[n - 1], b, over) /\ b \in 0 .. 31
    BY <1>0, <1>2, <2>0, KeysAre
  <2> HIDE DEF Done, b
  <2>3. /\ b \notin Aux => s[n] = s[n - 1]
        /\ \A e : e \in DevicesOf(s[n]) =>
              e \in DevicesOf(s[n - 1]) \/ (b \in Aux /\ over[b] = "present" /\ e = Synthesized(b))
        /\ \A e : e \in DevicesOf(s[n - 1]) /\ e \notin DevicesOf(s[n]) =>
              e.id = b /\ b \in Aux /\ over[b] = "absent"
        /\ b \in Aux /\ over[b] = "absent" => \A e \in DevicesOf(s[n]) : e.id # b
        /\ b \in Aux /\ over[b] = "present" => \E e \in DevicesOf(s[n]) : e.id = b \/ e.label = EnumName(b)
    <3>1. Overridden(s[n - 1], b, over, s[n])
      BY <2>2, OverrideFacts
    <3> QED BY <3>1 DEF Overridden
  <2>4. \A e \in DevicesOf(s[n]) :
            e \in DevicesOf(devs) \/ \E a \in Aux : over[a] = "present" /\ e = Synthesized(a)
    BY <2>0, <2>3
  <2>5. \A e \in DevicesOf(devs) : e \notin DevicesOf(s[n]) => e.id \in Aux /\ over[e.id] = "absent"
    BY <2>0, <2>3
  <2>6. ASSUME NEW a \in Aux, a \in Done(n), over[a] = "absent", NEW e \in DevicesOf(s[n]) PROVE e.id # a
    <3>1. CASE a = b
      BY <2>3, <2>6, <3>1
    <3>2. CASE a # b
      <4>1. a \in Done(n - 1)
        BY <2>1, <2>6, <3>2
      <4>2. \A f \in DevicesOf(s[n - 1]) : f.id # a
        BY <2>0, <2>6, <4>1
      <4>3. b \in Aux => Synthesized(b).id = b
        BY SynthesizedFacts
      <4> QED BY <2>3, <3>2, <4>2, <4>3
    <3> QED BY <3>1, <3>2
  <2>7. ASSUME NEW a \in Aux, a \in Done(n), over[a] = "present" PROVE Covered(s[n], a)
    <3>1. CASE a = b
      BY <2>3, <2>7, <3>1 DEF Covered
    <3>2. CASE a # b
      <4>1. a \in Done(n - 1)
        BY <2>1, <2>7, <3>2
      <4>2. Covered(s[n - 1], a)
        BY <2>0, <2>7, <4>1
      <4>3. CASE b \in Aux
        BY <2>2, <2>3, <3>2, <4>2, <4>3, StaysCovered
      <4> QED BY <2>3, <4>2, <4>3
    <3> QED BY <3>1, <3>2
  <2> QED BY <2>0, <2>4, <2>6, <2>7, <2>5
<1> HIDE DEF P
<1>5. K \in P
  <2>1. K \in Nat /\ K \in 0 .. K
    BY <1>0
  <2>2. \A n \in 0 .. K : n \in P
    BY <1>3, <1>4, <2>1, NumbersUpTo
  <2> QED BY <2>1, <2>2
<1>6. Said(K) /\ s[K] \in AuxGraphs
  <2>1. K \in 0 .. K
    BY <1>0
  <2> QED BY <1>2, <1>5, <2>1 DEF P
<1>7. \A a \in Aux : a \in Done(K)
  BY <1>0, RelaysAre, KeysAre
<1> HIDE DEF Done
<1> QED BY <1>2, <1>6, <1>7

-----------------------------------------------------------------------------
(* What a restart brings back: devices that do not know their relay, with    *)
(* labels that differ.                                                       *)
Fresh(s) ==
  /\ \A d \in DevicesOf(s) : d.aux = NoAux /\ ~d.synth
  /\ \A d, e \in DevicesOf(s) : d.label = e.label => d = e
FreshGraphs == {s \in AuxGraphs : Fresh(s)}

Restored(d) == Device(d.id, NoAux, d.hw, d.label, FALSE, "unknown")

LEMMA RestoredFacts ==
  ASSUME NEW d \in AuxDevices
  PROVE  /\ Restored(d) \in AuxDevices /\ Restored(d).id = d.id /\ Restored(d).aux = NoAux
         /\ Restored(d).label = d.label /\ ~Restored(d).synth
<1>1. d \in AuxRecords /\ (OfRelay(d) \/ OfOldCache(d))
  BY DEF AuxDevices
<1>2. Restored(d) = [id |-> d.id, aux |-> NoAux, hw |-> d.hw, label |-> d.label, synth |-> FALSE, status |-> "unknown"]
  BY DEF Restored, Device
<1>3. Restored(d) \in AuxRecords
  <2>1. d.id \in Nat /\ d.hw \in Texts /\ d.label \in Texts
    BY <1>1 DEF AuxRecords
  <2> HIDE DEF Texts
  <2> QED BY <1>2, <2>1 DEF AuxRecords, Statuses3
<1>4. Restored(d).id = d.id /\ Restored(d).aux = NoAux /\ Restored(d).hw = d.hw
      /\ Restored(d).label = d.label /\ ~Restored(d).synth
  BY <1>2
<1>5. OfRelay(d) => OfRelay(Restored(d))
  BY <1>4 DEF OfRelay
<1>6. OfOldCache(d) => OfOldCache(Restored(d))
  BY <1>4 DEF OfOldCache
<1> QED BY <1>1, <1>3, <1>4, <1>5, <1>6 DEF AuxDevices

LEMMA RestoreKeepsFresh ==
  ASSUME NEW s \in FreshGraphs, NEW d \in AuxDevices
  PROVE  RestoreDeviceFromSnapshot(s, d) \in FreshGraphs
<1> DEFINE t == RestoreDeviceFromSnapshot(s, d)
<1>0. s \in AuxGraphs /\ Fresh(s)
  BY DEF FreshGraphs
<1>1. CASE d.hw = <<>> \/ Has(s, d.id)
  BY <1>1 DEF RestoreDeviceFromSnapshot
<1>2. CASE ~(d.hw = <<>> \/ Has(s, d.id))
  <2>1. t = GraphAdd(s, Restored(d))
    BY <1>2 DEF RestoreDeviceFromSnapshot, Restored
  <2>2. /\ Restored(d) \in AuxDevices /\ Restored(d).id = d.id /\ Restored(d).aux = NoAux
        /\ Restored(d).label = d.label /\ ~Restored(d).synth
    BY RestoredFacts
  <2>3. /\ t \in AuxGraphs
        /\ DevicesOf(t) = IF \E e \in DevicesOf(s) : e.label = Restored(d).label THEN DevicesOf(s)
                                                                           ELSE DevicesOf(s) \cup {Restored(d)}
    BY <1>0, <1>2, <2>1, <2>2, GraphAddFacts
  <2> HIDE DEF t
  <2>4. Fresh(t)
    BY <1>0, <2>2, <2>3 DEF Fresh
  <2> QED BY <2>3, <2>4 DEF FreshGraphs, t
<1> QED BY <1>1, <1>2

SnapshotSteps(devs, s) ==
  /\ s \in [0 .. Len(devs) -> FreshGraphs] /\ s[0] = <<>>
  /\ \A n \in 1 .. Len(devs) : s[n] = RestoreDeviceFromSnapshot(s[n - 1], devs[n])
  /\ ApplySnapshot(devs) = s[Len(devs)]

LEMMA SnapshotIsStepwise ==
  ASSUME NEW devs \in Seq(AuxDevices)
  PROVE  \E s : SnapshotSteps(devs, s)
<1> DEFINE N == Len(devs)
           Rec(s) == s = [n \in 0 .. N |-> IF n = 0 THEN <<>> ELSE RestoreDeviceFromSnapshot(s[n - 1], devs[n])]
           restored == CHOOSE s : Rec(s)
           step == [p \in FreshGraphs \X AuxDevices |-> RestoreDeviceFromSnapshot(p[1], p[2])]
<1>0. N \in Nat /\ \A n \in 1 .. N : devs[n] \in AuxDevices
  OBVIOUS
<1>1. step \in [FreshGraphs \X AuxDevices -> FreshGraphs] /\ <<>> \in FreshGraphs
  <2>1. \A a \in FreshGraphs, b \in AuxDevices : RestoreDeviceFromSnapshot(a, b) \in FreshGraphs
    BY RestoreKeepsFresh
  <2>2. <<>> \in FreshGraphs
    BY EmptyGraph DEF FreshGraphs, Fresh
  <2> QED BY <2>1, <2>2
<1>2. PICK s \in [0 .. N -> FreshGraphs] : Runs(<<>>, step, devs, N, s)
  <2> HIDE DEF step
  <2> QED BY <1>1, RecursionExists
<1>3. s[0] = <<>> /\ \A n \in 1 .. N : s[n] = RestoreDeviceFromSnapshot(s[n - 1], devs[n])
  <2>1. ASSUME NEW n \in 1 .. N PROVE s[n] = RestoreDeviceFromSnapshot(s[n - 1], devs[n])
    <3>1. n - 1 \in 0 .. N
      BY <1>0
    <3>2. s[n - 1] \in FreshGraphs /\ devs[n] \in AuxDevices
      BY <1>0, <3>1
    <3>3. s[n] = step[<<s[n - 1], devs[n]>>]
      BY <1>2 DEF Runs
    <3> QED BY <3>2, <3>3
  <2> QED BY <1>2, <2>1 DEF Runs
<1>4. Rec(s)
  <2>1. \A n \in 0 .. N : n # 0 => n \in 1 .. N
    BY <1>0
  <2> HIDE DEF N, step
  <2>2. \A n \in 0 .. N : s[n] = IF n = 0 THEN <<>> ELSE RestoreDeviceFromSnapshot(s[n - 1], devs[n])
    BY <1>3, <2>1
  <2> QED BY <1>2, <2>2
<1>5. Rec(restored)
  BY <1>4
<1>6. ApplySnapshot(devs) = restored[N]
  BY DEF ApplySnapshot
<1> HIDE DEF N, restored, step
<1>7. restored[0] = <<>> /\ \A n \in 1 .. N : restored[n] = RestoreDeviceFromSnapshot(restored[n - 1], devs[n])
  <2>1. 0 \in 0 .. N /\ \A n \in 1 .. N : n \in 0 .. N /\ n # 0
    BY <1>0
  <2> QED BY <1>5, <2>1
<1>8. Alike(N, restored, s)
  <2> HIDE DEF Rec
  <2>1. GoAlike(N, restored, s)
    BY <1>3, <1>7 DEF GoAlike
  <2> QED BY <1>0, <2>1, RecursionIsUnique
<1>9. ApplySnapshot(devs) = s[N] /\ N \in 0 .. N
  BY <1>0, <1>6, <1>8 DEF Alike
<1>10. SnapshotSteps(devs, s)
  BY <1>2, <1>3, <1>9 DEF SnapshotSteps, N
<1> QED BY <1>10

LEMMA SnapshotIsFresh ==
  ASSUME NEW devs \in Seq(AuxDevices)
  PROVE  ApplySnapshot(devs) \in FreshGraphs
<1>1. PICK s : SnapshotSteps(devs, s)
  BY SnapshotIsStepwise
<1>2. Len(devs) \in 0 .. Len(devs)
  OBVIOUS
<1> QED BY <1>1, <1>2 DEF SnapshotSteps

(* A device with a hardware label and a label of its own is restored.        *)
LEMMA RestoreKeepsRestored ==
  ASSUME NEW s \in FreshGraphs, NEW d \in AuxDevices, NEW e \in DevicesOf(s)
  PROVE  e \in DevicesOf(RestoreDeviceFromSnapshot(s, d))
<1>0. s \in AuxGraphs
  BY DEF FreshGraphs
<1>1. CASE d.hw = <<>> \/ Has(s, d.id)
  BY <1>1 DEF RestoreDeviceFromSnapshot
<1>2. CASE ~(d.hw = <<>> \/ Has(s, d.id))
  <2>1. RestoreDeviceFromSnapshot(s, d) = GraphAdd(s, Restored(d))
    BY <1>2 DEF RestoreDeviceFromSnapshot, Restored
  <2> QED BY <1>0, <1>2, <2>1, RestoredFacts, GraphAddFacts
<1> QED BY <1>1, <1>2

LEMMA RestoreRestores ==
  ASSUME NEW s \in FreshGraphs, NEW d \in AuxDevices, d.hw # <<>>,
         \A e \in DevicesOf(s) : e.id # d.id /\ e.label # d.label
  PROVE  Restored(d) \in DevicesOf(RestoreDeviceFromSnapshot(s, d))
<1>0. s \in AuxGraphs
  BY DEF FreshGraphs
<1>1. ~Has(s, d.id)
  BY <1>0, GraphFacts
<1>2. RestoreDeviceFromSnapshot(s, d) = GraphAdd(s, Restored(d))
  BY <1>1 DEF RestoreDeviceFromSnapshot, Restored
<1> QED BY <1>0, <1>1, <1>2, RestoredFacts, GraphAddFacts

LEMMA RestoreAddsNoOther ==
  ASSUME NEW s \in FreshGraphs, NEW d \in AuxDevices, NEW e \in DevicesOf(RestoreDeviceFromSnapshot(s, d))
  PROVE  e \in DevicesOf(s) \/ e = Restored(d)
<1>0. s \in AuxGraphs
  BY DEF FreshGraphs
<1>1. CASE d.hw = <<>> \/ Has(s, d.id)
  BY <1>1 DEF RestoreDeviceFromSnapshot
<1>2. CASE ~(d.hw = <<>> \/ Has(s, d.id))
  <2>1. RestoreDeviceFromSnapshot(s, d) = GraphAdd(s, Restored(d))
    BY <1>2 DEF RestoreDeviceFromSnapshot, Restored
  <2> QED BY <1>0, <1>2, <2>1, RestoredFacts, GraphAddFacts
<1> QED BY <1>1, <1>2

LEMMA SnapshotRestores ==
  ASSUME NEW devs \in AuxGraphs, NEW i \in DOMAIN devs, devs[i].hw # <<>>,
         \A j \in DOMAIN devs : j # i => devs[j].label # devs[i].label
  PROVE  Restored(devs[i]) \in DevicesOf(ApplySnapshot(devs))
<1> DEFINE N == Len(devs)
           x == Restored(devs[i])
<1>0. /\ N \in Nat /\ DOMAIN devs = 1 .. N /\ \A n \in 1 .. N : devs[n] \in AuxDevices
      /\ \A m, n \in 1 .. N : m # n => devs[m].id # devs[n].id
  BY GraphFacts DEF IdsDiffer
<1>1. PICK s : SnapshotSteps(devs, s)
  BY GraphFacts, SnapshotIsStepwise
<1>2. /\ s \in [0 .. N -> FreshGraphs] /\ s[0] = <<>>
      /\ \A n \in 1 .. N : s[n] = RestoreDeviceFromSnapshot(s[n - 1], devs[n])
      /\ ApplySnapshot(devs) = s[N]
  BY <1>1 DEF SnapshotSteps
<1> HIDE DEF N
<1> DEFINE Of(n) == \A e \in DevicesOf(s[n]) : \E j \in 1 .. n : e = Restored(devs[j])
           P == {n \in 0 .. N : Of(n) /\ (i <= n => x \in DevicesOf(s[n]))}
<1> HIDE DEF x
<1>3. 0 \in P
  BY <1>0, <1>2, EmptyGraph
<1>4. ASSUME NEW n \in 1 .. N, n - 1 \in P PROVE n \in P
  <2>0. n - 1 \in 0 .. N /\ n \in 0 .. N /\ Of(n - 1) /\ (i <= n - 1 => x \in DevicesOf(s[n - 1]))
    BY <1>0, <1>4
  <2>1. s[n - 1] \in FreshGraphs /\ s[n] = RestoreDeviceFromSnapshot(s[n - 1], devs[n]) /\ devs[n] \in AuxDevices
    BY <1>0, <1>2, <2>0
  <2>2. ASSUME NEW e \in DevicesOf(s[n]) PROVE \E j \in 1 .. n : e = Restored(devs[j])
    <3>1. e \in DevicesOf(s[n - 1]) \/ e = Restored(devs[n])
      BY <2>1, <2>2, RestoreAddsNoOther
    <3>2. \A j \in 1 .. n - 1 : j \in 1 .. n
      BY <1>0
    <3> QED BY <1>0, <2>0, <3>1, <3>2
  <2>3. CASE i = n
    <3>1. \A e \in DevicesOf(s[n - 1]) : e.id # devs[n].id /\ e.label # devs[n].label
      <4> SUFFICES ASSUME NEW e \in DevicesOf(s[n - 1]) PROVE e.id # devs[n].id /\ e.label # devs[n].label
        OBVIOUS
      <4>1. PICK j \in 1 .. n - 1 : e = Restored(devs[j])
        BY <2>0
      <4>2. j \in 1 .. N /\ j # n
        BY <1>0
      <4>3. e.id = devs[j].id /\ e.label = devs[j].label
        BY <1>0, <4>1, <4>2, RestoredFacts
      <4> QED BY <1>0, <2>3, <4>2, <4>3
    <3>2. Restored(devs[n]) \in DevicesOf(s[n])
      BY <2>1, <2>3, <3>1, RestoreRestores
    <3>3. x \in DevicesOf(s[n])
      BY <2>3, <3>2 DEF x
    <3> QED BY <2>0, <2>2, <3>3
  <2>4. CASE i # n
    <3>1. ASSUME i <= n PROVE x \in DevicesOf(s[n])
      <4>1. x \in DevicesOf(s[n - 1])
        BY <1>0, <2>0, <2>4, <3>1
      <4> QED BY <2>1, <4>1, RestoreKeepsRestored
    <3> QED BY <2>0, <2>2, <3>1
  <2> QED BY <2>3, <2>4
<1> HIDE DEF P
<1>5. N \in P
  <2>1. \A n \in 0 .. N : n \in P
    BY <1>0, <1>3, <1>4, NumbersUpTo
  <2> QED BY <1>0, <2>1
<1>6. x \in DevicesOf(s[N])
  BY <1>0, <1>5 DEF P
<1> QED BY <1>2, <1>6 DEF x

-----------------------------------------------------------------------------
(* Old placeholders that a report makes superfluous.                         *)
Kept(a) == {r \in [keep : AuxDevices, devs : AuxGraphs] :
              /\ r.keep.id = a /\ r.keep.aux = a
              /\ \A e \in DevicesOf(r.devs) : e.id = a => e = r.keep}

Superfluous(r, o, a) == o.id # a /\ o.aux = NoAux /\ OrphanBelongsToAux(o, r.keep.label, a)

LEMMA CustomIsAName ==
  ASSUME NEW d \in AuxDevices
  PROVE  HasCustomLabel(d) <=> d.label \in Names
<1>1. PICK a \in 0 .. 31 : d.label \in Names \cup {EnumName(a)}
  BY RelaysAre DEF AuxDevices, OfRelay, OfOldCache
<1>2. ParseAuxId(EnumName(a)) # NoAux /\ EnumName(a) \notin Names
  BY NamesDiffer
<1>3. \A n \in Names : ParseAuxId(n) = NoAux
  BY AuxConstants
<1> QED BY <1>1, <1>2, <1>3 DEF HasCustomLabel

(* The label that stays: the kept device's, unless only the other is named.  *)
Collapsed(r, o, t, a) ==
  /\ t.keep = Relabelled(r.keep, t.keep.label)
  /\ \/ t.keep.label = r.keep.label
     \/ t.keep.label = o.label /\ r.keep.label \notin Names /\ o.label \in Names
  /\ o.label \in Names => t.keep.label \in Names
  /\ \A e \in DevicesOf(t.devs) : e = t.keep \/ (e \in DevicesOf(r.devs) /\ e.id # o.id /\ e.id # a)
  /\ \A e \in DevicesOf(r.devs) : e.id # o.id /\ e.id # a => e \in DevicesOf(t.devs)
  /\ Has(t.devs, a) <=> Has(r.devs, a)

LEMMA CollapseFacts ==
  ASSUME NEW a \in Aux, NEW r \in Kept(a), NEW o \in AuxDevices
  PROVE  /\ Collapse(r, o, a) \in Kept(a)
         /\ ~Superfluous(r, o, a) => Collapse(r, o, a) = r
         /\ Superfluous(r, o, a) => Collapsed(r, o, Collapse(r, o, a), a)
<1>0. /\ r \in [keep : AuxDevices, devs : AuxGraphs] /\ r.keep.id = a /\ r.keep.aux = a
      /\ \A e \in DevicesOf(r.devs) : e.id = a => e = r.keep
  BY DEF Kept
<1>1. r.keep \in AuxDevices /\ r.devs \in AuxGraphs
  BY <1>0
<1>2. CASE ~Superfluous(r, o, a)
  BY <1>0, <1>2 DEF Collapse, Superfluous
<1>3. CASE Superfluous(r, o, a)
  <2> DEFINE label == IF ~HasCustomLabel(r.keep) /\ HasCustomLabel(o) THEN o.label ELSE r.keep.label
             k == Relabelled(r.keep, label)
             q == GraphRemove(r.devs, o.id)
             p == GraphPut(q, k)
             t == [keep |-> k, devs |-> p]
  <2>1. r.keep = Relabelled(r.keep, r.keep.label)
    BY <1>1, RelabelledTwice
  <2>2. Collapse(r, o, a) = t
    <3>1. /\ o.id # r.keep.id /\ o.aux = NoAux /\ OrphanBelongsToAux(o, r.keep.label, a)
      BY <1>0, <1>3 DEF Superfluous
    <3>2. k = IF ~HasCustomLabel(r.keep) /\ HasCustomLabel(o) THEN [r.keep EXCEPT !.label = o.label] ELSE r.keep
      BY <2>1 DEF Relabelled
    <3> HIDE DEF k
    <3> QED BY <3>1, <3>2 DEF Collapse
  <2>3. label \in Names \cup {EnumName(r.keep.id)}
    <3>1. r.keep.label \in Names \cup {EnumName(r.keep.id)}
      BY <1>0, <1>1, DeviceFacts DEF OfRelay
    <3> QED BY <3>1, CustomIsAName
  <2>4. /\ label = r.keep.label \/ (label = o.label /\ r.keep.label \notin Names /\ o.label \in Names)
        /\ o.label \in Names => label \in Names
    BY <1>1, CustomIsAName
  <2> HIDE DEF label
  <2>5. k \in AuxDevices /\ k.id = a /\ k.aux = a /\ k.label = label
    BY <1>0, <1>1, <2>3, RelabelledFacts
  <2>6. k = Relabelled(r.keep, k.label)
    BY <2>5
  <2> HIDE DEF k
  <2>7. /\ q \in AuxGraphs
        /\ \A d : d \in DevicesOf(q) <=> d \in DevicesOf(r.devs) /\ d.id # o.id
        /\ \A b : Has(q, b) <=> Has(r.devs, b) /\ b # o.id
    BY <1>1, GraphRemoveFacts
  <2> HIDE DEF q
  <2>8. p \in AuxGraphs /\ \A e : e \in DevicesOf(p) <=> (e \in DevicesOf(q) /\ e.id # k.id) \/ (e = k /\ Has(q, k.id))
    BY <2>5, <2>7, GraphPutFacts
  <2> HIDE DEF p
  <2>9. o.id # a
    BY <1>3 DEF Superfluous
  <2>10. Has(p, a) <=> Has(r.devs, a)
    <3>1. Has(p, a) <=> \E e \in DevicesOf(p) : e.id = a
      BY <2>8, GraphFacts
    <3> QED BY <2>5, <2>7, <2>8, <2>9, <3>1
  <2>11. t.keep = k /\ t.devs = p /\ t \in [keep : AuxDevices, devs : AuxGraphs]
    BY <2>5, <2>8
  <2> HIDE DEF t
  <2>12. t \in Kept(a)
    BY <2>5, <2>8, <2>11 DEF Kept
  <2>13. Collapsed(r, o, t, a)
    BY <2>4, <2>5, <2>6, <2>7, <2>8, <2>10, <2>11 DEF Collapsed
  <2> QED BY <1>3, <2>2, <2>12, <2>13
<1> QED BY <1>2, <1>3

CollapseSteps(devs, a, keep, s) ==
  /\ s \in [0 .. Len(devs) -> Kept(a)] /\ s[0] = [keep |-> keep, devs |-> GraphPut(devs, keep)]
  /\ \A n \in 1 .. Len(devs) : s[n] = Collapse(s[n - 1], devs[n], a)
  /\ RemoveOrphanAuxPlaceholders(devs, a, keep) = s[Len(devs)]

LEMMA CollapsedSteps ==
  ASSUME NEW a \in Aux, NEW devs \in AuxGraphs, NEW keep \in AuxDevices, keep.id = a, keep.aux = a
  PROVE  \E s : CollapseSteps(devs, a, keep, s)
<1> DEFINE N == Len(devs)
           z == [keep |-> keep, devs |-> GraphPut(devs, keep)]
           Rec(s) == s = [n \in 0 .. N |-> IF n = 0 THEN z ELSE Collapse(s[n - 1], devs[n], a)]
           collapsed == CHOOSE s : Rec(s)
           step == [p \in Kept(a) \X AuxDevices |-> Collapse(p[1], p[2], a)]
<1>0. N \in Nat /\ devs \in Seq(AuxDevices) /\ \A n \in 1 .. N : devs[n] \in AuxDevices
  BY GraphFacts
<1>1. step \in [Kept(a) \X AuxDevices -> Kept(a)]
  <2>1. \A r \in Kept(a), b \in AuxDevices : Collapse(r, b, a) \in Kept(a)
    BY CollapseFacts
  <2> QED BY <2>1
<1>2. z \in Kept(a)
  <2>1. GraphPut(devs, keep) \in AuxGraphs /\ \A e \in DevicesOf(GraphPut(devs, keep)) : e.id = a => e = keep
    BY GraphPutFacts
  <2>2. z.keep = keep /\ z.devs = GraphPut(devs, keep) /\ z \in [keep : AuxDevices, devs : AuxGraphs]
    BY <2>1
  <2> HIDE DEF z
  <2> QED BY <2>1, <2>2 DEF Kept
<1>3. PICK s \in [0 .. N -> Kept(a)] : Runs(z, step, devs, N, s)
  <2> HIDE DEF step, z
  <2> QED BY <1>0, <1>1, <1>2, RecursionExists
<1>4. s[0] = z /\ \A n \in 1 .. N : s[n] = Collapse(s[n - 1], devs[n], a)
  <2>1. ASSUME NEW n \in 1 .. N PROVE s[n] = Collapse(s[n - 1], devs[n], a)
    <3>1. n - 1 \in 0 .. N
      BY <1>0
    <3>2. s[n - 1] \in Kept(a) /\ devs[n] \in AuxDevices
      BY <1>0, <3>1
    <3>3. s[n] = step[<<s[n - 1], devs[n]>>]
      BY <1>3 DEF Runs
    <3> QED BY <3>2, <3>3
  <2> QED BY <1>3, <2>1 DEF Runs
<1>5. Rec(s)
  <2>1. \A n \in 0 .. N : n # 0 => n \in 1 .. N
    BY <1>0
  <2> HIDE DEF N, step, z
  <2>2. \A n \in 0 .. N : s[n] = IF n = 0 THEN z ELSE Collapse(s[n - 1], devs[n], a)
    BY <1>4, <2>1
  <2> QED BY <1>3, <2>2
<1>6. Rec(collapsed)
  BY <1>5
<1>7. RemoveOrphanAuxPlaceholders(devs, a, keep) = collapsed[N]
  BY DEF RemoveOrphanAuxPlaceholders
<1> HIDE DEF N, collapsed, step, z
<1>8. collapsed[0] = z /\ \A n \in 1 .. N : collapsed[n] = Collapse(collapsed[n - 1], devs[n], a)
  <2>1. 0 \in 0 .. N /\ \A n \in 1 .. N : n \in 0 .. N /\ n # 0
    BY <1>0
  <2> QED BY <1>6, <2>1
<1>9. Alike(N, collapsed, s)
  <2> HIDE DEF Rec
  <2>1. GoAlike(N, collapsed, s)
    BY <1>4, <1>8 DEF GoAlike
  <2> QED BY <1>0, <2>1, RecursionIsUnique
<1>10. RemoveOrphanAuxPlaceholders(devs, a, keep) = s[N]
  BY <1>0, <1>7, <1>9 DEF Alike
<1> QED BY <1>4, <1>10 DEF CollapseSteps, N, z

(* What the graph is when all the devices have been looked at: q is what it  *)
(* was, k the device that stays, r what has become of the two.               *)
Relay(e, a) == ParseAuxId(e.label) = a \/ ParseAuxId(e.hw) = a

Reconciled(q, k, r, a) ==
  /\ r.keep = Relabelled(k, r.keep.label)
  /\ \/ r.keep.label = k.label
     \/ /\ r.keep.label \in Names
        /\ \E o \in DevicesOf(q) : o.aux = NoAux /\ o.label = r.keep.label /\ OrphanBelongsToAux(o, k.label, a)
  /\ Has(r.devs, a) <=> Has(q, a)
  /\ \A e \in DevicesOf(r.devs) : e.id # a => e \in DevicesOf(q)
  /\ \A e \in DevicesOf(q) : e.id # a /\ e \notin DevicesOf(r.devs) =>
        /\ e.aux = NoAux /\ (OrphanBelongsToAux(e, k.label, a) \/ OrphanBelongsToAux(e, r.keep.label, a))
        /\ e.label \in Names => r.keep.label \in Names

LEMMA OneMoreReconciled ==
  ASSUME NEW a \in Aux, NEW q \in AuxGraphs, NEW k \in AuxDevices, k.id = a, NEW r \in Kept(a), Reconciled(q, k, r, a),
         NEW o \in DevicesOf(q)
  PROVE  /\ Reconciled(q, k, Collapse(r, o, a), a)
         /\ o.id # a /\ o.aux = NoAux /\ o \in DevicesOf(Collapse(r, o, a).devs) => ~Relay(o, a)
         /\ \A e \in DevicesOf(Collapse(r, o, a).devs) : e.id # a => e \in DevicesOf(r.devs)
<1> DEFINE t == Collapse(r, o, a)
<1>0. o \in AuxDevices /\ r.keep \in AuxDevices /\ r.keep.id = a /\ t \in Kept(a)
  BY GraphFacts, CollapseFacts DEF Kept
<1>1. CASE ~Superfluous(r, o, a)
  <2>1. t = r
    BY <1>0, <1>1, CollapseFacts
  <2>2. o.id # a /\ o.aux = NoAux => ~Relay(o, a)
    BY <1>1 DEF Superfluous, Relay, OrphanBelongsToAux
  <2> HIDE DEF t
  <2> QED BY <2>1, <2>2 DEF t
<1>2. CASE Superfluous(r, o, a)
  <2>0. Collapsed(r, o, t, a) /\ o.id # a /\ o.aux = NoAux /\ OrphanBelongsToAux(o, r.keep.label, a)
    BY <1>0, <1>2, CollapseFacts DEF Superfluous
  <2>1. t.keep.id = a /\ t.keep \in AuxDevices
    BY <1>0 DEF Kept
  <2> HIDE DEF t
  <2>2. t.keep = Relabelled(k, t.keep.label)
    <3>1. r.keep = Relabelled(k, r.keep.label) /\ t.keep = Relabelled(r.keep, t.keep.label)
      BY <2>0 DEF Reconciled, Collapsed
    <3> DEFINE p == t.keep.label
               x == r.keep.label
    <3>2. Relabelled(Relabelled(k, x), p) = Relabelled(k, p)
      BY RelabelledTwice
    <3> QED BY <3>1, <3>2
  <2>3. \/ t.keep.label = r.keep.label
        \/ t.keep.label = o.label /\ r.keep.label \notin Names /\ o.label \in Names
    BY <2>0 DEF Collapsed
  <2>4. \/ r.keep.label = k.label
        \/ /\ r.keep.label \in Names
           /\ \E p \in DevicesOf(q) : p.aux = NoAux /\ p.label = r.keep.label /\ OrphanBelongsToAux(p, k.label, a)
    BY DEF Reconciled
  <2>5. r.keep.label = k.label \/ t.keep.label = r.keep.label
    BY <2>3, <2>4
  <2>6. \/ t.keep.label = k.label
        \/ /\ t.keep.label \in Names
           /\ \E p \in DevicesOf(q) : p.aux = NoAux /\ p.label = t.keep.label /\ OrphanBelongsToAux(p, k.label, a)
    BY <2>0, <2>3, <2>4, <2>5
  <2>7. Has(t.devs, a) <=> Has(q, a)
    BY <2>0 DEF Reconciled, Collapsed
  <2>8. \A e \in DevicesOf(t.devs) : e.id # a => e \in DevicesOf(r.devs) /\ e.id # o.id
    BY <2>0, <2>1 DEF Collapsed
  <2>9. \A e \in DevicesOf(t.devs) : e.id # a => e \in DevicesOf(q)
    BY <2>8 DEF Reconciled
  <2>10. o.label \in Names => t.keep.label \in Names
    BY <2>0 DEF Collapsed
  <2>11. ASSUME NEW e \in DevicesOf(q), e.id # a, e \notin DevicesOf(t.devs)
         PROVE  /\ e.aux = NoAux /\ (OrphanBelongsToAux(e, k.label, a) \/ OrphanBelongsToAux(e, t.keep.label, a))
                /\ e.label \in Names => t.keep.label \in Names
    <3>1. CASE e.id = o.id
      <4>1. e = o
        BY <3>1, GraphFacts
      <4> QED BY <2>0, <2>3, <2>5, <2>10, <4>1
    <3>2. CASE e.id # o.id
      <4>1. e \notin DevicesOf(r.devs)
        BY <2>0, <2>11, <3>2 DEF Collapsed
      <4>2. /\ e.aux = NoAux /\ (OrphanBelongsToAux(e, k.label, a) \/ OrphanBelongsToAux(e, r.keep.label, a))
            /\ e.label \in Names => r.keep.label \in Names
        BY <2>11, <4>1 DEF Reconciled
      <4> QED BY <2>3, <2>5, <4>2
    <3> QED BY <3>1, <3>2
  <2>12. Reconciled(q, k, t, a)
    BY <2>2, <2>6, <2>7, <2>9, <2>11 DEF Reconciled
  <2>13. o.id # a => o \notin DevicesOf(t.devs)
    BY <2>8
  <2> QED BY <2>8, <2>12, <2>13 DEF t
<1> QED BY <1>1, <1>2

LEMMA AllReconciled ==
  ASSUME NEW a \in Aux, NEW q \in AuxGraphs, NEW k \in AuxDevices, k.id = a, k.aux = a
  PROVE  /\ RemoveOrphanAuxPlaceholders(q, a, k) \in Kept(a)
         /\ Reconciled(q, k, RemoveOrphanAuxPlaceholders(q, a, k), a)
         /\ \A e \in DevicesOf(RemoveOrphanAuxPlaceholders(q, a, k).devs) :
              e.id # a /\ e.aux = NoAux => ~Relay(e, a)
<1> DEFINE N == Len(q)
<1>0. N \in Nat /\ DOMAIN q = 1 .. N /\ \A n \in 1 .. N : q[n] \in DevicesOf(q)
  BY GraphFacts DEF DevicesOf
<1>1. PICK s : CollapseSteps(q, a, k, s)
  BY CollapsedSteps
<1>2. /\ s \in [0 .. N -> Kept(a)] /\ s[0] = [keep |-> k, devs |-> GraphPut(q, k)]
      /\ \A n \in 1 .. N : s[n] = Collapse(s[n - 1], q[n], a)
      /\ RemoveOrphanAuxPlaceholders(q, a, k) = s[N]
  BY <1>1 DEF CollapseSteps
<1> HIDE DEF N
<1> DEFINE Seen(n) == \A i \in 1 .. n : q[i].id # a /\ q[i].aux = NoAux /\ q[i] \in DevicesOf(s[n].devs) => ~Relay(q[i], a)
           P == {n \in 0 .. N : Reconciled(q, k, s[n], a) /\ Seen(n)}
<1>3. 0 \in P
  <2>1. s[0].keep = k /\ s[0].devs = GraphPut(q, k)
    BY <1>2
  <2>2. /\ GraphPut(q, k) \in AuxGraphs
        /\ \A e : e \in DevicesOf(GraphPut(q, k)) <=> (e \in DevicesOf(q) /\ e.id # k.id) \/ (e = k /\ Has(q, k.id))
    BY GraphPutFacts
  <2>3. k = Relabelled(k, k.label)
    BY RelabelledTwice
  <2>4. Has(GraphPut(q, k), a) <=> Has(q, a)
    <3>1. Has(GraphPut(q, k), a) <=> \E e \in DevicesOf(GraphPut(q, k)) : e.id = a
      BY <2>2, GraphFacts
    <3> QED BY <2>2, <3>1
  <2>5. Reconciled(q, k, s[0], a)
    BY <2>1, <2>2, <2>3, <2>4 DEF Reconciled
  <2> QED BY <1>0, <2>5
<1>4. ASSUME NEW n \in 1 .. N, n - 1 \in P PROVE n \in P
  <2>0. n - 1 \in 0 .. N /\ n \in 0 .. N /\ Reconciled(q, k, s[n - 1], a) /\ Seen(n - 1)
    BY <1>0, <1>4
  <2>1. s[n - 1] \in Kept(a) /\ s[n] = Collapse(s[n - 1], q[n], a) /\ q[n] \in DevicesOf(q)
    BY <1>0, <1>2, <2>0
  <2>2. /\ Reconciled(q, k, s[n], a)
        /\ q[n].id # a /\ q[n].aux = NoAux /\ q[n] \in DevicesOf(s[n].devs) => ~Relay(q[n], a)
        /\ \A e \in DevicesOf(s[n].devs) : e.id # a => e \in DevicesOf(s[n - 1].devs)
    <3> DEFINE r == s[n - 1]
               o == q[n]
    <3> HIDE DEF r, o
    <3>1. r \in Kept(a) /\ o \in DevicesOf(q) /\ Reconciled(q, k, r, a)
      BY <2>0, <2>1 DEF r, o
    <3>2. /\ Reconciled(q, k, Collapse(r, o, a), a)
          /\ o.id # a /\ o.aux = NoAux /\ o \in DevicesOf(Collapse(r, o, a).devs) => ~Relay(o, a)
          /\ \A e \in DevicesOf(Collapse(r, o, a).devs) : e.id # a => e \in DevicesOf(r.devs)
      BY <3>1, OneMoreReconciled
    <3> QED BY <2>1, <3>2 DEF r, o
  <2>3. ASSUME NEW i \in 1 .. n, q[i].id # a, q[i].aux = NoAux, q[i] \in DevicesOf(s[n].devs) PROVE ~Relay(q[i], a)
    <3>1. i = n \/ i \in 1 .. n - 1
      BY <1>0
    <3>2. q[i] \in DevicesOf(s[n - 1].devs)
      BY <2>2, <2>3
    <3> QED BY <2>0, <2>2, <2>3, <3>1, <3>2
  <2> QED BY <2>0, <2>2, <2>3
<1> HIDE DEF P
<1>5. N \in P
  <2>1. \A n \in 0 .. N : n \in P
    BY <1>0, <1>3, <1>4, NumbersUpTo
  <2> QED BY <1>0, <2>1
<1>6. Reconciled(q, k, s[N], a) /\ Seen(N) /\ s[N] \in Kept(a)
  <2>1. N \in 0 .. N
    BY <1>0
  <2> QED BY <1>2, <1>5, <2>1 DEF P
<1>7. ASSUME NEW e \in DevicesOf(s[N].devs), e.id # a, e.aux = NoAux PROVE ~Relay(e, a)
  <2>1. e \in DevicesOf(q)
    BY <1>6, <1>7 DEF Reconciled
  <2>2. PICK i \in 1 .. N : e = q[i]
    BY <1>0, <2>1 DEF DevicesOf
  <2> QED BY <1>6, <1>7, <2>2
<1> QED BY <1>2, <1>6, <1>7

(* A report on a relay: what is left beside its device are devices of other  *)
(* relays, and what it removed were old, nameless of this relay or of the    *)
(* same label.                                                               *)
LabelsDiffer(s) == \A d, e \in DevicesOf(s) : d.aux = NoAux /\ e.aux = NoAux /\ d.label = e.label => d = e

Reported(s, label, t, a) ==
  /\ t \in AuxGraphs
  /\ \A e \in DevicesOf(t) : e.id # a => e \in DevicesOf(s) /\ (e.aux # NoAux \/ ~Relay(e, a))
  /\ \A e \in DevicesOf(s) : e.id # a /\ e \notin DevicesOf(t) => e.aux = NoAux /\ OrphanBelongsToAux(e, label, a)

LEMMA TouchFacts ==
  ASSUME NEW a \in Aux, NEW s \in AuxGraphs, LabelsDiffer(s), NEW k \in AuxDevices, k.id = a, k.aux = a
  PROVE  /\ Touch(s, a, k) \in Kept(a) /\ Touch(s, a, k).keep = Relabelled(k, Touch(s, a, k).keep.label)
         /\ Reported(s, k.label, Touch(s, a, k).devs, a)
<1> DEFINE q == IF Has(s, a) THEN s ELSE GraphAdd(s, k)
           r == Touch(s, a, k)
<1>1. r = RemoveOrphanAuxPlaceholders(q, a, k)
  BY DEF Touch
<1>2. q \in AuxGraphs /\ DevicesOf(s) \subseteq DevicesOf(q) /\ DevicesOf(q) \subseteq DevicesOf(s) \cup {k}
  <2>1. CASE Has(s, a)
    BY <2>1
  <2>2. CASE ~Has(s, a)
    BY <2>2, GraphAddFacts
  <2> QED BY <2>1, <2>2
<1> HIDE DEF q, r
<1>3. /\ r \in Kept(a) /\ Reconciled(q, k, r, a)
      /\ \A e \in DevicesOf(r.devs) : e.id # a /\ e.aux = NoAux => ~Relay(e, a)
  BY <1>1, <1>2, AllReconciled
<1>4. r.devs \in AuxGraphs
  BY <1>3 DEF Kept
<1>5. \A e \in DevicesOf(r.devs) : e.id # a => e \in DevicesOf(s) /\ (e.aux # NoAux \/ ~Relay(e, a))
  BY <1>2, <1>3 DEF Reconciled
<1>6. ASSUME NEW e \in DevicesOf(s), e.id # a, e \notin DevicesOf(r.devs)
      PROVE  e.aux = NoAux /\ OrphanBelongsToAux(e, k.label, a)
  <2>1. e.aux = NoAux /\ (OrphanBelongsToAux(e, k.label, a) \/ OrphanBelongsToAux(e, r.keep.label, a))
    BY <1>2, <1>3, <1>6 DEF Reconciled
  <2>2. ASSUME ~OrphanBelongsToAux(e, k.label, a) PROVE FALSE
    <3>1. e.label = r.keep.label /\ r.keep.label # k.label
      BY <2>1, <2>2 DEF OrphanBelongsToAux
    <3>2. PICK o \in DevicesOf(q) : o.aux = NoAux /\ o.label = r.keep.label /\ OrphanBelongsToAux(o, k.label, a)
      BY <1>3, <3>1 DEF Reconciled
    <3>3. o \in DevicesOf(s)
      BY <1>2, <3>2, RelaysAre
    <3>4. o = e
      BY <2>1, <3>1, <3>2, <3>3 DEF LabelsDiffer
    <3> QED BY <2>2, <3>2, <3>4
  <2> QED BY <2>1, <2>2
<1> QED BY <1>3, <1>4, <1>5, <1>6 DEF Reported, Reconciled, r

(* What becomes of the names: a removed one is taken over, and the device    *)
(* is there unless a device with its label refused it.                       *)
LEMMA TouchKeepsNames ==
  ASSUME NEW a \in Aux, NEW s \in AuxGraphs, NEW k \in AuxDevices, k.id = a, k.aux = a
  PROVE  LET r == Touch(s, a, k)
         IN  /\ r.keep.label = k.label \/ r.keep.label \in Names
             /\ Has(s, a) \/ (\A e \in DevicesOf(s) : e.label # k.label) => r.keep \in DevicesOf(r.devs)
             /\ \A e \in DevicesOf(s) : e.id # a /\ e \notin DevicesOf(r.devs) /\ e.label \in Names => r.keep.label \in Names
<1> DEFINE q == IF Has(s, a) THEN s ELSE GraphAdd(s, k)
           r == Touch(s, a, k)
<1>1. r = RemoveOrphanAuxPlaceholders(q, a, k)
  BY DEF Touch
<1>2. /\ q \in AuxGraphs /\ DevicesOf(s) \subseteq DevicesOf(q)
      /\ Has(s, a) \/ (\A e \in DevicesOf(s) : e.label # k.label) => Has(q, a)
  <2>1. CASE Has(s, a)
    BY <2>1
  <2>2. CASE ~Has(s, a)
    <3>1. q \in AuxGraphs
          /\ DevicesOf(q) = IF \E e \in DevicesOf(s) : e.label = k.label THEN DevicesOf(s) ELSE DevicesOf(s) \cup {k}
      BY <2>2, GraphAddFacts
    <3> HIDE DEF q
    <3>2. (\A e \in DevicesOf(s) : e.label # k.label) => Has(q, a)
      BY <3>1, GraphFacts
    <3> QED BY <2>2, <3>1, <3>2
  <2> QED BY <2>1, <2>2
<1> HIDE DEF q, r
<1>3. r \in Kept(a) /\ Reconciled(q, k, r, a)
  BY <1>1, <1>2, AllReconciled
<1>4. Has(q, a) => r.keep \in DevicesOf(r.devs)
  BY <1>3, GraphFacts DEF Reconciled, Kept
<1>5. r.keep.label = k.label \/ r.keep.label \in Names
  BY <1>3 DEF Reconciled
<1>6. \A e \in DevicesOf(s) : e.id # a /\ e \notin DevicesOf(r.devs) /\ e.label \in Names => r.keep.label \in Names
  BY <1>2, <1>3 DEF Reconciled
<1> QED BY <1>2, <1>4, <1>5, <1>6 DEF r

-----------------------------------------------------------------------------
(* The invariant, part by part, of a graph s.                                *)
Single(s) == \A d, e \in DevicesOf(s) : d # e /\ d.aux # NoAux /\ ~d.synth => ResolveAuxId(e) # d.aux
NoneAbsent(s, over) == \A a \in Aux : over[a] = "absent" => \A d \in DevicesOf(s) : d.id # a
Spanned(s, m, known) ==
  \A d \in DevicesOf(s) : Outside(m, d) => HasCustomLabel(d) \/ d.synth \/ ResolveAuxId(d) \in known
AllPresent(s, over, left) == \A a \in Aux : over[a] = "present" => a \in left \/ Covered(s, a)

AuxInv ==
  /\ graph \in AuxGraphs /\ LabelsDiffer(graph)
  /\ presence \in [Aux -> {"auto", "present", "absent"}]
  /\ Single(graph) /\ NoneAbsent(graph, presence) /\ Spanned(graph, model, listed)
  /\ AllPresent(graph, presence, excused)

(* Which relay a device is.                                                  *)
LEMMA ResolveFacts ==
  ASSUME NEW d \in AuxDevices
  PROVE  /\ d.id \in Aux => ResolveAuxId(d) = d.id
         /\ \A a \in 0 .. 31 : ResolveAuxId(d) = a => Relay(d, a)
         /\ \A a \in 0 .. 31 : d.label = EnumName(a) =>
              ResolveAuxId(d) = a /\ (\A b \in 0 .. 31 : Relay(d, b) => a = b) /\ (d.id \in Aux => a = d.id)
<1>0. /\ \A a \in 0 .. 31 : ParseAuxId(EnumName(a)) = a /\ ParseAuxId(EnumName(a)) # NoAux /\ EnumName(a) \notin Names
      /\ \A n \in Names : ParseAuxId(n) = NoAux
      /\ ParseAuxId(<<>>) = NoAux
  BY NamesDiffer, AuxConstants, NoTextParses
<1>1. CASE d.id \in Aux
  <2>1. /\ d.aux \in {NoAux, d.id} /\ d.hw = EnumName(d.id) /\ d.label \in Names \cup {EnumName(d.id)}
        /\ d.id \in 0 .. 31 /\ d.id # NoAux
    BY <1>1, DeviceFacts, RelaysAre DEF OfRelay
  <2>2. ResolveAuxId(d) = d.id
    BY <1>0, <2>1 DEF ResolveAuxId
  <2>3. ParseAuxId(d.hw) = d.id
    <3>1. d.hw = EnumName(d.id) /\ d.id \in 0 .. 31
      BY <2>1
    <3> HIDE <1>0
    <3>2. ParseAuxId(EnumName(d.id)) = d.id
      BY <3>1, NameParses
    <3> QED BY <3>1, <3>2
  <2>4. \A a \in 0 .. 31 : d.label = EnumName(a) => a = d.id
    BY <1>0, <2>1
  <2>5. ParseAuxId(d.label) \in {NoAux, d.id}
    BY <1>0, <2>1
  <2>6. \A b \in 0 .. 31 : Relay(d, b) => b = d.id
    BY <2>3, <2>5, RelaysAre DEF Relay
  <2> QED BY <2>2, <2>3, <2>4, <2>6 DEF Relay
<1>2. CASE d.id \notin Aux
  <2>1. d.aux = NoAux
    BY <1>2, DeviceFacts DEF OfOldCache
  <2>2. PICK x \in 0 .. 31 : d.hw \in {<<>>, EnumName(x)} /\ d.label \in Names \cup {EnumName(x)}
    BY <1>2, DeviceFacts DEF OfOldCache
  <2>3. ParseAuxId(d.hw) \in {NoAux, x} /\ ParseAuxId(d.label) \in {NoAux, x}
    BY <1>0, <2>2
  <2>4. ResolveAuxId(d) = IF ParseAuxId(d.hw) # NoAux THEN ParseAuxId(d.hw) ELSE ParseAuxId(d.label)
    BY <2>1 DEF ResolveAuxId
  <2>5. \A a \in 0 .. 31 : ResolveAuxId(d) = a => Relay(d, a)
    BY <2>4 DEF Relay
  <2>6. ASSUME NEW a \in 0 .. 31, d.label = EnumName(a)
        PROVE  ResolveAuxId(d) = a /\ \A b \in 0 .. 31 : Relay(d, b) => a = b
    <3>1. a = x /\ ParseAuxId(d.label) = a /\ a # NoAux
      BY <1>0, <2>2, <2>6
    <3> QED BY <2>3, <2>4, <3>1, RelaysAre DEF Relay
  <2> QED BY <1>2, <2>5, <2>6
<1> QED BY <1>1, <1>2

LEMMA SpanFacts ==
  ASSUME NEW a, SpanContains(a), NEW d, ResolveAuxId(d) = a
  PROVE  ~Outside(model, d)
BY DEF SpanContains, Outside, IsKnown

(* The device a report is about.                                             *)
Reading(d, status) == [d EXCEPT !.status = status, !.synth = FALSE]

LEMMA ReadingFacts ==
  ASSUME NEW d \in AuxDevices, d.id \in Aux, NEW status \in Statuses3
  PROVE  /\ Reading(d, status) \in AuxDevices /\ Reading(d, status).id = d.id /\ Reading(d, status).aux = d.aux
         /\ Reading(d, status).label = d.label /\ ~Reading(d, status).synth
<1>1. d \in AuxRecords /\ OfRelay(d)
  BY DeviceFacts DEF AuxDevices
<1> HIDE DEF Texts
<1>2. /\ Reading(d, status) \in AuxRecords /\ Reading(d, status).id = d.id /\ Reading(d, status).aux = d.aux
      /\ Reading(d, status).hw = d.hw /\ Reading(d, status).label = d.label
  BY <1>1 DEF AuxRecords, Reading
<1>3. ~Reading(d, status).synth
  BY <1>1 DEF AuxRecords, Reading
<1>4. OfRelay(Reading(d, status))
  BY <1>1, <1>2 DEF OfRelay
<1> QED BY <1>2, <1>3, <1>4 DEF AuxDevices

LEMMA EnsureFacts ==
  ASSUME NEW d \in AuxDevices, d.id \in Aux
  PROVE  /\ EnsureAuxIdentity(d, d.id) \in AuxDevices /\ EnsureAuxIdentity(d, d.id).id = d.id
         /\ EnsureAuxIdentity(d, d.id).aux = d.id /\ EnsureAuxIdentity(d, d.id).label = d.label
<1>1. d \in AuxRecords /\ OfRelay(d) /\ d.id \in 0 .. 31
  BY DeviceFacts, RelaysAre DEF AuxDevices
<1>2. d.hw # <<>> /\ d.aux \in {NoAux, d.id}
  BY <1>1, NamesDiffer DEF OfRelay
<1> HIDE DEF Texts
<1> DEFINE e == EnsureAuxIdentity(d, d.id)
<1>3. e \in AuxRecords /\ e.id = d.id /\ e.aux = d.id /\ e.hw = d.hw /\ e.label = d.label
  BY <1>1, <1>2 DEF AuxRecords, EnsureAuxIdentity
<1>4. OfRelay(e)
  BY <1>1, <1>3 DEF OfRelay
<1> QED BY <1>3, <1>4 DEF AuxDevices

LEMMA CreatedFacts ==
  ASSUME NEW a \in Aux, NEW status \in Statuses3
  PROVE  /\ SerialAdapterDevice_CreateDevice(a, status) \in AuxDevices
         /\ SerialAdapterDevice_CreateDevice(a, status).id = a /\ SerialAdapterDevice_CreateDevice(a, status).aux = a
<1> DEFINE d == SerialAdapterDevice_CreateDevice(a, status)
<1>1. a \in 0 .. 31 /\ a \in Nat /\ EnumName(a) \in Texts
  BY RelaysAre, TextsAre
<1>2. d = [id |-> a, aux |-> a, hw |-> EnumName(a), label |-> EnumName(a), synth |-> FALSE, status |-> status]
  BY DEF SerialAdapterDevice_CreateDevice, Device
<1>3. d \in AuxRecords
  <2> HIDE DEF Texts
  <2> QED BY <1>1, <1>2 DEF AuxRecords
<1>4. d.id = a /\ d.aux = a /\ d.hw = EnumName(a) /\ d.label = EnumName(a)
  BY <1>2
<1> QED BY <1>3, <1>4 DEF AuxDevices, OfRelay

LEMMA FoundFacts ==
  ASSUME NEW s \in AuxGraphs, NEW a \in Aux, NEW st \in Statuses3, NEW status \in Statuses3
  PROVE  /\ Reading(FindOrCreate(s, a, st), status) \in AuxDevices
         /\ Reading(FindOrCreate(s, a, st), status).id = a /\ Reading(FindOrCreate(s, a, st), status).aux = a
         /\ ~Reading(FindOrCreate(s, a, st), status).synth
<1> DEFINE d == FindOrCreate(s, a, st)
<1>1. d \in AuxDevices /\ d.id = a /\ d.aux = a
  <2>1. CASE Has(s, a)
    <3>1. FindById(s, a) \in AuxDevices /\ FindById(s, a).id = a
      BY <2>1, FoundById, GraphFacts
    <3> QED BY <2>1, <3>1, EnsureFacts DEF FindOrCreate
  <2>2. CASE ~Has(s, a)
    BY <2>2, CreatedFacts DEF FindOrCreate
  <2> QED BY <2>1, <2>2
<1> HIDE DEF d
<1>2. /\ Reading(d, status) \in AuxDevices /\ Reading(d, status).id = a /\ Reading(d, status).aux = a
      /\ ~Reading(d, status).synth
  BY <1>1, ReadingFacts
<1> QED BY <1>2 DEF d

Labelling(d, label) == [d EXCEPT !.label = label, !.synth = FALSE]

LEMMA LabellingFacts ==
  ASSUME NEW d \in AuxDevices, d.id \in Aux, NEW label, label \in Names \cup {EnumName(d.id)}
  PROVE  /\ Labelling(d, label) \in AuxDevices /\ Labelling(d, label).id = d.id /\ Labelling(d, label).aux = d.aux
         /\ ~Labelling(d, label).synth
<1>1. d \in AuxRecords /\ OfRelay(d) /\ d.id \in 0 .. 31
  BY DeviceFacts, RelaysAre DEF AuxDevices
<1>2. label \in Texts
  BY <1>1, TextsAre
<1> HIDE DEF Texts
<1>3. /\ Labelling(d, label) \in AuxRecords /\ Labelling(d, label).id = d.id /\ Labelling(d, label).aux = d.aux
      /\ Labelling(d, label).hw = d.hw /\ Labelling(d, label).label = label
  BY <1>1, <1>2 DEF AuxRecords, Labelling
<1>4. ~Labelling(d, label).synth
  BY <1>1 DEF AuxRecords, Labelling
<1>5. OfRelay(Labelling(d, label))
  BY <1>1, <1>3 DEF OfRelay
<1> QED BY <1>3, <1>4, <1>5 DEF AuxDevices

(* The devices that a step leaves out are excused.                           *)
LEMMA BecomeFacts ==
  ASSUME NEW t \in AuxGraphs, NEW left, Become(t, left)
  PROVE  /\ graph' = t
         /\ \A a : a \in excused \/ a \in left => a \in excused' \/ Covered(t, a)
<1>1. graph' = t /\ excused' = {a \in excused \cup left : ~Has(t, a)}
  BY DEF Become
<1>2. \A a : Has(t, a) => Covered(t, a)
  BY GraphFacts DEF Covered
<1> QED BY <1>1, <1>2

(* The invariant after a report on relay a with the label of device k.       *)
OfReport(t, a) == \A e \in DevicesOf(t) : e.id = a => e.aux = a /\ ~e.synth

LEMMA ReportKeeps ==
  ASSUME AuxInv, NEW a \in Aux, ~IsForcedAbsent(a), NEW k \in AuxDevices, k.id = a,
         NEW t, Reported(graph, k.label, t, a), OfReport(t, a), Become(t, AtRisk(k, a)),
         listed \subseteq listed', SpanContains(a) \/ a \in listed', UNCHANGED <<model, presence>>
  PROVE  AuxInv'
<1>0. /\ graph \in AuxGraphs /\ LabelsDiffer(graph)
      /\ presence \in [Aux -> {"auto", "present", "absent"}]
      /\ Single(graph) /\ NoneAbsent(graph, presence) /\ Spanned(graph, model, listed)
      /\ AllPresent(graph, presence, excused)
  BY DEF AuxInv
<1>1. /\ t \in AuxGraphs
      /\ \A e \in DevicesOf(t) : e.id # a => e \in DevicesOf(graph) /\ (e.aux # NoAux \/ ~Relay(e, a))
      /\ \A e \in DevicesOf(graph) : e.id # a /\ e \notin DevicesOf(t) => e.aux = NoAux /\ OrphanBelongsToAux(e, k.label, a)
  BY DEF Reported
<1>2. graph' = t /\ \A b : b \in excused \/ b \in AtRisk(k, a) => b \in excused' \/ Covered(t, b)
  BY <1>1, BecomeFacts
<1>3. \A e \in DevicesOf(t) : e.id = a => e.aux = a /\ ~e.synth
  BY DEF OfReport
<1>4. a \in 0 .. 31 /\ a # NoAux /\ \A b \in Aux : b \in 0 .. 31
  BY RelaysAre
<1>5. \A e \in DevicesOf(t) : e \in AuxDevices
  BY <1>1, GraphFacts
<1>6. LabelsDiffer(t)
  BY <1>0, <1>1, <1>3, <1>4 DEF LabelsDiffer
<1>7. Single(t)
  <2> SUFFICES ASSUME NEW d \in DevicesOf(t), NEW e \in DevicesOf(t), d # e, d.aux # NoAux, ~d.synth,
                      ResolveAuxId(e) = d.aux
               PROVE  FALSE
    BY DEF Single
  <2>1. d.id # e.id
    BY <1>1, GraphFacts
  <2>2. d.aux = d.id /\ d.id \in Aux
    BY <1>5, DeviceFacts DEF OfRelay, OfOldCache
  <2>3. CASE d.id = a
    <3>1. e \in DevicesOf(graph) /\ (e.aux # NoAux \/ ~Relay(e, a))
      BY <1>1, <2>1, <2>3
    <3>2. Relay(e, a)
      BY <1>4, <1>5, <2>2, <2>3, ResolveFacts
    <3>3. e.aux = e.id /\ e.id \in Aux
      BY <1>5, <3>1, <3>2, DeviceFacts DEF OfRelay, OfOldCache
    <3>4. ResolveAuxId(e) = e.id
      BY <1>5, <3>3, ResolveFacts
    <3> QED BY <2>1, <2>2, <3>4
  <2>4. CASE d.id # a /\ e.id = a
    <3>1. ResolveAuxId(e) = a
      BY <1>5, <2>4, ResolveFacts
    <3> QED BY <2>2, <2>4, <3>1
  <2>5. CASE d.id # a /\ e.id # a
    BY <1>0, <1>1, <2>5 DEF Single
  <2> QED BY <2>3, <2>4, <2>5
<1>8. NoneAbsent(t, presence)
  BY <1>0, <1>1 DEF NoneAbsent, IsForcedAbsent
<1>9. Spanned(t, model, listed')
  <2> SUFFICES ASSUME NEW d \in DevicesOf(t), Outside(model, d)
               PROVE  HasCustomLabel(d) \/ d.synth \/ ResolveAuxId(d) \in listed'
    BY DEF Spanned
  <2>1. CASE d.id = a
    <3>1. ResolveAuxId(d) = a
      BY <1>5, <2>1, ResolveFacts
    <3>2. a \in listed'
      BY <3>1, SpanFacts
    <3> QED BY <3>1, <3>2
  <2>2. CASE d.id # a
    <3>1. d \in DevicesOf(graph)
      BY <1>1, <2>2
    <3> QED BY <1>0, <3>1 DEF Spanned
  <2> QED BY <2>1, <2>2
<1>10. AllPresent(t, presence, excused')
  <2> SUFFICES ASSUME NEW b \in Aux, presence[b] = "present"
               PROVE  b \in excused' \/ Covered(t, b)
    BY DEF AllPresent
  <2>1. CASE b \in excused
    BY <1>2, <2>1
  <2>2. CASE Covered(graph, b)
    <3>1. PICK e \in DevicesOf(graph) : e.id = b \/ e.label = EnumName(b)
      BY <2>2 DEF Covered
    <3>2. CASE e \in DevicesOf(t)
      BY <3>1, <3>2 DEF Covered
    <3>3. CASE e \notin DevicesOf(t)
      <4>0. e \in AuxDevices
        BY <1>0, GraphFacts
      <4>1. b \in AtRisk(k, a)
        <5>1. CASE e.id = a
          <6>1. b = a
            BY <1>4, <3>1, <4>0, <5>1, ResolveFacts
          <6> QED BY <6>1 DEF AtRisk
        <5>2. CASE e.id # a
          <6>1. e.aux = NoAux /\ OrphanBelongsToAux(e, k.label, a)
            BY <1>1, <3>3, <5>2
          <6>2. Relay(e, a) \/ e.label = k.label
            BY <6>1 DEF OrphanBelongsToAux, Relay
          <6>3. CASE e.label = EnumName(b)
            <7>1. CASE Relay(e, a)
              <8>1. b = a
                BY <1>4, <4>0, <6>3, <7>1, ResolveFacts
              <8> QED BY <8>1 DEF AtRisk
            <7>2. CASE e.label = k.label
              <8>1. b = a
                BY <1>4, <6>3, <7>2, ResolveFacts
              <8> QED BY <8>1 DEF AtRisk
            <7> QED BY <6>2, <7>1, <7>2
          <6>4. CASE e.id = b
            <7>1. ~Relay(e, a)
              <8>1. OfRelay(e) /\ b # a
                BY <4>0, <5>2, <6>4, DeviceFacts
              <8>2. ParseAuxId(e.hw) = b
                BY <1>4, <6>4, <8>1, NameParses DEF OfRelay
              <8>3. ParseAuxId(e.label) \in {NoAux, b}
                BY <1>4, <6>4, <8>1, NameParses, AuxConstants DEF OfRelay
              <8> QED BY <1>4, <8>1, <8>2, <8>3 DEF Relay
            <7>2. e.label = k.label
              BY <6>2, <7>1
            <7>3. PICK i \in DOMAIN graph : e = graph[i]
              BY DEF DevicesOf
            <7> QED BY <6>4, <7>2, <7>3 DEF AtRisk
          <6> QED BY <3>1, <6>3, <6>4
        <5> QED BY <5>1, <5>2
      <4> QED BY <1>2, <4>1
    <3> QED BY <3>2, <3>3
  <2> QED BY <1>0, <2>1, <2>2 DEF AllPresent
<1> QED BY <1>0, <1>1, <1>2, <1>6, <1>7, <1>8, <1>9, <1>10 DEF AuxInv

-----------------------------------------------------------------------------
(* The reports, action by action.                                            *)
LEMMA TouchedFacts ==
  ASSUME AuxInv, NEW a \in Aux, NEW k \in AuxDevices, k.id = a, k.aux = a, ~k.synth
  PROVE  /\ Reported(graph, k.label, Touch(graph, a, k).devs, a) /\ OfReport(Touch(graph, a, k).devs, a)
         /\ \A name \in Names :
              LET t == GraphPut(Touch(graph, a, k).devs, Relabelled(Touch(graph, a, k).keep, name))
              IN  Reported(graph, k.label, t, a) /\ OfReport(t, a)
<1> DEFINE r == Touch(graph, a, k)
<1>1. graph \in AuxGraphs /\ LabelsDiffer(graph)
  BY DEF AuxInv
<1>2. r \in Kept(a) /\ r.keep = Relabelled(k, r.keep.label) /\ Reported(graph, k.label, r.devs, a)
  BY <1>1, TouchFacts
<1> HIDE DEF r
<1>3. /\ r.keep \in AuxDevices /\ r.devs \in AuxGraphs /\ r.keep.id = a /\ r.keep.aux = a
      /\ \A e \in DevicesOf(r.devs) : e.id = a => e = r.keep
  BY <1>2 DEF Kept
<1>4. ~r.keep.synth
  <2>1. r.keep.label \in Names \cup {EnumName(k.id)}
    BY <1>3, DeviceFacts DEF OfRelay
  <2> DEFINE label == r.keep.label
  <2>2. Relabelled(k, label).synth = k.synth
    BY <2>1, RelabelledFacts
  <2> HIDE DEF label
  <2>3. r.keep = Relabelled(k, label)
    BY <1>2 DEF label
  <2> QED BY <2>2, <2>3
<1>5. OfReport(r.devs, a)
  BY <1>3, <1>4 DEF OfReport
<1>6. ASSUME NEW name \in Names
      PROVE  /\ Reported(graph, k.label, GraphPut(r.devs, Relabelled(r.keep, name)), a)
             /\ OfReport(GraphPut(r.devs, Relabelled(r.keep, name)), a)
  <2> DEFINE n == Relabelled(r.keep, name)
             t == GraphPut(r.devs, n)
  <2>1. n \in AuxDevices /\ n.id = a /\ n.aux = a /\ ~n.synth
    BY <1>3, <1>4, RelabelledFacts
  <2> HIDE DEF n
  <2>2. /\ t \in AuxGraphs
        /\ \A e : e \in DevicesOf(t) <=> (e \in DevicesOf(r.devs) /\ e.id # a) \/ (e = n /\ Has(r.devs, a))
    BY <1>3, <2>1, GraphPutFacts
  <2> HIDE DEF t
  <2>3. Reported(graph, k.label, t, a)
    BY <1>2, <2>1, <2>2 DEF Reported
  <2>4. OfReport(t, a)
    BY <2>1, <2>2 DEF OfReport
  <2> QED BY <2>3, <2>4 DEF t, n
<1> QED BY <1>2, <1>5, <1>6 DEF r

(* A relay declared absent has no device, nor has its removal others.        *)
LEMMA ReportOnAbsentKeeps ==
  ASSUME AuxInv, NEW a \in Aux, IsForcedAbsent(a), Become(GraphRemove(graph, a), {}), UNCHANGED <<model, presence, listed>>
  PROVE  AuxInv'
<1> DEFINE t == GraphRemove(graph, a)
<1>0. /\ graph \in AuxGraphs /\ LabelsDiffer(graph)
      /\ presence \in [Aux -> {"auto", "present", "absent"}]
      /\ Single(graph) /\ NoneAbsent(graph, presence) /\ Spanned(graph, model, listed)
      /\ AllPresent(graph, presence, excused)
  BY DEF AuxInv
<1>1. t \in AuxGraphs /\ \A d : d \in DevicesOf(t) <=> d \in DevicesOf(graph) /\ d.id # a
  BY <1>0, GraphRemoveFacts
<1>2. \A d : d \in DevicesOf(t) <=> d \in DevicesOf(graph)
  BY <1>0, <1>1 DEF NoneAbsent, IsForcedAbsent
<1> HIDE DEF t
<1>3. graph' = t /\ \A b : b \in excused => b \in excused' \/ Covered(t, b)
  BY <1>1, BecomeFacts DEF t
<1>4. DevicesOf(t) = DevicesOf(graph)
  BY <1>2
<1>5. AllPresent(t, presence, excused')
  BY <1>0, <1>3, <1>4 DEF AllPresent, Covered
<1>6. LabelsDiffer(t) /\ Single(t) /\ NoneAbsent(t, presence) /\ Spanned(t, model, listed)
  BY <1>0, <1>4 DEF LabelsDiffer, Single, NoneAbsent, Spanned
<1> QED BY <1>0, <1>1, <1>3, <1>5, <1>6 DEF AuxInv

LEMMA FoundByRelay ==
  ASSUME NEW s \in AuxGraphs, NEW a \in Aux, NEW status \in Statuses3
  PROVE  FindOrCreate(s, a, status) \in AuxDevices /\ FindOrCreate(s, a, status).id = a /\ FindOrCreate(s, a, status).aux = a
<1>1. CASE Has(s, a)
  <2>1. FindById(s, a) \in AuxDevices /\ FindById(s, a).id = a
    BY <1>1, FoundById, GraphFacts
  <2> QED BY <1>1, <2>1, EnsureFacts DEF FindOrCreate
<1>2. CASE ~Has(s, a)
  BY <1>2, CreatedFacts DEF FindOrCreate
<1> QED BY <1>1, <1>2

LEMMA AdapterStatusKeeps ==
  ASSUME AuxInv, NEW a \in Aux, NEW status \in {"off", "on"}, AdapterStatus(a, status)
  PROVE  AuxInv'
<1> DEFINE k == Reading(FindOrCreate(graph, a, status), status)
<1>1. status \in Statuses3 /\ graph \in AuxGraphs
  BY DEF Statuses3, AuxInv
<1>2. k \in AuxDevices /\ k.id = a /\ k.aux = a /\ ~k.synth
  BY <1>1, FoundFacts
<1>3. /\ SpanContains(a) /\ ~IsForcedAbsent(a) /\ Become(Touch(graph, a, k).devs, AtRisk(k, a))
      /\ UNCHANGED <<model, presence>> /\ listed \subseteq listed'
  BY DEF AdapterStatus, Reading
<1> HIDE DEF k
<1> DEFINE t == Touch(graph, a, k).devs
<1>4. Reported(graph, k.label, t, a) /\ OfReport(t, a)
  BY <1>2, TouchedFacts
<1>5. Become(t, AtRisk(k, a))
  BY <1>3
<1> HIDE DEF t
<1> QED BY <1>2, <1>3, <1>4, <1>5, ReportKeeps

LEMMA IaqStatusKeeps ==
  ASSUME AuxInv, NEW a \in Aux, NEW status \in {"off", "on"}, NEW name \in Names \cup {<<>>}, IaqStatus(a, status, name)
  PROVE  AuxInv'
<1> DEFINE k == Reading(FindOrCreate(graph, a, status), status)
<1>1. status \in Statuses3 /\ graph \in AuxGraphs
  BY DEF Statuses3, AuxInv
<1>2. k \in AuxDevices /\ k.id = a /\ k.aux = a /\ ~k.synth
  BY <1>1, FoundFacts
<1>3. CASE IsForcedAbsent(a)
  BY <1>3, ReportOnAbsentKeeps DEF IaqStatus
<1>4. CASE ~IsForcedAbsent(a)
  <2> DEFINE r == Touch(graph, a, k)
             t == IF name = <<>> THEN r.devs ELSE GraphPut(r.devs, Relabelled(r.keep, name))
  <2>1. /\ SpanContains(a) /\ Become(t, AtRisk(k, a))
        /\ UNCHANGED <<model, presence>> /\ listed \subseteq listed'
    BY <1>4 DEF IaqStatus, Reading, Relabelled
  <2> HIDE DEF k
  <2>2. Reported(graph, k.label, t, a) /\ OfReport(t, a)
    <3>1. CASE name = <<>>
      BY <1>2, <3>1, TouchedFacts
    <3>2. CASE name # <<>>
      <4>1. name \in Names
        BY <3>2
      <4> QED BY <1>2, <3>2, <4>1, TouchedFacts
    <3> QED BY <3>1, <3>2
  <2> HIDE DEF t
  <2> QED BY <1>2, <1>4, <2>1, <2>2, ReportKeeps
<1> QED BY <1>3, <1>4

LEMMA EquipmentOnOffKeeps ==
  ASSUME AuxInv, NEW a \in Aux, NEW status \in {"off", "on"}, EquipmentOnOff(EnumName(a), status)
  PROVE  AuxInv'
<1> DEFINE k == Reading(FindOrCreate(graph, a, status), status)
<1>0. ParseAuxId(EnumName(a)) = a
  BY RelaysAre, NameParses
<1>1. status \in Statuses3 /\ graph \in AuxGraphs
  BY DEF Statuses3, AuxInv
<1>2. k \in AuxDevices /\ k.id = a /\ k.aux = a /\ ~k.synth
  BY <1>1, FoundFacts
<1>3. CASE IsForcedAbsent(a)
  <2>1. Become(GraphRemove(graph, a), {}) /\ UNCHANGED <<model, presence, listed>>
    BY <1>0, <1>3 DEF EquipmentOnOff
  <2> QED BY <1>3, <2>1, ReportOnAbsentKeeps
<1>4. CASE ~IsForcedAbsent(a)
  <2> DEFINE t == Touch(graph, a, k).devs
  <2>1. /\ Become(t, AtRisk(k, a)) /\ UNCHANGED <<model, presence>> /\ listed' = listed \cup {a}
    BY <1>0, <1>4 DEF EquipmentOnOff, Reading
  <2>2. listed \subseteq listed' /\ a \in listed'
    BY <2>1
  <2> HIDE DEF k
  <2>3. Reported(graph, k.label, t, a) /\ OfReport(t, a)
    BY <1>2, TouchedFacts
  <2> HIDE DEF t
  <2> QED BY <1>2, <1>4, <2>1, <2>2, <2>3, ReportKeeps
<1> QED BY <1>3, <1>4

LEMMA LabelAuxKeeps ==
  ASSUME AuxInv, NEW a \in Aux, NEW label \in Names \cup {EnumName(a)}, LabelAux(a, label)
  PROVE  AuxInv'
<1> DEFINE d == FindOrCreate(graph, a, "unknown")
           k == Labelling(d, label)
<1>1. d \in AuxDevices /\ d.id = a /\ d.aux = a
  BY FoundByRelay DEF Statuses3, AuxInv
<1>3. CASE IsForcedAbsent(a)
  BY <1>3, ReportOnAbsentKeeps DEF LabelAux
<1>4. CASE ~IsForcedAbsent(a)
  <2> DEFINE t == Touch(graph, a, k).devs
  <2>1. /\ SpanContains(a) /\ Become(t, AtRisk(k, a)) /\ UNCHANGED <<model, presence>> /\ listed \subseteq listed'
    BY <1>4 DEF LabelAux, Labelling
  <2> HIDE DEF d
  <2>2. k \in AuxDevices /\ k.id = a /\ k.aux = a /\ ~k.synth
    BY <1>1, LabellingFacts
  <2> HIDE DEF k
  <2>3. Reported(graph, k.label, t, a) /\ OfReport(t, a)
    BY <2>2, TouchedFacts
  <2> HIDE DEF t
  <2> QED BY <1>4, <2>1, <2>2, <2>3, ReportKeeps
<1> QED BY <1>3, <1>4

-----------------------------------------------------------------------------
(* The version page, the rediscovery, the operator and the restart.          *)
LEMMA Subgraph ==
  ASSUME AuxInv, NEW t \in AuxGraphs, \A d \in DevicesOf(t) : d \in DevicesOf(graph)
  PROVE  LabelsDiffer(t) /\ Single(t) /\ NoneAbsent(t, presence)
BY DEF AuxInv, LabelsDiffer, Single, NoneAbsent

(* What covers a relay is a device of that relay.                            *)
LEMMA CoverIsOfRelay ==
  ASSUME NEW s \in AuxGraphs, NEW b \in Aux, Covered(s, b)
  PROVE  \E e \in DevicesOf(s) : ResolveAuxId(e) = b /\ (e.id = b \/ e.label = EnumName(b))
<1>1. PICK e \in DevicesOf(s) : e.id = b \/ e.label = EnumName(b)
  BY DEF Covered
<1>2. e \in AuxDevices /\ b \in 0 .. 31
  BY GraphFacts, RelaysAre
<1> QED BY <1>1, <1>2, ResolveFacts

LEMMA DecodePanelConfigurationKeeps ==
  ASSUME AuxInv, NEW m, DecodePanelConfiguration(m)
  PROVE  AuxInv'
<1> DEFINE staying == {d \in DevicesOf(graph) : ~Outside(m, d) \/ HasCustomLabel(d)}
           t == Keeping(graph, staying)
           left == {ResolveAuxId(graph[i]) : i \in {j \in DOMAIN graph : Outside(m, graph[j]) /\ ~HasCustomLabel(graph[j])}}
<1>0. /\ graph \in AuxGraphs /\ presence \in [Aux -> {"auto", "present", "absent"}]
      /\ AllPresent(graph, presence, excused)
  BY DEF AuxInv
<1>1. model' = m /\ Become(t, left) /\ listed' = {} /\ presence' = presence
  BY DEF DecodePanelConfiguration, PruneAuxillariesOutsideSpan
<1> HIDE DEF staying
<1>2. t \in AuxGraphs /\ \A d : d \in DevicesOf(t) <=> d \in DevicesOf(graph) /\ d \in staying
  BY <1>0, KeepingFacts
<1> HIDE DEF t
<1>3. LabelsDiffer(t) /\ Single(t) /\ NoneAbsent(t, presence)
  BY <1>2, Subgraph
<1>4. Spanned(t, m, {})
  BY <1>2 DEF Spanned, staying
<1>5. \A e \in DevicesOf(graph) : e \notin DevicesOf(t) => ResolveAuxId(e) \in left
  BY <1>2 DEF staying, DevicesOf
<1> HIDE DEF left
<1>6. graph' = t /\ \A b : b \in excused \/ b \in left => b \in excused' \/ Covered(t, b)
  BY <1>1, <1>2, BecomeFacts
<1>7. AllPresent(t, presence, excused')
  <2> SUFFICES ASSUME NEW b \in Aux, presence[b] = "present"
               PROVE  b \in excused' \/ Covered(t, b)
    BY DEF AllPresent
  <2>1. CASE b \in excused
    BY <1>6, <2>1
  <2>2. CASE Covered(graph, b)
    <3>1. PICK e \in DevicesOf(graph) : ResolveAuxId(e) = b /\ (e.id = b \/ e.label = EnumName(b))
      BY <1>0, <2>2, CoverIsOfRelay
    <3> QED BY <1>5, <1>6, <3>1 DEF Covered
  <2> QED BY <1>0, <2>1, <2>2 DEF AllPresent
<1> QED BY <1>0, <1>1, <1>2, <1>3, <1>4, <1>6, <1>7 DEF AuxInv

LEMMA NothingOutside ==
  ASSUME NEW m, m.centers = 0, NEW s, NEW known
  PROVE  Spanned(s, m, known)
BY DEF Spanned, Outside

LEMMA RequestFullRediscoveryKeeps ==
  ASSUME AuxInv, RequestFullRediscovery
  PROVE  AuxInv'
<1> DEFINE staying == {d \in DevicesOf(graph) : ResolveAuxId(d) \in Aux /\ IsForcedPresent(ResolveAuxId(d))}
           t == Keeping(graph, staying)
<1>0. /\ graph \in AuxGraphs /\ presence \in [Aux -> {"auto", "present", "absent"}]
      /\ AllPresent(graph, presence, excused)
  BY DEF AuxInv
<1>1. model'.centers = 0 /\ Become(t, {}) /\ presence' = presence
  BY DEF RequestFullRediscovery, ClearAutoDetectedAuxillaries
<1> HIDE DEF staying
<1>2. t \in AuxGraphs /\ \A d : d \in DevicesOf(t) <=> d \in DevicesOf(graph) /\ d \in staying
  BY <1>0, KeepingFacts
<1> HIDE DEF t
<1>3. LabelsDiffer(t) /\ Single(t) /\ NoneAbsent(t, presence)
  BY <1>2, Subgraph
<1>4. Spanned(t, model', listed')
  BY <1>1, NothingOutside
<1>5. graph' = t /\ \A b : b \in excused => b \in excused' \/ Covered(t, b)
  BY <1>1, <1>2, BecomeFacts
<1>6. AllPresent(t, presence, excused')
  <2> SUFFICES ASSUME NEW b \in Aux, presence[b] = "present"
               PROVE  b \in excused' \/ Covered(t, b)
    BY DEF AllPresent
  <2>1. CASE b \in excused
    BY <1>5, <2>1
  <2>2. CASE Covered(graph, b)
    <3>1. PICK e \in DevicesOf(graph) : ResolveAuxId(e) = b /\ (e.id = b \/ e.label = EnumName(b))
      BY <1>0, <2>2, CoverIsOfRelay
    <3>2. e \in DevicesOf(t)
      BY <1>2, <3>1 DEF staying, IsForcedPresent
    <3> QED BY <3>1, <3>2 DEF Covered
  <2> QED BY <1>0, <2>1, <2>2 DEF AllPresent
<1> QED BY <1>0, <1>1, <1>2, <1>3, <1>4, <1>5, <1>6 DEF AuxInv

(* The overrides, applied to a graph that is right but for them.             *)
LEMMA OverridesKeep ==
  ASSUME NEW q \in AuxGraphs, LabelsDiffer(q), Single(q), NEW over, NEW m, NEW known, Spanned(q, m, known), NEW left
  PROVE  LET t == ApplyPresenceOverrides(q, over)
         IN  /\ t \in AuxGraphs /\ LabelsDiffer(t) /\ Single(t) /\ NoneAbsent(t, over) /\ Spanned(t, m, known)
             /\ AllPresent(t, over, left)
<1> DEFINE t == ApplyPresenceOverrides(q, over)
<1>1. /\ t \in AuxGraphs
      /\ \A e : e \in DevicesOf(t) => e \in DevicesOf(q) \/ \E a \in Aux : over[a] = "present" /\ e = Synthesized(a)
      /\ \A a \in Aux : over[a] = "absent" => \A e \in DevicesOf(t) : e.id # a
      /\ \A a \in Aux : over[a] = "present" => Covered(t, a)
  BY AppliedFacts
<1> HIDE DEF t
<1>2. \A e \in DevicesOf(t) : e \in AuxDevices /\ (e \in DevicesOf(q) \/ (e.synth /\ e.aux = e.id /\ e.id \in Aux))
  BY <1>1, GraphFacts, SynthesizedFacts
<1>3. \A a \in Aux : a # NoAux
  BY RelaysAre
<1>4. LabelsDiffer(t)
  BY <1>2, <1>3 DEF LabelsDiffer
<1>5. Single(t)
  <2> SUFFICES ASSUME NEW d \in DevicesOf(t), NEW e \in DevicesOf(t), d # e, d.aux # NoAux, ~d.synth,
                      ResolveAuxId(e) = d.aux
               PROVE  FALSE
    BY DEF Single
  <2>1. d \in DevicesOf(q)
    BY <1>2
  <2>2. e \notin DevicesOf(q)
    BY <2>1 DEF Single
  <2>3. ResolveAuxId(e) = e.id
    BY <1>2, <2>2, ResolveFacts
  <2>4. d.aux = d.id
    BY <1>2, DeviceFacts DEF OfRelay, OfOldCache
  <2> QED BY <1>1, <2>3, <2>4, GraphFacts
<1>6. NoneAbsent(t, over) /\ AllPresent(t, over, left)
  BY <1>1 DEF NoneAbsent, AllPresent
<1>7. Spanned(t, m, known)
  BY <1>2 DEF Spanned
<1> QED BY <1>1, <1>4, <1>5, <1>6, <1>7 DEF t

LEMMA HandlePutKeeps ==
  ASSUME AuxInv, NEW a \in Aux, NEW requested \in {"auto", "present", "absent"}, HandlePut(a, requested)
  PROVE  AuxInv'
<1> DEFINE t == ApplyPresenceOverrides(graph, presence')
<1>0. /\ graph \in AuxGraphs /\ LabelsDiffer(graph) /\ Single(graph) /\ Spanned(graph, model, listed)
      /\ presence \in [Aux -> {"auto", "present", "absent"}]
  BY DEF AuxInv
<1>1. presence' \in [Aux -> {"auto", "present", "absent"}] /\ Become(t, {}) /\ model' = model /\ listed' = listed
  BY <1>0 DEF HandlePut
<1>2. /\ t \in AuxGraphs /\ LabelsDiffer(t) /\ Single(t) /\ NoneAbsent(t, presence') /\ Spanned(t, model, listed)
      /\ AllPresent(t, presence', excused')
  BY <1>0, OverridesKeep
<1> HIDE DEF t
<1>3. graph' = t
  BY <1>1 DEF Become
<1> QED BY <1>1, <1>2, <1>3 DEF AuxInv

LEMMA RestartKeeps ==
  ASSUME AuxInv, Restart
  PROVE  AuxInv'
<1> DEFINE q == ApplySnapshot(graph)
           t == ApplyPresenceOverrides(q, presence)
<1>0. graph \in AuxGraphs /\ presence \in [Aux -> {"auto", "present", "absent"}]
  BY DEF AuxInv
<1>1. model'.centers = 0 /\ Become(t, {}) /\ presence' = presence
  BY DEF Restart
<1>2. q \in AuxGraphs /\ Fresh(q)
  BY <1>0, GraphFacts, SnapshotIsFresh DEF FreshGraphs
<1> HIDE DEF q
<1>3. LabelsDiffer(q) /\ Single(q)
  BY <1>2 DEF Fresh, LabelsDiffer, Single
<1>4. Spanned(q, model', listed')
  BY <1>1, NothingOutside
<1>5. /\ t \in AuxGraphs /\ LabelsDiffer(t) /\ Single(t) /\ NoneAbsent(t, presence) /\ Spanned(t, model', listed')
      /\ AllPresent(t, presence, excused')
  BY <1>2, <1>3, <1>4, OverridesKeep
<1> HIDE DEF t
<1>6. graph' = t
  BY <1>1 DEF Become
<1> QED BY <1>0, <1>1, <1>5, <1>6 DEF AuxInv

-----------------------------------------------------------------------------
(* An old cache's devices, and the invariant in every state.                 *)
LEMMA LegacyIsOld ==
  ASSUME NEW d, LegacyDevice(d)
  PROVE  d \in AuxDevices /\ d.aux = NoAux /\ ~d.synth
<1>0. PICK a \in 0 .. 31 : \E hw \in {<<>>, EnumName(a)}, label \in Names \cup {EnumName(a)} :
        d = Device(d.id, NoAux, hw, label, FALSE, "unknown")
  BY DEF LegacyDevice
<1>1. PICK hw \in {<<>>, EnumName(a)}, label \in Names \cup {EnumName(a)} :
        d = Device(d.id, NoAux, hw, label, FALSE, "unknown")
  BY <1>0
<1>2. hw \in Texts /\ label \in Texts
  BY TextsAre
<1>3. d.id \in Nat \ (0 .. 31)
  BY DEF LegacyDevice
<1> DEFINE i == d.id
<1>4. d = [id |-> i, aux |-> NoAux, hw |-> hw, label |-> label, synth |-> FALSE, status |-> "unknown"]
  BY <1>1 DEF Device
<1> HIDE DEF i
<1>5. d.aux = NoAux /\ d.hw = hw /\ d.label = label /\ ~d.synth
  BY <1>4
<1>6. d \in AuxRecords
  <2>1. i \in Nat
    BY <1>3 DEF i
  <2> HIDE DEF Texts
  <2> QED BY <1>2, <1>4, <2>1 DEF AuxRecords, Statuses3
<1>7. OfOldCache(d)
  BY <1>1, <1>3, <1>5 DEF OfOldCache
<1> QED BY <1>5, <1>6, <1>7 DEF AuxDevices

LEMMA AuxInitInv ==
  ASSUME AuxInit
  PROVE  AuxInv
<1>1. /\ graph \in Legacy /\ model.centers = 0 /\ presence = [a \in Aux |-> "auto"]
  BY DEF AuxInit
<1>2. /\ graph \in Seq(DevicesOf(graph)) /\ \A d \in DevicesOf(graph) : LegacyDevice(d)
      /\ \A i, j \in DOMAIN graph : i # j => graph[i].id # graph[j].id /\ graph[i].label # graph[j].label
  BY <1>1, AuxConstants
<1>3. \A d \in DevicesOf(graph) : d \in AuxDevices /\ d.aux = NoAux /\ ~d.synth
  BY <1>2, LegacyIsOld
<1>4. graph \in Seq(AuxDevices)
  BY <1>2, <1>3
<1>5. graph \in AuxGraphs
  BY <1>2, <1>4 DEF AuxGraphs, IdsDiffer
<1>6. LabelsDiffer(graph)
  BY <1>2 DEF LabelsDiffer, DevicesOf
<1>7. Single(graph) /\ NoneAbsent(graph, presence) /\ AllPresent(graph, presence, excused)
  BY <1>1, <1>3 DEF Single, NoneAbsent, AllPresent
<1>8. Spanned(graph, model, listed)
  BY <1>1, NothingOutside
<1> QED BY <1>1, <1>5, <1>6, <1>7, <1>8 DEF AuxInv

LEMMA AuxNextInv ==
  ASSUME AuxInv, [AuxNext]_auxVars
  PROVE  AuxInv'
<1>1. ASSUME NEW a \in Aux, NEW status \in {"off", "on"}, AdapterStatus(a, status) PROVE AuxInv'
  BY <1>1, AdapterStatusKeeps
<1>2. ASSUME NEW a \in Aux, NEW status \in {"off", "on"}, NEW name \in Names \cup {<<>>}, IaqStatus(a, status, name) PROVE AuxInv'
  BY <1>2, IaqStatusKeeps
<1>3. ASSUME NEW a \in Aux, NEW status \in {"off", "on"}, EquipmentOnOff(EnumName(a), status) PROVE AuxInv'
  BY <1>3, EquipmentOnOffKeeps
<1>4. ASSUME NEW a \in Aux, NEW label \in Names \cup {EnumName(a)}, LabelAux(a, label) PROVE AuxInv'
  BY <1>4, LabelAuxKeeps
<1>5. ASSUME NEW m \in Models, DecodePanelConfiguration(m) PROVE AuxInv'
  BY <1>5, DecodePanelConfigurationKeeps
<1>6. CASE RequestFullRediscovery
  BY <1>6, RequestFullRediscoveryKeeps
<1>7. ASSUME NEW a \in Aux, NEW requested \in {"auto", "present", "absent"}, HandlePut(a, requested) PROVE AuxInv'
  BY <1>7, HandlePutKeeps
<1>8. CASE Restart
  BY <1>8, RestartKeeps
<1>9. CASE UNCHANGED auxVars
  BY <1>9 DEF auxVars, AuxInv, AuxGraphs, IdsDiffer, LabelsDiffer, Single, NoneAbsent, Spanned, AllPresent, Covered, DevicesOf
<1> QED BY <1>1, <1>2, <1>3, <1>4, <1>5, <1>6, <1>7, <1>8, <1>9 DEF AuxNext

LEMMA AuxInvIsSafe ==
  ASSUME AuxInv
  PROVE  AuxSafe
<1>0. /\ graph \in AuxGraphs /\ presence \in [Aux -> {"auto", "present", "absent"}]
      /\ Single(graph) /\ NoneAbsent(graph, presence) /\ Spanned(graph, model, listed)
      /\ AllPresent(graph, presence, excused)
  BY DEF AuxInv
<1>1. /\ \A i \in DOMAIN graph : graph[i] \in DevicesOf(graph) /\ graph[i] \in AuxDevices
      /\ \A i, j \in DOMAIN graph : i # j => graph[i].id # graph[j].id
      /\ \A a : Has(graph, a) <=> \E d \in DevicesOf(graph) : d.id = a
  BY <1>0, GraphFacts DEF DevicesOf, IdsDiffer
<1>2. AuxTypeOK
  <2>1. ASSUME NEW d \in AuxDevices
        PROVE  d.aux \in {NoAux} \cup Aux /\ (d.aux # NoAux => d.id = d.aux /\ d.hw = EnumName(d.aux))
    BY DeviceFacts DEF OfRelay, OfOldCache
  <2> QED BY <1>0, <1>1, <2>1 DEF AuxTypeOK
<1>3. OneDevicePerAux
  BY <1>0, <1>1 DEF OneDevicePerAux, Single
<1>4. ForcedAbsentGone
  BY <1>0, <1>1 DEF ForcedAbsentGone, IsForcedAbsent, NoneAbsent
<1>5. PhantomsGone
  BY <1>0, <1>1 DEF PhantomsGone, Spanned
<1>6. ForcedPresentStays
  BY <1>0, <1>1 DEF ForcedPresentStays, IsForcedPresent, AllPresent, Covered, DevicesOf
<1> QED BY <1>2, <1>3, <1>4, <1>5, <1>6, NamesAreParsed DEF AuxSafe

(* Whatever the sources report in whatever order, however the operator       *)
(* overrules them and whatever an old cache restores: every relay has at     *)
(* most one reported device, one declared absent has none, one declared      *)
(* present keeps one, and what the panel cannot have was named, declared or  *)
(* listed.                                                                   *)
THEOREM AuxiliariesAreSafe == AuxSpec => []AuxSafe
<1>1. AuxInit => AuxInv
  BY AuxInitInv
<1>2. AuxInv /\ [AuxNext]_auxVars => AuxInv'
  BY AuxNextInv
<1>3. AuxInv => AuxSafe
  BY AuxInvIsSafe
<1> QED BY <1>1, <1>2, <1>3, PTL DEF AuxSpec

-----------------------------------------------------------------------------
(* The owner's names, through the reports, the version page and a restart.   *)
BearsName(s, b) == \E e \in DevicesOf(s) : HasCustomLabel(e) /\ ResolveAuxId(e) = b

LEMMA NamedIs ==
  ASSUME NEW s, NEW b
  PROVE  b \in Named(s) <=> b # NoAux /\ BearsName(s, b)
BY DEF Named, BearsName, DevicesOf

LEMMA NoTwins ==
  ASSUME NEW s, NEW b, b \notin Sharing(s), NEW e \in DevicesOf(s), ResolveAuxId(e) = b, NEW d \in DevicesOf(s), d # e
  PROVE  ~Twins(e, d)
<1>1. PICK i \in DOMAIN s : e = s[i]
  BY DEF DevicesOf
<1>2. PICK j \in DOMAIN s : d = s[j]
  BY DEF DevicesOf
<1>3. j \in DOMAIN s \ {i}
  BY <1>1, <1>2
<1> QED BY <1>1, <1>2, <1>3 DEF Sharing

(* The label of the device a report is about.                                *)
LabelOf(s, k, a) ==
  /\ \A d \in DevicesOf(s) : d.id = a => k.label = d.label
  /\ ~Has(s, a) => k.label = EnumName(a)

LEMMA FoundLabel ==
  ASSUME NEW s \in AuxGraphs, NEW a \in Aux, NEW status \in Statuses3
  PROVE  LabelOf(s, FindOrCreate(s, a, status), a)
<1>1. CASE Has(s, a)
  <2>1. FindById(s, a) \in DevicesOf(s) /\ FindById(s, a) \in AuxDevices /\ FindById(s, a).id = a
    BY <1>1, FoundById, GraphFacts
  <2>2. EnsureAuxIdentity(FindById(s, a), a).label = FindById(s, a).label
    BY <2>1, EnsureFacts
  <2>3. \A d \in DevicesOf(s) : d.id = a => d = FindById(s, a)
    BY <2>1, GraphFacts
  <2> QED BY <1>1, <2>2, <2>3 DEF FindOrCreate, LabelOf
<1>2. CASE ~Has(s, a)
  <2>1. FindOrCreate(s, a, status).label = EnumName(a)
    BY <1>2 DEF FindOrCreate, SerialAdapterDevice_CreateDevice, Device
  <2>2. \A d \in DevicesOf(s) : d.id # a
    BY <1>2, GraphFacts
  <2> QED BY <2>1, <2>2 DEF LabelOf
<1> QED BY <1>1, <1>2

(* A named device that a report removes is a placeholder of the relay        *)
(* reported, and nothing keeps the relay's own device out of the graph.      *)
LEMMA RemovedName ==
  ASSUME NEW s \in AuxGraphs, NEW a \in Aux, NEW k \in AuxDevices, k.id = a, LabelOf(s, k, a),
         NEW e \in DevicesOf(s), e.label \in Names, e.id # a, e.aux = NoAux, OrphanBelongsToAux(e, k.label, a),
         \A d \in DevicesOf(s) : d # e => ~Twins(e, d)
  PROVE  /\ ResolveAuxId(e) = a
         /\ Has(s, a) \/ \A d \in DevicesOf(s) : d.label # k.label
<1>0. /\ e \in AuxDevices /\ a \in 0 .. 31 /\ a # NoAux
      /\ ParseAuxId(EnumName(a)) = a /\ EnumName(a) \notin Names /\ (\A n \in Names : ParseAuxId(n) = NoAux)
  BY GraphFacts, RelaysAre, NamesDiffer, AuxConstants
<1>1. e.label # k.label
  <2>1. CASE Has(s, a)
    <3>1. PICK d \in DevicesOf(s) : d.id = a
      BY <2>1, GraphFacts
    <3> QED BY <3>1 DEF LabelOf, Twins
  <2>2. CASE ~Has(s, a)
    BY <1>0, <2>2 DEF LabelOf
  <2> QED BY <2>1, <2>2
<1>2. ParseAuxId(e.label) = NoAux /\ ParseAuxId(e.hw) = a
  BY <1>0, <1>1 DEF OrphanBelongsToAux
<1>3. ResolveAuxId(e) = a
  BY <1>0, <1>2 DEF ResolveAuxId
<1>4. ASSUME ~Has(s, a), NEW d \in DevicesOf(s), d.label = k.label PROVE FALSE
  <2>1. d.label = EnumName(a) /\ d \in AuxDevices /\ d.id # a
    BY <1>4, GraphFacts DEF LabelOf
  <2>2. ResolveAuxId(d) = a /\ (d.id \in Aux => a = d.id)
    BY <1>0, <2>1, ResolveFacts
  <2>3. d.aux = NoAux
    BY <2>1, <2>2, DeviceFacts DEF OfOldCache
  <2>4. d # e
    BY <1>1, <1>4
  <2> QED BY <1>3, <2>2, <2>3, <2>4 DEF Twins
<1> QED BY <1>3, <1>4

LEMMA ReportKeepsNames ==
  ASSUME AuxInv, NEW a \in Aux, NEW k \in AuxDevices, k.id = a, k.aux = a, LabelOf(graph, k, a),
         NEW b, b \in Named(graph), b \notin Sharing(graph)
  PROVE  BearsName(Touch(graph, a, k).devs, b)
<1> DEFINE r == Touch(graph, a, k)
<1>0. graph \in AuxGraphs /\ LabelsDiffer(graph)
  BY DEF AuxInv
<1>1. r \in Kept(a) /\ Reported(graph, k.label, r.devs, a)
  BY <1>0, TouchFacts
<1>2. /\ r.keep.label = k.label \/ r.keep.label \in Names
      /\ Has(graph, a) \/ (\A e \in DevicesOf(graph) : e.label # k.label) => r.keep \in DevicesOf(r.devs)
      /\ \A e \in DevicesOf(graph) : e.id # a /\ e \notin DevicesOf(r.devs) /\ e.label \in Names => r.keep.label \in Names
  BY <1>0, TouchKeepsNames
<1> HIDE DEF r
<1>3. PICK e \in DevicesOf(graph) : HasCustomLabel(e) /\ ResolveAuxId(e) = b
  BY NamedIs DEF BearsName
<1>4. e \in AuxDevices /\ e.label \in Names
  BY <1>0, <1>3, GraphFacts, CustomIsAName
<1>5. r.keep \in AuxDevices /\ r.keep.id = a /\ ResolveAuxId(r.keep) = a
  <2>1. r.keep \in AuxDevices /\ r.keep.id = a
    BY <1>1 DEF Kept
  <2> QED BY <2>1, ResolveFacts
<1>6. CASE e \in DevicesOf(r.devs)
  BY <1>3, <1>6 DEF BearsName, r
<1>7. CASE e \notin DevicesOf(r.devs) /\ e.id = a
  <2>1. Has(graph, a) /\ k.label = e.label
    BY <1>0, <1>7, GraphFacts DEF LabelOf
  <2>2. r.keep \in DevicesOf(r.devs) /\ HasCustomLabel(r.keep)
    BY <1>2, <1>4, <1>5, <2>1, CustomIsAName
  <2>3. b = a
    BY <1>3, <1>4, <1>7, ResolveFacts
  <2> QED BY <1>5, <2>2, <2>3 DEF BearsName, r
<1>8. CASE e \notin DevicesOf(r.devs) /\ e.id # a
  <2>1. e.aux = NoAux /\ OrphanBelongsToAux(e, k.label, a)
    BY <1>1, <1>8 DEF Reported
  <2>2. \A d \in DevicesOf(graph) : d # e => ~Twins(e, d)
    BY <1>3, NoTwins
  <2>3. /\ ResolveAuxId(e) = a
        /\ Has(graph, a) \/ \A d \in DevicesOf(graph) : d.label # k.label
    BY <1>0, <1>4, <1>8, <2>1, <2>2, RemovedName
  <2>4. r.keep \in DevicesOf(r.devs) /\ HasCustomLabel(r.keep)
    BY <1>2, <1>4, <1>5, <1>8, <2>3, CustomIsAName
  <2> QED BY <1>3, <1>5, <2>3, <2>4 DEF BearsName, r
<1> QED BY <1>6, <1>7, <1>8

(* The same of the version page and of a restart.                            *)
LEMMA PruneKeepsNames ==
  ASSUME AuxInv, NEW m, NEW b, b \in Named(graph)
  PROVE  BearsName(PruneAuxillariesOutsideSpan(m), b)
<1>0. graph \in AuxGraphs
  BY DEF AuxInv
<1>1. PICK e \in DevicesOf(graph) : HasCustomLabel(e) /\ ResolveAuxId(e) = b
  BY NamedIs DEF BearsName
<1> DEFINE staying == {d \in DevicesOf(graph) : ~Outside(m, d) \/ HasCustomLabel(d)}
<1>2. e \in staying
  BY <1>1
<1>3. PruneAuxillariesOutsideSpan(m) = Keeping(graph, staying)
  BY DEF PruneAuxillariesOutsideSpan
<1> HIDE DEF staying
<1>4. e \in DevicesOf(PruneAuxillariesOutsideSpan(m))
  BY <1>0, <1>2, <1>3, KeepingFacts
<1> QED BY <1>1, <1>4 DEF BearsName

LEMMA RestartKeepsNames ==
  ASSUME AuxInv, NEW b, b \in Named(graph), b \notin Sharing(graph), ~IsForcedAbsent(b)
  PROVE  BearsName(ApplyPresenceOverrides(ApplySnapshot(graph), presence), b)
<1> DEFINE q == ApplySnapshot(graph)
           t == ApplyPresenceOverrides(q, presence)
<1>0. graph \in AuxGraphs
  BY DEF AuxInv
<1>1. PICK e \in DevicesOf(graph) : HasCustomLabel(e) /\ ResolveAuxId(e) = b
  BY NamedIs DEF BearsName
<1>2. e \in AuxDevices /\ e.label \in Names /\ b # NoAux
  BY <1>0, <1>1, GraphFacts, CustomIsAName, NamedIs
<1>3. PICK i \in DOMAIN graph : e = graph[i]
  BY DEF DevicesOf
<1>4. ParseAuxId(e.label) = NoAux
  BY <1>1 DEF HasCustomLabel
<1>5. ParseAuxId(e.hw) = b /\ e.hw # <<>> /\ (e.id \in Aux => e.id = b)
  <2>1. CASE e.id \in Aux
    <3>1. ResolveAuxId(e) = e.id /\ e.hw = EnumName(e.id) /\ e.id \in 0 .. 31
      BY <1>2, <2>1, ResolveFacts, DeviceFacts, RelaysAre DEF OfRelay
    <3> QED BY <1>1, <3>1, NamesDiffer
  <2>2. CASE e.id \notin Aux
    <3>1. e.aux = NoAux
      BY <1>2, <2>2, DeviceFacts DEF OfOldCache
    <3>2. ParseAuxId(e.hw) = b
      BY <1>1, <1>2, <1>4, <3>1 DEF ResolveAuxId
    <3> QED BY <1>2, <2>2, <3>2, NoTextParses
  <2> QED BY <2>1, <2>2
<1>6. \A j \in DOMAIN graph : j # i => graph[j].label # graph[i].label
  <2> SUFFICES ASSUME NEW j \in DOMAIN graph, j # i, graph[j].label = graph[i].label PROVE FALSE
    OBVIOUS
  <2>1. graph[j] \in DevicesOf(graph) /\ graph[j] # e
    BY <1>0, <1>3, GraphFacts DEF DevicesOf, IdsDiffer
  <2>2. ~Twins(e, graph[j])
    BY <1>1, <2>1, NoTwins
  <2> QED BY <1>3, <2>2 DEF Twins
<1>7. Restored(e) \in DevicesOf(q)
  BY <1>0, <1>3, <1>5, <1>6, SnapshotRestores
<1>8. q \in AuxGraphs
  BY <1>0, GraphFacts, SnapshotIsFresh DEF FreshGraphs
<1> HIDE DEF q
<1>9. \A d : d \in DevicesOf(q) /\ d \notin DevicesOf(t) => d.id \in Aux /\ presence[d.id] = "absent"
  BY <1>8, AppliedFacts
<1>10. /\ Restored(e).id = e.id /\ Restored(e).aux = NoAux /\ Restored(e).hw = e.hw /\ Restored(e).label = e.label
  BY DEF Restored, Device
<1>11. Restored(e) \in DevicesOf(t)
  BY <1>5, <1>7, <1>9, <1>10 DEF IsForcedAbsent
<1>12. HasCustomLabel(Restored(e)) /\ ResolveAuxId(Restored(e)) = b
  BY <1>2, <1>4, <1>5, <1>10 DEF HasCustomLabel, ResolveAuxId
<1> QED BY <1>11, <1>12 DEF BearsName, q

(* One step.                                                                 *)
KeepsNames ==
  \A a \in Named(graph) : a \in Named(graph') \cup Sharing(graph) \/ IsForcedAbsent(a)

LEMMA NamesStay ==
  ASSUME NEW t, graph' = t, \A b \in Named(graph) : b \notin Sharing(graph) /\ ~IsForcedAbsent(b) => BearsName(t, b)
  PROVE  KeepsNames
BY NamedIs DEF KeepsNames

LEMMA ReadingKeepsNames ==
  ASSUME AuxInv, NEW a \in Aux, NEW status \in {"off", "on"},
         graph' = Touch(graph, a, Reading(FindOrCreate(graph, a, status), status)).devs
  PROVE  KeepsNames
<1> DEFINE d == FindOrCreate(graph, a, status)
           k == Reading(d, status)
<1>0. graph \in AuxGraphs /\ status \in Statuses3
  BY DEF AuxInv, Statuses3
<1>1. d \in AuxDevices /\ d.id = a /\ LabelOf(graph, d, a)
  BY <1>0, FoundByRelay, FoundLabel
<1>2. k \in AuxDevices /\ k.id = a /\ k.aux = a
  BY <1>0, FoundFacts
<1> HIDE DEF d
<1>3. k.label = d.label
  BY <1>0, <1>1, ReadingFacts
<1> HIDE DEF k
<1>4. LabelOf(graph, k, a)
  BY <1>1, <1>3 DEF LabelOf
<1> DEFINE t == Touch(graph, a, k).devs
<1>5. \A b \in Named(graph) : b \notin Sharing(graph) => BearsName(t, b)
  BY <1>2, <1>4, ReportKeepsNames
<1>6. graph' = t
  BY DEF k, d
<1> HIDE DEF t
<1> QED BY <1>5, <1>6, NamesStay

LEMMA AdapterKeepsNames ==
  ASSUME AuxInv, NEW a \in Aux, NEW status \in {"off", "on"}, AdapterStatus(a, status)
  PROVE  KeepsNames
BY ReadingKeepsNames DEF AdapterStatus, Become, Reading

LEMMA EquipmentPageKeepsNames ==
  ASSUME AuxInv, NEW a \in Aux, NEW status \in {"off", "on"}, EquipmentOnOff(EnumName(a), status)
  PROVE  KeepsNames
<1>0. ParseAuxId(EnumName(a)) = a /\ a # NoAux
  BY RelaysAre, NameParses
<1>1. CASE ~IsForcedAbsent(a)
  <2>1. graph' = Touch(graph, a, Reading(FindOrCreate(graph, a, status), status)).devs
    BY <1>0, <1>1 DEF EquipmentOnOff, Become, Reading
  <2> QED BY <2>1, ReadingKeepsNames
<1>2. CASE IsForcedAbsent(a)
  <2> DEFINE t == GraphRemove(graph, a)
  <2>1. graph' = t
    BY <1>0, <1>2 DEF EquipmentOnOff, Become
  <2>2. graph \in AuxGraphs /\ NoneAbsent(graph, presence)
    BY DEF AuxInv
  <2>3. \A d : d \in DevicesOf(t) <=> d \in DevicesOf(graph) /\ d.id # a
    BY <2>2, GraphRemoveFacts
  <2> HIDE DEF t
  <2>4. \A d \in DevicesOf(graph) : d \in DevicesOf(t)
    BY <1>2, <2>2, <2>3 DEF NoneAbsent, IsForcedAbsent
  <2>5. \A b \in Named(graph) : BearsName(t, b)
    BY <2>4, NamedIs DEF BearsName
  <2> QED BY <2>1, <2>5, NamesStay
<1> QED BY <1>1, <1>2

(* A name the owner gave a relay outlives the reports on any relay, the      *)
(* version page and a restart, unless two devices of the graph share the     *)
(* name or an old cache had two devices for the relay, or the operator       *)
(* declared the relay absent.                                                *)
THEOREM NamesAreKept == AuxSpec => LabelsNotLost
<1> DEFINE Step ==
      \/ \E a \in Aux, status \in {"off", "on"} : AdapterStatus(a, status) \/ EquipmentOnOff(EnumName(a), status)
      \/ \E m \in Models : DecodePanelConfiguration(m)
      \/ Restart
<1>1. AuxInit => AuxInv
  BY AuxInitInv
<1>2. AuxInv /\ [AuxNext]_auxVars => AuxInv'
  BY AuxNextInv
<1>3. AuxInv /\ Step => KeepsNames
  <2>1. ASSUME AuxInv, NEW m, DecodePanelConfiguration(m) PROVE KeepsNames
    <3>1. graph' = PruneAuxillariesOutsideSpan(m)
      BY <2>1 DEF DecodePanelConfiguration, Become
    <3> QED BY <2>1, <3>1, PruneKeepsNames, NamesStay
  <2>2. ASSUME AuxInv, Restart PROVE KeepsNames
    <3>1. graph' = ApplyPresenceOverrides(ApplySnapshot(graph), presence)
      BY <2>2 DEF Restart, Become
    <3> QED BY <2>2, <3>1, RestartKeepsNames, NamesStay
  <2> QED BY <2>1, <2>2, AdapterKeepsNames, EquipmentPageKeepsNames
<1>4. AuxInv => [Step => KeepsNames]_auxVars
  BY <1>3
<1> HIDE DEF Step
<1>5. AuxSpec => [][Step => KeepsNames]_auxVars
  BY <1>1, <1>2, <1>4, PTL DEF AuxSpec
<1> QED BY <1>5 DEF LabelsNotLost, Step, KeepsNames
=============================================================================
