------------------------------ MODULE StartUp -------------------------------
(* The start-up of the emulation (--jandy-auto-startup): a serial adapter is *)
(* put on the bus at once, the master's frames are watched for what kind of  *)
(* controller it looks for, and a controller is emulated at an address no    *)
(* real device answers.  The watching, the once-a-second tick, the passive   *)
(* devices that the equipment adds for whatever address the master talks to, *)
(* and the relocation of an adapter that finds itself doubled all work on    *)
(* one table of devices.                                                     *)
EXTENDS Integers, Sequences, FiniteSets

CONSTANTS
  Layouts,      \* where real devices may answer: sets of bus addresses
  Habits,       \* what the master already converses with when we start
  Scanned,      \* the addresses the master talks to, of the classes below
  Firmware,     \* firmware revisions, A = 1 .. Z = 26; 0: not a revision
  MaxFrames     \* bound on the master's frames in a behaviour

VARIABLES
  starter,      \* the coordinator, its service and the service's timer
  watch,        \* what the environment has observed
  table,        \* EquipmentHub: address -> the device registered there
  bus           \* the master, the real devices and what they did (history)

startVars == <<starter, watch, table, bus>>

DETECTION_WINDOW_TICKS == 5

(* JandyDeviceType: the classes a controller can be emulated as, and the     *)
(* addresses the planner prefers within each.                                *)
InstanceAddresses == [IAQ |-> <<48, 49, 50, 51>>, OneTouch |-> <<64, 65, 66, 67>>,
                      PDA |-> <<96, 97, 98, 99>>, SerialAdapter |-> <<72, 73>>]
Preferred == [IAQ |-> <<51, 50, 49, 48>>, OneTouch |-> <<65, 64, 66>>,
              PDA |-> <<96, 97, 98, 99>>, SerialAdapter |-> <<72, 73>>]

Addresses(seq) == {seq[i] : i \in DOMAIN seq}

ASSUME StartUpConstants ==
  /\ Layouts \subseteq SUBSET Scanned /\ MaxFrames \in Nat
  /\ Firmware \subseteq 0..26
  /\ Scanned \subseteq UNION {Addresses(InstanceAddresses[c]) : c \in DOMAIN InstanceAddresses}

ClassOf(a) == CHOOSE c \in DOMAIN InstanceAddresses : a \in Addresses(InstanceAddresses[c])
IsController(a) == ClassOf(a) # "SerialAdapter"

Emulating(a) == a \in DOMAIN table /\ table[a].emulated /\ ~table[a].suppressed

-----------------------------------------------------------------------------
(* ParseRevisionLetter, DeriveRevisionCapabilities: 0 is not known.          *)
Letter(c) == CASE c = "I" -> 9 [] c = "Q" -> 17
AtLeast(rev, letter) == rev # 0 /\ rev >= Letter(letter)

MinRevision == [SerialAdapter |-> "I", OneTouch |-> "I", IAQ |-> "Q"]
GatedOut(rev, type) == rev # 0 /\ type \in DOMAIN MinRevision /\ ~AtLeast(rev, MinRevision[type])

Probes(type) == watch.probed \cap Addresses(InstanceAddresses[type]) # {}

HaveControllerSignal ==
  Probes("IAQ") \/ Probes("OneTouch") \/ Probes("PDA") \/ AtLeast(watch.revision, "Q")

(* SelectControllerEmulation: one kind is wanted, and if the revision is     *)
(* known to be too old for it none at all.                                   *)
Wanted ==
  IF Probes("IAQ") THEN "IAQ"
  ELSE IF Probes("OneTouch") THEN "OneTouch"
  ELSE IF Probes("PDA") THEN "PDA"
  ELSE IF AtLeast(watch.revision, "Q") THEN "IAQ"
  ELSE "ObserveOnly"

Plan == IF GatedOut(watch.revision, Wanted) THEN "ObserveOnly" ELSE Wanted

(* Mutant: whoever answered is not looked at.                                *)
NobodyOccupies == {}

(* Where a real device answered; our own emulations are never counted.       *)
OccupiedAddresses == watch.responded \ watch.ours

(* SelectFreeAddress; 0 when there is none.                                  *)
FirstFree(candidates, taken) ==
  LET free == {i \in DOMAIN candidates : candidates[i] \notin taken}
  IN  IF free = {} THEN 0 ELSE candidates[CHOOSE i \in free : \A j \in free : i <= j]

-----------------------------------------------------------------------------
(* A new device knows whether a real one had been heard at its address.      *)
Device(emulated, a) ==
  [emulated |-> emulated, suppressed |-> FALSE, claimed |-> FALSE, known |-> a \in bus.heard]

(* Mutant: a device takes the place of the one registered before it.         *)
AddOver(t, a, emulated) ==
  [x \in DOMAIN t \cup {a} |-> IF x = a THEN Device(emulated, a) ELSE t[x]]

(* AddDevice: an address that is registered keeps its device.                *)
AddDevice(t, a, emulated) ==
  [x \in DOMAIN t \cup {a} |-> IF x \in DOMAIN t THEN t[x] ELSE Device(emulated, a)]

(* EmulateDevice: the address counts as ours whether or not the hub took it. *)
EmulateDevice(t, a) == AddDevice(t, a, TRUE)

(* Mutant: an address where a real device answered is as good as another.    *)
RelocateOverReal(a) == FirstFree(InstanceAddresses[ClassOf(a)], watch.ours \cup {a})

RelocateEmulation(a) ==
  FirstFree(InstanceAddresses[ClassOf(a)], watch.ours \cup {a} \cup OccupiedAddresses)

(* Mutant: a device that moved goes on at its old address too.               *)
CollideStaying(t, a) ==
  LET to == RelocateEmulation(a)
  IN  IF to # 0 THEN EmulateDevice(t, to) ELSE [t EXCEPT ![a].suppressed = TRUE]

(* Mutant: the status push of somebody else is ignored.                      *)
CollideDeaf(t, a) == t

(* HandleEmulationCollision: moved or not, this instance is silent from now. *)
Collide(t, a) ==
  LET to == RelocateEmulation(a)
      moved == IF to # 0 THEN EmulateDevice(t, to) ELSE t
  IN  [moved EXCEPT ![a].suppressed = TRUE]

-----------------------------------------------------------------------------
(* StartupCoordinator::Begin, then the first tick: nothing has been observed *)
(* yet, so it only arms the timer.                                           *)
Start ==
  /\ starter.phase = "Idle"
  /\ table' = EmulateDevice(table, Preferred["SerialAdapter"][1])
  /\ watch' = [watch EXCEPT !.ours = @ \cup {Preferred["SerialAdapter"][1]}]
  /\ starter' = [starter EXCEPT !.phase = "Detecting", !.ticks = 1, !.timer = "armed"]
  /\ UNCHANGED bus

(* Engaging: the planned controller, at the first address that is free.      *)
Engage ==
  LET a == IF Plan = "ObserveOnly" THEN 0 ELSE FirstFree(Preferred[Plan], OccupiedAddresses)
  IN  /\ table' = IF a = 0 THEN table ELSE EmulateDevice(table, a)
      /\ watch' = IF a = 0 THEN watch ELSE [watch EXCEPT !.ours = @ \cup {a}]
      /\ starter' = [starter EXCEPT !.phase = "Running", !.timer = "none", !.ticks = @ + 1,
                       !.engaged = IF a = 0 THEN @ ELSE Append(@, a)]

(* Mutant: the window has elapsed when it has been exceeded.                 *)
TickLate ==
  IF starter.stopped THEN starter' = [starter EXCEPT !.timer = "none"] /\ UNCHANGED <<watch, table>>
  ELSE IF HaveControllerSignal \/ starter.ticks + 1 > DETECTION_WINDOW_TICKS THEN Engage
  ELSE starter' = [starter EXCEPT !.ticks = @ + 1, !.timer = "armed"] /\ UNCHANGED <<watch, table>>

(* Mutant: a handler that was queued when the service stopped still runs.    *)
TickStopped ==
  IF HaveControllerSignal \/ starter.ticks + 1 >= DETECTION_WINDOW_TICKS THEN Engage
  ELSE starter' = [starter EXCEPT !.ticks = @ + 1, !.timer = "armed"] /\ UNCHANGED <<watch, table>>

(* JandyStartupService::Tick with StartupCoordinator::Advance.               *)
Tick ==
  IF starter.stopped THEN starter' = [starter EXCEPT !.timer = "none"] /\ UNCHANGED <<watch, table>>
  ELSE IF HaveControllerSignal \/ starter.ticks + 1 >= DETECTION_WINDOW_TICKS THEN Engage
  ELSE starter' = [starter EXCEPT !.ticks = @ + 1, !.timer = "armed"] /\ UNCHANGED <<watch, table>>

(* A second passes: the handler is queued, and no cancel reaches it now.     *)
TimerExpires ==
  /\ starter.timer = "armed"
  /\ starter' = [starter EXCEPT !.timer = "queued"]
  /\ UNCHANGED <<watch, table, bus>>

HandlerRuns == starter.timer = "queued" /\ Tick /\ UNCHANGED bus

Stop ==
  /\ starter.phase # "Idle" /\ ~starter.stopped
  /\ starter' = [starter EXCEPT !.stopped = TRUE, !.left = starter.phase,
                   !.timer = IF @ = "armed" THEN "none" ELSE @]
  /\ UNCHANGED <<watch, table, bus>>

-----------------------------------------------------------------------------
(* The answer to a frame: a real device's reaches us, unless ours is sent    *)
(* over it.                                                                  *)
Heard(a) ==
  IF a \notin bus.real THEN {FALSE} ELSE IF Emulating(a) THEN BOOLEAN ELSE {TRUE}

(* An emulated adapter's first answer takes the address.                     *)
Claimed(t, a) ==
  IF IsController(a) \/ ~Emulating(a) \/ t[a].claimed THEN t
  ELSE [t EXCEPT ![a].claimed = TRUE, ![a].known = @ \/ a \in bus.heard]

(* An ack to the master is put down to the address that was probed last.     *)
Answered(probed, last, heard) ==
  [watch EXCEPT !.probed = probed, !.last = last,
                !.responded = IF heard /\ last # 0 THEN @ \cup {last} ELSE @]

MasterHears(a, heard) ==
  bus' = [bus EXCEPT !.frames = @ + 1,
            !.talks = IF a \in bus.real \/ Emulating(a) THEN @ \cup {a} ELSE @ \ {a},
            !.heard = IF heard THEN @ \cup {a} ELSE @]

(* A discovery probe, which every emulation answers.                         *)
Probe(a) ==
  /\ bus.frames < MaxFrames /\ starter.phase # "Idle"
  /\ \E heard \in Heard(a) :
        /\ watch' = Answered(watch.probed \cup {a}, a, heard)
        /\ MasterHears(a, heard)
  /\ table' = Claimed(table, a)
  /\ UNCHANGED starter

(* A frame of the conversation with a controller.  The equipment registers a *)
(* listener before anyone else sees it; IAQ_Poll and Status count as probes, *)
(* a line of text does not.                                                  *)
ControllerPoll(a) ==
  /\ bus.frames < MaxFrames /\ starter.phase # "Idle"
  /\ a \in bus.talks /\ IsController(a)
  /\ \E heard \in Heard(a), signs \in {{}, {a}} :
        /\ watch' = Answered(watch.probed \cup signs, watch.last, heard)
        /\ MasterHears(a, heard)
  /\ table' = AddDevice(table, a, FALSE)
  /\ UNCHANGED starter

(* The master's status push to a serial adapter.  To an emulation that has   *)
(* not sent anything yet it shows that a real adapter is there.              *)
AdapterStatus(a) ==
  /\ bus.frames < MaxFrames /\ starter.phase # "Idle"
  /\ a \in bus.talks /\ ~IsController(a)
  /\ \E t \in {AddDevice(table, a, FALSE)} :
        IF t[a].emulated /\ ~t[a].suppressed /\ ~t[a].claimed
        THEN LET to == RelocateEmulation(a)
             IN  /\ table' = Collide(t, a)
                 /\ watch' = [watch EXCEPT !.ours = IF to = 0 THEN @ ELSE @ \cup {to}]
        ELSE table' = t /\ UNCHANGED watch
  /\ bus' = [bus EXCEPT !.frames = @ + 1, !.heard = @ \cup ({a} \cap bus.real)]
  /\ UNCHANGED starter

(* The revision reaches the data hub from a page of a OneTouch or a PDA that *)
(* one of our devices, a listener included, has read.                        *)
LearnRevision ==
  /\ watch.revision # bus.firmware
  /\ \E a \in DOMAIN table \cap bus.talks : ClassOf(a) \in {"OneTouch", "PDA"}
  /\ watch' = [watch EXCEPT !.revision = bus.firmware]
  /\ UNCHANGED <<starter, table, bus>>

StartInit ==
  /\ starter = [phase |-> "Idle", ticks |-> 0, timer |-> "none", stopped |-> FALSE,
                left |-> "Idle", engaged |-> <<>>]
  /\ watch = [probed |-> {}, last |-> 0, responded |-> {}, ours |-> {}, revision |-> 0]
  /\ table = <<>>
  /\ \E real \in Layouts, habit \in Habits, firmware \in Firmware :
        bus = [real |-> real, firmware |-> firmware, frames |-> 0, heard |-> {},
               talks |-> IF habit = "warm" THEN real ELSE {}]

StartNext ==
  \/ Start \/ TimerExpires \/ HandlerRuns \/ Stop \/ LearnRevision
  \/ \E a \in Scanned : Probe(a) \/ ControllerPoll(a) \/ AdapterStatus(a)

StartSpec == StartInit /\ [][StartNext]_startVars
-----------------------------------------------------------------------------
(* The phases and the timer go together, and ours are where we put them.     *)
StartTypeOK ==
  /\ starter.phase \in {"Idle", "Detecting", "Running"}
  /\ starter.phase = "Idle" => starter.ticks = 0
  /\ DOMAIN table \subseteq UNION {Addresses(InstanceAddresses[c]) : c \in DOMAIN InstanceAddresses}
  /\ {a \in DOMAIN table : table[a].emulated} \subseteq watch.ours
  /\ watch.responded \subseteq watch.probed

(* Of each kind at most one of our devices transmits, however often it was   *)
(* relocated (Emulated::HandleEmulationCollision).                           *)
OneVoice ==
  \A a, b \in DOMAIN table :
    Emulating(a) /\ Emulating(b) /\ ClassOf(a) = ClassOf(b) => a = b

(* No emulation, planned or relocated, transmits at an address where a real  *)
(* device had been heard before it was put there, or before an adapter's     *)
(* first answer: because the planner leaves the address out, because the hub *)
(* already has a listener there, or because the adapter falls silent.        *)
KnownLeftAlone == \A a \in DOMAIN table : Emulating(a) => ~table[a].known

(* At most one controller is chosen, none once the service has stopped, and  *)
(* the choice is made by the end of the detection window.                    *)
DecidedOnce ==
  /\ Len(starter.engaged) <= 1
  /\ starter.stopped => starter.phase = starter.left
  /\ starter.ticks >= DETECTION_WINDOW_TICKS => starter.phase = "Running"

(* jandy_startup_types.h:45-47: "Address selection picks the first candidate *)
(* NOT already answered by a real device, so an emulated controller never    *)
(* collides with hardware on the bus."  A tick that falls into the master's  *)
(* scan decides before the rest of it has been answered.                     *)
NeverCollides == \A a \in bus.real : IsController(a) => ~Emulating(a)

StartUpSafe == StartTypeOK /\ OneVoice /\ KnownLeftAlone /\ DecidedOnce
=============================================================================
