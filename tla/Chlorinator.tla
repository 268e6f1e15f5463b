---------------------------- MODULE Chlorinator ----------------------------
(* The salt cell: the frames it puts on the bus, the median filter and the   *)
(* dwell that keep a noisy cell from flapping on the screen, the silence     *)
(* watchdog, the setpoints that the menu pages and accepted commands write,  *)
(* and the snapshot that the main loop publishes once a second.              *)
EXTENDS Naturals, Sequences, FiniteSets, SequencesExt

CONSTANTS PPMFrames,       \* the PPM frames of the cell: a salt reading and status flags
          SaltWindow,      \* SALT_MEDIAN_WINDOW (31 in the code)
          RaiseFrames,     \* HEALTH_RAISE_FRAMES (2)
          ClearFrames,     \* HEALTH_CLEAR_FRAMES (15)
          MaxCellFrames,   \* bound on the PPM frames a behaviour delivers
          MaxCellOthers    \* bound on the other frames, pages and commands

VARIABLES cell,          \* the emulator's view: window, dwell and watchdog
          salt,          \* SaltLevel of the hub
          chlor,         \* the chlorinator device of the hub
          surroundings,  \* which body is active, and the filter pump
          lastChlor,     \* m_LastPublishedChlorinator
          toldChlor,     \* the chlorinator a subscriber knows
          streak,        \* history: the health of the latest frames, and how many
          cellFrames,    \* the frames and
          cellOthers     \* the other inputs still to come

chlorVars == <<cell, salt, chlor, surroundings, lastChlor, toldChlor, streak,
               cellFrames, cellOthers>>

NoPercent == 255
Percents  == {0, 1, 100, NoPercent}
Severity  == <<"CheckPCB", "GeneralFault", "HighCurrent", "LowVoltage", "NoFlow", "HighSalt",
               "LowSalt", "CleanCell", "LowTemperature", "TurningOff", "On", "Unknown">>
Flags     == ToSet(Severity) \cup {"Off"}
Salts     == {m.salt : m \in PPMFrames}

ASSUME CellConstants ==
    /\ SaltWindow \in Nat \ {0} /\ RaiseFrames \in Nat \ {0}
    /\ ClearFrames \in Nat /\ RaiseFrames <= ClearFrames
    /\ \A m \in PPMFrames : m.salt \in Nat /\ m.flags \subseteq Flags
    /\ MaxCellFrames \in Nat /\ MaxCellOthers \in Nat

-----------------------------------------------------------------------------
(* From the flags of a frame to a health.                                    *)
SeverityRank(f) == IF f = "Off" THEN 11 ELSE CHOOSE i \in 1..Len(Severity) : Severity[i] = f

WorstOf(flags) ==
    IF flags = {} THEN "Unknown"
    ELSE CHOOSE f \in flags : \A g \in flags : SeverityRank(f) <= SeverityRank(g)

ConvertToChlorinatorHealthStatus(f) == IF f \in {"On", "Off"} THEN "Ok" ELSE f

IsConcerningHealth(h) == h \notin {"Ok", "TurningOff"}

IsFaulted(h) == h \notin {"NoFlow", "Ok", "TurningOff", "Unknown"}

(* Dwell: a new health is shown once it has been seen often enough in a row; *)
(* clearing a concern takes longer than raising one.  "changed" says whether *)
(* the hub is written at all.                                                *)
DwellThreshold(shown, raw) ==
    IF IsConcerningHealth(shown) /\ ~IsConcerningHealth(raw) THEN ClearFrames ELSE RaiseFrames

HoldShown(c) == [cell |-> c, changed |-> FALSE]

Show(c, raw) ==
    [cell |-> [c EXCEPT !.init = TRUE, !.shown = raw, !.candidate = raw, !.count = 0],
     changed |-> TRUE]

(* Mutant: an undecodable frame interrupts the dwell.                        *)
DwellInterrupted(c, raw) ==
    IF raw = "Unknown" THEN HoldShown([c EXCEPT !.count = 0])
    ELSE IF ~c.init THEN Show(c, raw)
    ELSE IF raw = c.shown THEN HoldShown([c EXCEPT !.candidate = raw, !.count = 0])
    ELSE LET n == IF raw = c.candidate THEN c.count + 1 ELSE 1
         IN  IF n >= DwellThreshold(c.shown, raw) THEN Show(c, raw)
             ELSE HoldShown([c EXCEPT !.candidate = raw, !.count = n])

(* Mutant: the count of one candidate is carried over to the next.           *)
DwellCarried(c, raw) ==
    IF raw = "Unknown" THEN HoldShown(c)
    ELSE IF ~c.init THEN Show(c, raw)
    ELSE IF raw = c.shown THEN HoldShown([c EXCEPT !.candidate = raw, !.count = 0])
    ELSE IF c.count + 1 >= DwellThreshold(c.shown, raw) THEN Show(c, raw)
    ELSE HoldShown([c EXCEPT !.candidate = raw, !.count = @ + 1])

DwellChlorinatorHealth(c, raw) ==
    IF raw = "Unknown" THEN HoldShown(c)
    ELSE IF ~c.init THEN Show(c, raw)
    ELSE IF raw = c.shown THEN HoldShown([c EXCEPT !.candidate = raw, !.count = 0])
    ELSE LET n == IF raw = c.candidate THEN c.count + 1 ELSE 1
         IN  IF n >= DwellThreshold(c.shown, raw) THEN Show(c, raw)
             ELSE HoldShown([c EXCEPT !.candidate = raw, !.count = n])

(* Mutant: the window does not forget its oldest sample.                     *)
WindowedForever(window, s) == Append(window, s)

(* The samples seen since the last silence, the newest last.                 *)
Windowed(window, s) ==
    LET w == Append(window, s)
    IN  IF Len(w) > SaltWindow THEN Tail(w) ELSE w

NewestOf(window) == window[Len(window)]      \* mutant: no filter at all

(* The sample with half of the window below it (the upper of two middles).   *)
MedianFilteredSalt(window) ==
    LET middle == Len(window) \div 2
        below(v) == Cardinality({i \in DOMAIN window : window[i] < v})
        upTo(v)  == Cardinality({i \in DOMAIN window : window[i] <= v})
    IN  CHOOSE v \in ToSet(window) : below(v) <= middle /\ middle < upTo(v)

-----------------------------------------------------------------------------
(* The hub's side.                                                           *)
NoDevice == [exists |-> FALSE, gen |-> NoPercent, boost |-> FALSE, last |-> NoPercent,
             pool |-> NoPercent, spa |-> NoPercent, status |-> "Unknown",
             health |-> "Unknown", flags |-> {"Unknown"}]

EnsureChlorinatorDeviceExists(d) ==
    IF d.exists THEN d ELSE [d EXCEPT !.exists = TRUE, !.status = "Off"]

(* The setpoint in force: the active body's, or else the other's, or else    *)
(* the last percentage the cell was seen to generate.                        *)
ChlorinatorResolvedSetpoint(d, around) ==
    LET mine  == IF around.spaActive THEN d.spa ELSE d.pool
        known == SelectSeq(<<mine, d.pool, d.spa, d.last>>, LAMBDA p : p # NoPercent)
    IN  IF known = <<>> THEN NoPercent ELSE Head(known)

ResolveGeneratingReason(gen, setpoint, health, pump) ==
    CASE gen \notin {0, NoPercent} -> "Generating"
      [] gen \in {0, NoPercent} /\ setpoint = NoPercent -> "Unknown"
      [] gen \in {0, NoPercent} /\ setpoint = 0 -> "Off"
      [] OTHER -> IF health = "NoFlow" THEN "NoFlow"
                  ELSE IF pump = "off" THEN "PumpOff"
                  ELSE IF IsFaulted(health) THEN "Fault" ELSE "Idle"

NotKnown == [exists |-> FALSE]

ChlorinatorSnapshot(d, around) ==
    IF ~d.exists THEN NotKnown
    ELSE LET setpoint == ChlorinatorResolvedSetpoint(d, around)
         IN  [exists |-> TRUE, gen |-> d.gen, status |-> d.status, health |-> d.health,
              flags |-> d.flags, pool |-> d.pool, spa |-> d.spa, setpoint |-> setpoint,
              reason |-> ResolveGeneratingReason(d.gen, setpoint, d.health, around.pump)]

(* Mutant: only the device's own traits are compared with the last snapshot, *)
(* not what the pump and the active body make of them.                       *)
PublishIfTraitsChanged(d, around) ==
    LET s == ChlorinatorSnapshot(d, around)
    IN  IF s.exists = lastChlor.exists /\ (s.exists => s.gen = lastChlor.gen /\ s.health = lastChlor.health)
        THEN UNCHANGED <<lastChlor, toldChlor>>
        ELSE lastChlor' = s /\ toldChlor' = s

(* An absent chlorinator at the first look is remembered but not announced.  *)
PublishChlorinatorStateIfChanged(d, around) ==
    LET s == ChlorinatorSnapshot(d, around)
    IN  /\ lastChlor' = s
        /\ toldChlor' = IF s = lastChlor THEN toldChlor ELSE s

-----------------------------------------------------------------------------
(* The frames of the cell.                                                   *)
SetGenerating(d, p, boost, service) ==
    LET clamped == IF service THEN 0 ELSE IF p > 100 THEN 100 ELSE p
    IN  [d EXCEPT !.gen = clamped, !.boost = boost,
                  !.last = IF ~boost /\ ~service /\ clamped >= 1 THEN clamped ELSE @]

Slot_Aquarite_Percent ==
    /\ cellOthers > 0 /\ cellOthers' = cellOthers - 1
    /\ \E p \in {0, 1, 101}, boost, service \in BOOLEAN :
          /\ boost <=> (p = 101)      \* boost is the percentage 101
          /\ service => p = 0         \* and service mode the percentage 255, read as 0
          /\ chlor' = SetGenerating(EnsureChlorinatorDeviceExists(chlor), p, boost, service)
    /\ cell' = [cell EXCEPT !.watching = TRUE]
    /\ UNCHANGED <<salt, surroundings, lastChlor, toldChlor, streak, cellFrames>>

Counted(raw) ==
    IF raw = "Unknown" THEN streak
    ELSE IF raw = streak.health THEN [streak EXCEPT !.n = IF @ > ClearFrames THEN @ ELSE @ + 1]
    ELSE [health |-> raw, n |-> 1]

(* The flags are written only in the frame that changes the displayed        *)
(* health; the status in every frame.                                        *)
Slot_Aquarite_PPM ==
    /\ cellFrames > 0 /\ cellFrames' = cellFrames - 1
    /\ \E m \in PPMFrames :
       \E raw \in {ConvertToChlorinatorHealthStatus(WorstOf(m.flags))} :
       \E dwell \in {DwellChlorinatorHealth(cell, raw)}, w \in {Windowed(cell.window, m.salt)} :
          /\ cell' = [dwell.cell EXCEPT !.window = w, !.watching = TRUE]
          /\ salt' = MedianFilteredSalt(w)
          /\ streak' = Counted(raw)
          /\ LET d == EnsureChlorinatorDeviceExists(chlor)
                 shown == IF dwell.changed
                          THEN [d EXCEPT !.health = raw,
                                         !.flags = {ConvertToChlorinatorHealthStatus(f) : f \in m.flags}]
                          ELSE d
             IN  chlor' = [shown EXCEPT !.status =
                              IF WorstOf(m.flags) \in {"Off", "TurningOff"} THEN "Off" ELSE "On"]
    /\ UNCHANGED <<surroundings, lastChlor, toldChlor, cellOthers>>

(* Thirty silent seconds.  The hub's chlorinator may be one that the menu    *)
(* made: the first one is marked whoever made it.                            *)
CellTimedOut ==
    /\ cell.watching
    /\ cell' = [cell EXCEPT !.watching = FALSE, !.init = FALSE, !.count = 0, !.window = <<>>]
    /\ chlor' = IF chlor.exists
                THEN [chlor EXCEPT !.status = "Off", !.health = "Unknown", !.flags = {"Unknown"}]
                ELSE chlor
    /\ streak' = [health |-> "Unknown", n |-> 0]
    /\ UNCHANGED <<salt, surroundings, lastChlor, toldChlor, cellFrames, cellOthers>>

(* The Set AquaPure page of a menu shows the setpoints the panel holds.      *)
PageProcessor_SetAquaPure ==
    /\ cellOthers > 0 /\ cellOthers' = cellOthers - 1
    /\ \E p, q \in {0, 1, NoPercent} :
          /\ p # NoPercent \/ q # NoPercent
          /\ chlor' = [EnsureChlorinatorDeviceExists(chlor) EXCEPT
                          !.pool = IF p = NoPercent THEN @ ELSE p,
                          !.spa  = IF q = NoPercent THEN @ ELSE q]
    /\ UNCHANGED <<cell, salt, surroundings, lastChlor, toldChlor, streak, cellFrames>>

(* A command that some controller accepted: the setpoint is written through  *)
(* and published at once, before the panel has confirmed it.                 *)
WriteThrough(p, body) ==
    IF chlor.exists THEN IF body = "spa" THEN [chlor EXCEPT !.spa = p] ELSE [chlor EXCEPT !.pool = p]
    ELSE chlor

DispatchPercentage ==
    /\ cellOthers > 0 /\ cellOthers' = cellOthers - 1
    /\ \E p \in {0, 1}, body \in {"pool", "spa"} :
          /\ chlor' = WriteThrough(p, body)
          /\ IF chlor.exists THEN PublishChlorinatorStateIfChanged(chlor', surroundings)
             ELSE UNCHANGED <<lastChlor, toldChlor>>
    /\ UNCHANGED <<cell, salt, surroundings, streak, cellFrames>>

(* The hub learns of the pump and of the active body from other frames.      *)
Elsewhere ==
    /\ cellOthers > 0 /\ cellOthers' = cellOthers - 1
    /\ \/ \E p \in {"running", "off"} : surroundings' = [surroundings EXCEPT !.pump = p]
       \/ surroundings' = [surroundings EXCEPT !.spaActive = ~@]
    /\ UNCHANGED <<cell, salt, chlor, lastChlor, toldChlor, streak, cellFrames>>

(* The main loop's push, once a second.                                      *)
ChlorinatorPush ==
    /\ PublishChlorinatorStateIfChanged(chlor, surroundings)
    /\ UNCHANGED <<cell, salt, chlor, surroundings, streak, cellFrames, cellOthers>>

CellInit ==
    /\ cell = [init |-> FALSE, shown |-> "Ok", candidate |-> "Ok", count |-> 0,
               window |-> <<>>, watching |-> FALSE]
    /\ salt = 0
    /\ chlor = NoDevice
    /\ surroundings \in [spaActive : {FALSE}, pump : {"none", "off"}]
    /\ lastChlor = NotKnown /\ toldChlor = NotKnown
    /\ streak = [health |-> "Unknown", n |-> 0]
    /\ cellFrames = MaxCellFrames /\ cellOthers = MaxCellOthers

CellNext ==
    \/ Slot_Aquarite_Percent \/ Slot_Aquarite_PPM \/ CellTimedOut
    \/ PageProcessor_SetAquaPure \/ DispatchPercentage
    \/ Elsewhere \/ ChlorinatorPush

CellFairness == WF_chlorVars(ChlorinatorPush)

CellSpec == CellInit /\ [][CellNext]_chlorVars /\ CellFairness

-----------------------------------------------------------------------------
(* Every member has its type: aquarite_device.h lines 80 to 110 and the      *)
(* chlorinator traits of the hub.                                            *)
CellTypeOK ==
    /\ Len(cell.window) <= SaltWindow /\ ToSet(cell.window) \subseteq Salts
    /\ cell.count \in 0..ClearFrames
    /\ cell.shown \in Flags \cup {"Ok"} /\ cell.candidate \in Flags \cup {"Ok"}
    /\ {chlor.gen, chlor.last, chlor.pool, chlor.spa} \subseteq Percents
    /\ chlor.last # 0
    /\ salt \in Salts \cup {0}
    /\ cellFrames \in 0..MaxCellFrames /\ cellOthers \in 0..MaxCellOthers

(* Subscribers catch up with the chlorinator as the hub derives it, whatever *)
(* changed: the cell, the setpoints, the pump or the active body.            *)
ChlorinatorCatchesUp == []<>(toldChlor = ChlorinatorSnapshot(chlor, surroundings))

(* A displayed health changes only after enough equal frames in a row, more  *)
(* of them when a concern is to be cleared (silence and the first frame      *)
(* after it excepted).                                                       *)
HealthSteady ==
    [][ (cell.init /\ cell'.init /\ chlor'.health # chlor.health) =>
          /\ streak'.health = chlor'.health
          /\ streak'.n >= DwellThreshold(chlor.health, chlor'.health) ]_chlorVars

(* No dwell hides a condition for good: a health that as many frames as      *)
(* clearing takes have carried is the health displayed.                      *)
PersistentHealthShown == streak.n >= ClearFrames => chlor.health = streak.health

(* One outlier never moves the salt level while all the other samples of a   *)
(* full window agree.                                                        *)
OutlierIgnored ==
    Len(cell.window) = SaltWindow /\ SaltWindow >= 3 =>
       \A i \in 1..SaltWindow :
          (\A j, k \in 1..SaltWindow \ {i} : cell.window[j] = cell.window[k])
             => salt = cell.window[IF i = 1 THEN 2 ELSE 1]

(* The filters of the cell's frames: neither a lone outlier is shown nor a   *)
(* lasting condition hidden.                                                 *)
CellSafe == CellTypeOK /\ PersistentHealthShown /\ OutlierIgnored

(* The display changes only on a run of equal frames, and subscribers catch  *)
(* up with it.                                                               *)
CellFollowed == ChlorinatorCatchesUp /\ HealthSteady
=============================================================================
