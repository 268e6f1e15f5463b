------------------------------ MODULE SavedState ------------------------------
(***************************************************************************)
(* What the services keep in files of their own: the equipment cache       *)
(* (src/core/equipment_cache) and the preferences with the per-user store  *)
(* (src/core/preferences).                                                 *)
(***************************************************************************)
EXTENDS Integers, FiniteSets

(***************************************************************************)
(* The equipment cache: what was discovered is written to a file when a    *)
(* fingerprint of it has changed, looked at once a minute, and at a clean  *)
(* stop; a start restores it before discovery begins, so that the devices  *)
(* are known, under the same ids, at once.                                 *)
(***************************************************************************)

CONSTANTS Hardware,    \* ids derived from what a device is (DeriveStableUuid)
          MaxFinds, MaxTrouble \* bounds on the discoveries and on the failures and restarts

ASSUME EquipmentCacheAssumption == MaxFinds \in Nat /\ MaxTrouble \in Nat

VARIABLES hub,       \* the devices of the data hub, by id
          board,     \* DataHub::SystemBoard
          cacheFile, \* the file, "torn" when it cannot be parsed
          print,     \* m_LastFingerprint
          unsaved,   \* the last save failed or was cut short (history)
          mine,      \* the ids whose restored trait values are not confirmed by the panel yet (history)
          finds, trouble

cacheVars == <<hub, board, cacheFile, print, unsaved, mine, finds, trouble>>

\* A device: the label, whether it has a hardware label, whether it is a
\* generic auxiliary or the filter pump, and the pump's role
CachedDevice == [label : {"Aux1", "Pool Light", "Filter Pump"}, hw : BOOLEAN,
           kind : {"Auxillary", "Pump"}, role : {"none", "Filter"}]
Absent == [label |-> "", hw |-> FALSE, kind |-> "", role |-> ""]
Known(h) == {i \in Hardware : h[i] # Absent}

Setback == trouble < MaxTrouble /\ trouble' = trouble + 1
Fine == UNCHANGED trouble

-----------------------------------------------------------------------------
(* What is written                                                         *)

\* Snapshot: an auxiliary without identity is left out
\* a mutant of the next: every device is written
CachedAll(d) == d # Absent
Cached(d) == d # Absent /\ ~(d.kind = "Auxillary" /\ ~d.hw)
Snapshot(h, b) == [st |-> "readable", board |-> b, devices |-> [i \in Hardware |-> IF Cached(h[i]) THEN h[i] ELSE Absent]]

\* Fingerprint: every device's label, type and hardware label, in sorted
\* order: no ids and no roles
Fingerprint(h, b) ==
  <<b, [p \in {<<h[i].label, h[i].kind, h[i].hw>> : i \in Known(h)} |->
          Cardinality({i \in Known(h) : <<h[i].label, h[i].kind, h[i].hw>> = p})]>>

\* SaveNow: write and rename; a rename that fails leaves the file, a short
\* write is renamed over it
SaveNow ==
  \/ Fine /\ cacheFile' = Snapshot(hub, board) /\ unsaved' = FALSE
  \/ Setback /\ unsaved' = TRUE /\ cacheFile' \in {cacheFile, [cacheFile EXCEPT !.st = "torn"]}

\* a mutant of the next: the fingerprint is taken over before it is compared
ScheduleSaveNever ==
  /\ print # Fingerprint(hub, board)
  /\ print' = Fingerprint(hub, board)
  /\ UNCHANGED <<cacheFile, unsaved, trouble, hub, board, mine, finds>>
\* ScheduleSave, once a minute: the fingerprint counts as saved in any case
ScheduleSave ==
  /\ print # Fingerprint(hub, board)
  /\ SaveNow
  /\ print' = Fingerprint(hub, board)
  /\ UNCHANGED <<hub, board, mine, finds>>

-----------------------------------------------------------------------------
(* Discovery, which this component only watches                            *)

\* a device is found under its stable id, or found again: the panel's word
\* replaces what was restored
Discover ==
  /\ finds < MaxFinds /\ finds' = finds + 1
  /\ \E i \in Hardware, d \in CachedDevice :
       /\ d.kind = "Pump" <=> d.label = "Filter Pump"
       /\ d.role = "Filter" => d.kind = "Pump"
       /\ hub' = [hub EXCEPT ![i] = d]
       /\ mine' = mine \ {i}
  /\ UNCHANGED <<board, cacheFile, print, unsaved, trouble>>

DiscoverBoard ==
  /\ finds < MaxFinds /\ finds' = finds + 1
  /\ board' \in {"RS8", "PD8"}
  /\ UNCHANGED <<hub, cacheFile, print, unsaved, mine, trouble>>

-----------------------------------------------------------------------------
(* Start and stop                                                          *)

\* RestoreDeviceFromSnapshot: an id that is already there is skipped
Restore(h, i) == IF h[i] # Absent THEN h[i] ELSE cacheFile.devices[i]

\* AdoptUntypedFilterPumps
\* a mutant of the next: without a look at the label
AdoptAll(d) == [d EXCEPT !.role = "Filter"]
Adopt(d) == IF d.kind = "Pump" /\ d.label = "Filter Pump" THEN [d EXCEPT !.role = "Filter"] ELSE d

\* ApplySnapshot: the board only while it is unknown, then the devices
\* a mutant of the next: the roles are not filled in
ApplySnapshotBare(h, b) ==
  /\ hub' = [i \in Hardware |-> Restore(h, i)]
  /\ board' = IF b = "Unknown" THEN cacheFile.board ELSE b
ApplySnapshot(h, b) ==
  /\ hub' = [i \in Hardware |-> Adopt(Restore(h, i))]
  /\ board' = IF b = "Unknown" THEN cacheFile.board ELSE b

\* Load, at a start; the hub of a new process is empty
Nothing == [i \in Hardware |-> Absent]
LoadCache ==
  /\ IF cacheFile.st = "readable"
     THEN ApplySnapshot(Nothing, "Unknown")
     ELSE hub' = Nothing /\ board' = "Unknown"
  /\ print' = Fingerprint(hub', board')
  /\ mine' = Known(hub')

Kill ==
  /\ Setback
  /\ LoadCache
  /\ unsaved' = (cacheFile.st # "readable")
  /\ UNCHANGED <<cacheFile, finds>>

\* Stop saves without asking the fingerprint
StopCleanly ==
  /\ \/ cacheFile' = Snapshot(hub, board) /\ unsaved' = FALSE /\ Fine
     \/ Setback /\ unsaved' = TRUE /\ cacheFile' \in {cacheFile, [cacheFile EXCEPT !.st = "torn"]}
  /\ finds < MaxFinds /\ finds' = finds + 1
  /\ UNCHANGED <<hub, board, print, mine>>

CacheInit ==
  /\ hub = Nothing /\ board = "Unknown" /\ mine = {} /\ finds = 0 /\ trouble = 0 /\ unsaved = TRUE
  /\ cacheFile = [st |-> "missing", board |-> "Unknown", devices |-> Nothing]
  /\ print = Fingerprint(Nothing, "Unknown")

CacheNext == ScheduleSave \/ Discover \/ DiscoverBoard \/ Kill \/ StopCleanly

\* the timer re-arms itself
CacheSpec == CacheInit /\ [][CacheNext]_cacheVars /\ WF_cacheVars(ScheduleSave)

-----------------------------------------------------------------------------
(* Properties                                                              *)

\* The values of the hub and of the file: what the cache restores is a device.
CacheTypeOK ==
  /\ hub \in [Hardware -> CachedDevice \cup {Absent}] /\ board \in {"Unknown", "RS8", "PD8"}
  /\ cacheFile.devices \in [Hardware -> CachedDevice \cup {Absent}]
  /\ cacheFile.st \in {"missing", "readable", "torn"} /\ cacheFile.board \in {"Unknown", "RS8", "PD8"}
  /\ unsaved \in BOOLEAN /\ mine \subseteq Hardware
  /\ finds \in 0..MaxFinds /\ trouble \in 0..MaxTrouble

\* A restored filter pump has its role, whichever version of the cache it was
\* written by, so that the status handlers can find it.
PumpsHaveRoles == \A i \in mine : hub[i].kind = "Pump" => hub[i].role = "Filter"

\* No auxiliary without identity comes back from the file: it would be found
\* again under another id and be there twice.
NoAnonymousRestored == \A i \in mine : ~(hub[i].kind = "Auxillary" /\ ~hub[i].hw)

\* What was discovered gets into the file without a clean stop: in the end the
\* file tells the same labels and types as the hub, or its last write failed.
CacheFollows ==
  <>[](unsaved \/ Fingerprint(cacheFile.devices, cacheFile.board) =
                  Fingerprint(Snapshot(hub, board).devices, board))

\* What is restored from the cache are the devices that were saved, each with
\* what tells it from the others.
CacheSafe == CacheTypeOK /\ PumpsHaveRoles /\ NoAnonymousRestored

(***************************************************************************)
(* The preferences.  A document is validated as a whole, committed to the  *)
(* hub and written to a temporary file that is renamed over the old one.   *)
(* The rename can fail, and the stream is not checked, so that a short     *)
(* write is renamed too.                                                   *)
(***************************************************************************)

CONSTANTS Features,   \* top-level keys of "ui", each written by a feature of its own
          Users,      \* accounts with preferences of their own
          MaxPuts, MaxMishaps \* bounds on the edits and on the failures and restarts

ASSUME PreferencesAssumption == MaxPuts \in Nat /\ MaxMishaps \in Nat

VARIABLES prefs,     \* the preferences hub
          prefFile,  \* the preferences file
          dirty,     \* the last write of it failed (history)
          wrote,     \* what each feature wrote last (history)
          announced, \* the units the subscribers of the hub know
          overrides, \* m_ByUser
          userFile,  \* its file
          process,   \* "up", or "refused" when the start was given up
          puts, mishaps

prefVars == <<prefs, prefFile, dirty, wrote, announced, overrides, userFile, process, puts, mishaps>>

\* a file as a reader finds it: missing, readable, or cut short
Missing(doc) == [st |-> "missing", doc |-> doc]
Readable(doc) == [st |-> "readable", doc |-> doc]
Torn(f) == [f EXCEPT !.st = "torn"]

\* values of the fields; 0 is the absence of an optional one
Values == {1, 2}
Omitted == -1 \* the document does not name the field
Bad == -2     \* a value out of range or of the wrong type

\* Seed: the values of the command line, before the file is loaded
Seed == [units |-> 1, salt |-> 2, ui |-> [f \in Features |-> 0], spa |-> 0]

Mishap == mishaps < MaxMishaps /\ mishaps' = mishaps + 1
Smooth == UNCHANGED mishaps
PrefEdit == puts < MaxPuts /\ puts' = puts + 1

-----------------------------------------------------------------------------
(* The document of the API and its validation                              *)

\* a document names some of the fields; units 1 and 2 are the two scales
Empty == [units |-> Omitted, salt |-> Omitted, ui |-> [f \in Features |-> Omitted], spa |-> Omitted]
Field == Values \cup {Omitted, Bad}
Documents == [units : Field, salt : Field, spa : Field, ui : {[f \in Features |-> x] : x \in {Omitted, Bad}}]

ValidateTemperatureUnits(d) == d.units # Bad
ValidateAlert(d) == d.salt # Bad
ValidateUi(d) == \A f \in Features : d.ui[f] # Bad
ValidateSpaSwitchButtons(d) == d.spa # Bad

\* "ui" is merged key by key and a null erases (0); the others are replaced
Given(new, old) == IF new = Omitted THEN old ELSE new
Merged(d, p) ==
  [units |-> Given(d.units, p.units), salt |-> Given(d.salt, p.salt), spa |-> Given(d.spa, p.spa),
   ui |-> [f \in Features |-> Given(d.ui[f], p.ui[f])]]

\* a mutant of the next: the map of spa-side buttons is taken over unchecked
ValidUnchecked(d) == ValidateTemperatureUnits(d) /\ ValidateAlert(d) /\ ValidateUi(d)
Valid(d) ==
  ValidateTemperatureUnits(d) /\ ValidateAlert(d) /\ ValidateUi(d) /\ ValidateSpaSwitchButtons(d)

\* a mutant of the next: only a missing file is written
SaveOnce(p) ==
  \/ Smooth /\ prefFile' = (IF prefFile.st = "missing" THEN Readable(p) ELSE prefFile) /\ dirty' = FALSE
  \/ Mishap /\ dirty' = TRUE /\ prefFile' \in {prefFile, Torn(prefFile)}
\* Save: written and renamed; or the rename fails; or the write was cut short
SavePrefs(p) ==
  \/ Smooth /\ prefFile' = Readable(p) /\ dirty' = FALSE
  \/ Mishap /\ dirty' = TRUE /\ prefFile' \in {prefFile, Torn(prefFile)}

\* a mutant of the next: the signal is given for a document that names the units
ApplyQuietly(d, p) ==
  /\ prefs' = Merged(d, p)
  /\ SavePrefs(Merged(d, p))
  /\ announced' = IF d.spa = Omitted THEN Merged(d, p).units ELSE announced
\* ApplyJson: commit, save, and only then the signal
Apply(d, p) ==
  /\ prefs' = Merged(d, p)
  /\ SavePrefs(Merged(d, p))
  /\ announced' = Merged(d, p).units

-----------------------------------------------------------------------------
(* Requests                                                                *)

\* a mutant of the next: the object is replaced
PutUiReplacing ==
  /\ process = "up" /\ PrefEdit
  /\ \E f \in Features, v \in Values \cup {0} :
       /\ Apply([Empty EXCEPT !.ui = [g \in Features |-> IF g = f THEN v ELSE 0]], prefs)
       /\ wrote' = [wrote EXCEPT ![f] = v]
  /\ UNCHANGED <<overrides, userFile, process>>
\* a feature of the UI puts its own key, 0 (null) to erase it
PutUi ==
  /\ process = "up" /\ PrefEdit
  /\ \E f \in Features, v \in Values \cup {0} :
       /\ Apply([Empty EXCEPT !.ui[f] = v], prefs)
       /\ wrote' = [wrote EXCEPT ![f] = v]
  /\ UNCHANGED <<overrides, userFile, process>>

\* any other document, taken or refused as a whole
Put ==
  /\ process = "up" /\ PrefEdit
  /\ \E d \in Documents :
       IF Valid(d) THEN Apply(d, prefs) ELSE UNCHANGED <<prefs, prefFile, dirty, announced, mishaps>>
  /\ UNCHANGED <<wrote, overrides, userFile, process>>

\* a button of the spa-side remote was assigned: the hub, then the file
RecordSpaSwitchAssignment ==
  /\ process = "up" /\ PrefEdit
  /\ \E v \in Values : prefs' = [prefs EXCEPT !.spa = v] /\ SavePrefs([prefs EXCEPT !.spa = v])
  /\ UNCHANGED <<wrote, announced, overrides, userFile, process>>

\* UserPreferencesStore::Apply: validated, committed, saved; a file that cannot
\* be opened or renamed throws after the commit
UserApply ==
  /\ process = "up" /\ PrefEdit
  /\ \E u \in Users, v \in Values \cup {Bad} :
       IF v = Bad THEN UNCHANGED <<overrides, userFile, mishaps>>
       ELSE /\ overrides' = [overrides EXCEPT ![u] = v]
            /\ \/ Smooth /\ userFile' = Readable([overrides EXCEPT ![u] = v])
               \/ Mishap /\ userFile' \in {userFile, Torn(userFile)}
  /\ UNCHANGED <<prefs, prefFile, dirty, wrote, announced, process>>

\* the account is deleted
Forget ==
  /\ process = "up" /\ PrefEdit
  /\ \E u \in Users :
       /\ overrides[u] # 0
       /\ overrides' = [overrides EXCEPT ![u] = 0]
       /\ \/ Smooth /\ userFile' = Readable([overrides EXCEPT ![u] = 0])
          \/ Mishap /\ userFile' \in {userFile, Torn(userFile)}
  /\ UNCHANGED <<prefs, prefFile, dirty, wrote, announced, process>>

-----------------------------------------------------------------------------
(* Start                                                                   *)

\* Load: a file that parses is applied, which saves it again; one that does
\* not is logged and the seeded values stay
LoadPrefs ==
  IF prefFile.st # "readable"
  THEN prefs' = Seed /\ announced' = Seed.units /\ dirty' = TRUE /\ UNCHANGED <<prefFile, mishaps>>
  ELSE prefs' = prefFile.doc /\ announced' = prefFile.doc.units /\ SavePrefs(prefFile.doc)

\* a mutant of the next: an unreadable file counts as a missing one
LoadUsersAnyway ==
  /\ process' = "up"
  /\ overrides' = IF userFile.st = "readable" THEN userFile.doc ELSE [u \in Users |-> 0]
\* the user store refuses a file it cannot read, which ends the start
LoadUsers ==
  \/ userFile.st = "torn" /\ process' = "refused" /\ UNCHANGED overrides
  \/ /\ userFile.st # "torn" /\ process' = "up"
     /\ overrides' = IF userFile.st = "readable" THEN userFile.doc ELSE [u \in Users |-> 0]

\* the process is killed and starts again
Boot ==
  /\ puts < MaxPuts /\ puts' = puts + 1
  /\ LoadPrefs /\ LoadUsers
  /\ wrote' = prefs'.ui
  /\ UNCHANGED userFile

PrefInit ==
  /\ prefs = Seed /\ prefFile = Missing(Seed) /\ dirty = TRUE /\ wrote = Seed.ui /\ announced = Seed.units
  /\ overrides = [u \in Users |-> 0] /\ userFile = Missing(overrides) /\ process = "up"
  /\ puts = 0 /\ mishaps = 0

PrefNext == PutUi \/ Put \/ RecordSpaSwitchAssignment \/ UserApply \/ Forget \/ Boot

PrefSpec == PrefInit /\ [][PrefNext]_prefVars

-----------------------------------------------------------------------------
(* Properties                                                              *)

Stored == [units : Values, salt : Values, ui : [Features -> Values \cup {0}], spa : 0..2]
FileStates == {"missing", "readable", "torn"}

\* The values of the hub and the files: nothing that failed the validation is
\* ever in them.
PrefTypeOK ==
  /\ prefs \in Stored /\ prefFile \in [st : FileStates, doc : Stored] /\ dirty \in BOOLEAN
  /\ wrote \in [Features -> Values \cup {0}] /\ announced \in Values
  /\ overrides \in [Users -> 0..2] /\ userFile \in [st : FileStates, doc : [Users -> 0..2]]
  /\ process \in {"up", "refused"} /\ puts \in 0..MaxPuts /\ mishaps \in 0..MaxMishaps

\* The file is the hub, whatever was edited through which path and however
\* often the process restarted, unless the last write failed.
FileIsHub == ~dirty => prefFile = Readable(prefs)

\* The subscribers of the units know the units in force, after every edit and
\* every start.
UnitsAnnounced == announced = prefs.units

\* Features of the UI that put their own keys never overwrite one another.
FeaturesIndependent == wrote = prefs.ui

\* The users' preferences are never dropped in silence: a running process
\* holds the preferences of a user who has set some, also after a restart that
\* found the file unreadable.
UsersNotDropped ==
  [][\A u \in Users : (process' = "up" /\ overrides[u] # 0 /\ overrides'[u] = 0) =>
        (Forget \/ (Boot /\ userFile.st # "torn" /\ userFile.doc[u] = 0))]_prefVars

\* Preferences are what was last accepted, in the hub, in the file and with
\* those who were told.
PrefSafe == PrefTypeOK /\ FileIsHub /\ UnitsAnnounced /\ FeaturesIndependent
=============================================================================
