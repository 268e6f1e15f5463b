----------------------------- MODULE Scheduler ------------------------------
(***************************************************************************)
(* core/scheduling/scheduler_service.cpp: fires the dispatcher's commands  *)
(* at local wall-clock times.  A timer that the frame loop may serve late  *)
(* drives Tick(); the wall clock is stepped by daylight saving time and by *)
(* corrections; the list of schedules is edited through the web routes and *)
(* saved by a temporary file and a rename.                                 *)
(*                                                                         *)
(* A local minute is a number (LocalMinute.key); its weekday is            *)
(* m \div MinutesPerDay and its HH:MM is m % MinutesPerDay.  An action of  *)
(* a schedule is left out: it only selects the dispatcher call.            *)
(***************************************************************************)
EXTENDS Naturals, FiniteSets

CONSTANTS
  Uuids,          \* identifiers of schedules
  Definitions,    \* schedules a user may write: [enabled, days, at]
  MinutesPerDay,
  MinuteLength,   \* length of a minute in units of elapsed time
  TickInterval,   \* 30 s
  MaxLate,        \* how late the frame loop may run the timer's handler
  LastMinute,     \* bound on the wall clock
  MaxBack,        \* bound on what the wall clock is ever set back, in minutes
  MaxEdits,       \* bound on edits of the list
  MaxRestarts     \* bound on starts of the program

ASSUME SchedulerAssumption ==
  /\ {MinutesPerDay, MinuteLength, TickInterval, MaxLate} \subseteq Nat \ {0}
  /\ {LastMinute, MaxBack, MaxEdits, MaxRestarts} \subseteq Nat

(* A handler of the frame loop runs before the minute it was armed in and  *)
(* the next have passed, and the clock is set back by less than a day.     *)
ASSUME PaceAssumption == TickInterval + MaxLate < MinuteLength /\ MaxBack < MinutesPerDay

VARIABLES
  running,    \* m_Running
  schedules,  \* m_Schedules, by uuid
  lastFired,  \* m_LastFiredMinute
  waited,     \* time since m_Timer was armed
  minute,     \* the local minute the wall clock shows
  phase,      \* time since that minute began
  service,    \* DataHub's Mode is Service
  file,       \* schedules file: [ok, list]
  saved,      \* (history) every Save() so far replaced the file
  calm,       \* (history) nothing disturbed the service in this minute
  fired,      \* (history) <<uuid, minute>> dispatched by this process
  twice,      \* (history) one of them was dispatched again
  back, edits, restarts

clock  == <<minute, phase, back>>
disk   == <<file, saved>>
counts == <<edits, restarts>>
vars   == <<running, schedules, lastFired, waited, clock, service, disk, calm, fired, twice, counts>>

None  == [u \in {} |-> u]
Lists == UNION {[S -> Definitions] : S \in SUBSET Uuids}
Minutes == 0 .. LastMinute
-----------------------------------------------------------------------------
Matches(d, m) == /\ d.enabled
                 /\ (m \div MinutesPerDay) \in d.days
                 /\ d.at = m % MinutesPerDay

(* Mutant: the guard compares the time of day, not the unique minute.      *)
DueByTimeOfDay(u, m) ==
  Matches(schedules[u], m)
  /\ ~(u \in DOMAIN lastFired /\ lastFired[u] % MinutesPerDay = m % MinutesPerDay)

(* Mutant: no double-fire guard.                                           *)
DueUnguarded(u, m) == Matches(schedules[u], m)

(* Tick(): the schedules of this minute that have not fired in it.         *)
Due(u, m) ==
  Matches(schedules[u], m) /\ ~(u \in DOMAIN lastFired /\ lastFired[u] = m)

(* The timer's handler: Tick(), then ScheduleTick().  The minute counts as *)
(* fired before Fire() finds the controller in Service mode.               *)
Tick ==
  /\ running /\ waited >= TickInterval
  /\ LET due == {u \in DOMAIN schedules : Due(u, minute)}
     IN  /\ lastFired' = [u \in due \cup DOMAIN lastFired |->
                             IF u \in due THEN minute ELSE lastFired[u]]
         /\ fired' = IF service THEN fired ELSE fired \cup (due \X {minute})
         /\ twice' = (twice \/ (~service /\ (due \X {minute}) \cap fired # {}))
  /\ waited' = 0
  /\ UNCHANGED <<running, schedules, clock, service, disk, calm, counts>>
-----------------------------------------------------------------------------
(* Load(): a missing file and one that does not parse give an empty list.  *)
Load(f) == IF f.ok THEN f.list ELSE None

(* Start(), once in the life of a process.                                 *)
Start ==
  /\ ~running /\ restarts < MaxRestarts /\ restarts' = restarts + 1
  /\ running' = TRUE
  /\ schedules' = Load(file)
  /\ lastFired' = None /\ fired' = {}
  /\ waited' = 0 /\ calm' = FALSE
  /\ UNCHANGED <<clock, service, disk, twice, edits>>

(* Stop(), or the process dies.                                            *)
Stop ==
  /\ running /\ running' = FALSE
  /\ UNCHANGED <<schedules, lastFired, waited, clock, service, disk, calm, fired, twice, counts>>

(* Save(): the temporary file is renamed over the target, or the rename    *)
(* fails and the old list stays, or the disk is full: the stream's state   *)
(* is not looked at and a truncated file is renamed.  A crash before the   *)
(* rename leaves what a crash before the edit would.                       *)
Save(list) ==
  \/ file' = [ok |-> TRUE, list |-> list] /\ UNCHANGED saved
  \/ saved' = FALSE /\ UNCHANGED file
  \/ saved' = FALSE /\ file' = [ok |-> FALSE, list |-> None]

Edit(list) ==
  /\ running /\ edits < MaxEdits /\ edits' = edits + 1
  /\ schedules' = list
  /\ Save(list)
  /\ calm' = FALSE
  /\ UNCHANGED <<running, waited, clock, service, twice, restarts>>

Without(f, u) == [v \in DOMAIN f \ {u} |-> f[v]]

(* Create() gives the schedule a random uuid.                              *)
Create(u, d) ==
  /\ u \notin DOMAIN schedules
  /\ Edit([v \in DOMAIN schedules \cup {u} |-> IF v = u THEN d ELSE schedules[v]])
  /\ UNCHANGED <<lastFired, fired>>

(* Replace() keeps the uuid and the guard; what the new definition fires   *)
(* is counted anew.                                                        *)
Replace(u, d) ==
  /\ u \in DOMAIN schedules
  /\ Edit([schedules EXCEPT ![u] = d])
  /\ fired' = {f \in fired : f[1] # u}
  /\ UNCHANGED lastFired

(* Mutant: Remove() that forgets to save.                                  *)
RemoveUnsaved(u) ==
  /\ u \in DOMAIN schedules
  /\ running /\ edits < MaxEdits /\ edits' = edits + 1
  /\ schedules' = Without(schedules, u)
  /\ lastFired' = Without(lastFired, u)
  /\ fired' = {f \in fired : f[1] # u}
  /\ calm' = FALSE
  /\ UNCHANGED <<running, waited, clock, service, disk, twice, restarts>>

(* Mutant: Remove() that leaves the guard's entry behind.                  *)
RemoveKeepsGuard(u) ==
  /\ u \in DOMAIN schedules
  /\ Edit(Without(schedules, u))
  /\ fired' = {f \in fired : f[1] # u}
  /\ UNCHANGED lastFired

Remove(u) ==
  /\ u \in DOMAIN schedules
  /\ Edit(Without(schedules, u))
  /\ lastFired' = Without(lastFired, u)
  /\ fired' = {f \in fired : f[1] # u}
-----------------------------------------------------------------------------
(* Time passes; a handler that is due runs within MaxLate.                 *)
TimePasses ==
  /\ running => waited < TickInterval + MaxLate
  /\ waited' = IF running THEN waited + 1 ELSE waited
  /\ \/ /\ phase < MinuteLength - 1
        /\ phase' = phase + 1 /\ UNCHANGED <<minute, calm>>
     \/ /\ phase = MinuteLength - 1 /\ minute < LastMinute
        /\ phase' = 0 /\ minute' = minute + 1 /\ calm' = running
  /\ UNCHANGED <<running, schedules, lastFired, back, service, disk, fired, twice, counts>>

(* The wall clock is set: forward over skipped minutes, or back.           *)
ClockIsSet(m) ==
  /\ m \in Minutes /\ m # minute
  /\ back' = IF m < minute THEN back + (minute - m) ELSE back
  /\ back' <= MaxBack
  /\ minute' = m /\ calm' = FALSE
  /\ UNCHANGED <<running, schedules, lastFired, waited, phase, service, disk, fired, twice, counts>>

ModeChanges ==
  /\ service' = ~service
  /\ UNCHANGED <<running, schedules, lastFired, waited, clock, disk, calm, fired, twice, counts>>
-----------------------------------------------------------------------------
Init ==
  /\ running = FALSE /\ schedules = None /\ lastFired = None /\ waited = 0
  /\ minute = 0 /\ phase = 0 /\ back = 0
  /\ service = FALSE
  /\ file \in [ok : {TRUE}, list : Lists] /\ saved = TRUE
  /\ calm = FALSE /\ fired = {} /\ twice = FALSE
  /\ edits = 0 /\ restarts = 0

Next ==
  \/ Tick \/ Start \/ Stop \/ TimePasses \/ ModeChanges
  \/ \E u \in Uuids : Remove(u) \/ \E d \in Definitions : Create(u, d) \/ Replace(u, d)
  \/ \E m \in Minutes : ClockIsSet(m)

Spec == Init /\ [][Next]_vars
-----------------------------------------------------------------------------
(* The types; and the guard keeps no entry for a schedule that is gone     *)
(* (Remove).                                                               *)
TypeOK ==
  /\ {running, service, saved, calm, twice} \subseteq BOOLEAN
  /\ schedules \in Lists
  /\ lastFired \in [DOMAIN lastFired -> Nat]
  /\ DOMAIN lastFired \subseteq DOMAIN schedules
  /\ waited \in 0 .. TickInterval + MaxLate
  /\ minute \in Nat /\ phase \in 0 .. MinuteLength - 1 /\ back \in Nat
  /\ file \in [ok : BOOLEAN, list : Lists]
  /\ fired \subseteq Uuids \X Nat

(* "the matching minute is never missed" (ScheduleTick): a minute the      *)
(* service ran through undisturbed does not end before every schedule that *)
(* matches it was fired for it, however late the handlers are served.      *)
Considered ==
  \A u \in DOMAIN schedules :
     Matches(schedules[u], minute) => u \in DOMAIN lastFired /\ lastFired[u] = minute
NeverMissed ==
  [][running /\ calm /\ phase' < phase => Considered]_vars

(* "an ambiguous fall-back minute fires once" (SchedulerService): no       *)
(* process dispatches a schedule twice for one local minute, although the  *)
(* timer ticks twice in it and the clock may show it twice.                *)
NoDoubleFire == ~twice

(* As long as every save replaced the file, a restart finds the list that  *)
(* the last edit left (Save, Load).                                        *)
EditsSurvive == running /\ saved => file.ok /\ file.list = schedules

(* No schedule fires twice in a minute and no edit is lost, over restarts, *)
(* failed saves and a clock that is put back.                              *)
SchedulerSafe == TypeOK /\ NoDoubleFire /\ EditsSurvive
=============================================================================
