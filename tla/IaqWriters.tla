------------------------------ MODULE IaqWriters ----------------------------
(* The three writers of the emulated iAqualink (jandy/devices/iaq): each     *)
(* holds at most one goal and is stepped once per poll, looking at the page  *)
(* the panel has painted (PageModel) and issuing at most one key press.      *)
(* A writer is NoGoal or the record of its goal and its counters; a step     *)
(* returns [w, cmd, arm, over]: the writer afterwards, the key it issues     *)
(* (Keep if it leaves the pending key alone), the control value it arms and  *)
(* how the goal ended. Key presses are the panel's byte codes: the same code *)
(* means different things on different pages. Minutes are left out of times. *)
EXTENDS Integers, Sequences, FiniteSets

CONSTANTS
    SettlePolls,   \* polls a writer waits after a press
    MaxScrolls,    \* presses of a picker's scroll key
    MaxUnwind,     \* presses of BACK by the AquaPure writer
    MaxMenuTries,  \* presses of its menu entry
    PollLimit      \* polls a goal may take

ASSUME WriterConstants == {SettlePolls, MaxScrolls, MaxUnwind, MaxMenuTries, PollLimit} \subseteq Nat

Home == 1

Menu == 15

SetupPage == 20

SchedulePage == 40

TimePage == 41

SwgPage == 48

PickerPage == 56

RemotesPage == 58

DetailPage == 59

KeyBack == 2

KeySubmit == 128

KeyDwell == 0

Keep == -1

ButtonKey(i) == 17 + i

NoGoal == [op |-> "none"]

NoArm == [field |-> "none", n |-> 0]

HasPendingGoal(w) == w # NoGoal

Result(w, cmd, arm, over) == [w |-> w, cmd |-> cmd, arm |-> arm, over |-> over]

(* The phase changes and no key is issued: the pending key stays. *)
Turn(w, phase) == Result([w EXCEPT !.phase = phase], Keep, NoArm, "no")

Dwell(w) == Result(w, KeyDwell, NoArm, "no")

(* MUTANT: one poll too many. *)
IssueAndSettleLong(w, cmd) == Result([w EXCEPT !.settle = SettlePolls + 1], cmd, NoArm, "no")

IssueAndSettle(w, cmd) == Result([w EXCEPT !.settle = SettlePolls], cmd, NoArm, "no")

FinishGoal(ok) == Result(NoGoal, KeyDwell, NoArm, IF ok THEN "completed" ELSE "abandoned")

-----------------------------------------------------------------------------
(* Schedule rows: what the panel prints and what is read from it.            *)

(* A row shows 12-hour times, <<hour, TRUE for PM>>, and a day token. *)
Parse12HourTime(t) ==
    IF t[2] THEN (IF t[1] = 12 THEN 12 ELSE t[1] + 12) ELSE (IF t[1] = 12 THEN 0 ELSE t[1])

DayTokens == <<"M", "Tu", "W", "Th", "F", "Sa", "Su">>

ParseDayToken(token) ==
    CASE token = "All"    -> 127
      [] token = "Wkdays" -> 31
      [] token = "Wkends" -> 96
      [] OTHER            -> 2 ^ ((CHOOSE i \in 1..7 : DayTokens[i] = token) - 1)

ParseScheduleRow(row) ==
    [target |-> row.target, on |-> Parse12HourTime(row.on), off |-> Parse12HourTime(row.off),
     days |-> ParseDayToken(row.days)]

DayCommandFor(days) ==
    CASE days = 127 -> 23
      [] days = 31  -> 31
      [] days = 96  -> 32
      [] \E i \in 0..6 : days = 2 ^ i -> 24 + (CHOOSE i \in 0..6 : days = 2 ^ i)
      [] OTHER -> 23

ScheduleTimeValue(hour) == IF hour % 12 = 0 THEN 12 ELSE hour % 12

(* What the panel's own schedule can express. *)
CheckControllerCandidate(p) ==
    p.target # "" /\ p.on \in 0..23 /\ p.off \in 0..23
    /\ p.days \in {127, 31, 96} \union {2 ^ i : i \in 0..6}

-----------------------------------------------------------------------------
(* The schedule writer.                                                      *)

ScheduleGoal(op, match, program) ==
    [op |-> op, program |-> program, match |-> match, phase |-> "NavigateToList", polls |-> 0, settle |-> 0,
     scrolls |-> 0, added |-> FALSE, clicked |-> FALSE, opened |-> FALSE]

(* Refusals in the order the code tests them; "Accepted" arms the goal. *)
QueueCreate(pending, emulated, busy, program) ==
    IF ~emulated THEN "NotSupported" ELSE IF HasPendingGoal(pending) \/ busy THEN "Busy"
    ELSE IF ~CheckControllerCandidate(program) THEN "InvalidValue" ELSE "Accepted"

QueueDelete(pending, emulated, busy, program) ==
    IF ~emulated THEN "NotSupported" ELSE IF HasPendingGoal(pending) \/ busy THEN "Busy"
    ELSE IF program.target = "" THEN "InvalidValue" ELSE "Accepted"

QueueEdit(pending, emulated, busy, existing, desired) ==
    IF ~emulated THEN "NotSupported" ELSE IF HasPendingGoal(pending) \/ busy THEN "Busy"
    ELSE IF existing.target = "" \/ ~CheckControllerCandidate(desired) THEN "InvalidValue" ELSE "Accepted"

StepNavigateToList(w, pg) ==
    IF pg.id = SchedulePage THEN Turn(w, IF w.op = "Create" THEN "AddProgram" ELSE "SelectRow")
    ELSE IssueAndSettle(w, IF pg.id = Menu THEN 17 ELSE KeyBack)

StepAddProgram(w, pg) ==
    IF pg.id # SchedulePage THEN Turn(w, "NavigateToList")
    ELSE IF w.added THEN Turn(w, "SelectDevice")
    ELSE IssueAndSettle([w EXCEPT !.added = TRUE, !.phase = "SelectDevice"], 17)

StepSelectDevice(w, pg) ==
    LET rows == {i \in DOMAIN pg.devices : pg.devices[i] = w.program.target} IN
    IF pg.id # PickerPage THEN Dwell(w)
    ELSE IF w.clicked THEN IssueAndSettle([w EXCEPT !.phase = "SetOnTime"], 19)
    ELSE IF rows # {} THEN IssueAndSettle([w EXCEPT !.clicked = TRUE], 19 + (CHOOSE i \in rows : \A j \in rows : i <= j))
    ELSE IF w.scrolls + 1 > MaxScrolls THEN FinishGoal(FALSE)
    ELSE IssueAndSettle([w EXCEPT !.scrolls = @ + 1], 18)

(* Opens one time field of the highlighted row, turns AM/PM and submits. *)
SetTimeField(w, pg, openKey, field, hour, next) ==
    IF ~w.opened
    THEN IF pg.id = SchedulePage THEN IssueAndSettle([w EXCEPT !.opened = TRUE], openKey) ELSE Dwell(w)
    ELSE IF pg.id # TimePage \/ pg.meridiem = "" THEN Dwell(w)
    ELSE IF (pg.meridiem = "PM") # (hour >= 12) THEN IssueAndSettle(w, 17)
    ELSE [IssueAndSettle([w EXCEPT !.opened = FALSE, !.phase = next], KeySubmit)
          EXCEPT !.arm = [field |-> field, n |-> ScheduleTimeValue(hour)]]

StepSetDay(w, pg) ==
    IF pg.id # SchedulePage THEN Dwell(w)
    ELSE IssueAndSettle([w EXCEPT !.phase = "Verify"], DayCommandFor(w.program.days))

Listed(pg, program) == \E i \in DOMAIN pg.rows : ParseScheduleRow(pg.rows[i]) = program

(* MUTANT: the schedule page is taken for the proof. *)
StepVerifyBlind(w, pg) == IF pg.id = SchedulePage THEN FinishGoal(TRUE) ELSE Dwell(w)

StepVerify(w, pg) == IF Listed(pg, w.program) THEN FinishGoal(TRUE) ELSE Dwell(w)

MatchesProgram(w, row) == ParseScheduleRow(row) = w.match

StepSelectRow(w, pg) ==
    LET mine == {i \in DOMAIN pg.rows : MatchesProgram(w, pg.rows[i])} IN
    IF pg.id # SchedulePage \/ pg.rows = <<>> THEN Dwell(w)
    ELSE IF mine = {} THEN FinishGoal(FALSE)
    ELSE IssueAndSettle([w EXCEPT !.phase = IF w.op = "Edit" THEN "PressEdit" ELSE "PressDelete"],
                        34 + (CHOOSE i \in mine : \A j \in mine : i <= j))

StepPressEdit(w, pg) ==
    IF pg.id # SchedulePage THEN Dwell(w) ELSE IssueAndSettle([w EXCEPT !.phase = "SetOnTime"], 18)

StepPressDelete(w, pg) ==
    IF pg.id # SchedulePage THEN Dwell(w) ELSE IssueAndSettle([w EXCEPT !.phase = "ConfirmDelete"], 19)

(* MUTANT: the dialog is taken for the deletion. *)
StepConfirmDeleteHasty(w) == FinishGoal(TRUE)

StepConfirmDelete(w) == IssueAndSettle([w EXCEPT !.phase = "VerifyGone"], 1)

StepVerifyGone(w, pg) ==
    IF \E i \in DOMAIN pg.rows : MatchesProgram(w, pg.rows[i]) THEN Dwell(w) ELSE FinishGoal(TRUE)

(* MUTANT: the polls are counted only while the writer does not settle. *)
ScheduleStepUncounted(w, pg) ==
    IF w.settle > 0 THEN Dwell([w EXCEPT !.settle = @ - 1])
    ELSE CASE w.phase = "NavigateToList" -> StepNavigateToList(w, pg)
           [] w.phase = "AddProgram"     -> StepAddProgram(w, pg)
           [] OTHER                      -> Dwell(w)

ScheduleStep(w, pg) ==
    LET n == [w EXCEPT !.polls = @ + 1] IN
    CASE n.polls > PollLimit          -> FinishGoal(FALSE)
      [] n.polls <= PollLimit /\ n.settle > 0 -> Dwell([n EXCEPT !.settle = @ - 1])
      [] OTHER ->
         CASE n.phase = "NavigateToList" -> StepNavigateToList(n, pg)
           [] n.phase = "AddProgram"     -> StepAddProgram(n, pg)
           [] n.phase = "SelectDevice"   -> StepSelectDevice(n, pg)
           [] n.phase = "SetOnTime"      -> SetTimeField(n, pg, 33, "on", n.program.on, "SetOffTime")
           [] n.phase = "SetOffTime"     -> SetTimeField(n, pg, 34, "off", n.program.off, "SetDay")
           [] n.phase = "SetDay"         -> StepSetDay(n, pg)
           [] n.phase = "Verify"         -> StepVerify(n, pg)
           [] n.phase = "SelectRow"      -> StepSelectRow(n, pg)
           [] n.phase = "PressEdit"      -> StepPressEdit(n, pg)
           [] n.phase = "PressDelete"    -> StepPressDelete(n, pg)
           [] n.phase = "ConfirmDelete"  -> StepConfirmDelete(n)
           [] n.phase = "VerifyGone"     -> StepVerifyGone(n, pg)

-----------------------------------------------------------------------------
(* The AquaPure (chlorinator) writer. What it has learnt of the menu outlives *)
(* a goal: route = [index, unavailable].                                     *)

NoIndex == -1

FindButtonContaining(pg, label) ==
    LET at == {i \in DOMAIN pg.buttons : pg.buttons[i] = label}
    IN IF at = {} THEN NoIndex ELSE CHOOSE i \in at : \A j \in at : i <= j

PercentageGoal(percentage, body) ==
    [op |-> "Percentage", n |-> percentage, body |-> body, phase |-> "Navigate", polls |-> 0, settle |-> 0,
     unwinds |-> 0, tries |-> 0]

BoostGoal(enable) == [PercentageGoal(0, "Boost") EXCEPT !.op = "Boost", !.n = IF enable THEN 1 ELSE 0]

ArmAquaPure(pending, emulated, busy, route) ==
    IF ~emulated THEN "NotSupported" ELSE IF HasPendingGoal(pending) \/ busy THEN "Busy"
    ELSE IF route.unavailable THEN "MappingFailed" ELSE "Accepted"

QueuePercentage(pending, emulated, busy, route, percentage, body) ==
    IF percentage > 100 \/ body \notin {"Pool", "Spa"} THEN "InvalidValue"
    ELSE ArmAquaPure(pending, emulated, busy, route)

ObserveMenuPage(route, pg) ==
    LET at == FindButtonContaining(pg, "AquaPure") IN
    CASE pg.id # Menu \/ DOMAIN pg.buttons = {} -> route
      [] pg.id = Menu /\ DOMAIN pg.buttons # {} /\ at # NoIndex -> [index |-> at, unavailable |-> FALSE]
      [] OTHER -> [route EXCEPT !.index = NoIndex]

(* Returns the step's result with the route beside it. *)
StepNavigate(w, pg, route) ==
    LET seen == ObserveMenuPage(route, pg) IN
    CASE pg.id = SwgPage -> [step |-> Turn([w EXCEPT !.unwinds = 0], "SelectField"), route |-> route]
      [] pg.id = Menu /\ w.tries >= MaxMenuTries ->
             [step |-> Turn([w EXCEPT !.tries = @ + 1], "Failed"), route |-> [seen EXCEPT !.unavailable = TRUE]]
      [] pg.id = Menu /\ w.tries < MaxMenuTries ->
             [step |-> IssueAndSettle([w EXCEPT !.tries = @ + 1], IF seen.index # NoIndex THEN ButtonKey(seen.index) ELSE 25),
              route |-> seen]
      [] OTHER ->
             [step |-> IF w.unwinds >= MaxUnwind THEN Turn([w EXCEPT !.unwinds = @ + 1], "Failed")
                       ELSE IssueAndSettle([w EXCEPT !.unwinds = @ + 1], KeyBack),
              route |-> route]

(* MUTANT: the pool's field, whatever body is meant. *)
StepSelectFieldPool(w, pg) ==
    LET at == FindButtonContaining(pg, IF w.op = "Boost" THEN "Boost" ELSE "Pool") IN
    CASE pg.id # SwgPage -> Turn(w, "Navigate")
      [] pg.id = SwgPage /\ DOMAIN pg.buttons = {} -> Dwell(w)
      [] pg.id = SwgPage /\ DOMAIN pg.buttons # {} /\ at = NoIndex -> Turn(w, "Failed")
      [] OTHER -> IssueAndSettle([w EXCEPT !.phase = IF w.op = "Boost" THEN "ReturnHome" ELSE "Submit"], ButtonKey(at))

StepSelectField(w, pg) ==
    LET at == FindButtonContaining(pg, w.body) IN
    CASE pg.id # SwgPage -> Turn(w, "Navigate")
      [] pg.id = SwgPage /\ DOMAIN pg.buttons = {} -> Dwell(w)
      [] pg.id = SwgPage /\ DOMAIN pg.buttons # {} /\ at = NoIndex -> Turn(w, "Failed")
      [] OTHER -> IssueAndSettle([w EXCEPT !.phase = IF w.op = "Boost" THEN "ReturnHome" ELSE "Submit"], ButtonKey(at))

StepSubmit(w, pg) ==
    IF pg.id # SwgPage THEN Turn(w, "Navigate")
    ELSE [IssueAndSettle([w EXCEPT !.phase = "ReturnHome"], KeySubmit) EXCEPT !.arm = [field |-> w.body, n |-> w.n]]

StepReturnHome(w, pg) ==
    IF pg.id = Home \/ w.unwinds >= MaxUnwind THEN FinishGoal(TRUE)
    ELSE IssueAndSettle([w EXCEPT !.unwinds = @ + 1], KeyBack)

(* The count is tested before it is raised: one poll more than the limit. *)
AquaPureStep(w, pg, route) ==
    LET n == [w EXCEPT !.polls = @ + 1]
        Same(step) == [step |-> step, route |-> route]
    IN CASE w.polls > PollLimit -> Same(FinishGoal(FALSE))
         [] w.polls <= PollLimit /\ w.settle > 0 -> Same(Dwell([n EXCEPT !.settle = @ - 1]))
         [] OTHER ->
            CASE n.phase = "Navigate"    -> StepNavigate(n, pg, route)
              [] n.phase = "SelectField" -> Same(StepSelectField(n, pg))
              [] n.phase = "Submit"      -> Same(StepSubmit(n, pg))
              [] n.phase = "ReturnHome"  -> Same(StepReturnHome(n, pg))
              [] n.phase = "Failed"      -> Same(FinishGoal(FALSE))

-----------------------------------------------------------------------------
(* The spa-switch writer: one row of one switch is enough, so a goal is the  *)
(* button's ordinal and the function wanted.                                 *)

SpaSwitchGoal(ordinal, function) ==
    [op |-> "SpaSwitch", ordinal |-> ordinal, function |-> function, phase |-> "Navigate", polls |-> 0, settle |-> 0,
     scrolls |-> 0, selected |-> FALSE, first |-> "unseen"]

QueueSpaSwitch(pending, emulated, busy, switch, button, function) ==
    IF ~emulated THEN "NotSupported"
    ELSE IF switch < 1 \/ button \notin 1..4 \/ function = "" THEN "InvalidValue"
    ELSE IF (switch - 1) * 4 + button > 7 THEN "NotSupported"
    ELSE IF HasPendingGoal(pending) \/ busy THEN "Busy" ELSE "Accepted"

SpaStepNavigate(w, pg) ==
    LET at == FindButtonContaining(pg, "Spa Remotes") IN
    CASE pg.id = DetailPage  -> Turn(w, "SelectRow")
      [] pg.id = RemotesPage -> IssueAndSettle(w, 22)
      [] pg.id = SetupPage   -> IF at = NoIndex THEN Dwell(w) ELSE IssueAndSettle(w, ButtonKey(at))
      [] pg.id = Menu        -> IssueAndSettle(w, 21)
      [] OTHER               -> IssueAndSettle(w, KeyBack)

SpaStepSelectRow(w, pg) ==
    LET n == [w EXCEPT !.phase = "FindFunction", !.first = "unseen", !.selected = TRUE] IN
    IF pg.id # DetailPage THEN Turn(w, "Navigate")
    ELSE IF w.selected THEN Turn(n, "FindFunction") ELSE IssueAndSettle(n, 21 + w.ordinal)

SpaStepFindFunction(w, pg) ==
    LET slots == {i \in DOMAIN pg.picker : pg.picker[i] = w.function}
        signature == IF pg.picker = <<>> THEN "" ELSE pg.picker[1]
        n == [w EXCEPT !.scrolls = @ + 1, !.first = IF @ = "unseen" THEN signature ELSE @]
    IN CASE pg.id # DetailPage -> Turn(w, "Navigate")
         [] pg.id = DetailPage /\ slots # {} ->
                IssueAndSettle([w EXCEPT !.phase = "Verify"], 28 + (CHOOSE i \in slots : \A j \in slots : i <= j))
         [] OTHER ->
                IF \/ w.first # "unseen" /\ signature # "" /\ w.scrolls > 0 /\ signature = w.first
                   \/ n.scrolls > MaxScrolls
                THEN FinishGoal(FALSE) ELSE IssueAndSettle(n, 21)

SpaStepVerify(w, assigned) == IF assigned = w.function THEN FinishGoal(TRUE) ELSE Dwell(w)

SpaSwitchStep(w, pg, assigned) ==
    LET n == [w EXCEPT !.polls = @ + 1] IN
    CASE n.polls > PollLimit -> FinishGoal(FALSE)
      [] n.polls <= PollLimit /\ n.settle > 0 -> Dwell([n EXCEPT !.settle = @ - 1])
      [] OTHER ->
         CASE n.phase = "Navigate"     -> SpaStepNavigate(n, pg)
           [] n.phase = "SelectRow"    -> SpaStepSelectRow(n, pg)
           [] n.phase = "FindFunction" -> SpaStepFindFunction(n, pg)
           [] n.phase = "Verify"       -> SpaStepVerify(n, assigned)
=============================================================================
