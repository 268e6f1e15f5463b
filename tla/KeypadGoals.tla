----------------------------- MODULE KeypadGoals -----------------------------
(***************************************************************************)
(* jandy/devices/onetouch/onetouch_goals.cpp and onetouch_keypad.cpp: the   *)
(* operations a user may ask of the emulated OneTouch keypad, each a small  *)
(* state machine stepped once per frame, and the runner that holds at most  *)
(* one of them.                                                             *)
(*                                                                         *)
(* An operator here maps [g: goal, n: navigator] to the pair after the      *)
(* call; the key it emits is n.cmd and the goal's outcome g.status.  Next   *)
(* to what the navigator sees, a screen says what the screen reader makes   *)
(* of its text: kind (which page outside the menu model), value, function,  *)
(* running, and the program on, off, days; NoValue where no text parses.    *)
(***************************************************************************)
EXTENDS Spider

CONSTANTS STEP_LIMIT, MAX_SCROLL, MAX_STEP, HOURS, MINUTES

ASSUME KeypadGoalsAssumption ==
  {STEP_LIMIT, MAX_SCROLL, MAX_STEP, HOURS, MINUTES} \subseteq Nat \ {0}

NoValue == -1
NoGoal == [kind |-> "none"]

(* A screen with no text on it but its rows.                               *)
Blank(page, rows, hl) ==
  [page |-> page, rows |-> rows, hl |-> hl, kind |-> "menu", value |-> NoValue,
   function |-> NoLabel, running |-> FALSE, on |-> <<NoValue, NoValue>>,
   off |-> <<NoValue, NoValue>>, days |-> NoValue]

Goal(kind, phase) ==
  [kind |-> kind, phase |-> phase, started |-> FALSE, steps |-> 0, count |-> 0,
   first |-> NoLabel, status |-> "Running"]

ToggleGoal(label) == Goal("toggle", "Navigating") @@ [label |-> label]
ValueEditGoal(page, line, label, target) ==
  Goal("value", "Navigating")
    @@ [page |-> page, line |-> line, label |-> label, target |-> target]
BoostGoal(start) == Goal("boost", "Navigating") @@ [start |-> start]
SpaSwitchGoal(tag, function) ==
  Goal("spa", "ToSystemSetup") @@ [tag |-> tag, function |-> function]
ScheduleWriteGoal(op, program) ==
  Goal("schedule", "ToProgramMenu") @@ [op |-> op] @@ program
-----------------------------------------------------------------------------
Keep(x, key) == [x EXCEPT !.n.cmd = key]
Emit(x, key, phase) == [x EXCEPT !.n.cmd = key, !.g.phase = phase]
Finish(x, status) == [x EXCEPT !.g.status = status]
Quiet(x) == Keep(x, NoKey)

(* One row towards a line; a screen without a highlight is woken up.       *)
MoveCursorToward(x, scr, line) ==
  Keep(x, IF scr.hl = CURSOR_LINE_NONE \/ scr.hl < line
          THEN "LineDown" ELSE "LineUp")

(* At the line the Select that enters the next phase, else towards it.     *)
SelectLine(x, scr, line, phase) ==
  IF scr.hl = line THEN Emit(x, "Select", phase)
  ELSE MoveCursorToward(x, scr, line)

(* A row that is looked for by scrolling down, a bounded number of times.  *)
SelectRow(x, scr, label, bound, phase) ==
  LET y == [x EXCEPT !.g.count = @ + 1]
  IN  IF label \in DOMAIN scr.rows
      THEN SelectLine([x EXCEPT !.g.count = 0], scr, scr.rows[label], phase)
      ELSE IF y.g.count > bound THEN Finish(Keep(y, "LineDown"), "Failed")
      ELSE Keep(y, "LineDown")

(* Mutant: the value is committed one key press early.                     *)
ValueSteppingEarly(x, scr) ==
  IF scr.value = NoValue THEN Quiet(x)
  ELSE IF scr.value + 1 >= x.g.target THEN Emit(x, NoKey, "Commit")
  ELSE Keep(x, "LineUp")

(* One key towards the target per frame, until the screen shows it.        *)
ValueStepping(x, scr) ==
  IF scr.value = NoValue THEN Quiet(x)
  ELSE IF scr.value = x.g.target THEN Emit(x, NoKey, "Commit")
  ELSE Keep(x, IF scr.value < x.g.target THEN "LineUp" ELSE "LineDown")

ValueEditStep(x, scr) ==
  CASE x.g.phase = "BeginEdit" ->
         IF scr.value = x.g.target THEN Finish(Quiet(x), "Done")
         ELSE Emit(x, "Select", "Stepping")
    [] x.g.phase = "Stepping" -> ValueStepping(x, scr)
    [] x.g.phase = "Commit" -> Finish(Keep(x, "Select"), "Done")

(* On the Boost page: done already, started by Select, stopped by a row.   *)
BoostArrived(x, scr) ==
  IF x.g.start = scr.running THEN Finish(x, "Done")
  ELSE IF x.g.start THEN Emit(x, "Select", "Settle")
  ELSE [x EXCEPT !.g.phase = "Acting",
                 !.n = NavigateToItem(@, "Boost", 0, "Stop", "Boost")]

(* The picker is cycled once round; the function it first showed ends it.  *)
CyclePicker(x, scr) ==
  IF scr.kind # "picker" \/ scr.function = NoLabel THEN Quiet(x)
  ELSE IF scr.function = x.g.function THEN Emit(x, NoKey, "Commit")
  ELSE IF x.g.first = scr.function THEN Finish(Quiet(x), "Failed")
  ELSE Keep([x EXCEPT !.g.first = IF @ = NoLabel THEN scr.function ELSE @],
            "LineUp")

SpaSwitchStep(x, scr) ==
  CASE x.g.phase = "SelectSpaSwitch" ->
         SelectRow(x, scr, "Spa Switch", MAX_SCROLL, "PassNumberPage")
    [] x.g.phase = "PassNumberPage" ->
         IF scr.kind = "number"
         THEN Emit([x EXCEPT !.g.count = 0], "Select", "ToRow") ELSE Quiet(x)
    [] x.g.phase = "ToRow" ->
         IF scr.kind = "buttons"
         THEN SelectRow([x EXCEPT !.g.first = NoLabel], scr, x.g.tag,
                        MAX_SCROLL, "CyclePicker")
         ELSE Quiet(x)
    [] x.g.phase = "CyclePicker" -> CyclePicker(x, scr)
    [] x.g.phase = "Commit" -> Finish(Keep(x, "Select"), "Done")
-----------------------------------------------------------------------------
(* One field of the program editor: round the shorter way to its target.   *)
StepField(x, scr, shown, target, size, next) ==
  LET y == [x EXCEPT !.g.count = @ + 1]
      forward == (target - shown + size) % size
  IN  IF scr.kind # "editor" \/ shown = NoValue THEN Quiet(x)
      ELSE IF shown = target
           THEN Emit([x EXCEPT !.g.count = 0], "Select", next)
      ELSE IF y.g.count > MAX_STEP THEN Finish(Quiet(y), "Failed")
      ELSE Keep(y, IF forward <= size \div 2 THEN "LineUp" ELSE "LineDown")

SetDays(x, scr) ==
  LET y == [x EXCEPT !.g.count = @ + 1]
  IN  IF scr.kind # "editor" \/ scr.days = NoValue THEN Quiet(x)
      ELSE IF scr.days = x.g.days
           THEN Emit([x EXCEPT !.g.count = 0], "Select", "Verify")
      ELSE IF y.g.count > MAX_STEP THEN Finish(Quiet(y), "Failed")
      ELSE Keep(y, "LineUp")

ADD_ROW == 9
DELETE_ROW == 10
CHANGE_ROW == 11

OnDetailPage(scr) == scr.kind \in {"detail", "nodetail"}
Shown(scr) == [on |-> scr.on, off |-> scr.off, days |-> scr.days]
Wanted(g) == [on |-> g.on, off |-> g.off, days |-> g.days]

ChooseAction(x, scr) ==
  LET row == IF x.g.op = "Edit" THEN CHANGE_ROW ELSE ADD_ROW
      y == SelectLine([x EXCEPT !.g.count = 0], scr, row, "EnterEditor")
  IN  IF ~OnDetailPage(scr) THEN Quiet(x)
      ELSE IF x.g.op # "Delete" THEN y
      ELSE IF scr.kind = "nodetail" THEN Finish(Quiet(x), "Done")
      ELSE SelectLine(x, scr, DELETE_ROW, "VerifyGone")

(* A verification that never sees its page is ended by the step limit.     *)
ScheduleWriteStep(x, scr) ==
  CASE x.g.phase = "SelectEquipment" ->
         IF OnDetailPage(scr)
         THEN Emit([x EXCEPT !.g.count = 0], NoKey, "ChooseAction")
         ELSE SelectRow(x, scr, x.g.target, MAX_STEP, "ChooseAction")
    [] x.g.phase = "ChooseAction" -> ChooseAction(x, scr)
    [] x.g.phase = "EnterEditor" ->
         IF scr.kind = "editor"
         THEN Emit([x EXCEPT !.g.count = 0], NoKey, "SetOnHour") ELSE Quiet(x)
    [] x.g.phase = "SetOnHour" ->
         StepField(x, scr, scr.on[1], x.g.on[1], HOURS, "SetOnMinute")
    [] x.g.phase = "SetOnMinute" ->
         StepField(x, scr, scr.on[2], x.g.on[2], MINUTES, "SetOffHour")
    [] x.g.phase = "SetOffHour" ->
         StepField(x, scr, scr.off[1], x.g.off[1], HOURS, "SetOffMinute")
    [] x.g.phase = "SetOffMinute" ->
         StepField(x, scr, scr.off[2], x.g.off[2], MINUTES, "SetDays")
    [] x.g.phase = "SetDays" -> SetDays(x, scr)
    [] x.g.phase = "Verify" ->
         IF scr.kind = "detail" /\ Shown(scr) = Wanted(x.g)
         THEN Finish(Quiet(x), "Done") ELSE Quiet(x)
    [] x.g.phase = "VerifyGone" ->
         IF OnDetailPage(scr) /\ NoValue \in {scr.on[1], scr.off[1], scr.days}
         THEN Finish(Quiet(x), "Done") ELSE Quiet(x)
-----------------------------------------------------------------------------
(* Every goal begins with a navigation, boost may need another: where to,    *)
(* and what the goal does there. The last two kinds release the navigator.   *)
IsNavigation(g) ==
  g.phase \in {"Navigating", "Acting", "ToSystemSetup", "ToProgramMenu"}

Begins(g, n) ==
  CASE g.kind = "toggle" ->
         NavigateToItem(n, "EquipmentOnOff", 0, g.label, "EquipmentOnOff")
    [] g.kind = "value" -> NavigateToItem(n, g.page, g.line, g.label, Unknown)
    [] g.kind = "boost" -> NavigateTo(n, "Boost")
    [] g.kind = "spa" -> NavigateTo(n, "SystemSetup")
    [] g.kind = "schedule" -> NavigateTo(n, "Program")

Frees(x, phase) ==
  [x EXCEPT !.n = [Reset(@) EXCEPT !.cmd = x.n.cmd], !.g.phase = phase, !.g.count = 0]

Arrived(x, scr) ==
  CASE x.g.kind = "toggle" -> Finish(x, "Done")
    [] x.g.kind = "value" -> [x EXCEPT !.g.phase = "BeginEdit"]
    [] x.g.kind = "boost" -> IF x.g.phase = "Acting" THEN Finish(x, "Done")
                             ELSE BoostArrived(x, scr)
    [] x.g.kind = "spa" -> Frees(x, "SelectSpaSwitch")
    [] x.g.kind = "schedule" -> Frees(x, "SelectEquipment")

Navigated(x, scr) ==
  [x EXCEPT !.g.started = TRUE, !.g.steps = IF x.g.started THEN @ ELSE 0,
            !.n = OnPageUpdate(IF x.g.started THEN @ ELSE Begins(x.g, @), scr)]
Navigates(x, scr) ==
  The({IF ~IsComplete(y.n) THEN y
       ELSE IF IsSuccess(y.n) THEN Arrived(y, scr) ELSE Finish(y, "Failed") :
         y \in {Navigated(x, scr)}})

PhaseStep(x, scr) ==
  CASE IsNavigation(x.g) -> Navigates(x, scr)
    [] x.g.phase = "Settle" -> Finish(Quiet(x), "Done")
    [] x.g.kind = "value" -> ValueEditStep(x, scr)
    [] x.g.kind = "spa" -> SpaSwitchStep(x, scr)
    [] x.g.kind = "schedule" -> ScheduleWriteStep(x, scr)

(* Step(): a goal whose steps are used up fails, before another key goes     *)
(* out; a toggle counts them after the key.                                  *)
WornOut(g) == g.steps > STEP_LIMIT
CountsStep(x) == [x EXCEPT !.g.steps = IF x.g.started THEN @ + 1 ELSE @]
StepToggle(x, scr) ==
  The({IF WornOut(y.g) THEN Finish(y, "Failed") ELSE y :
         y \in {The({CountsStep(z) : z \in {PhaseStep(x, scr)}})}})
StepOthers(x, scr) ==
  The({IF WornOut(y.g) THEN Finish(Quiet(y), "Failed") ELSE PhaseStep(y, scr) :
         y \in {CountsStep(x)}})
Step(x, scr) == IF x.g.kind = "toggle" THEN StepToggle(x, scr) ELSE StepOthers(x, scr)

TryStart(g, new) == IF g = NoGoal THEN new ELSE g

(* Mutant: the goal and the navigator are not released.                    *)
EndedUnreleased(y) == y

(* The navigator is released when the goal ended.                          *)
Ended(y) ==
  IF y.g.status = "Running" THEN y
  ELSE [g |-> NoGoal, n |-> [Reset(y.n) EXCEPT !.cmd = y.n.cmd]]

Service(x, scr) ==
  IF x.g = NoGoal THEN Quiet(x) ELSE The({Ended(y) : y \in {Step(x, scr)}})
=============================================================================
