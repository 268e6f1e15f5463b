--------------------------------- MODULE Iaq --------------------------------
(* The emulated iAqualink2 (jandy/devices/iaq_device.cpp): one channel of    *)
(* key presses, carried by the answers to the panel's polls, shared by three *)
(* writers (IaqWriters), by the blind set-point sequence, by direct button   *)
(* presses and by the page survey. The panel paints pages by messages that   *)
(* polls may fall between. The panel itself is not part of the program: it   *)
(* is modelled from the captures the writers' key codes were taken from.     *)
EXTENDS IaqWriters, TLC, SequencesExt

CONSTANTS
    Programs,   \* the programs asked for: [target, on, off, days]
    Printed,    \* the row the panel may list at first
    MaxEvents   \* bound: requests accepted, poll answers missed and polls between the messages of a page

Clocks == Int \X BOOLEAN

Rows == [target : STRING, on : Clocks, off : Clocks, days : STRING]

ASSUME IaqConstants ==
    /\ MaxEvents \in Nat
    /\ Programs \subseteq [target : STRING, on : Int, off : Int, days : Int]
    /\ Printed \in Rows

VARIABLES
    dev,        \* [emulated, op, received, pending, queue, armed, survey]
    pg,         \* the page model: [id, rows, devices, picker, buttons, meridiem]
    sched, aqua, spa,    \* the writers
    route,      \* what the AquaPure writer knows of the menu
    store,      \* the controller schedule store, with the hub's spa-switch assignment
    box,        \* the panel
    ended,      \* the last goal that ended: [goal, over]
    asks, lost, late,  \* requests accepted, poll answers missed, polls inside a page
    overlapped  \* TRUE once keys were queued over a goal under way

iaqVars == <<dev, pg, sched, aqua, spa, route, store, box, ended, asks, lost, late, overlapped>>

-----------------------------------------------------------------------------
(* The panel (external).                                                     *)

SetTempPage == 60

HomeButtons == [i \in {3} |-> "Light"]

SwgFields == <<"Pool", "Spa", "Boost">>

Buttons(page) ==
    CASE page = Home      -> HomeButtons
      [] page = Menu      -> [i \in {8} |-> "AquaPure"]
      [] page = SwgPage   -> [i \in 0..2 |-> SwgFields[i + 1]]
      [] page = SetupPage -> [i \in {5} |-> "Spa Remotes"]
      [] OTHER            -> <<>>

(* The functions the spa-switch picker shows, one window per scroll. *)
PickerWindows == <<<<"Pump">>, <<"Light">>>>

Paint(b) ==
    <<[kind |-> "PageStart", page |-> b.page]>>
    \o (CASE b.page = SchedulePage -> [i \in DOMAIN b.rows |-> [kind |-> "Row", row |-> b.rows[i]]]
          [] b.page = PickerPage   -> <<[kind |-> "Device", target |-> "pump"]>>
          [] b.page = TimePage     -> <<[kind |-> "Meridiem", text |-> IF b.pm THEN "PM" ELSE "AM"]>>
          [] b.page = DetailPage   -> <<[kind |-> "Assigned", function |-> b.assigned],
                                        [kind |-> "Functions", shown |-> PickerWindows[b.window]]>>
          [] OTHER                 -> <<[kind |-> "Buttons", names |-> Buttons(b.page)]>>)
    \o <<[kind |-> "PageEnd"]>>

Repainted(b) == [b EXCEPT !.paint = Paint(b)]

Shows(b, page) == Repainted([b EXCEPT !.page = page, !.field = "none", !.dialog = FALSE, !.clicked = FALSE])

PressHome(b, key) ==
    CASE key = KeyBack -> Shows(b, Menu)
      [] key = 20      -> Repainted([b EXCEPT !.light = ~@])
      [] OTHER         -> b

PressMenu(b, key) ==
    CASE key = KeyBack -> Shows(b, Home)
      [] key = 17      -> Shows(b, SchedulePage)
      [] key = 20      -> Shows(b, SetTempPage)
      [] key = 21      -> Shows(b, SetupPage)
      [] key = 25      -> IF b.hasAquaPure THEN Shows(b, SwgPage) ELSE b
      [] OTHER         -> b

DayShown(key) ==
    CASE key = 23 -> "All" [] key = 31 -> "Wkdays" [] key = 32 -> "Wkends" [] OTHER -> DayTokens[key - 23]

PressSchedule(b, key) ==
    CASE key = KeyBack -> Shows([b EXCEPT !.row = 0, !.editing = FALSE], Menu)
      [] key = 17      -> Shows(b, PickerPage)
      [] key = 18      -> [b EXCEPT !.editing = b.row # 0]
      [] key = 19      -> IF b.row # 0 THEN Repainted([b EXCEPT !.dialog = TRUE]) ELSE b
      [] key = 1       -> IF b.dialog
                          THEN Repainted([b EXCEPT !.rows = RemoveAt(@, b.row), !.row = 0, !.dialog = FALSE, !.editing = FALSE])
                          ELSE b
      [] key \in 35..(34 + Len(b.rows)) -> [b EXCEPT !.row = key - 34, !.editing = FALSE]
      [] key \in {33, 34} /\ b.editing ->
             [Shows([b EXCEPT !.pm = FALSE], TimePage) EXCEPT !.field = IF key = 33 THEN "on" ELSE "off"]
      [] key \in 23..32 /\ b.editing -> Repainted([b EXCEPT !.rows[b.row].days = DayShown(key)])
      [] OTHER -> b

PressPicker(b, key) ==
    CASE key = KeyBack -> Shows(b, SchedulePage)
      [] key = 20      -> [b EXCEPT !.clicked = TRUE]
      [] key = 19 /\ b.clicked ->
             LET rows == Append(b.rows, [target |-> "pump", on |-> <<12, FALSE>>, off |-> <<12, FALSE>>, days |-> "All"])
             IN Shows([b EXCEPT !.rows = rows, !.row = Len(rows), !.editing = TRUE], SchedulePage)
      [] OTHER -> b

PressTime(b, key) ==
    CASE key = KeyBack   -> Shows(b, SchedulePage)
      [] key = 17        -> Repainted([b EXCEPT !.pm = ~@])
      [] key = KeySubmit -> [b EXCEPT !.ready = TRUE]
      [] OTHER           -> b

PressValues(b, key, fields) ==
    CASE key = KeyBack   -> Shows(b, Menu)
      [] key \in DOMAIN fields -> [b EXCEPT !.field = fields[key]]
      [] key = KeySubmit -> [b EXCEPT !.ready = b.field # "none"]
      [] OTHER           -> b

PressSpaPages(b, key) ==
    CASE b.page = SetupPage   -> IF key = KeyBack THEN Shows(b, Menu) ELSE IF key = 22 THEN Shows(b, RemotesPage) ELSE b
      [] b.page = RemotesPage -> IF key = KeyBack THEN Shows(b, SetupPage) ELSE IF key = 22 THEN Shows(b, DetailPage) ELSE b
      [] b.page = DetailPage  ->
             CASE key = KeyBack -> Shows([b EXCEPT !.chosen = 0], RemotesPage)
               [] key = 21      -> Repainted([b EXCEPT !.window = (@ % Len(PickerWindows)) + 1])
               [] key \in 22..28 -> [b EXCEPT !.chosen = key - 21]
               [] key = 29 /\ b.chosen = 1 -> Repainted([b EXCEPT !.assigned = PickerWindows[b.window][1]])
               [] OTHER -> b

Press(b, key) ==
    CASE b.page = Home         -> PressHome(b, key)
      [] b.page = Menu         -> PressMenu(b, key)
      [] b.page = SchedulePage -> PressSchedule(b, key)
      [] b.page = PickerPage   -> PressPicker(b, key)
      [] b.page = TimePage     -> PressTime(b, key)
      [] b.page = SwgPage      -> PressValues(b, key, [k \in 17..19 |-> SwgFields[k - 16]])
      [] b.page = SetTempPage  -> PressValues(b, key, [k \in {17, 19} |-> IF k = 17 THEN "heatPool" ELSE "heatSpa"])
      [] OTHER                 -> PressSpaPages(b, key)

(* The control value arrives; `wrong` remembers one that was meant for       *)
(* another field than the one it lands in.                                   *)
Take(b, value) ==
    LET got == [b EXCEPT !.ready = FALSE, !.wrong = @ \/ value.field # b.field] IN
    CASE b.page = TimePage /\ b.field = "on" ->
             Shows([got EXCEPT !.rows[b.row].on = <<value.n, b.pm>>], SchedulePage)
      [] b.page = TimePage /\ b.field = "off" ->
             Shows([got EXCEPT !.rows[b.row].off = <<value.n, b.pm>>], SchedulePage)
      [] OTHER -> got

-----------------------------------------------------------------------------
(* The page model and the channel.                                           *)

OnPageStartKeeping(p, page) == [p EXCEPT !.id = page, !.devices = <<>>, !.meridiem = ""]  \* MUTANT: the rows stay

(* A new page clears rows and devices, not the buttons nor the spa picker. *)
OnPageStart(p, page) == [p EXCEPT !.id = page, !.rows = <<>>, !.devices = <<>>, !.meridiem = ""]

Goals == {w \in {sched, aqua, spa} : HasPendingGoal(w)}

IsBusy == dev.queue # <<>> \/ dev.armed # NoArm

(* MUTANT: a writer asks only whether the queue is free. *)
ChannelBusyQueue == IsBusy

ChannelBusy == Goals # {} \/ IsBusy

(* The bookkeeping common to every message but the poll and the heartbeat:   *)
(* traffic was seen, a listening device goes to normal, the menu is observed. *)
Noted(d) ==
    [d EXCEPT !.received = TRUE, !.op = IF @ = "StartUp" /\ ~d.emulated THEN "NormalOperation" ELSE @]

ProcessControllerUpdates ==
    /\ dev' = Noted(dev)
    /\ route' = ObserveMenuPage(route, pg')

NextKey(pending, step) == IF step.cmd = Keep THEN pending ELSE step.cmd

Ended(before, steps) ==
    LET over == {i \in 1..3 : steps[i].over # "no"}
    IN IF over = {} THEN ended ELSE LET i == CHOOSE i \in over : TRUE IN [goal |-> before[i], over |-> steps[i].over]

(* A poll: the writers step, in this order, and then one key goes out: the   *)
(* queue first, the pending key after it. The panel asks for a submitted     *)
(* value before it polls again.                                              *)
Poll(heard) ==
    LET idle(w) == Result(w, Keep, NoArm, "no")
        s1 == IF HasPendingGoal(spa) THEN SpaSwitchStep(spa, pg, store.assigned) ELSE idle(spa)
        r1 == ObserveMenuPage(route, pg)
        s2 == IF HasPendingGoal(aqua) THEN AquaPureStep(aqua, pg, r1) ELSE [step |-> idle(aqua), route |-> r1]
        s3 == IF HasPendingGoal(sched) THEN ScheduleStep(sched, pg) ELSE idle(sched)
        key == NextKey(NextKey(NextKey(dev.pending, s1), s2.step), s3)
        armed == IF s3.arm # NoArm THEN s3.arm ELSE IF s2.step.arm # NoArm THEN s2.step.arm ELSE dev.armed
        sent == IF dev.queue # <<>> THEN Head(dev.queue) ELSE key
    IN /\ ~box.ready
       /\ (heard /\ box.paint = <<>>) \/ asks + lost + late < MaxEvents
       /\ late' = IF box.paint = <<>> THEN late ELSE late + 1
       /\ spa' = s1.w /\ aqua' = s2.step.w /\ sched' = s3.w
       /\ route' = s2.route
       /\ dev' = [Noted(dev) EXCEPT !.armed = armed,
                                    !.queue = IF @ # <<>> THEN Tail(@) ELSE @,
                                    !.pending = IF dev.queue # <<>> THEN key ELSE 0]
       /\ ended' = Ended(<<spa, aqua, sched>>, <<s1, s2.step, s3>>)
       /\ box' = IF heard /\ dev.emulated THEN Press(box, sent) ELSE box
       /\ lost' = IF heard THEN lost ELSE lost + 1
       /\ UNCHANGED <<pg, store, asks, overlapped>>

(* One message of the page being painted. *)
Slot_IAQ_PageStart ==
    /\ box.paint # <<>> /\ Head(box.paint).kind = "PageStart"
    /\ pg' = OnPageStart(pg, Head(box.paint).page)
    /\ store' = store

Slot_IAQ_TableMessage ==
    /\ box.paint # <<>>
    /\ LET m == Head(box.paint) IN
       \/ m.kind = "Row" /\ pg.id = SchedulePage /\ pg' = [pg EXCEPT !.rows = Append(@, m.row)] /\ store' = store
       \/ m.kind = "Device" /\ pg.id = PickerPage /\ pg' = [pg EXCEPT !.devices = Append(@, m.target)] /\ store' = store
       \/ m.kind = "Assigned" /\ store' = [store EXCEPT !.assigned = m.function] /\ pg' = pg
       \/ m.kind = "Functions" /\ pg' = [pg EXCEPT !.picker = m.shown] /\ store' = store

Slot_IAQ_PageButton ==
    /\ box.paint # <<>> /\ Head(box.paint).kind = "Buttons"
    /\ pg' = [pg EXCEPT !.buttons = Head(box.paint).names]
    /\ store' = store

Slot_IAQ_PageMessage ==
    /\ box.paint # <<>> /\ Head(box.paint).kind = "Meridiem"
    /\ pg' = [pg EXCEPT !.meridiem = Head(box.paint).text]
    /\ store' = store

PublishSchedulePage == [store EXCEPT !.rows = [i \in DOMAIN pg.rows |-> ParseScheduleRow(pg.rows[i])]]

Slot_IAQ_PageEnd ==
    /\ box.paint # <<>> /\ Head(box.paint).kind = "PageEnd"
    /\ store' = IF pg.id = SchedulePage THEN PublishSchedulePage ELSE store
    /\ pg' = pg

PageMessage ==
    /\ Slot_IAQ_PageStart \/ Slot_IAQ_TableMessage \/ Slot_IAQ_PageButton \/ Slot_IAQ_PageMessage \/ Slot_IAQ_PageEnd
    /\ box' = [box EXCEPT !.paint = Tail(@)]
    /\ ProcessControllerUpdates
    /\ UNCHANGED <<sched, aqua, spa, ended, asks, lost, late, overlapped>>

(* The panel asks for the value; an empty answer is a plain acknowledgement. *)
Slot_IAQ_ControlReady ==
    /\ box.ready
    /\ IF dev.armed # NoArm
       THEN /\ box' = IF dev.emulated THEN Take(box, dev.armed) ELSE [box EXCEPT !.ready = FALSE]
            /\ dev' = [dev EXCEPT !.armed = NoArm]
            /\ route' = route
       ELSE box' = [box EXCEPT !.ready = FALSE] /\ pg' = pg /\ ProcessControllerUpdates
    /\ UNCHANGED <<pg, sched, aqua, spa, store, ended, asks, lost, late, overlapped>>

-----------------------------------------------------------------------------
(* The other messages and the watchdog.                                      *)

(* The survey's keys: each page opened, looked at and left again. *)
BuildSurveyCommandSequence == <<19, KeyDwell, KeyBack, KeyDwell>>

(* The survey starts with the first main status, whatever goal is under way. *)
MaybeStartPageSurvey(d) ==
    IF d.emulated /\ d.survey = "armed" THEN [d EXCEPT !.survey = "done", !.queue = BuildSurveyCommandSequence] ELSE d

Slot_IAQ_MainStatus ==
    LET d == MaybeStartPageSurvey(dev) IN
    /\ dev' = Noted([d EXCEPT !.op = IF @ = "StartUp" THEN "NormalOperation" ELSE @])
    /\ route' = ObserveMenuPage(route, pg)
    /\ overlapped' = (overlapped \/ (d.queue # dev.queue /\ ChannelBusy))
    /\ UNCHANGED <<pg, sched, aqua, spa, store, box, ended, asks, lost, late>>

Slot_IAQ_AuxStatus ==
    /\ dev' = Noted([dev EXCEPT !.op = IF @ = "StartUp" THEN "NormalOperation" ELSE @])
    /\ route' = ObserveMenuPage(route, pg)
    /\ UNCHANGED <<pg, sched, aqua, spa, store, box, ended, asks, lost, late, overlapped>>

(* Start-up, command-ready and the like; a probe is answered by an emulation only. *)
OtherMessage ==
    /\ pg' = pg /\ ProcessControllerUpdates
    /\ UNCHANGED <<sched, aqua, spa, store, box, ended, asks, lost, late, overlapped>>

Slot_IAQ_Heartbeat ==
    /\ dev' = [dev EXCEPT !.op = IF @ = "StartUp" /\ ~dev.emulated THEN "NormalOperation" ELSE @]
    /\ UNCHANGED <<pg, sched, aqua, spa, route, store, box, ended, asks, lost, late, overlapped>>

WatchdogTimeoutOccurred ==
    /\ dev.op = "StartUp"
    /\ dev' = [dev EXCEPT !.op = IF dev.received THEN "FaultHasOccurred" ELSE "NotPresent"]
    /\ UNCHANGED <<pg, sched, aqua, spa, route, store, box, ended, asks, lost, late, overlapped>>

-----------------------------------------------------------------------------
(* Requests.                                                                 *)

Asked == asks + lost + late < MaxEvents /\ asks' = asks + 1

RequestSchedule(op, match, program) ==
    /\ Asked
    /\ "Accepted" = CASE op = "Create" -> QueueCreate(sched, dev.emulated, ChannelBusy, program)
                      [] op = "Delete" -> QueueDelete(sched, dev.emulated, ChannelBusy, match)
                      [] op = "Edit"   -> QueueEdit(sched, dev.emulated, ChannelBusy, match, program)
    /\ sched' = ScheduleGoal(op, match, program)
    /\ UNCHANGED <<dev, pg, aqua, spa, route, store, box, ended, lost, late, overlapped>>

SetChlorinatorPercentage(percentage, body) ==
    /\ Asked
    /\ QueuePercentage(aqua, dev.emulated, ChannelBusy, route, percentage, body) = "Accepted"
    /\ aqua' = PercentageGoal(percentage, body)
    /\ UNCHANGED <<dev, pg, sched, spa, route, store, box, ended, lost, late, overlapped>>

SetChlorinatorBoost(enable) ==
    /\ Asked
    /\ ArmAquaPure(aqua, dev.emulated, ChannelBusy, route) = "Accepted"
    /\ aqua' = BoostGoal(enable)
    /\ UNCHANGED <<dev, pg, sched, spa, route, store, box, ended, lost, late, overlapped>>

SetSpaSwitchAssignment(switch, button, function) ==
    /\ Asked
    /\ QueueSpaSwitch(spa, dev.emulated, ChannelBusy, switch, button, function) = "Accepted"
    /\ spa' = SpaSwitchGoal((switch - 1) * 4 + button, function)
    /\ UNCHANGED <<dev, pg, sched, aqua, route, store, box, ended, lost, late, overlapped>>

(* The set-point's keys and value replace whatever was queued or armed: the  *)
(* channel is not asked whether it is busy.                                  *)
QueueSetpoint(selectKey, field, temperature) ==
    /\ Asked
    /\ dev.emulated
    /\ dev' = [dev EXCEPT !.queue = <<KeyBack, 20, selectKey, KeySubmit>>, !.armed = [field |-> field, n |-> temperature]]
    /\ overlapped' = (overlapped \/ ChannelBusy)
    /\ UNCHANGED <<pg, sched, aqua, spa, route, store, box, ended, lost, late>>

(* A button is pressed by its place on the page last painted, unless it      *)
(* already shows the state asked for. Nor is the channel asked here.         *)
ActuateDevice(label, press) ==
    LET at == FindButtonContaining(pg, label) IN
    /\ Asked
    /\ dev.emulated /\ at # NoIndex /\ press
    /\ dev' = [dev EXCEPT !.pending = ButtonKey(at)]
    /\ overlapped' = (overlapped \/ ChannelBusy)
    /\ UNCHANGED <<pg, sched, aqua, spa, route, store, box, ended, lost, late>>

-----------------------------------------------------------------------------
NewPanel(rows, hasAquaPure) ==
    [page |-> Home, rows |-> rows, row |-> 0, editing |-> FALSE, dialog |-> FALSE, clicked |-> FALSE, field |-> "none",
     pm |-> FALSE, ready |-> FALSE, wrong |-> FALSE, light |-> FALSE, hasAquaPure |-> hasAquaPure, window |-> 1,
     chosen |-> 0, assigned |-> "", paint |-> <<>>]

(* Either a device that has just started, which is followed without        *)
(* requests, or one in normal operation whose survey is still to come: what  *)
(* state it operates in is read by none of the requests.                     *)
IaqInit ==
    /\ \/ /\ asks = MaxEvents
          /\ dev \in [emulated : BOOLEAN, op : {"StartUp"}, received : {FALSE}, pending : {0}, queue : {<<>>},
                      armed : {NoArm}, survey : {"off", "armed"}]
       \/ /\ asks = 0
          /\ dev = [emulated |-> TRUE, op |-> "NormalOperation", received |-> TRUE, pending |-> 0, queue |-> <<>>,
                    armed |-> NoArm, survey |-> "armed"]
    /\ pg = [id |-> 0, rows |-> <<>>, devices |-> <<>>, picker |-> <<>>, buttons |-> <<>>, meridiem |-> ""]
    /\ sched = NoGoal /\ aqua = NoGoal /\ spa = NoGoal
    /\ route = [index |-> NoIndex, unavailable |-> FALSE]
    /\ store = [rows |-> <<>>, assigned |-> ""]
    /\ \E panel \in {NewPanel(<<>>, TRUE), NewPanel(<<Printed>>, FALSE)} : box = Repainted(panel)
    /\ ended = [goal |-> NoGoal, over |-> "no"]
    /\ lost = 0 /\ late = 0 /\ overlapped = FALSE

Polled == \E heard \in BOOLEAN : Poll(heard)

IaqNext ==
    \/ Polled
    \/ PageMessage
    \/ Slot_IAQ_ControlReady
    \/ Slot_IAQ_MainStatus
    \/ Slot_IAQ_AuxStatus
    \/ OtherMessage
    \/ Slot_IAQ_Heartbeat
    \/ WatchdogTimeoutOccurred
    \/ \E p \in Programs : RequestSchedule("Create", p, p)
    \/ RequestSchedule("Delete", ParseScheduleRow(Printed), ParseScheduleRow(Printed))
    \/ \E p \in Programs : RequestSchedule("Edit", ParseScheduleRow(Printed), p)
    \/ SetChlorinatorPercentage(50, "Spa")
    \/ SetChlorinatorBoost(TRUE)
    \/ SetSpaSwitchAssignment(1, 1, "Light")
    \/ QueueSetpoint(17, "heatPool", 80)
    \/ ActuateDevice("Light", TRUE)

IaqFairness == WF_iaqVars(Polled \/ Slot_IAQ_ControlReady \/ PageMessage)

IaqSpec == IaqInit /\ [][IaqNext]_iaqVars /\ IaqFairness

-----------------------------------------------------------------------------
(* The type invariant: the channel, the page and the writers keep their      *)
(* shape, no writer outlives its poll limit, and a value is armed only for a *)
(* field the panel has.                                                      *)
IaqTypeOK ==
    /\ dev.op \in {"StartUp", "NormalOperation", "FaultHasOccurred", "NotPresent"}
    /\ dev.pending \in Nat /\ Len(dev.queue) <= 4
    /\ dev.armed.field \in {"none", "on", "off", "Pool", "Spa", "heatPool", "heatSpa"}
    /\ \A w \in Goals : w.polls \in 0..(PollLimit + 1) /\ w.settle \in 0..SettlePolls
    /\ ended.over \in {"no", "completed", "abandoned"}
    /\ (dev.queue # <<>> \/ dev.armed # NoArm \/ Goals # {}) => dev.emulated

(* At most one writer drives the panel: ChannelBusy() refuses a request      *)
(* while any writer has a goal (iaq_device.cpp ChannelBusy: "a goal in any   *)
(* of them blocks the rest").                                                *)
OneWriter == Cardinality(Goals) <= 1

(* A value reaches only the field it was asked for, whatever was asked       *)
(* before, as long as no set-point or survey was queued over a goal and      *)
(* every key was heard and pressed on a painted page: the page gates of the  *)
(* writers (iaq_aquapure_writer.cpp StepSubmit, iaq_schedule_writer.cpp      *)
(* SetTimeField).                                                            *)
ValuesMeant == ~overlapped /\ lost = 0 /\ late = 0 => ~box.wrong

(* Missed answers and late pages do not change that as long as there are no  *)
(* more of them than BACK presses of the AquaPure writer                     *)
(* (iaq_aquapure_writer.cpp StepReturnHome). With one more a goal ends with  *)
(* its field still selected, and the next value lands there when its own     *)
(* selection is missed.                                                      *)
MissesHarmless == [](~overlapped /\ lost + late <= MaxUnwind => ~box.wrong)

(* A program reported written is on the panel's own list, whatever was       *)
(* missed or queued over the goal (StepVerify).                              *)
WrittenIsListed ==
    [][ended' # ended /\ ended'.over = "completed" /\ ended'.goal.op \in {"Create", "Edit"}
       => \E i \in DOMAIN box'.rows : ParseScheduleRow(box'.rows[i]) = ended'.goal.program]_iaqVars

(* A program reported deleted is off the panel's list, when no answer was    *)
(* lost and no key queued over the goal (StepVerifyGone takes an unpainted   *)
(* list for one without the program).                                        *)
DeletedIsGone ==
    [][ended' # ended /\ ended'.over = "completed" /\ ended'.goal.op = "Delete" /\ lost' = 0 /\ ~overlapped'
       => \A i \in DOMAIN box'.rows : ParseScheduleRow(box'.rows[i]) # ended'.goal.match]_iaqVars

(* Once a painted schedule page is complete the store lists exactly the      *)
(* panel's programs (PublishSchedulePage at PageEnd).                        *)
StoreFollows ==
    box.paint = <<>> /\ pg.id = SchedulePage
        => store.rows = [i \in DOMAIN box.rows |-> ParseScheduleRow(box.rows[i])]

(* Every goal ends, whatever the panel paints or misses, while it polls: the *)
(* poll limits of the three writers.                                         *)
IaqGoalsEnd == []<>(Goals = {})

(* One writer at a time puts its own values where they belong, and the store *)
(* follows the panel.                                                        *)
WritersSafe == IaqTypeOK /\ OneWriter /\ ValuesMeant /\ StoreFollows

(* Every goal ends, what is reported done is done, and a few missed answers  *)
(* do no harm.                                                               *)
GoalsKept == WrittenIsListed /\ DeletedIsGone /\ IaqGoalsEnd /\ MissesHarmless
=============================================================================
