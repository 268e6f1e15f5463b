------------------------------- MODULE OneTouch -------------------------------
(***************************************************************************)
(* jandy/devices/onetouch_device.cpp with onetouch/onetouch_message_router  *)
(* .cpp, chlorinator_setpoint_refresh.h and onetouch_startup_survey.cpp:    *)
(* the emulated OneTouch keypad.  Every frame of the panel steps the crawl, *)
(* the goal or the setpoint refresh, whichever drives the one navigator;    *)
(* a key goes out in the answer to a status frame.                          *)
(*                                                                         *)
(* The panel redraws its screen after a key, in frames on which it may show *)
(* the old page, none, or the new one: a line key before the next status, a *)
(* page key before the status after PageLag others.                         *)
(***************************************************************************)
EXTENDS OneTouchPanel

CONSTANTS
  Requests,              \* the goals a user may ask for
  Seeded,                \* aux labels are known from the equipment cache
  ONETOUCH_FAULT_RECOVERY_STATUS_FRAMES, ONETOUCH_SETPOINT_REFRESH_STEP_LIMIT,
  PageLag,               \* statuses the panel may send before a new page is drawn
  MaxRequests, MaxFaults \* bounds: goals asked for, and things that go wrong

VARIABLES
  ot,     \* the device: [d: its own fields, s: spider, n: navigator]
  panel,  \* the panel
  view,   \* the screen the device has received
  late,   \* statuses that may come before the redraw is complete
  env     \* history and bounds

otVars == <<ot, panel, view, late, env>>

Working == {"ColdStart", "StartUp", "Scraping", "NormalOperation"}
Faulted == {"ScrapingFaulted", "FaultHasOccurred"}

(* A device that answers as the keypad, or one that listens to a real one.  *)
NewDevice(emulated) ==
  [op |-> "ColdStart", key |-> NoKey, recover |-> 0, goal |-> NoGoal,
   refresh |-> FALSE, steps |-> 0, enabled |-> TRUE, complete |-> FALSE,
   again |-> FALSE, due |-> FALSE, was |-> "unset", emulated |-> emulated]

OtInit ==
  /\ \E emulated \in BOOLEAN :
       ot = [d |-> NewDevice(emulated), s |-> NewSpider, n |-> NewNavigator]
  /\ panel = NewPanel("StartUp")
  /\ view = Screen(panel)
  /\ late = 0
  /\ env = [asked |-> <<>>, met |-> <<>>, shown |-> {"StartUp"}, online |-> TRUE]
-----------------------------------------------------------------------------
Pair(x) == [s |-> x.s, n |-> x.n]
With(x, y) == [x EXCEPT !.s = y.s, !.n = y.n]
SendsKey(x, cmd) == [x EXCEPT !.d.key = IF cmd = NoKey THEN @ ELSE cmd]

(* Scraping_ProcessStep(): the crawl, and what its end means.              *)
CrawlStepped(x) ==
  CASE x.s.state = "Complete" ->
         [x EXCEPT !.d.enabled = @ /\ "SetAquapure" \notin x.s.failed,
                   !.d.complete = TRUE, !.d.due = FALSE,
                   !.d.op = "NormalOperation", !.n = Reset(@)]
    [] x.s.state = "Failed" -> [x EXCEPT !.d.op = "ScrapingFaulted"]
    [] OTHER -> SendsKey(x, x.n.cmd)

Scraping_ProcessStep(x, scr) ==
  The({CrawlStepped(With(x, y)) : y \in {ProcessStep(Pair(x), scr)}})

(* Scraping_ProcessStep_StartUp(): a spider that crawled before is not      *)
(* started again.                                                           *)
Scraping_ProcessStep_StartUp(x) ==
  LET policy == FullDiscoveryVisitPolicy(Seeded)
  IN  The({[With(x, y) EXCEPT !.d.op = "Scraping"] :
             y \in {IF x.s.state = "Idle" THEN StartCrawl(Pair(x), policy)
                    ELSE Pair(x)}})

(* Mutant: a recovered device keeps the state of its navigator.            *)
AttemptFaultRecoveryKeepsNavigator(x, scr) ==
  IF scr.page = Unknown THEN [x EXCEPT !.d.recover = 0]
  ELSE IF x.d.recover + 1 < ONETOUCH_FAULT_RECOVERY_STATUS_FRAMES
       THEN [x EXCEPT !.d.recover = 0]
  ELSE [x EXCEPT !.d.recover = 0, !.d.complete = TRUE, !.d.op = "NormalOperation"]

(* A fault is over when enough statuses in a row come with a known page.   *)
AttemptFaultRecovery(x, scr) ==
  IF scr.page = Unknown THEN [x EXCEPT !.d.recover = 0]
  ELSE IF x.d.recover + 1 < ONETOUCH_FAULT_RECOVERY_STATUS_FRAMES
       THEN [x EXCEPT !.d.recover = @ + 1]
  ELSE [x EXCEPT !.d.recover = 0, !.d.complete = TRUE, !.n = Reset(@),
                 !.d.op = "NormalOperation"]

(* Mutant: a goal waits for the refresh that is due, which waits for it.    *)
ServiceActiveGoalLater(x, scr) ==
  IF x.d.goal = NoGoal \/ x.d.due THEN x
  ELSE The({SendsKey([x EXCEPT !.d.goal = y.g, !.n = y.n], y.n.cmd) :
              y \in {Service([g |-> x.d.goal, n |-> x.n], scr)}})

ServiceActiveGoal(x, scr) ==
  IF x.d.goal = NoGoal THEN x
  ELSE The({SendsKey([x EXCEPT !.d.goal = y.g, !.n = y.n], y.n.cmd) :
              y \in {Service([g |-> x.d.goal, n |-> x.n], scr)}})

GoalInProgress(x) == x.d.goal # NoGoal \/ x.d.refresh

(* Mutant: a refresh starts whether or not a goal is at work.              *)
EvaluateBlindly(x) ==
  x.d.enabled /\ x.d.emulated /\ x.d.complete /\ (x.d.again \/ x.d.due)

(* Evaluate(): the chlorinator came back, or the interval is over.         *)
Evaluate(x) ==
  /\ x.d.enabled /\ x.d.emulated /\ ~GoalInProgress(x) /\ x.d.complete
  /\ x.d.again \/ x.d.due

EndRefresh(x) == [x EXCEPT !.n = Reset(@), !.d.refresh = FALSE, !.d.due = FALSE]

(* One step of a refresh under way: over when its crawl is, or its steps.  *)
RefreshStep(x, scr) ==
  IF x.d.steps > ONETOUCH_SETPOINT_REFRESH_STEP_LIMIT THEN EndRefresh(x)
  ELSE The({IF x.d.steps > 0 /\ y.s.state \in {"Complete", "Failed"}
            THEN EndRefresh(y) ELSE SendsKey(y, y.n.cmd) :
              y \in {The({With(x, z) : z \in {ProcessStep(Pair(x), scr)}})}})

(* A refresh starts with a crawl to one page, and its first step, of which   *)
(* the end is only noticed in the next.                                     *)
RefreshStarts(x) ==
  The({[With(x, y) EXCEPT !.d.refresh = TRUE, !.d.steps = 0,
                          !.d.again = FALSE, !.d.due = FALSE] :
         y \in {StartCrawl(Pair(x), TargetedVisitPolicy({"SetAquapure"}))}})

(* The chlorinator coming back on line asks for a refresh.                 *)
NoteOnline(x, online) ==
  [x EXCEPT !.d.again = @ \/ (x.d.was = "offline" /\ online),
            !.d.was = IF online THEN "online" ELSE "offline"]

RefreshBegins(x, online) ==
  The({IF Evaluate(y) THEN RefreshStarts(y) ELSE y : y \in {NoteOnline(x, online)}})

SetpointRefresh_ProcessStep(x, scr, online) ==
  The({IF y.d.refresh THEN RefreshStep(y, scr) ELSE y :
         y \in {IF x.d.refresh THEN [x EXCEPT !.d.steps = @ + 1]
                ELSE RefreshBegins(x, online)}})

(* A device that only listens to a real keypad does not crawl.             *)
SkipsStartUp(x) ==
  IF ~x.d.emulated /\ x.d.op \in {"ColdStart", "StartUp"}
  THEN [x EXCEPT !.d.op = "NormalOperation"] ELSE x

(* The crawl starts once the splash screen has gone.                        *)
StartsUp(x, scr) ==
  \/ x.d.op = "StartUp"
  \/ x.d.op = "ColdStart" /\ scr.page \notin {"StartUp", Unknown}

OperatingStep(x, scr, isStatus, online) ==
  CASE x.d.op = "Scraping" \/ StartsUp(x, scr) ->
         Scraping_ProcessStep(IF x.d.op = "Scraping" THEN x
                              ELSE Scraping_ProcessStep_StartUp(x), scr)
    [] x.d.op = "NormalOperation" ->
         The({SetpointRefresh_ProcessStep(y, scr, online) :
                y \in {ServiceActiveGoal(x, scr)}})
    [] x.d.op \in Faulted /\ isStatus -> AttemptFaultRecovery(x, scr)
    [] OTHER -> x

(* ProcessControllerUpdates(): run for every frame.                        *)
ProcessControllerUpdates(x, scr, isStatus, online) ==
  OperatingStep(SkipsStartUp(x), scr, isStatus, online)
-----------------------------------------------------------------------------
(* Something goes wrong on the bus or in the house, a bounded number of      *)
(* times.                                                                   *)
Meets(what, online) ==
  /\ Len(env.met) < MaxFaults
  /\ env' = [env EXCEPT !.met = Append(@, what), !.online = online]

(* Slot_OneTouch_Status: the only frame whose answer carries a key, and the *)
(* key may be lost on the way.                                              *)
Status ==
  /\ view = Screen(panel) \/ late > 0
  /\ \E x \in {ProcessControllerUpdates(
                  [ot EXCEPT !.n = OnStatusMessageReceived(@)], view, TRUE,
                  env.online)} :
     LET sent == IF x.d.emulated THEN x.d.key ELSE NoKey
         after == Takes(panel, sent)
     IN  /\ ot' = [x EXCEPT !.d.key = NoKey]
         /\ \/ /\ panel' = after
               /\ late' = IF after.page # panel.page THEN PageLag
                          ELSE IF late > 0 THEN late - 1 ELSE 0
               /\ env' = [env EXCEPT !.shown = @ \cup {after.page}]
            \/ /\ sent # NoKey /\ Meets("lost", env.online)
               /\ late' = IF late > 0 THEN late - 1 ELSE 0
               /\ UNCHANGED panel
  /\ UNCHANGED view

(* MessageLong, Clear, Highlight, HighlightChars, ShiftLines: the screen is *)
(* redrawn, in one go or with a frame in which no page is recognised; a key *)
(* decided now stays for the next status.                                   *)
Draw ==
  /\ view # Screen(panel)
  /\ \E scr \in {Screen(panel)} \cup
                (IF view.page # Unknown /\ view.page # Screen(panel).page
                 THEN {Blank(Unknown, <<>>, view.hl)} ELSE {}) :
       /\ view' = scr
       /\ ot' = ProcessControllerUpdates(ot, scr, FALSE, env.online)
  /\ UNCHANGED <<panel, late, env>>

(* Probe, DisplayUpdate and unknown frames: a step on the screen as it is. *)
OtherFrame ==
  /\ ot' = ProcessControllerUpdates(ot, view, FALSE, env.online)
  /\ ot' # ot
  /\ Meets("frame", env.online)
  /\ UNCHANGED <<panel, view, late>>

(* The panel leaves its splash screen, or a page by itself (a timeout).    *)
Jump ==
  /\ \/ panel.page = "StartUp" /\ UNCHANGED env
     \/ panel.page \notin {"StartUp", "System"} /\ Meets("jump", env.online)
  /\ panel' = Shows(panel, "System")
  /\ late' = PageLag
  /\ UNCHANGED <<ot, view>>

(* WatchdogTimeoutOccurred(): no frame for the whole timeout.              *)
WatchdogTimeoutOccurred ==
  /\ Meets("silence", env.online)
  /\ ot' = CASE ot.d.op = "Scraping" ->
                  [ot EXCEPT !.d.complete = TRUE, !.d.op = "NormalOperation"]
             [] ot.d.op \in {"StartUp", "ColdStart"} ->
                  [ot EXCEPT !.d.op = "FaultHasOccurred"]
             [] OTHER -> ot
  /\ UNCHANGED <<panel, view, late>>

(* The refresh interval is over, or the chlorinator goes off line and back. *)
RefreshDue ==
  /\ ot.d.op = "NormalOperation" /\ ~ot.d.due
  /\ \/ ot' = [ot EXCEPT !.d.due = TRUE] /\ Meets("due", env.online)
     \/ /\ ~env.online /\ UNCHANGED ot
        /\ env' = [env EXCEPT !.online = TRUE]
     \/ env.online /\ UNCHANGED ot /\ Meets("offline", FALSE)
  /\ UNCHANGED <<panel, view, late>>

(* What a goal is to change on the panel.                                  *)
EffectOf(g) ==
  CASE g.kind = "toggle" -> <<"toggle", g.label>>
    [] g.kind = "value" -> <<"value", g.target>>
    [] g.kind = "boost" -> <<"boost", g.start>>
    [] g.kind = "spa" -> <<"spa", g.function>>
    [] g.kind = "schedule" ->
         <<"program", IF g.op = "Delete" THEN NoProgram ELSE Wanted(g)>>

ReasonCannotActuate(x) == ~x.d.emulated \/ x.d.op \in Faulted

(* ActuateDevice, QueueValueEdit, SetChlorinatorBoost, QueueScheduleWrite,  *)
(* SetSpaSwitchAssignment: a request that is accepted.                      *)
Request(g) ==
  /\ Len(env.asked) < MaxRequests
  /\ ~ReasonCannotActuate(ot) /\ ~GoalInProgress(ot)
  /\ ot' = [ot EXCEPT !.d.goal = TryStart(@, g)]
  /\ env' = [env EXCEPT !.asked = Append(@, EffectOf(g))]
  /\ UNCHANGED <<panel, view, late>>

(* RequestFullRediscovery(): the crawl is only started, never stepped       *)
(* outside the start-up states.                                             *)
RequestFullRediscovery ==
  /\ ot.s.state = "Idle" /\ ot.d.emulated
  /\ ot' = With(ot, StartCrawl(Pair(ot), FullDiscoveryVisitPolicy(FALSE)))
  /\ UNCHANGED <<panel, view, late, env>>

OtNext ==
  \/ Status \/ Draw \/ OtherFrame \/ Jump \/ WatchdogTimeoutOccurred
  \/ RefreshDue \/ RequestFullRediscovery
  \/ \E g \in Requests : Request(g)

(* The panel polls the keypad and redraws its screen.                      *)
OtFairness == WF_otVars(Status \/ Draw) /\ WF_otVars(Jump)

OtSpec == OtInit /\ [][OtNext]_otVars /\ OtFairness
-----------------------------------------------------------------------------
(* The fields of the device and of its helpers stay in their ranges, and    *)
(* the counters of the navigator within the bounds of navigator.h.          *)
OtTypeOK ==
  /\ ot.d.op \in Working \cup Faulted
  /\ ot.d.key \in {NoKey, "Select", "Back", "LineUp", "LineDown", "PageDown"}
  /\ ot.n.state \in NavigatorStates /\ ot.s.state \in SpiderStates
  /\ ot.n.pending \in 0..2 /\ ot.n.attempts \in 0..(MAX_RECOVERY_ATTEMPTS + 1)
  /\ ot.n.backs \in 0..MAX_BACK_PRESSES /\ ot.n.waits \in 0..MAX_WAIT_CYCLES
  /\ ot.n.index \in 0..Len(ot.n.path)
  /\ ot.d.goal = NoGoal \/ ot.d.goal.status = "Running"

(* A goal and the setpoint refresh never drive the navigator at once.      *)
OneDriver == ~(ot.d.goal # NoGoal /\ ot.d.refresh)

Count(seq, e) == Cardinality({i \in DOMAIN seq : seq[i] = e})

(* As long as the panel keeps to the pages it is taken to and no crawl is   *)
(* abandoned under way, nothing changes on it that was not asked for, and   *)
(* nothing twice: whatever keys are lost, and whichever of the crawl, the   *)
(* goals and the refresh drove the navigator before.                        *)
OnlyWhatWasAsked ==
  ToSet(env.met) \cap {"jump", "silence"} = {} =>
    \A i \in DOMAIN panel.log :
      Count(panel.log, panel.log[i]) <= Count(env.asked, panel.log[i])

(* A page the crawl of a device that is heard counts as captured was on the *)
(* panel.                                                                   *)
CapturedWasShown == ot.d.emulated => (ot.s.visited \ ot.s.failed) \subseteq env.shown

(* Every accepted request comes to an end, done or failed.                 *)
GoalsEnd == []<>(ot.d.goal = NoGoal)

(* docs/onetouch_schedule_protocol.md:168-170: a field is stepped closed     *)
(* loop "and Select ... commits the current field and advances to the       *)
(* next": with nothing lost and nobody else at work, a program that is      *)
(* asked for is saved on the panel.                                         *)
ScheduleWritten ==
  \A g \in Requests :
    (ot.d.goal # NoGoal /\ EffectOf(g) \in ToSet(env.asked))
      ~> (EffectOf(g) \in ToSet(panel.log))

(* The device always comes (back) to normal operation: the start-up crawl  *)
(* ends, and a fault is recovered from.                                    *)
StartUpEnds == []<>(ot.d.op \in {"NormalOperation"})

(* The crawl, the goals and the refresh share one navigator and one panel  *)
(* without an unasked, a repeated or an imagined change.                   *)
PanelInHand == OtTypeOK /\ OneDriver /\ OnlyWhatWasAsked /\ CapturedWasShown

(* Neither the start-up nor a request hangs.                               *)
EverythingEnds == GoalsEnd /\ StartUpEnds
=============================================================================
