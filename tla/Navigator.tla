------------------------------ MODULE Navigator ------------------------------
(***************************************************************************)
(* jandy/navigation/navigator.cpp: the key presses that take an emulated    *)
(* keypad from the page it shows to a page, or a row of a page.             *)
(*                                                                         *)
(* The navigator is an object, so it is a record here and each method an    *)
(* operator from the record, and the screen, to the record after the call;  *)
(* the key the method returns is the field cmd.  A screen is the page the   *)
(* menu model detects on it (Unknown when none matches), the rows its       *)
(* labels are found on, and the highlighted row.                            *)
(***************************************************************************)
EXTENDS OneTouchMenu, Integers

CONSTANTS
  Menu,                  \* the menu the navigator walks
  MAX_RECOVERY_ATTEMPTS, MAX_BACK_PRESSES, MAX_RECOMPUTE_COUNT,
  MAX_STUCK_RECOMPUTES, MAX_WAIT_CYCLES, MAX_TRANSIENT_WAITS,
  MAX_CURSOR_MOVES, SYNC_REQUIRED_CONSISTENT_COUNT,
  MAX_ITEM_SCROLL_ATTEMPTS, MAX_CURSOR_STUCK_COUNT

ASSUME NavigatorAssumption ==
  {MAX_RECOVERY_ATTEMPTS, MAX_BACK_PRESSES, MAX_RECOMPUTE_COUNT,
   MAX_STUCK_RECOMPUTES, MAX_WAIT_CYCLES, MAX_TRANSIENT_WAITS,
   MAX_CURSOR_MOVES, SYNC_REQUIRED_CONSISTENT_COUNT,
   MAX_ITEM_SCROLL_ATTEMPTS, MAX_CURSOR_STUCK_COUNT} \subseteq Nat \ {0}

NoKey == "NoKeyCommand"
CURSOR_LINE_NONE == 255
NoEdge == Edge("none", Unknown, 0, NoLabel)

(* FindPath on the menu the navigator walks, for every pair of its pages.  *)
Paths == [p \in DOMAIN Menu |-> [q \in DOMAIN Menu |-> FindPath(Menu, p, q)]]
PathTo(p, q) ==
  IF {p, q} \subseteq DOMAIN Menu THEN Paths[p][q] ELSE <<>>

NavigatorStates == {"Idle", "Syncing", "Navigating", "WaitingForPage",
                    "MovingCursor", "EnteringPassword", "Reorienting",
                    "AtDestination", "Failed"}

(* A new navigator, and what Reset() makes of one: it keeps the cursor, the *)
(* item fields and the cursor target.                                      *)
NewNavigator ==
  [state |-> "Idle", page |-> Unknown, target |-> Unknown,
   cursor |-> 0, tcursor |-> 0, path |-> <<>>, index |-> 0, pending |-> 0,
   attempts |-> 0, backs |-> 0,
   toItem |-> FALSE, line |-> 0, label |-> NoLabel, select |-> Unknown,
   scrolls |-> 0, prev |-> 0, stuck |-> 0, skip |-> FALSE, edge |-> NoEdge,
   moves |-> 0, waits |-> 0, recomputes |-> 0, sameTarget |-> 0,
   lastTarget |-> Unknown, splash |-> 0, syncPage |-> Unknown, syncs |-> 0,
   cmd |-> NoKey]

Reset(n) == [NewNavigator EXCEPT !.cursor = n.cursor, !.tcursor = n.tcursor,
               !.line = n.line, !.label = n.label, !.scrolls = n.scrolls]

StartSync(n) == [n EXCEPT !.state = "Syncing", !.page = Unknown,
                          !.syncPage = Unknown, !.syncs = 0, !.splash = 0]

(* What both entry points clear: the wait count, the stuck and move counts  *)
(* of the cursor and the skip flag are not among it.                        *)
Fresh(n, target) ==
  [n EXCEPT !.target = target, !.path = <<>>, !.index = 0,
            !.state = "Navigating", !.pending = 0, !.recomputes = 0,
            !.sameTarget = 0, !.lastTarget = Unknown, !.attempts = 0,
            !.backs = 0, !.splash = 0]

NavigateTo(n, target) ==
  [Fresh(n, target) EXCEPT !.toItem = FALSE, !.select = Unknown]

NavigateToItem(n, page, line, label, select) ==
  [Fresh(n, page) EXCEPT !.toItem = TRUE, !.line = line, !.label = label,
                         !.select = select, !.scrolls = 0]

OnStatusMessageReceived(n) ==
  [n EXCEPT !.pending = IF @ > 0 THEN @ - 1 ELSE 0]

IsComplete(n) == n.state \in {"AtDestination", "Failed"}
IsSuccess(n) == n.state = "AtDestination"
IsSynced(n) == n.page # Unknown
IsBlockingPage(p) == p \in {"Service", "TimeOut"}
IsTransientPage(p) == p \in DOMAIN Menu /\ Menu[p].transient

-----------------------------------------------------------------------------
(* Key k is returned and, unless it was sent as none, n status messages     *)
(* must come before the screen is trusted again.                            *)
Press(n, key, statuses) == [n EXCEPT !.cmd = key, !.pending = statuses]
Fail(n) == [n EXCEPT !.state = "Failed", !.cmd = NoKey]
Waits(n) == [n EXCEPT !.cmd = NoKey]

(* The first row that starts with the label, if any.                       *)
FindLineByLabel(scr, label) ==
  IF label \in DOMAIN scr.rows THEN {scr.rows[label]} ELSE {}

(* The row of an edge: where its label is, else the row the menu says.     *)
RowOf(scr, e) ==
  LET found == FindLineByLabel(scr, e.label)
  IN  IF found = {} THEN e.line ELSE CHOOSE l \in found : TRUE

InitiateRecovery(n) ==
  LET m == [n EXCEPT !.attempts = @ + 1]
  IN  IF m.attempts > MAX_RECOVERY_ATTEMPTS THEN [m EXCEPT !.state = "Failed"]
      ELSE [m EXCEPT !.state = "Reorienting", !.backs = 0,
                     !.path = <<>>, !.index = 0]

Routed(n) == [n EXCEPT !.path = PathTo(n.page, n.target), !.index = 0]

ComputePath(n) ==
  IF n.page = Unknown THEN InitiateRecovery(n)
  ELSE The({IF m.path = <<>> /\ m.page # m.target THEN InitiateRecovery(m) ELSE m :
              m \in {Routed(n)}})

(* HandleSyncing: a page counts once it is seen often enough in a row.     *)
HandleSyncing(n, detected) ==
  LET streak == IF detected = n.syncPage THEN n.syncs + 1 ELSE 1
  IN  IF detected \in {Unknown, "StartUp", "Service", "TimeOut"}
      THEN [n EXCEPT !.syncs = 0, !.syncPage = Unknown, !.cmd = NoKey]
      ELSE IF streak >= SYNC_REQUIRED_CONSISTENT_COUNT
           THEN [n EXCEPT !.page = detected, !.state = "Idle", !.syncs = 0,
                          !.syncPage = Unknown, !.cmd = NoKey]
           ELSE [n EXCEPT !.syncPage = detected, !.syncs = streak, !.cmd = NoKey]

(* A splash screen is waited out, a bounded number of times.               *)
WaitsForSplash(n) == IsTransientPage(n.page) /\ n.splash < MAX_TRANSIENT_WAITS
HandleTransientPage(n) ==
  [n EXCEPT !.splash = @ + 1, !.state = "WaitingForPage", !.pending = 0]

(* The third recomputation towards one target is given up.                 *)
DetectStuckRecompute(n) ==
  IF n.target # n.lastTarget
  THEN [n EXCEPT !.sameTarget = 1, !.lastTarget = n.target]
  ELSE IF n.sameTarget + 1 >= MAX_STUCK_RECOMPUTES
       THEN [n EXCEPT !.sameTarget = 0, !.lastTarget = Unknown,
                      !.state = "Failed"]
       ELSE [n EXCEPT !.sameTarget = @ + 1]

(* A way from the page shown, or back to the page every way starts from.   *)
Reroute(n) ==
  IF n.state = "Failed" \/ n.recomputes >= MAX_RECOMPUTE_COUNT THEN Fail(n)
  ELSE IF n.page = Unknown THEN InitiateRecovery(n)
  ELSE The({IF m.path # <<>> THEN [m EXCEPT !.state = "Navigating"]
            ELSE InitiateRecovery(m) : m \in {Routed(n)}})

(* The page after a key press is not the one expected; a splash screen that *)
(* outlasted its waits is still counted.                                    *)
HandleUnexpectedPage(n) ==
  IF WaitsForSplash(n) THEN HandleTransientPage(n)
  ELSE The({Reroute(DetectStuckRecompute(m)) :
              m \in {[n EXCEPT !.recomputes = @ + 1,
                               !.splash = IF IsTransientPage(n.page) THEN @ + 1 ELSE @]}})
-----------------------------------------------------------------------------
RECURSIVE ExecuteNextStep(_, _), MoveCursorToTarget(_, _), RecoveryNext(_, _)

(* At the page of an item: to its row, and then the one Select.            *)
ItemStep(n, scr) ==
  LET found == FindLineByLabel(scr, n.label)
      row == IF n.label = NoLabel THEN n.line ELSE CHOOSE l \in found : TRUE
      m == [n EXCEPT !.tcursor = row]
  IN  IF n.label # NoLabel /\ found = {}
      THEN IF /\ n.page \in DOMAIN Menu
              /\ SupportsKey(Menu, n.page, "PageDown")
              /\ n.scrolls < MAX_ITEM_SCROLL_ATTEMPTS
           THEN Press([n EXCEPT !.scrolls = @ + 1, !.state = "WaitingForPage"],
                      "PageDown", 1)
           ELSE Fail(n)
      ELSE IF n.cursor # row
           THEN MoveCursorToTarget([m EXCEPT !.state = "MovingCursor"], scr)
      ELSE IF n.select # Unknown
           THEN Press([m EXCEPT !.target = n.select, !.toItem = FALSE,
                                !.select = Unknown, !.path = <<>>, !.index = 0,
                                !.state = "WaitingForPage"], "Select", 2)
      ELSE [m EXCEPT !.state = "AtDestination", !.cmd = NoKey]

(* The next edge of the path: to its row first if it is a Select.          *)
PathStep(n, scr) ==
  LET e == n.path[n.index + 1]
      row == RowOf(scr, e)
  IN  IF e.trigger = "Select" /\ ~n.skip /\ n.cursor # row
      THEN MoveCursorToTarget([n EXCEPT !.tcursor = row, !.edge = e,
                                        !.moves = 0, !.state = "MovingCursor"], scr)
      ELSE Press([n EXCEPT !.skip = FALSE, !.index = @ + 1,
                           !.state = "WaitingForPage"], e.trigger, 2)

WithPath(n) ==
  IF n.path = <<>> /\ n.page # n.target THEN ComputePath(n) ELSE n

ExecuteNextStep(nav, scr) ==
  The({IF n.state = "Reorienting" THEN RecoveryNext(n, scr)
       ELSE IF n.page = n.target
            THEN IF n.toItem THEN ItemStep(n, scr)
                 ELSE [n EXCEPT !.state = "AtDestination", !.cmd = NoKey]
       ELSE IF n.index >= Len(n.path)
            THEN ExecuteNextStep([n EXCEPT !.path = <<>>], scr)
       ELSE PathStep(n, scr) :
         n \in {WithPath(nav)}})

(* A row that cannot be reached: an item is given up, a menu row selected   *)
(* as it is.                                                                *)
BestEffort(n, scr) ==
  IF n.toItem THEN Fail(n)
  ELSE ExecuteNextStep([n EXCEPT !.tcursor = n.cursor, !.skip = TRUE,
                                 !.state = "Navigating"], scr)

GiveUpCursorMove(n, scr) == BestEffort([n EXCEPT !.moves = 0], scr)

(* The row the label of the current edge is on now, if it is another one.  *)
AttemptWrapRecovery(n, scr) ==
  {l \in FindLineByLabel(scr, n.edge.label) : l # n.tcursor}

(* One row towards the target, unless the cursor has not moved for long.   *)
CursorStep(n, scr) ==
  LET same == n.cursor = n.prev /\ n.stuck > 0
      stuck == IF same THEN n.stuck + 1 ELSE 1
  IN  IF same /\ stuck >= MAX_CURSOR_STUCK_COUNT
      THEN BestEffort([n EXCEPT !.stuck = 0], scr)
      ELSE Press([n EXCEPT !.stuck = stuck, !.prev = n.cursor],
                 IF n.cursor < n.tcursor THEN "LineDown" ELSE "LineUp", 1)

(* Too many moves: the row may have wrapped round to another line.         *)
CursorWrapped(n, scr) ==
  LET wrap == AttemptWrapRecovery(n, scr)
      row == CHOOSE l \in wrap : TRUE
  IN  IF wrap = {} THEN GiveUpCursorMove(n, scr)
      ELSE IF n.cursor = row
           THEN ExecuteNextStep([n EXCEPT !.tcursor = row, !.moves = 0,
                                          !.stuck = 0, !.state = "Navigating"], scr)
      ELSE CursorStep([n EXCEPT !.tcursor = row, !.moves = 0], scr)

MoveCursorToTarget(n, scr) ==
  IF n.cursor = n.tcursor
  THEN ExecuteNextStep([n EXCEPT !.stuck = 0, !.moves = 0,
                                 !.state = "Navigating"], scr)
  ELSE IF n.pending > 0 THEN Waits(n)
  ELSE IF n.moves < MAX_CURSOR_MOVES
       THEN CursorStep([n EXCEPT !.moves = @ + 1], scr)
  ELSE CursorWrapped([n EXCEPT !.moves = @ + 1], scr)

(* A page without Back is left by the row that leads to the System page.   *)
RecoverySelect(n, scr) ==
  LET es == SelectSeq(Menu[n.page].edges,
                      LAMBDA e : e.trigger = "Select" /\ e.target = "System")
      row == RowOf(scr, es[1])
      m == [n EXCEPT !.tcursor = row]
  IN  IF es = <<>> THEN Fail(n)
      ELSE IF n.cursor # row
           THEN MoveCursorToTarget([m EXCEPT !.edge = es[1], !.moves = 0,
                                             !.state = "MovingCursor"], scr)
      ELSE Press(m, "Select", 2)

(* Back, until the presses of this attempt and then the attempts run out.  *)
RecoveryBack(n) ==
  LET worn == n.backs >= MAX_BACK_PRESSES
      m == IF worn THEN [n EXCEPT !.attempts = @ + 1, !.backs = 0] ELSE n
  IN  IF worn /\ m.attempts >= MAX_RECOVERY_ATTEMPTS THEN Fail(m)
      ELSE Press([m EXCEPT !.backs = @ + 1], "Back", 2)

RecoveryNext(n, scr) ==
  IF n.pending > 0 THEN Waits(n)
  ELSE IF IsBlockingPage(n.page) THEN Fail(n)
  ELSE IF n.page = "System"
       THEN ExecuteNextStep([n EXCEPT !.state = "Navigating", !.backs = 0,
                                      !.path = <<>>, !.index = 0], scr)
  ELSE IF n.page \in DOMAIN Menu /\ ~SupportsKey(Menu, n.page, "Back")
       THEN RecoverySelect(n, scr)
  ELSE RecoveryBack(n)

HandleWaitingForPage(n, scr) ==
  LET unexpected == /\ n.index > 0
                    /\ n.index <= Len(n.path)
                    /\ n.page # n.path[n.index].target
  IN  IF n.pending > 0 THEN Waits(n)
      ELSE IF ~unexpected
           THEN ExecuteNextStep([n EXCEPT !.state = "Navigating"], scr)
      ELSE The({CASE u.state = "Navigating" -> ExecuteNextStep(u, scr)
                  [] u.state = "Reorienting" -> RecoveryNext(u, scr)
                  [] OTHER -> Waits(u) :
                  u \in {HandleUnexpectedPage(n)}})

HandlePasswordEntry(n) == Press([n EXCEPT !.state = "WaitingForPage"], "Back", 2)

(* Service ends the navigation, TimeOut postpones it.                      *)
HandleSpecialPage(n) ==
  IF n.page = "Service" THEN Fail(n) ELSE Press(n, NoKey, 2)

CountsWaits(n) ==
  [n EXCEPT !.waits = IF n.state = "WaitingForPage" /\ n.pending > 0 THEN @ + 1 ELSE 0]

(* A page that does not come within the wait cycles starts a recovery.     *)
Dispatch(nav, scr) ==
  The({IF n.waits >= MAX_WAIT_CYCLES
       THEN RecoveryNext(InitiateRecovery([n EXCEPT !.waits = 0]), scr)
       ELSE CASE n.state = "WaitingForPage" -> HandleWaitingForPage(n, scr)
              [] n.state = "MovingCursor" -> MoveCursorToTarget(n, scr)
              [] n.state = "Navigating" -> ExecuteNextStep(n, scr)
              [] n.state = "Reorienting" -> RecoveryNext(n, scr)
              [] n.state = "EnteringPassword" -> HandlePasswordEntry(n)
              [] OTHER -> Waits(n) :
         n \in {CountsWaits(nav)}})

OnPageUpdate(nav, scr) ==
  The({IF n.state = "Syncing"
       THEN HandleSyncing([n EXCEPT !.page = Unknown], scr.page)
       ELSE IF IsBlockingPage(n.page) THEN HandleSpecialPage(n)
       ELSE IF n.page = "EnterPassword" /\ n.state # "EnteringPassword"
            THEN Press(n, "Back", 2)
       ELSE Dispatch(n, scr) :
         n \in {[nav EXCEPT
                   !.cursor = IF scr.hl # CURSOR_LINE_NONE THEN scr.hl ELSE @,
                   !.page = IF scr.page # Unknown THEN scr.page ELSE @]}})
=============================================================================
