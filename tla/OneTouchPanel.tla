---------------------------- MODULE OneTouchPanel ----------------------------
(***************************************************************************)
(* The OneTouch panel, from how the code under jandy/devices/onetouch uses  *)
(* it (external): which page a key leads to, which rows a page has, and     *)
(* what a key changes in the pool's equipment.  PanelMenu is the menu this  *)
(* panel really has, which may lack pages of the menu the program assumes.  *)
(***************************************************************************)
EXTENDS KeypadGoals

CONSTANTS PanelMenu,    \* the pages and edges of this panel
          ExtraRows,    \* the rows a page has besides its menu rows
          Functions,    \* what the picker of a spa switch cycles through
          DayChoices,   \* what the days field of the editor cycles through
          TopValue      \* the largest value of a setpoint

NoProgram == [on |-> <<NoValue, NoValue>>, off |-> <<NoValue, NoValue>>,
              days |-> NoValue]

RawParent == [detail |-> "Program", nodetail |-> "Program",
              editor |-> "detail", number |-> "SystemSetup",
              buttons |-> "number", picker |-> "buttons"]
RawPages == DOMAIN RawParent

(* The rows of a page; the Boost page has a Stop row while a boost runs.   *)
RowsOf(page, boost) ==
  LET es == IF page \in DOMAIN PanelMenu
            THEN ToSet(SelectSeq(PanelMenu[page].edges,
                                 LAMBDA e : e.trigger = "Select")) ELSE {}
      extra == IF page \in DOMAIN ExtraRows THEN ExtraRows[page] ELSE <<>>
      stop == IF page # "Boost" THEN <<>>
              ELSE IF boost THEN [Stop |-> 10] ELSE [Start |-> 9]
  IN  [l \in {e.label : e \in es} |->
         (CHOOSE e \in es : e.label = l).line] @@ extra @@ stop
PanelRows == [page \in DOMAIN PanelMenu \cup RawPages |->
                [boost \in BOOLEAN |-> RowsOf(page, boost)]]
PanelLines == [page \in DOMAIN PanelRows |-> [boost \in BOOLEAN |->
                 {RowsOf(page, boost)[l] : l \in DOMAIN RowsOf(page, boost)}]]

RowsAt(p) == PanelRows[p.page][p.boost]
Lines(p) == PanelLines[p.page][p.boost]
FirstLine(p) == IF Lines(p) = {} THEN CURSOR_LINE_NONE ELSE Min(Lines(p))
LabelAt(p) == CHOOSE l \in DOMAIN RowsAt(p) : RowsAt(p)[l] = p.cursor

NewPanel(page) ==
  LET p == [page |-> page, cursor |-> 0, editing |-> FALSE, value |-> 1,
            boost |-> FALSE, function |-> 1, program |-> NoProgram,
            draft |-> NoProgram, field |-> 0, log |-> <<>>]
  IN  [p EXCEPT !.cursor = FirstLine(p)]

Shows(p, page) ==
  LET q == [p EXCEPT !.page = page, !.editing = FALSE]
  IN  [q EXCEPT !.cursor = FirstLine(q)]

(* The screen the panel means to show.                                     *)
Screen(p) ==
  [Blank(IF p.page \in RawPages THEN Unknown ELSE p.page, RowsAt(p), p.cursor)
   EXCEPT !.kind = IF p.page \in RawPages THEN p.page ELSE "menu",
          !.value = IF p.page = "SetTemperature" THEN p.value ELSE NoValue,
          !.running = p.page = "Boost" /\ p.boost,
          !.function = IF p.page = "picker" THEN Functions[p.function] ELSE NoLabel,
          !.on = IF p.page = "editor" THEN p.draft.on
                 ELSE IF p.page = "detail" THEN p.program.on ELSE @,
          !.off = IF p.page = "editor" THEN p.draft.off
                  ELSE IF p.page = "detail" THEN p.program.off ELSE @,
          !.days = IF p.page = "editor" THEN p.draft.days
                   ELSE IF p.page = "detail" THEN p.program.days ELSE @]

Logs(p, effect) == [p EXCEPT !.log = Append(@, effect)]
DetailOf(p) == IF p.program = NoProgram THEN "nodetail" ELSE "detail"

(* Select in the editor confirms a field; the last one saves the program.  *)
EditorSelect(p) ==
  IF p.field < 4 THEN [p EXCEPT !.field = @ + 1]
  ELSE Logs(Shows([p EXCEPT !.program = p.draft], "detail"),
            <<"program", p.draft>>)

SelectOn(p) ==
  LET e == SelectSeq(PanelMenu[p.page].edges,
                     LAMBDA x : x.trigger = "Select" /\ x.label = LabelAt(p))
  IN  CASE p.page = "picker" ->
             Logs(Shows(p, "buttons"), <<"spa", Functions[p.function]>>)
        [] p.page = "number" -> Shows(p, "buttons")
        [] p.page = "buttons" -> Shows(p, "picker")
        [] p.page = "editor" -> EditorSelect(p)
        [] p.page \in {"detail", "nodetail"} ->
             IF p.cursor = DELETE_ROW
             THEN Logs(Shows([p EXCEPT !.program = NoProgram], "nodetail"),
                       <<"program", NoProgram>>)
             ELSE Shows([p EXCEPT !.field = 0, !.draft =
                           [on |-> <<0, 0>>, off |-> <<0, 0>>,
                            days |-> DayChoices[1]]], "editor")
        [] Lines(p) = {} -> p
        [] p.page \in DOMAIN PanelMenu /\ e # <<>> -> Shows(p, e[1].target)
        [] p.page = "EquipmentOnOff" -> Logs(p, <<"toggle", LabelAt(p)>>)
        [] p.page = "SetTemperature" ->
             IF p.editing THEN Logs([p EXCEPT !.editing = FALSE], <<"value", p.value>>)
             ELSE [p EXCEPT !.editing = TRUE]
        [] p.page = "Boost" ->
             Logs(Shows([p EXCEPT !.boost = ~@], "Boost"), <<"boost", ~p.boost>>)
        [] p.page = "SystemSetup" -> Shows(p, "number")
        [] p.page = "Program" -> Shows(p, DetailOf(p))
        [] OTHER -> p

BackFrom(p) ==
  LET e == SelectSeq(PanelMenu[p.page].edges, LAMBDA x : x.trigger = "Back")
  IN  IF p.page \in RawPages THEN Shows(p, RawParent[p.page])
      ELSE IF e = <<>> THEN p ELSE Shows(p, e[1].target)

Turn(x, size, key) == (x + (IF key = "LineUp" THEN 1 ELSE size - 1)) % size

(* A line key in the editor or on a value turns it; elsewhere the cursor    *)
(* goes to the next row and round at the end.                               *)
TurnField(p, key) ==
  LET d == CHOOSE i \in DOMAIN DayChoices : DayChoices[i] = p.draft.days
  IN  CASE p.field = 0 -> [p EXCEPT !.draft.on[1] = Turn(@, HOURS, key)]
        [] p.field = 1 -> [p EXCEPT !.draft.on[2] = Turn(@, MINUTES, key)]
        [] p.field = 2 -> [p EXCEPT !.draft.off[1] = Turn(@, HOURS, key)]
        [] p.field = 3 -> [p EXCEPT !.draft.off[2] = Turn(@, MINUTES, key)]
        [] p.field = 4 -> [p EXCEPT !.draft.days =
                             DayChoices[1 + Turn(d - 1, Len(DayChoices), key)]]

LineKey(p, key) ==
  LET up == {l \in Lines(p) : l < p.cursor}
      down == {l \in Lines(p) : l > p.cursor}
  IN  CASE p.page = "editor" -> TurnField(p, key)
        [] p.page = "picker" ->
             [p EXCEPT !.function = 1 + Turn(@ - 1, Len(Functions), key)]
        [] p.page # "picker" /\ p.editing ->
             [p EXCEPT !.value = IF key = "LineUp" THEN Min({@ + 1, TopValue})
                                 ELSE Max({@ - 1, 0})]
        [] Lines(p) = {} -> p
        [] key = "LineDown" ->
             [p EXCEPT !.cursor = Min(IF down = {} THEN Lines(p) ELSE down)]
        [] OTHER -> [p EXCEPT !.cursor = Max(IF up = {} THEN Lines(p) ELSE up)]

(* What the panel makes of the key in an acknowledgement.                  *)
Takes(p, key) ==
  CASE key = "Select" -> SelectOn(p)
    [] key = "Back" -> BackFrom(p)
    [] key \in {"LineUp", "LineDown"} -> LineKey(p, key)
    [] OTHER -> p
=============================================================================
