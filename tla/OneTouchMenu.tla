----------------------------- MODULE OneTouchMenu -----------------------------
(***************************************************************************)
(* The menu tree of the OneTouch panel, jandy/navigation/                  *)
(* onetouch_menu_model.cpp, and the queries of MenuModel on it,            *)
(* jandy/navigation/menu_model.cpp.                                        *)
(*                                                                         *)
(* A page is a record of its edges in source order and of the flags the    *)
(* navigator and the spider look at.  The LineUp and LineDown edges every   *)
(* page has lead to the page itself and are left out.  A label is the text  *)
(* of a row; a detector is abstracted to the page it recognises.            *)
(***************************************************************************)
EXTENDS Naturals, Sequences, SequencesExt, FiniteSets

(* The element of a set of one: The({f(x) : x \in {v}}) is f(v), with v     *)
(* evaluated once.                                                          *)
The(S) == CHOOSE z \in S : TRUE

Unknown == "Unknown"
NoLabel == "none"

Edge(trigger, target, line, label) ==
  [trigger |-> trigger, target |-> target, line |-> line, label |-> label]
Sel(target, line, label) == Edge("Select", target, line, label)
BackTo(target) == Edge("Back", target, 0, NoLabel)

Page(edges) == [edges |-> edges, scrolls |-> FALSE, multi |-> FALSE,
                transient |-> FALSE]
Leaf(parent) == Page(<<BackTo(parent)>>)

(* The home pages: none of them answers Back.                              *)
HomePages ==
  [System |-> Page(<<Sel("EquipmentOnOff", 9, "Equipment ON/OFF"),
                     Sel("OneTouch", 10, "OneTouch ON/OFF"),
                     Sel("MenuHelp", 11, "Menu/Help")>>),
   OneTouch |-> Page(<<Sel("System", 11, "System")>>),
   MoreOneTouch |-> Page(<<Sel("OneTouch", 10, "OneTouch ON/OFF"),
                           Sel("System", 11, "System")>>)]

MenuPages ==
  [MenuHelp |-> Page(<<Sel("HelpSubmenu", 1, "Help"),
                       Sel("Program", 2, "Program"),
                       Sel("SetTemperature", 3, "Set Temp"),
                       Sel("SetTime", 4, "Set Time"),
                       Sel("SetAquapure", 5, "Set AquaPure"),
                       Sel("DisplayLight", 6, "Display Light"),
                       Sel("Lockouts", 7, "Lockouts"),
                       Sel("PasswordSettings", 8, "Password"),
                       Sel("ProgramGroup", 9, "Program Group"),
                       Sel("SystemSetup", 10, "System Setup"),
                       Sel("Boost", 11, "Boost Pool"),
                       BackTo("System")>>),
   HelpSubmenu |-> Page(<<Sel("HelpKeys", 7, "Keys"),
                          Sel("HelpService", 8, "Service"),
                          Sel("DiagnosticsSensors", 9, "Diagnostics"),
                          BackTo("MenuHelp")>>),
   HelpKeys |-> Leaf("HelpSubmenu"),
   HelpService |-> Leaf("HelpSubmenu")]

DiagnosticsPages ==
  [DiagnosticsSensors |-> Page(<<Sel("DiagnosticsRemotes", 0, "Next"),
                                 BackTo("HelpSubmenu")>>),
   DiagnosticsRemotes |-> Page(<<Sel("DiagnosticsErrors", 0, "Next"),
                                 BackTo("DiagnosticsSensors")>>),
   DiagnosticsErrors |-> Page(<<Sel("DiagnosticsIAQStatus", 0, "Continue"),
                                BackTo("DiagnosticsRemotes")>>),
   DiagnosticsIAQStatus |-> Page(<<Sel("DiagnosticsIAQRSSI", 0, "Continue"),
                                   BackTo("DiagnosticsErrors")>>),
   DiagnosticsIAQRSSI |-> Page(<<Sel("HelpSubmenu", 0, "Continue"),
                                 BackTo("DiagnosticsIAQStatus")>>)]

(* The rows of the Label Aux list: the edge's line is the row of the first  *)
(* screen, or a number past it for a row that has to be scrolled to.        *)
AuxRows == <<"Aux1", "Aux2", "Aux3", "Aux4", "Aux5", "Aux6", "Aux7">>
           \o <<"Aux B1", "Aux B2", "Aux B3", "Aux B4",
                "Aux B5", "Aux B6", "Aux B7", "Aux B8">>
           \o <<"Aux C1", "Aux C2", "Aux C3", "Aux C4",
                "Aux C5", "Aux C6", "Aux C7", "Aux C8">>
           \o <<"Aux D1", "Aux D2", "Aux D3", "Aux D4",
                "Aux D5", "Aux D6", "Aux D7", "Aux D8">>

LabelPages ==
  [SystemSetup |-> Page(<<Sel("LabelAuxList", 2, "Label Aux"),
                          BackTo("MenuHelp")>>),
   LabelAuxList |-> [Page([i \in DOMAIN AuxRows |-> Sel("LabelAux", i + 1, AuxRows[i])]
                          \o <<BackTo("SystemSetup")>>)
                     EXCEPT !.scrolls = TRUE],
   LabelAux |-> [Page(<<Sel("GeneralLabels", 5, "General Labels"),
                        Sel("LightLabels", 6, "Light   Labels"),
                        Sel("WaterfallLabels", 7, "Waterfall Labels"),
                        BackTo("LabelAuxList")>>)
                 EXCEPT !.multi = TRUE],
   GeneralLabels |-> Leaf("LabelAux"), LightLabels |-> Leaf("LabelAux"),
   WaterfallLabels |-> Leaf("LabelAux"), CustomLabel |-> Leaf("LabelAux")]

EquipmentPages ==
  [EquipmentOnOff |-> [Page(<<Sel("System", 11, "System")>>)
                       EXCEPT !.scrolls = TRUE],
   EquipmentStatus |-> Leaf("System"),
   SetTemperature |-> Leaf("MenuHelp"), SetTime |-> Leaf("MenuHelp"),
   FreezeProtect |-> Leaf("MenuHelp"), Boost |-> Leaf("MenuHelp"),
   SetAquapure |-> Leaf("MenuHelp"), SelectSpeed |-> Leaf("EquipmentOnOff")]

ProgramPages ==
  [Program |-> Leaf("MenuHelp"), DisplayLight |-> Leaf("MenuHelp"),
   Lockouts |-> Leaf("MenuHelp"), PasswordSettings |-> Leaf("MenuHelp"),
   ProgramGroup |-> Leaf("MenuHelp")]

(* Pages the panel shows on its own; two of them block every operation.    *)
SystemPages ==
  [StartUp |-> [Page(<<>>) EXCEPT !.transient = TRUE],
   Service |-> Page(<<>>), TimeOut |-> Page(<<>>),
   EnterPassword |-> Leaf("MenuHelp")]

Union2(f, g) == [p \in DOMAIN f \cup DOMAIN g |->
                   IF p \in DOMAIN f THEN f[p] ELSE g[p]]

CreateOneTouchMenuModel ==
  FoldSeq(Union2, SystemPages,
          <<HomePages, MenuPages, DiagnosticsPages, LabelPages,
            EquipmentPages, ProgramPages>>)

(* Pages a panel without the optional equipment does not have.             *)
OneTouchPageCapabilityRequirement ==
  {"DiagnosticsIAQStatus", "DiagnosticsIAQRSSI", "Boost", "SetAquapure"}
-----------------------------------------------------------------------------
(* The part of a menu on a set of pages.                                   *)
Restricted(menu, pages) ==
  [p \in pages |->
     [menu[p] EXCEPT !.edges = SelectSeq(@, LAMBDA e : e.target \in pages)]]

SupportsKey(menu, p, trigger) ==
  \/ \E i \in DOMAIN menu[p].edges : menu[p].edges[i].trigger = trigger
  \/ trigger \in {"PageUp", "PageDown"} /\ menu[p].scrolls

(* The edges that lead off a page, in source order.                        *)
Transitions(menu, p) ==
  IF p \in DOMAIN menu
  THEN SelectSeq(menu[p].edges, LAMBDA e : e.target # p) ELSE <<>>

(* The edges to pages not reached yet; of two to one page the first counts. *)
Unseen(menu, p, seen) ==
  The({SelectSeq(es, LAMBDA e : \E i \in DOMAIN es :
                       /\ es[i] = e /\ e.target \notin seen
                       /\ \A j \in 1..(i-1) : es[j].target # e.target) :
         es \in {Transitions(menu, p)}})

(* Breadth-first search over whole paths: each path in the queue ends on a  *)
(* page no earlier path reaches.                                            *)
RECURSIVE Search(_, _, _, _)
Search(menu, queue, seen, to) ==
  IF queue = <<>> THEN <<>>
  ELSE LET path == Head(queue).path
       IN  The({IF to \in {es[i].target : i \in DOMAIN es}
                THEN Append(path, CHOOSE e \in ToSet(es) : e.target = to)
                ELSE Search(menu,
                            Tail(queue) \o
                              [i \in DOMAIN es |->
                                 [page |-> es[i].target, path |-> Append(path, es[i])]],
                            seen \cup {es[i].target : i \in DOMAIN es}, to) :
                  es \in {Unseen(menu, Head(queue).page, seen)}})

(* The shortest sequence of key presses between two pages; empty when they  *)
(* are the same or there is none.                                           *)
FindPath(menu, from, to) ==
  IF from = to THEN <<>>
  ELSE Search(menu, <<[page |-> from, path |-> <<>>]>>, {from}, to)

(* The Select edges into a page, with the page each is on.                 *)
GetIncomingSelectEdges(menu, target) ==
  {<<p, i>> \in {<<q, j>> \in (DOMAIN menu) \X (1..40) :
                   j \in DOMAIN menu[q].edges} :
     /\ menu[p].edges[i].trigger = "Select"
     /\ menu[p].edges[i].target = target
     /\ p # target}
=============================================================================
