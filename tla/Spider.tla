-------------------------------- MODULE Spider --------------------------------
(***************************************************************************)
(* jandy/navigation/spider_engine.cpp and visit_policies.cpp: the crawl     *)
(* that visits every page its policy wants, nearest first, and a page of    *)
(* several instances once per row that leads to it.                         *)
(*                                                                         *)
(* The engine drives the navigator it shares with the device, so an         *)
(* operator here maps [s: engine, n: navigator] to the pair after the call. *)
(***************************************************************************)
EXTENDS Navigator, FiniteSetsExt

CONSTANTS
  PageOrder,               \* the order the page table is iterated in
  MAX_NAVIGATION_FAILURES

ASSUME SpiderAssumption == MAX_NAVIGATION_FAILURES \in Nat \ {0}

SpiderStates == {"Idle", "Syncing", "NavigatingToNext", "CapturingPage",
                 "Complete", "Failed"}
SpiderBusy == {"Syncing", "NavigatingToNext", "CapturingPage"}
NoRow == <<Unknown, 0>>

NewSpider == [state |-> "Idle", policy |-> {}, visited |-> {}, failed |-> {},
              rows |-> {}, row |-> NoRow, target |-> Unknown, failures |-> 0,
              completions |-> 0]

LabelPageIds == {"LabelAuxList", "LabelAux", "GeneralLabels", "LightLabels",
                 "WaterfallLabels", "CustomLabel"}

(* The pages the start-up crawl visits.                                    *)
FullDiscoveryVisitPolicy(skipLabels) ==
  DOMAIN Menu \ ({Unknown, "StartUp", "Service", "TimeOut", "EnterPassword"}
                 \cup (IF skipLabels THEN LabelPageIds ELSE {}))

TargetedVisitPolicy(pages) == pages

Rank(p) == CHOOSE i \in DOMAIN PageOrder : PageOrder[i] = p

Incoming == [p \in DOMAIN Menu |-> GetIncomingSelectEdges(Menu, p)]

(* The rows that lead to a page of several instances and were not taken.   *)
UnvisitedMultiEdges(s, p) == {r \in Incoming[p] : <<p, r>> \notin s.rows}
HasUnvisitedMultiEdges(s, p) == UnvisitedMultiEdges(s, p) # {}
GetNextUnvisitedMultiEdge(s, p) ==
  CHOOSE r \in UnvisitedMultiEdges(s, p) :
    \A q \in UnvisitedMultiEdges(s, p) :
      \/ Rank(r[1]) < Rank(q[1])
      \/ r[1] = q[1] /\ r[2] <= q[2]

Candidates(s) ==
  {p \in s.policy \cap DOMAIN Menu :
     IF Menu[p].multi THEN HasUnvisitedMultiEdges(s, p) ELSE p \notin s.visited}

(* The key presses to a candidate; Far when there is no way.               *)
Far == 1000
Distance(s, from, p) ==
  LET source == GetNextUnvisitedMultiEdge(s, p)[1]
      to == IF Menu[p].multi THEN source ELSE p
      path == PathTo(from, to)
  IN  IF path = <<>> /\ from # to THEN Far
      ELSE Len(path) + (IF Menu[p].multi THEN 1 ELSE 0)

(* The nearest candidate that can be reached, the first of them in the      *)
(* order of the page table; the page shown if it is one itself.             *)
ChooseNextTarget(s, n) ==
  LET far(p) == Distance(s, n.page, p)
      ranked == {<<far(p), Rank(p), p>> : p \in Candidates(s)}
      near == {r \in ranked : r[1] < Far}
      before(r, q) == r[1] < q[1] \/ (r[1] = q[1] /\ r[2] <= q[2])
      first(rs) == {r \in rs : \A q \in rs : before(r, q)}
  IN  IF n.page = Unknown THEN {}
      ELSE The({{r[3] : r \in first(rs)} : rs \in {near}})

(* The navigation to one page: to a row of its parent if it has several     *)
(* instances, none if it is the page shown.                                 *)
NavigateToPage(x, p) ==
  LET s == [x.s EXCEPT !.target = p, !.state = "NavigatingToNext"]
      row == GetNextUnvisitedMultiEdge(s, p)
      e == Menu[row[1]].edges[row[2]]
  IN  IF Menu[p].multi
      THEN [s |-> [s EXCEPT !.row = row],
            n |-> NavigateToItem(x.n, row[1], e.line, e.label, p)]
      ELSE IF x.n.page = p
           THEN [x EXCEPT !.s = [s EXCEPT !.state = "CapturingPage"]]
      ELSE [s |-> s, n |-> NavigateTo(x.n, p)]

(* OnCrawlComplete of the policy is counted.                               *)
NavigateToNextTarget(x) ==
  The({IF next = {} THEN [x EXCEPT !.s.state = "Complete", !.s.completions = @ + 1]
       ELSE NavigateToPage(x, CHOOSE p \in next : TRUE) :
         next \in {ChooseNextTarget(x.s, x.n)}})

(* On to the next target, and its first step on the same screen.           *)
Onwards(x, scr) ==
  The({IF y.s.state = "NavigatingToNext" THEN [y EXCEPT !.n = OnPageUpdate(@, scr)]
       ELSE [y EXCEPT !.n.cmd = NoKey] :
         y \in {NavigateToNextTarget(x)}})

(* The row taken is ticked off; with the last one the page is visited.     *)
TickOff(s) ==
  LET t == [s EXCEPT !.rows = @ \cup {<<s.target, s.row>>}, !.row = NoRow]
  IN  IF HasUnvisitedMultiEdges(t, t.target) THEN t
      ELSE [t EXCEPT !.visited = @ \cup {t.target}]

(* Mutant: the page counts as visited, and nobody records that it was not. *)
NavigationFailedUnrecorded(s) ==
  IF s.row # NoRow THEN TickOff(s) ELSE [s EXCEPT !.visited = @ \cup {s.target}]

(* A row that cannot be reached (no such aux on this panel) is skipped; any *)
(* other page counts as a failure, and too many in a row end the crawl.     *)
NavigationFailed(s) ==
  LET f == [s EXCEPT !.failures = @ + 1]
  IN  IF s.row # NoRow THEN TickOff(s)
      ELSE IF f.failures >= MAX_NAVIGATION_FAILURES
           THEN [f EXCEPT !.state = "Failed"]
      ELSE [f EXCEPT !.visited = @ \cup {s.target},
                     !.failed = @ \cup {s.target}]

CapturePage(s) ==
  IF Menu[s.target].multi /\ s.row # NoRow THEN TickOff(s)
  ELSE [s EXCEPT !.visited = @ \cup {s.target}]

StartCrawl(x, policy) ==
  LET s == [NewSpider EXCEPT !.policy = policy,
                             !.completions = x.s.completions]
  IN  IF ~IsSynced(x.n)
      THEN [s |-> [s EXCEPT !.state = "Syncing"], n |-> StartSync(x.n)]
      ELSE NavigateToNextTarget([x EXCEPT
             !.s = [s EXCEPT !.state = "NavigatingToNext"]])

(* The navigator's step, where the crawl waits for it.                     *)
Steered(x, scr) ==
  IF x.s.state = "CapturingPage" THEN x ELSE [x EXCEPT !.n = OnPageUpdate(@, scr)]

(* The page is dealt with: synced, captured, reached or given up.          *)
PageIsDone(x) ==
  CASE x.s.state = "Syncing" -> IsSynced(x.n)
    [] x.s.state = "NavigatingToNext" -> IsComplete(x.n)
    [] x.s.state = "CapturingPage" -> TRUE

Arrive(x) ==
  CASE x.s.state = "CapturingPage" -> [x EXCEPT !.s = CapturePage(@)]
    [] x.s.state = "NavigatingToNext" ->
         [x EXCEPT !.s = IF IsSuccess(x.n) THEN CapturePage([@ EXCEPT !.failures = 0])
                         ELSE NavigationFailed(@)]
    [] OTHER -> x

GoesOn(x, scr) ==
  IF x.s.state = "Failed" THEN [x EXCEPT !.n.cmd = NoKey] ELSE Onwards(x, scr)

ProcessStep(x, scr) ==
  IF x.s.state \notin SpiderBusy THEN [x EXCEPT !.n.cmd = NoKey]
  ELSE The({IF ~PageIsDone(y) THEN y
            ELSE The({GoesOn(z, scr) : z \in {Arrive(y)}}) :
              y \in {Steered(x, scr)}})
=============================================================================
