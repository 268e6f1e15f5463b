------------------------------ MODULE MCAccounts ------------------------------
(***************************************************************************)
(* Instances of what stands behind the web interface: the accounts decide  *)
(* what a token resolves to, the router what a resolved caller may do, and *)
(* the scheduler keeps the list that the callers edit.  None reads the     *)
(* others' state in between, so a behaviour exercises one of them, chosen  *)
(* at the start (focus).                                                   *)
(***************************************************************************)
EXTENDS Accounts, HttpRouting, Scheduler, TLC

VARIABLE focus

Symmetry == Permutations(Users) \cup Permutations(Jobs)

\* callers of the router: a viewer, an editor of schedules, an operator asking
\* about its own things, an administrator
Account(ents) == [known |-> TRUE, self |-> FALSE, ents |-> ents \cup {"prefs.self"}]
SmallCallers ==
  {Account({"equipment.view", "schedules.view", "diagnostics.view"}), Account({"schedules.edit"}),
   [Account({"equipment.control.aux", "equipment.control.setpoints", "equipment.control.chlorinator", "schedules.edit"})
      EXCEPT !.self = TRUE],
   Account({"system.admin"})}

\* two days of three minutes: schedules of every day, and one that is paused
Daily(m)  == [enabled |-> TRUE, days |-> {0, 1}, at |-> m]
Paused    == [enabled |-> FALSE, days |-> {0, 1}, at |-> 1]
MCDefinitions == {Daily(0), Daily(1), Paused}

WebInit ==
  /\ focus \in {"accounts", "routing", "scheduler"}
  /\ AccInit /\ RoutingInit /\ Init
  /\ focus # "routing" => mode = "auth"
  /\ focus # "scheduler" => file.list = None
WebNext ==
  /\ \/ focus = "accounts" /\ AccNext /\ UNCHANGED <<routingVars, vars>>
     \/ focus = "routing" /\ RoutingNext /\ UNCHANGED <<accVars, vars>>
     \/ focus = "scheduler" /\ Next /\ UNCHANGED <<accVars, routingVars>>
  /\ UNCHANGED focus
WebSpec == WebInit /\ [][WebNext]_<<focus, accVars, routingVars, vars>>
=============================================================================
