----------------------------- MODULE MCOneTouch -----------------------------
EXTENDS OneTouch

(* A part of the menu with a page of several instances (LabelAux), a page   *)
(* the panel lacks (ProgramGroup) and the pages of every kind of goal and of *)
(* the setpoint refresh.                                                    *)
MCPageOrder == <<"System", "EquipmentOnOff", "MenuHelp", "SetTemperature",
                 "SetAquapure", "Boost", "SystemSetup", "LabelAuxList",
                 "LabelAux", "Program", "ProgramGroup", "StartUp">>
MCMenu ==
  LET menu == Restricted(CreateOneTouchMenuModel, ToSet(MCPageOrder))
      kept(e) == e.label \notin ToSet(SubSeq(AuxRows, 2, Len(AuxRows)))
  IN  [p \in DOMAIN menu |-> [menu[p] EXCEPT !.edges = SelectSeq(@, kept)]]
MCPanelMenu ==
  LET pages == DOMAIN MCMenu \ {"ProgramGroup"}
  IN  Restricted(MCMenu, pages)
MCExtraRows ==
  [EquipmentOnOff |-> [Aux1 |-> 3, Aux2 |-> 4],
   SetTemperature |-> "Pool Heat" :> 2,
   SystemSetup |-> "Spa Switch" :> 3,
   Program |-> "Pool Pump" :> 2,
   detail |-> [Add |-> 9, Delete |-> 10, Change |-> 11],
   nodetail |-> [Add |-> 9],
   buttons |-> "1:1" :> 3]
MCFunctions == <<"f1", "f2", "f3">>
MCDayChoices == <<127, 62>>
MCProgram == [target |-> "Pool Pump", on |-> <<1, 0>>, off |-> <<0, 2>>,
              days |-> 62]
MCRequests ==
  {ToggleGoal("Aux2"), ValueEditGoal("SetTemperature", 2, "Pool Heat", 3),
   BoostGoal(TRUE), BoostGoal(FALSE), SpaSwitchGoal("1:1", "f2"),
   ScheduleWriteGoal("Create", MCProgram), ScheduleWriteGoal("Delete", MCProgram)}
MCWriteRequests == {ScheduleWriteGoal("Create", MCProgram)}
=============================================================================
