--------------------------- MODULE MCControllers ---------------------------
(* Instances of the parts that carry out what was asked of the pool: the     *)
(* command dispatcher, the IAQ emulation with its writers, the chlorinator,  *)
(* the start-up that chooses what is emulated, and the spa-side remotes.     *)
(* What the dispatcher assumes of a controller is what Iaq, SerialAdapter    *)
(* and OneTouch promise; a behaviour exercises one part, chosen at the start *)
(* (focus).                                                                  *)
EXTENDS CommandDispatcher, Iaq, Chlorinator, StartUp, SpaRemote

VARIABLE focus

MCPrograms == {[target |-> "pump", on |-> 0, off |-> 21, days |-> 64],
               [target |-> "pump", on |-> 0, off |-> 21, days |-> 5]}
MCPrinted  == [target |-> "pump", on |-> <<9, FALSE>>, off |-> <<12, TRUE>>, days |-> "Wkdays"]

PPMFrame(s, f) == [salt |-> s, flags |-> f]
MCPPMFrames == {PPMFrame(1, {"On"}), PPMFrame(2, {"On"}), PPMFrame(1, {"NoFlow"}),
                PPMFrame(1, {"LowSalt", "CleanCell"}), PPMFrame(1, {"Unknown"})}

(* Real controllers at the preferred addresses, a real adapter at the one or *)
(* at both addresses of an adapter.                                          *)
MCLayouts == {{51, 65}, {72}, {72, 73}}

(* An ack that looks like a button, and one of another kind.                 *)
MCOtherAcks == {<<0, 5>>, <<128, 6>>}

controllersVars == <<focus, dispatchVars, iaqVars, chlorVars, startVars, remoteVars>>

(* Only the part in focus starts in more than one way.                       *)
ControllersInit ==
  /\ focus \in {"dispatch", "iaq", "cell", "start", "own remote", "remotes", "programming"}
  /\ DispatchInit /\ IaqInit /\ CellInit /\ StartInit /\ RemoteInit
  /\ focus # "iaq" => asks = 0 /\ box.rows = <<>>
  /\ focus # "cell" => surroundings.pump = "none"
  /\ focus # "dispatch" => DOMAIN controllers = {}
  /\ focus # "start" => bus.real = {72} /\ bus.talks = {} /\ bus.firmware = 17

ControllersNext ==
  /\ \/ focus = "dispatch" /\ DispatchNext /\ UNCHANGED <<iaqVars, chlorVars, startVars, remoteVars>>
     \/ focus = "iaq" /\ IaqNext /\ UNCHANGED <<dispatchVars, chlorVars, startVars, remoteVars>>
     \/ focus = "cell" /\ CellNext /\ UNCHANGED <<dispatchVars, iaqVars, startVars, remoteVars>>
     \/ focus = "start" /\ StartNext /\ UNCHANGED <<dispatchVars, iaqVars, chlorVars, remoteVars>>
     \/ /\ UNCHANGED <<dispatchVars, iaqVars, chlorVars, startVars>>
        /\ \/ focus = "own remote" /\ OwnNext
           \/ focus = "remotes" /\ LineNext
           \/ focus = "programming" /\ \E valid \in BOOLEAN : SetButtonAssignment(valid)
  /\ UNCHANGED focus

(* The fairness of each module, for the part in focus.                       *)
ControllersFairness ==
  /\ WF_dispatchVars(focus = "dispatch" /\ \E c \in Controller : Emit(c))
  /\ WF_iaqVars(focus = "iaq" /\ (Polled \/ Slot_IAQ_ControlReady \/ PageMessage))
  /\ WF_chlorVars(focus = "cell" /\ ChlorinatorPush)

ControllersSpec == ControllersInit /\ [][ControllersNext]_controllersVars /\ ControllersFairness
-----------------------------------------------------------------------------
(* The bus is shared without a second voice: the start-up puts no emulation  *)
(* where a real device was heard, and the spa-side remotes' presses are      *)
(* reported once and told apart.                                             *)
BusShared == StartUpSafe /\ RemoteSafe
=============================================================================
