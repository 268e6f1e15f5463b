----------------------------- MODULE SpaRemote ------------------------------
(* Spa-side remotes: the one that is emulated, whose pending button press is *)
(* reported with the answer to the master's next frame, and the real ones on *)
(* the bus, whose presses are told from the acks that follow the master's    *)
(* polls although an ack does not name its sender.  The controller routes a  *)
(* press to a remote, and the programming of a button to the first           *)
(* controller on the bus that can do it.                                     *)
EXTENDS Naturals, Sequences, FiniteSets, SequencesExt

CONSTANTS
  RealRemotes,    \* addresses of the real remotes
  OwnRemote,      \* the address of the emulated one
  SpaButtons,        \* the codes of its keys; 0 is "no button"
  OtherAcks,      \* the acks of other devices: <<type, command>>
  MaxPresses,     \* bound on the presses at the real remotes and at ours
  MaxAsks         \* bound on the requests to program a button

ASSUME RemoteConstants ==
  /\ RealRemotes \cap {OwnRemote, "nobody", "other"} = {} /\ 0 \notin SpaButtons
  /\ {MaxPresses, MaxAsks} \subseteq Nat

VARIABLES
  own,            \* m_PendingButton, and what was pressed and reported (history)
  listener,       \* real remote -> m_AwaitingButtonAck and m_LastButton
  line,           \* whose answer the master waits for, and the lost and wrong ones
  programming     \* the controllers, and the last request to program a button

remoteVars == <<own, listener, line, programming>>

-----------------------------------------------------------------------------
(* SpasideRemoteController::PressButton.                                     *)
PressResult(address, button) ==
  IF address \notin RealRemotes \cup {OwnRemote} THEN "RemoteNotFound"
  ELSE IF address # OwnRemote THEN "NotEmulated"
  ELSE IF button \notin SpaButtons THEN "InvalidButton"
  ELSE "Success"

(* One press is pending at a time; a later one takes its place.              *)
PressButton(address, button) ==
  /\ Len(own.pressed) < MaxPresses
  /\ PressResult(address, button) = "Success"
  /\ own' = [own EXCEPT !.pending = button, !.pressed = Append(@, button)]
  /\ UNCHANGED <<listener, line, programming>>

(* Mutant: the button is not released.                                       *)
ReportHeld == [own EXCEPT !.reported = IF own.pending = 0 THEN @ ELSE Append(@, own.pending)]

(* Mutant: the button is released before it is reported.                     *)
ReportNothing == [own EXCEPT !.pending = 0]

(* SendButtonAck: the pending button, or "none", is sent and released.       *)
Reported ==
  [own EXCEPT !.reported = IF own.pending = 0 THEN @ ELSE Append(@, own.pending), !.pending = 0]

(* The master's probe or LED image: both are answered with the button.       *)
SendButtonAck ==
  /\ line.turn = "nobody" /\ own' = Reported
  /\ UNCHANGED <<listener, line, programming>>

-----------------------------------------------------------------------------
(* The LED image of a real remote: the ack that follows is taken for its.    *)
Slot_Spaside_Status(r) ==
  /\ line.turn = "nobody" /\ line.polls < MaxPresses
  /\ listener' = [listener EXCEPT ![r].awaiting = TRUE]
  /\ line' = [line EXCEPT !.turn = r, !.polls = @ + 1]
  /\ UNCHANGED <<own, programming>>

(* The master turns to a device that is no spa-side remote.                  *)
OtherPolled ==
  /\ line.turn = "nobody" /\ line.polls < MaxPresses
  /\ line' = [line EXCEPT !.turn = "other", !.polls = @ + 1]
  /\ UNCHANGED <<own, listener, programming>>

(* Mutant: the window stays open.                                            *)
AckedForEver(x, type, command) ==
  IF ~x.awaiting \/ type # 0 \/ command = 0 THEN x ELSE [x EXCEPT !.button = command]

(* Slot_Spaside_Ack, which every listening remote runs for every ack: the    *)
(* window closes whatever the ack is.                                        *)
Acked(x, type, command) ==
  IF ~x.awaiting THEN x
  ELSE [x EXCEPT !.awaiting = FALSE,
                 !.button = IF type = 0 /\ command # 0 THEN command ELSE @]

(* The remotes to which the ack of somebody else is put down.                *)
Wronged(sender, type, command) ==
  {r \in RealRemotes \ {sender} : listener[r].awaiting /\ type = 0 /\ command # 0}

Ack(sender, type, command) ==
  /\ line.turn = sender
  /\ listener' = [r \in RealRemotes |-> Acked(listener[r], type, command)]
  /\ line' = [line EXCEPT !.turn = "nobody",
                !.wrong = [r \in RealRemotes |->
                   IF r \in Wronged(sender, type, command) THEN @[r] + 1 ELSE @[r]]]
  /\ UNCHANGED <<own, programming>>

RemoteAnswers(r) == \E b \in SpaButtons \cup {0} : Ack(r, 0, b)
OtherAnswers == \E a \in OtherAcks : Ack("other", a[1], a[2])

(* The answer is not sent, or is lost on the line.                           *)
Silence ==
  /\ line.turn # "nobody"
  /\ line' = [line EXCEPT !.turn = "nobody",
                !.lost = [r \in RealRemotes |-> IF r = line.turn THEN @[r] + 1 ELSE @[r]]]
  /\ UNCHANGED <<own, listener, programming>>

-----------------------------------------------------------------------------
(* What the controllers that program buttons may answer.                     *)
ActuationResults == {"Accepted", "InvalidValue", "MappingFailed", "Busy", "NotSupported"}
Decisive == {"Accepted", "InvalidValue", "MappingFailed"}

(* ControllerPriority: the lowest value is asked first.                      *)
ControllerPriority == [iaq |-> 1, onetouch |-> 2]
Before(c, present) == {d \in present : ControllerPriority[d] < ControllerPriority[c]}

(* Mutant: the first controller's answer is final.                           *)
ConsultFirst(present, says) == {c \in present : Before(c, present) = {}}

(* Mutant: a controller behind the one that accepted is asked too.           *)
ConsultAll(present, says) == present

(* Consulted in turn until one decides.                                      *)
Consulted(present, says) == {c \in present : \A d \in Before(c, present) : says[d] \notin Decisive}

Outcome(asked, says) ==
  IF \E c \in asked : says[c] = "Accepted" THEN "Accepted"
  ELSE IF \E c \in asked : says[c] \in Decisive THEN "InvalidRequest"
  ELSE "NotAvailable"

(* SetButtonAssignment; a switch, button or function that cannot be is       *)
(* refused before anybody is asked.                                          *)
SetButtonAssignment(valid) ==
  /\ programming.asks < MaxAsks
  /\ \E present \in SUBSET {"iaq", "onetouch"}, says \in [{"iaq", "onetouch"} -> ActuationResults] :
       \E asked \in {IF valid THEN Consulted(present, says) ELSE {}} :
         programming' = [asks |-> programming.asks + 1, valid |-> valid, present |-> present,
            says |-> says, asked |-> asked,
            result |-> IF valid THEN Outcome(asked, says) ELSE "InvalidRequest"]
  /\ UNCHANGED <<own, listener, line>>

RemoteInit ==
  /\ own = [pending |-> 0, pressed |-> <<>>, reported |-> <<>>]
  /\ listener = [r \in RealRemotes |-> [awaiting |-> FALSE, button |-> 0]]
  /\ line = [turn |-> "nobody", polls |-> 0, lost |-> [r \in RealRemotes |-> 0],
             wrong |-> [r \in RealRemotes |-> 0]]
  /\ programming = [asks |-> 0, valid |-> FALSE, present |-> {}, says |-> [c \in {"iaq", "onetouch"} |-> "NotSupported"], asked |-> {},
                    result |-> "none"]

OwnNext ==
  \/ \E a \in RealRemotes \cup {OwnRemote}, b \in SpaButtons \cup {0} : PressButton(a, b)
  \/ SendButtonAck

LineNext ==
  \/ \E r \in RealRemotes : Slot_Spaside_Status(r) \/ RemoteAnswers(r)
  \/ OtherPolled \/ OtherAnswers \/ Silence

RemoteNext == OwnNext \/ LineNext \/ \E valid \in BOOLEAN : SetButtonAssignment(valid)

RemoteSpec == RemoteInit /\ [][RemoteNext]_remoteVars
-----------------------------------------------------------------------------
(* Every variable has its type; the master waits for one answer at a time.   *)
RemoteTypeOK ==
  /\ own.pending \in SpaButtons \cup {0}
  /\ line.turn \in RealRemotes \cup {"nobody", "other"}
  /\ \A r \in RealRemotes : listener[r].button \in SpaButtons \cup {0} \cup {a[2] : a \in OtherAcks}
  /\ line.turn \in RealRemotes => listener[line.turn].awaiting

(* A press that was answered with Success is reported to the master at most  *)
(* once, and the newest is never lost: it is pending, or was the last one    *)
(* reported (PressButton and SendButtonAck in any order).                    *)
PressReportedOnce ==
  /\ Len(own.reported) + (IF own.pending = 0 THEN 0 ELSE 1) <= Len(own.pressed)
  /\ own.pressed # <<>> =>
       IF own.pending # 0 THEN own.pending = Last(own.pressed)
       ELSE own.reported # <<>> /\ Last(own.reported) = Last(own.pressed)

(* spaside_remote_device.cpp:143-145: the one-shot window "bounds any        *)
(* mis-attribution if we ever go silent": for every poll that a remote left  *)
(* unanswered at most one button of another device is put down to it.        *)
MisattributionBounded == \A r \in RealRemotes : line.wrong[r] <= line.lost[r]

(* A button is programmed by one controller at most, and a controller that   *)
(* can program it is not shadowed by one that cannot, or that is busy.       *)
ProgrammedOnce ==
  /\ Cardinality({c \in programming.asked : programming.says[c] = "Accepted"}) <= 1
  /\ programming.valid /\ programming.result = "NotAvailable" =>
       \A c \in programming.present : programming.says[c] # "Accepted"

RemoteSafe == RemoteTypeOK /\ PressReportedOnce /\ MisattributionBounded /\ ProgrammedOnce
=============================================================================
