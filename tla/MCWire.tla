------------------------------- MODULE MCWire -------------------------------
(* Instances of the parts that take in what the bus carries: the port over   *)
(* TCP, the protocol task under noise, the Jandy message classes, the        *)
(* Pentair devices, the data hub and the auxiliaries.  Each takes what the   *)
(* one before it produces (bytes, frames, messages, values) and none is read *)
(* back, so a behaviour exercises one of them, chosen at the start (focus),  *)
(* under every input the one before it could produce.                        *)
EXTENDS NetworkPort, MCProtocolTask, JandyMessages, Pentair, DataHub, Auxiliaries

VARIABLE focus

MCOptions    == {<<255, 251, 44>>, <<255, 241>>}
MCParameters == {<<44, 105, 255>>, <<44, 1, 2, 3, 4, 5, 6>>}

MCLines == {<<>>, <<65>>, <<66, 32>>, [i \in 1 .. 16 |-> 65 + i]}
MCPayloads ==
  UNION {[1 .. n -> {0, 1, 16, 200}] : n \in 0 .. 2}
  \cup {[i \in 1 .. n |-> b] : n \in 3 .. 14, b \in {0, 1, 65, 255}}
  \cup {<<2, 5, 6, 1, 3, 0, 0, 1, 65, 0, 4, 0, 0, 2, 66, 7>>,
        <<2, 5, 6, 1, 3, 0, 0, 1, 65, 0, 4, 0, 0, 9, 66, 7>>,
        <<1, 9, 14, 15, 1, 0, 0, 0, 0, 200, 1, 44, 0, 250>>,
        <<1, 9, 14, 15, 1, 0, 0, 0, 0, 200, 1, 44, 0, 250, 1, 4>>,
        <<1, 9, 1, 3, 1, 0, 7, 0, 28, 0, 38, 0, 20, 0, 27>>,
        <<0, 0, 3, 0, 1, 7, 0, 28, 0, 38, 0, 20, 0, 1>>}

St(s, p, sp, a, ps, ss, hs, on, ht) ==
  [spaMode |-> s, pool |-> p, spa |-> sp, air |-> a, poolSet |-> ps, spaSet |-> ss,
   heaterSet |-> hs, pumpOn |-> on, heat |-> ht]
MCStatuses ==
  {St(FALSE, 1, 0, 1, 0, 0, 1, TRUE, "Off"), St(FALSE, 2, 0, 0, 0, 0, 2, FALSE, "Heating"),
   St(TRUE, 0, 1, 1, 0, 0, 2, TRUE, "Off"), St(TRUE, 0, 2, 0, 1, 2, 0, TRUE, "Heating"),
   St(FALSE, 1, 1, 2, 2, 1, 1, FALSE, "Off")}

MCNames  == {<<"Light">>}
MCModels == {[centers |-> 1, count |-> 4], [centers |-> 1, count |-> 0], [centers |-> 2, count |-> 0]}
Cached(hw, label) == <<Device(100, NoAux, hw, label, FALSE, "unknown")>>
MCLegacy == {<<>>, Cached(<<>>, EnumName(4)), Cached(EnumName(4), <<"Light">>),
             Cached(EnumName(8), EnumName(8)), Cached(<<>>, <<"Light">>)}

(* Only the part in focus starts in more than one way.                       *)
WireInit ==
  /\ focus \in {"port", "bytes", "messages", "pentair", "hub", "auxiliaries"}
  /\ NetInit /\ Init /\ MsgInit /\ PentairInit /\ HubInit /\ AuxInit
  /\ focus # "port" => port.rfc
  /\ focus # "hub" => Hub = EmptyHub
  /\ focus # "auxiliaries" => graph = <<>>

(* Only the protocol task must never come to a stop; the others end where    *)
(* their bounds end.                                                         *)
AtRest ==
  focus # "bytes" /\ UNCHANGED <<netVars, vars, msgVars, pentairVars, hubVars, auxVars>>

WireNext ==
  /\ \/ focus = "port" /\ NetNext /\ UNCHANGED <<vars, msgVars, pentairVars, hubVars, auxVars>>
     \/ focus = "bytes" /\ Next /\ UNCHANGED <<netVars, msgVars, pentairVars, hubVars, auxVars>>
     \/ focus = "messages" /\ MsgNext /\ UNCHANGED <<netVars, vars, pentairVars, hubVars, auxVars>>
     \/ focus = "pentair" /\ PentairNext /\ UNCHANGED <<netVars, vars, msgVars, hubVars, auxVars>>
     \/ focus = "hub" /\ HubNext /\ UNCHANGED <<netVars, vars, msgVars, pentairVars, auxVars>>
     \/ focus = "auxiliaries" /\ AuxNext /\ UNCHANGED <<netVars, vars, msgVars, pentairVars, hubVars>>
     \/ AtRest
  /\ UNCHANGED focus

WireSpec == WireInit /\ [][WireNext]_<<focus, netVars, vars, msgVars, pentairVars, hubVars, auxVars>>

(* A report changes what it is about and nothing else: no owner's label is   *)
(* lost to a report on another relay, no body shows the water of the other.  *)
EachToItsOwn == LabelsNotLost /\ BodiesApart
=============================================================================
