--------------------------- MODULE MCSerialAdapter ---------------------------
(* Model-checking instances of SerialAdapter: a short enumeration of every *)
(* family of status types, with UNITS not in front as in the source; the    *)
(* Short ones are for the bus with most freedom.                            *)
EXTENDS SerialAdapter

MCConfigurationStatuses == <<"MODEL", "OPTIONS", "OPMODE">>
MCTemperatureCommands == <<"POOLSP", "UNITS", "AIRTMP">>
ShortConfigurationStatuses == <<"MODEL", "OPTIONS">>
ShortTemperatureCommands == <<"POOLSP", "UNITS">>
MCAuxillaryIds == <<"Aux_1", "Aux_2", "Aux_3">>
MCSpan == {"Aux_1", "Aux_3"}
=============================================================================
