--------------------------- MODULE MCProtocolTask ---------------------------
(* Instances of ProtocolTask for TLC. *)
EXTENDS ProtocolTask

JandyFrame   == <<"DLE", "STX", "a", "c", "DLE", "ETX">>
PentairFrame == <<"FF00", "FFA5", "L", "a">>

\* A bus on which every transmission is a whole good frame.
CleanTraffic == {JandyFrame, PentairFrame}

\* Frames of either protocol, whole, cut short, damaged, or not decodable.
NoisyTraffic ==
    CleanTraffic \cup
    { <<"DLE", "STX", "a">>, <<"DLE", "STX", "x", "c", "DLE", "ETX">>,
      <<"DLE", "STX", "u", "c", "DLE", "ETX">>, <<"x", "DLE">>,
      <<"FF00", "FFA5", "x", "a">>, <<"FF00", "FFA5">>, <<"FF00", "FFA5", "L", "u">> }
=============================================================================
