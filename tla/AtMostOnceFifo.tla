--------------------------- MODULE AtMostOnceFifo ---------------------------
(***************************************************************************)
(* What publishing over a QoS 0 client promises: messages, numbered as     *)
(* they are published, reach the receiver in that order and at most once;  *)
(* any of them may be lost.                                                *)
(***************************************************************************)
EXTENDS Naturals

VARIABLES published, \* number of the newest published message
          delivered  \* number of the last message that arrived

Init == published = 0 /\ delivered = 0

Publish == published' = published + 1 /\ UNCHANGED delivered

Deliver ==
  /\ delivered' \in (delivered + 1) .. published
  /\ UNCHANGED published

Next == Publish \/ Deliver

Spec == Init /\ [][Next]_<<published, delivered>>
=============================================================================
