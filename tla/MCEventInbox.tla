---------------------------- MODULE MCEventInbox -----------------------------
(* Instances of EventInbox for TLC.                                          *)
EXTENDS EventInbox, TLC

CONSTANTS n1, n2

OneBlock  == n1 :> 1 .. 3
\* Each node takes ids from a block of its own, so ids do not follow arrival.
TwoBlocks == n1 :> {1, 2, 3} @@ n2 :> {11, 12, 13}
IdKeys    == [id \in 1 .. 13 |-> "req-" \o ToString(id)]
=============================================================================
