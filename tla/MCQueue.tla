------------------------------ MODULE MCQueue ------------------------------
(* Instances of Queue for TLC. *)
EXTENDS Queue

CONSTANTS d1, d2

TwoDrains == {d1, d2}
ThreeSlots == 1..3
SixTxns == 1..6

AllFaults == {"crash", "timeout", "refusal", "store"}
=============================================================================
