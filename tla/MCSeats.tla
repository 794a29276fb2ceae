------------------------------ MODULE MCSeats ------------------------------
(* Instances of Seats for TLC. *)
EXTENDS Seats, TLC

CONSTANTS d1, d2, r1

(* Two dispatches and one that resumes the first. *)
Three == {d1, d2, r1}
ResumesFirst == [d \in Dispatches |-> IF d = r1 THEN d1 ELSE None]
FirstEdits == [d \in Dispatches |-> IF d = d2 THEN 0 ELSE 1]
=============================================================================
