----------------------------- MODULE Questions -----------------------------
(***************************************************************************)
(* What a worker that asks its controller may rely on, whatever carries    *)
(* the questions and the answers.  A worker asks one question at a time.   *)
(* A question is either answered, once, or given up, never both.  An       *)
(* answer that was admitted reaches the worker before the worker can ask   *)
(* again.  Questions are named by any values the carrier chooses.          *)
(***************************************************************************)

VARIABLES
    asked,      \* questions the worker has asked
    answered,   \* questions for which an answer was admitted
    received,   \* questions whose answer was given to the worker
    givenUp     \* questions that will never be answered

qvars == <<asked, answered, received, givenUp>>

Init ==
    /\ asked = {} /\ answered = {} /\ received = {} /\ givenUp = {}

(* A question is open until it is answered or given up. *)
Open == asked \ (answered \cup givenUp)

Ask ==
    /\ asked \subseteq received \cup givenUp
    /\ \E q \in asked' \ asked : asked' = asked \cup {q}
    /\ UNCHANGED <<answered, received, givenUp>>

Answer ==
    /\ \E q \in Open : answered' = answered \cup {q}
    /\ UNCHANGED <<asked, received, givenUp>>

Receive ==
    /\ \E q \in answered \ received : received' = received \cup {q}
    /\ UNCHANGED <<asked, answered, givenUp>>

GiveUp ==
    /\ \E q \in Open : givenUp' = givenUp \cup {q}
    /\ UNCHANGED <<asked, answered, received>>

Next == Ask \/ Answer \/ Receive \/ GiveUp

Spec == Init /\ [][Next]_qvars
=============================================================================
