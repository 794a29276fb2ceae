----------------------------- MODULE MCDispatch -----------------------------
(* Instances of Dispatch for TLC. *)
EXTENDS Dispatch, TLC

CONSTANTS d1, d2

OneDispatch == {d1}
TwoDispatches == {d1, d2}

EveryDeadline == Clocks
LiveDeadlines == Clocks \ {"day"}
Expiry == {"reservation", "ttl"}
ExpiryAndDay == Expiry \cup {"day"}

Symmetry == Permutations(TwoDispatches)

(* Background launches that do not fail around a live worker and whose     *)
(* waits leave no status, while no reconcile pass is half done.            *)
Background ==
    /\ recon = {}
    /\ \A d \in Dispatches :
         /\ pc[d] # "following" /\ verdict[d].launcher # "true"
         /\ side[d] = "waiting" => pc[d] # "waiting"

(* A lease expires, or is forgotten, only while no operator, replacement   *)
(* or stranger has taken the dispatch's place.                             *)
LateHandsOff ==
    \A d \in Dispatches :
        due[d] \cap {"ttl", "day"} # {} =>
            ~rec[d].superseded /\ ~lease[d].operator /\ proc[d] # "reused"

NoFaults == {}
Crashes == {"crash", "repair_crash"}
CrashesAndOwner == Crashes \cup {"owner"}
EveryHand == {"crash", "blind", "override", "reuse", "kin", "retire"}
=============================================================================
