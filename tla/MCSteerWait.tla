---------------------------- MODULE MCSteerWait ----------------------------
(* Instances of SteerWait for TLC. *)
EXTENDS SteerWait, TLC

CONSTANTS p1, p2

OneWaiter == {p1}
TwoWaiters == {p1, p2}
Symmetry == Permutations(TwoWaiters)

Confirms == {"confirm"}
Needs == {"need"}

OneDecision == {[word |-> "decided", id |-> 1]}
MixedMessages == {[word |-> "decided", id |-> 1], [word |-> "open", id |-> 2]}

(* At most one cleanup helper is on its way. *)
OneHelper == Cardinality(helpers) <= 1

NoFaults == {}
Crashes == {"crash"}
EveryFault == {"crash", "blind", "retry"}
=============================================================================
