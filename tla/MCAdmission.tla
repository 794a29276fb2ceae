---------------------------- MODULE MCAdmission ----------------------------
(* A pool of two labels and two accounts on machines around the tiers.     *)
EXTENDS Admission

TwoAgents == {"grok", "grok-code"}
Caps == [a \in TwoAgents |-> IF a = "grok" THEN 3 ELSE 2]
TwoAccounts == {"default", "b"}
OneConfigured == [a \in {"b"} |-> 1]

(* Unknown RAM, a configured total above a ceiling of two, and the tiers   *)
(* of one and three on both sides of 8 GB.                                 *)
SmallMachines ==
    {[ram |-> 0, override |-> 0], [ram |-> 4448, override |-> 40],
     [ram |-> 8192, override |-> 0], [ram |-> 8193, override |-> 0]}

(* Weights of half and one and a half slots. *)
MixedRequests ==
    {[agent |-> "grok", acct |-> "default", weight |-> 3, mem |-> 600],
     [agent |-> "grok-code", acct |-> "b", weight |-> 1, mem |-> 2500],
     [agent |-> "grok-code", acct |-> "default", weight |-> 3, mem |-> 600]}

Entry(scope, labels, stop) == [scope |-> scope, labels |-> labels, stop |-> stop]

MixedPressures ==
    LET own == Entry("agent", {"grok-code"}, FALSE)
        walk == Entry("provider", TwoAgents, FALSE)
        halt == Entry("provider", TwoAgents, TRUE)
        apart == Entry("provider", {"grok-code"}, FALSE)
        other == Entry("provider", {"grok"}, TRUE)
        advice == Entry("account", TwoAgents, FALSE)
    IN  {<<>>, <<advice, walk>>, <<halt>>, <<own>>, <<own, halt>>, <<other, apart>>}
=============================================================================
