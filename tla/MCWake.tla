------------------------------- MODULE MCWake -------------------------------
(* Instances of Wake for TLC. *)
EXTENDS Wake

CONSTANTS b1, b2, s1

TwoBells == {b1, b2}
OneStream == {s1}
Deaths == {"bell", "follow", "supervisor", "slow", "lease"}

(* A rewind or a mishap, not both, and what was rewound stays unread; of   *)
(* the children an earlier supervisor left, only the stream holds on.      *)
OneTrouble ==
    /\ \A s \in Streams : rewinds[s] > 0 => mishaps = 0 /\ \E r \in Pending : r[1] = s
    /\ sup.st = "up" => ~sup.stopped /\ \A b \in Bells : ~bell[b].orphan

(* Nothing is read, put back or killed, and row 2 comes first.  When b1    *)
(* has claimed its report, row 1 comes late; when b1 has told it, row 3    *)
(* comes behind both.  b1 lives.                                           *)
LateMail ==
    /\ mishaps = 0 /\ rewinds = Origin /\ cursor = Origin
    /\ \/ mail \subseteq {<<s1, 2>>}
       \/ /\ report.pos[s1] = 2 /\ report.owner = b1
          /\ <<s1, 3>> \in mail => <<s1, 1>> \in mail /\ report.phase = "reported"

(* All troubles over row 1 alone, or late mail. *)
OneOrLate == (OneTrouble /\ mail \subseteq {<<s1, 1>>}) \/ LateMail
=============================================================================
