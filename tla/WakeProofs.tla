----------------------------- MODULE WakeProofs -----------------------------
(***************************************************************************)
(* Proofs about module Wake, for any number of streams, doorbells, rows of *)
(* mail, rewinds and mishaps.                                              *)
(*                                                                         *)
(* What is hidden is what a boundary covers: from its snapshot to its mark, *)
(* a doorbell has told, or is about to tell, the unread rows under its     *)
(* boundary, but for those that became unread after the snapshot.  What a  *)
(* stamp answers for follows from the rows its owner read at that version: *)
(* a version is not used again while anybody holds it.                     *)
(***************************************************************************)
EXTENDS Wake, FiniteSetTheorems, FunctionTheorems, TLAPS

(* The records of TypeOK. *)
Report == [phase : {"none", "claimed", "reported", "acknowledged"},
           pos : Positions, owner : Bells \cup {None}]
Bell == [pc : {"off", "snap", "report", "mark", "poll", "peek", "ring", "claimed"},
         ver : Versions \cup {0}, rows : SUBSET Rows, late : SUBSET Rows,
         settled : BOOLEAN, orphan : BOOLEAN]
Follower == [pc : {"off", "poll", "peek", "release", "claim", "emit"},
             ver : Versions \cup {0}, rows : SUBSET Rows, reset : BOOLEAN,
             done : SUBSET Rows, high : Positions,
             seen : [Streams -> 0..MaxRewinds], orphan : BOOLEAN]
Memory == [st : {"up", "down", "releasing", "stopped"}, rows : SUBSET Rows,
           seen : [Streams -> 0..MaxRewinds], stopped : BOOLEAN]

(* A living process owns the claim, and has left its snapshot behind. *)
ReportInv == report.owner # None => bell[report.owner].pc \notin {"off", "snap"}

(* The supervisor passes over only what was heard; nobody has seen a       *)
(* rewind that is still to come.                                           *)
MemoryInv ==
    /\ \A q \in sup.rows : rewinds[q[1]] = sup.seen[q[1]] => q \in heard
    /\ \A s \in Streams : follow.seen[s] <= rewinds[s] /\ sup.seen[s] <= rewinds[s]

(* A snapshot is of all that is unread; a claim is told from the snapshot;  *)
(* a report that is about to be marked has been printed.  What became      *)
(* unread since is late.                                                   *)
ToldInv ==
    \A b \in Bells :
        /\ bell[b].pc = "snap" => Pending \subseteq bell[b].rows \cup bell[b].late
        /\ bell[b].pc = "report" /\ report.owner = b /\ report.phase = "claimed" =>
            Pending \cap Upto(report.pos) \subseteq bell[b].rows \cup bell[b].late
        /\ bell[b].pc = "mark" /\ report.owner = b /\ ~bell[b].orphan /\ report.phase = "claimed" =>
            Pending \cap Upto(report.pos) \subseteq heard \cup pipe \cup bell[b].late

ShownInv == TypeOK /\ ReportInv /\ MemoryInv /\ ToldInv /\ NothingHidden

(* What a doorbell rings for is all that is unread but for what is under a *)
(* report, as long as the version is the one it read.                      *)
BellRows ==
    \A b \in Bells : bell[b].pc \in {"ring", "claimed"} /\ bell[b].ver = version =>
        \A r \in Pending : r \in bell[b].rows \/ UnderReport(r)

(* The stream that is about to claim has read all that is unread, but for  *)
(* streams whose rewind it has not read.                                   *)
FollowRows ==
    follow.pc \in {"release", "claim", "emit"} /\ follow.ver = version =>
        \A r \in Pending : r \in follow.rows \/ rewinds[r[1]] # follow.seen[r[1]]

(* Its boundary is the one of a report that was read to the end, and what  *)
(* it printed is on its way.                                               *)
FollowInv ==
    /\ \A s \in Streams : \/ follow.high[s] = 0
                          \/ /\ follow.seen[s] = 0
                             /\ follow.high[s] <= cursor[s] \/ rewinds[s] > 0
    /\ report.phase = "acknowledged" =>
           \A s \in Streams : report.pos[s] <= cursor[s] \/ rewinds[s] > 0
    /\ \/ follow.pc = "off" \/ follow.orphan
       \/ \A r \in follow.done : r \in heard \cup pipe \/ rewinds[r[1]] # follow.seen[r[1]]
    /\ sup.st \in {"down", "releasing"} => follow.pc = "off" \/ follow.orphan

(* The stream will take back a stamp on the version there is. *)
WillResetNow ==
    \/ follow.pc = "off" \/ follow.orphan
    \/ follow.reset /\ (follow.pc = "release" => follow.ver = version)
    \/ \E s \in Streams : rewinds[s] # follow.seen[s]

(* What answers for a row under a stamp: it is on its way, a report or a   *)
(* doorbell is to tell it,                                                 *)
ByOthers(r) ==
    \/ r \in heard \cup pipe
    \/ UnderReport(r)
    \/ \E b \in Bells : bell[b].pc = "claimed" /\ bell[b].ver = version /\ r \in bell[b].rows

(* or the stream is. *)
ByStream(r) ==
    \/ WillResetNow
    \/ follow.pc = "emit" /\ follow.ver = version /\ r \in follow.rows

(* StampAnswered, of a supervisor that is down too. *)
StampInv ==
    stamp = version /\ sup.st # "stopped" /\ ~sup.stopped =>
        \A r \in Pending : ByOthers(r) \/ ByStream(r)

WakeInv == ShownInv /\ FollowInv /\ BellRows /\ FollowRows /\ StampInv

(* What a step of a doorbell may do: to the variables that are not its own, *)
Apart(b) ==
    /\ UNCHANGED <<journal, follow, sup, heard>>
    /\ stamp' \in Versions \cup {0} /\ look' \subseteq Bells
    /\ pipe \subseteq pipe' /\ pipe' \subseteq Rows /\ mishaps' \in 0..MaxMishaps

(* to itself, *)
Rings(b) ==
    /\ bell' \in [Bells -> Bell] /\ \A c \in Bells \ {b} : bell'[c] = bell[c]
    /\ bell'[b].orphan = bell[b].orphan \/ bell'[b].pc = "off"
    /\ bell'[b].pc = "snap" => bell'[b].rows = Pending
    /\ bell'[b].pc = "report" =>
        \/ bell[b].pc = "snap" /\ bell'[b].rows = bell[b].rows /\ bell'[b].late = bell[b].late
        \/ bell'[b].rows = Pending
    /\ bell'[b].pc = "mark" =>
        /\ bell[b].pc = "report" /\ report' = Acknowledged(cursor)
        /\ \/ Pending \cap Upto(report'.pos) \subseteq pipe'
           \/ bell[b].rows \cap Upto(report'.pos) \subseteq pipe' /\ bell'[b].late = bell[b].late
    /\ \/ bell'[b].late = bell[b].late
       \/ bell[b].pc = "snap" \/ report'.phase # "reported" \/ report'.owner # b
       \/ Pending \cap Upto(report'.pos) \subseteq pipe'
    /\ bell'[b].pc \in {"ring", "claimed"} =>
        \/ bell[b].pc = "ring" /\ bell'[b].rows = bell[b].rows /\ bell'[b].ver = bell[b].ver
        \/ bell'[b].rows = Pending \ Suppressed /\ UNCHANGED report

(* and to the report. *)
Reports(b) ==
    /\ report' \in Report
    /\ report'.owner \in {report.owner, None, b}
    /\ report'.owner = b =>
        \/ bell'[b].pc \notin {"off", "snap"}
        \/ bell'[b].pc = "snap" /\ bell[b].pc = "off" /\ report.owner = b
    /\ \/ \A s \in Streams : report'.pos[s] <= report.pos[s]
       \/ report' = [phase |-> "claimed", pos |-> High(bell[b].rows), owner |-> b]
    /\ report'.phase = "reported" /\ report'.owner # None =>
        /\ report'.owner = report.owner
        /\ \/ report.phase = "reported"
           \/ report.phase = "claimed" /\ report.owner = b /\ bell[b].pc = "mark"
    /\ report'.owner \notin {None, b} => report'.phase \in {report.phase, "acknowledged"}
    /\ report'.phase = "acknowledged" =>
        \/ report.phase = "acknowledged" /\ report'.pos = report.pos
        \/ \A s \in Streams : report'.pos[s] <= cursor[s]
    /\ \A r \in Pending : UnderReport(r) =>
           report'.phase \in {"claimed", "reported"} /\ r \in Upto(report'.pos)

(* What a step of the stream may do to what is not the stream. *)
Streaming ==
    /\ UNCHANGED <<journal, report, bell, look, heard>>
    /\ stamp' \in Versions \cup {0} /\ follow' \in Follower
    /\ pipe \subseteq pipe' /\ pipe' \subseteq Rows /\ mishaps' \in 0..MaxMishaps
    /\ sup' \in Memory /\ sup'.st = sup.st /\ sup'.rows = sup.rows /\ sup'.seen = sup.seen
    /\ follow'.seen \in {follow.seen, rewinds, Origin}

-----------------------------------------------------------------------------
(* TypeOK, by its records. *)
LEMMA Typed ==
    TypeOK <=>
      /\ mail \subseteq Rows /\ cursor \in Positions
      /\ \A s \in Streams : cursor[s] = 0 \/ \E r \in mail : r[1] = s /\ cursor[s] <= r[2]
      /\ version \in Versions /\ rewinds \in [Streams -> 0..MaxRewinds] /\ lease \in BOOLEAN
      /\ stamp \in Versions \cup {0} /\ report \in Report /\ bell \in [Bells -> Bell]
      /\ look \subseteq Bells /\ follow \in Follower /\ sup \in Memory
      /\ pipe \subseteq Rows /\ heard \subseteq Rows /\ mishaps \in 0..MaxMishaps
BY DEF TypeOK, Report, Bell, Follower, Memory

LEMMA RowParts == \A r \in Rows : r[1] \in Streams /\ r[2] \in 1..MaxMail /\ r[2] \in Nat
BY WakeAssumption DEF Rows

(* Positions are numbers. *)
LEMMA PositionParts ==
    ASSUME NEW pos \in Positions, NEW s \in Streams
    PROVE  pos[s] \in 0..MaxMail /\ pos[s] \in Nat
BY WakeAssumption DEF Positions

(* The records of a process that is not there. *)
LEMMA IdleTypes ==
    /\ Origin \in Positions /\ Origin \in [Streams -> 0..MaxRewinds]
    /\ NoReport \in Report /\ NoBell \in Bell /\ NoFollow \in Follower /\ NoMemory \in Memory
<1>1. Origin \in Positions /\ Origin \in [Streams -> 0..MaxRewinds]
  BY WakeAssumption DEF Origin, Positions
<1> QED
  BY <1>1 DEF NoReport, NoBell, NoFollow, NoMemory, Report, Bell, Follower, Memory

(* A finite nonempty set of numbers has a smallest. *)
LEMMA Least ==
    ASSUME NEW S \in SUBSET Nat, S # {}
    PROVE  \E m \in S : \A n \in S : m <= n
<1> DEFINE Less == OpToRel(<, Nat)
<1>1. IsWellFoundedOn(Less, Nat)
  BY NatLessThanWellFounded
<1>2. ASSUME NEW i \in Nat, NEW j \in Nat, i < j PROVE <<i, j>> \in Less
  BY <1>2 DEF OpToRel
<1> HIDE DEF Less
<1>3. PICK m \in S : \A n \in S : ~(<<n, m>> \in Less)
  BY <1>1, WFMin
<1>4. ASSUME NEW n \in S PROVE m <= n
  <2>1. n \in Nat /\ m \in Nat /\ ~(n < m)
    BY <1>2, <1>3
  <2> QED
    BY <2>1
<1> QED
  BY <1>4

(* A nonempty set of numbers with a bound has a largest. *)
LEMMA Largest ==
    ASSUME NEW S \in SUBSET Nat, S # {}, NEW b \in Nat, \A s \in S : s <= b
    PROVE  \E m \in S : \A s \in S : s <= m
<1> DEFINE T == {n \in Nat : \E s \in S : n = b - s}
<1>1. PICK s \in S : TRUE
  OBVIOUS
<1>2. \A x \in S : x \in Nat /\ b - x \in Nat
  OBVIOUS
<1>3. T \in SUBSET Nat /\ T # {}
  BY <1>1, <1>2
<1> HIDE DEF T
<1>4. PICK n \in T : \A k \in T : n <= k
  BY <1>3, Least
<1>5. PICK m \in S : n = b - m
  BY <1>4 DEF T
<1>6. ASSUME NEW x \in S PROVE x <= m
  <2>1. b - x \in T
    BY <1>2 DEF T
  <2>2. b - m <= b - x
    BY <1>4, <1>5, <2>1
  <2> QED
    BY <1>2, <2>2
<1> QED
  BY <1>6

-----------------------------------------------------------------------------
(* What the operators of the model return *)

(* The highest position of each stream is above every row, and a row's. *)
LEMMA HighIs ==
    ASSUME NEW rows \in SUBSET Rows
    PROVE  /\ High(rows) \in Positions
           /\ \A r \in rows : r[2] <= High(rows)[r[1]]
           /\ \A s \in Streams : High(rows)[s] = 0 \/ \E r \in rows : r[1] = s /\ r[2] = High(rows)[s]
<1> DEFINE ns(s) == {0} \cup {r[2] : r \in {q \in rows : q[1] = s}}
<1>1. ASSUME NEW s \in Streams
      PROVE  High(rows)[s] \in ns(s) /\ \A m \in ns(s) : m <= High(rows)[s]
  <2>1. ns(s) \in SUBSET Nat /\ ns(s) # {} /\ \A n \in ns(s) : n <= MaxMail
    BY RowParts, WakeAssumption
  <2>2. \E n \in ns(s) : \A m \in ns(s) : m <= n
    <3> HIDE DEF ns
    <3> QED
      BY <2>1, Largest, WakeAssumption
  <2>3. High(rows)[s] = CHOOSE n \in ns(s) : \A m \in ns(s) : m <= n
    BY DEF High
  <2> HIDE DEF ns
  <2> QED
    BY <2>2, <2>3
<1>2. \A s \in Streams : High(rows)[s] \in 0..MaxMail
  BY <1>1, RowParts, WakeAssumption
<1>3. High(rows) \in Positions
  BY <1>2 DEF High, Positions
<1>4. \A r \in rows : r[1] \in Streams /\ r[2] \in ns(r[1])
  BY RowParts
<1> QED
  BY <1>1, <1>3, <1>4

LEMMA OneMore ==
    ASSUME NEW S, IsFiniteSet(S), NEW n \in Nat, Cardinality(S) <= n, NEW x
    PROVE  IsFiniteSet(S \cup {x}) /\ Cardinality(S \cup {x}) <= n + 1
<1>1. /\ IsFiniteSet(S \cup {x}) /\ Cardinality(S) \in Nat
      /\ Cardinality(S \cup {x}) = Cardinality(S) \/ Cardinality(S \cup {x}) = Cardinality(S) + 1
  BY FS_AddElement, FS_CardinalityType
<1> QED
  BY <1>1

(* A version that is taken is new to everybody: there are more versions    *)
(* than hands to hold them.                                                *)
LEMMA BumpedIs ==
    ASSUME TypeOK, Bumped
    PROVE  /\ version' \in Versions /\ version' # 0 /\ version' # version /\ version' # stamp
           /\ version' # follow.ver /\ \A b \in Bells : version' # bell[b].ver
<1> DEFINE f == [b \in Bells |-> bell[b].ver]
           held == {0, version, stamp, follow.ver} \cup {bell[b].ver : b \in Bells}
           free == {v \in Versions : v \notin held}
           k == Cardinality(Bells)
<1>1. IsFiniteSet(Bells) /\ k \in Nat
  BY WakeAssumption, FS_CardinalityType
<1>2. /\ IsFiniteSet({bell[b].ver : b \in Bells})
      /\ Cardinality({bell[b].ver : b \in Bells}) <= k
  <2>1. f \in Surjection(Bells, {bell[b].ver : b \in Bells})
    BY Fun_IsSurj
  <2> HIDE DEF f
  <2> QED
    BY <1>1, <2>1, FS_Surjection
<1>3. IsFiniteSet(Versions) /\ Cardinality(Versions) = k + 4
  <2>1. /\ 1 \in Int /\ k + 4 \in Int /\ ~(1 > k + 4) /\ (k + 4) - 1 + 1 = k + 4
        /\ Versions = 1..(k + 4)
    BY <1>1 DEF Versions
  <2> HIDE DEF k
  <2>2. Cardinality(1..(k + 4)) = IF 1 > k + 4 THEN 0 ELSE (k + 4) - 1 + 1
    BY <2>1, FS_Interval
  <2>3. IsFiniteSet(1..(k + 4))
    BY <2>1, FS_Interval
  <2> QED
    BY <2>1, <2>2, <2>3
<1> DEFINE hands == {version, stamp, follow.ver} \cup {bell[b].ver : b \in Bells}
<1>4. IsFiniteSet(hands) /\ Cardinality(hands) <= k + 3
  <2> DEFINE B == {bell[b].ver : b \in Bells}
  <2>1. IsFiniteSet(B) /\ Cardinality(B) <= k
    BY <1>2
  <2>2. hands = ((B \cup {version}) \cup {stamp}) \cup {follow.ver}
    OBVIOUS
  <2>3. k \in Nat /\ k + 1 \in Nat /\ k + 2 \in Nat /\ k + 1 + 1 = k + 2 /\ k + 2 + 1 = k + 3
    BY <1>1
  <2> HIDE DEF B, k, hands
  <2>4. IsFiniteSet(B \cup {version}) /\ Cardinality(B \cup {version}) <= k + 1
    BY <2>1, <2>3, OneMore
  <2>5. /\ IsFiniteSet((B \cup {version}) \cup {stamp})
        /\ Cardinality((B \cup {version}) \cup {stamp}) <= k + 2
    BY <2>3, <2>4, OneMore
  <2> QED
    BY <2>2, <2>3, <2>5, OneMore
<1>5. free # {}
  <2>1. SUFFICES ASSUME free = {} PROVE FALSE
    OBVIOUS
  <2>2. Versions \subseteq hands
    <3>1. 0 \notin Versions
      BY <1>1 DEF Versions
    <3> QED
      BY <2>1, <3>1
  <2> HIDE DEF hands, k
  <2>3. Cardinality(Versions) <= Cardinality(hands) /\ Cardinality(hands) \in Nat
    BY <1>4, <2>2, FS_Subset, FS_CardinalityType
  <2> QED
    BY <1>1, <1>3, <1>4, <2>3
<1>6. free \in SUBSET Nat
  BY <1>1 DEF Versions
<1>7. PICK v \in free : \A w \in free : v <= w
  <2> HIDE DEF free
  <2> QED
    BY <1>5, <1>6, Least
<1>8. v \in Versions /\ v \notin held /\ \A w \in 1..(v - 1) : w \in held
  <2>1. ASSUME NEW w \in 1..(v - 1), w \notin held PROVE FALSE
    <3>1. v \in 1..(k + 4) /\ w \in 1..(k + 4) /\ w < v
      BY <1>1, <1>7 DEF Versions
    <3>2. w \in free
      BY <2>1, <3>1 DEF Versions
    <3> QED
      BY <1>7, <3>1, <3>2
  <2> QED
    BY <1>7, <2>1
<1> HIDE DEF held
<1>9. version' \in Versions /\ version' \notin held
  BY <1>8 DEF Bumped, held
<1> QED
  BY <1>9 DEF held

(* What an acknowledgement leaves of the report. *)
LEMMA AckIs ==
    ASSUME TypeOK, NEW upto \in Positions, NEW rep, rep = Acknowledged(upto)
    PROVE  /\ rep \in Report /\ rep.owner = report.owner
           /\ ~Open => rep = report
           /\ Open => rep.phase \in {report.phase, "acknowledged"}
           /\ \A s \in Streams : rep.pos[s] <= report.pos[s]
           /\ Open /\ rep.phase = "acknowledged" =>
                  rep.pos = report.pos /\ \A s \in Streams : report.pos[s] <= upto[s]
           /\ \A s \in Streams : Open /\ upto[s] < report.pos[s] =>
                  rep.phase = report.phase /\ rep.pos[s] = report.pos[s]
<1> DEFINE rest == Remainder(report.pos, upto)
<1>1. report \in Report /\ report.pos \in Positions
  BY Typed DEF Report
<1>2. rest \in Positions
  BY <1>1, PositionParts, WakeAssumption DEF Remainder, Positions
<1>3. ASSUME NEW s \in Streams
      PROVE  /\ rest[s] = IF upto[s] < report.pos[s] THEN report.pos[s] ELSE 0
             /\ report.pos[s] \in Nat /\ upto[s] \in Nat /\ Origin[s] = 0
  BY <1>1, PositionParts DEF Remainder, Origin
<1> HIDE DEF rest
<1>4. CASE ~Open
  BY <1>1, <1>3, <1>4 DEF Acknowledged
<1>5. CASE Open /\ rest = Origin
  <2>1. rep = [report EXCEPT !.phase = "acknowledged"]
    BY <1>5 DEF Acknowledged, rest
  <2>2. rep \in Report /\ rep.owner = report.owner /\ rep.phase = "acknowledged" /\ rep.pos = report.pos
    BY <1>1, <2>1 DEF Report
  <2>3. \A s \in Streams : report.pos[s] <= upto[s]
    BY <1>3, <1>5
  <2> QED
    BY <1>3, <1>5, <2>2, <2>3
<1>6. CASE Open /\ rest # Origin
  <2>1. rep = [report EXCEPT !.pos = rest]
    BY <1>6 DEF Acknowledged, rest
  <2>2. rep \in Report /\ rep.owner = report.owner /\ rep.phase = report.phase /\ rep.pos = rest
    BY <1>1, <1>2, <2>1 DEF Report
  <2>3. report.phase # "acknowledged"
    BY <1>6 DEF Open
  <2> QED
    BY <1>3, <1>6, <2>2, <2>3
<1> QED
  BY <1>4, <1>5, <1>6

LEMMA UptoParts ==
    \A pos, r : r \in Upto(pos) <=> r \in Rows /\ r[2] <= pos[r[1]]
BY DEF Upto

LEMMA PendingParts ==
    ASSUME TypeOK
    PROVE  \A r : r \in Pending <=> r \in Rows /\ r \in mail /\ cursor[r[1]] < r[2]
<1> SUFFICES ASSUME NEW r PROVE r \in Pending <=> r \in Rows /\ r \in mail /\ cursor[r[1]] < r[2]
  OBVIOUS
<1>1. CASE r \in Rows
  <2>1. cursor[r[1]] \in Nat /\ r[2] \in Nat
    BY <1>1, RowParts, PositionParts, Typed
  <2> QED
    BY <1>1, <2>1 DEF Pending, Upto
<1>2. CASE r \notin Rows
  BY <1>2, Typed DEF Pending, Upto
<1> QED
  BY <1>1, <1>2

(* Rows that become late change nothing else of a doorbell. *)
LEMMA LateIs ==
    ASSUME TypeOK, NEW rows \in SUBSET Rows, bell' = Late(rows)
    PROVE  /\ bell' \in [Bells -> Bell]
           /\ \A b \in Bells :
                /\ bell'[b].pc = bell[b].pc /\ bell'[b].ver = bell[b].ver
                /\ bell'[b].rows = bell[b].rows /\ bell'[b].orphan = bell[b].orphan
                /\ bell[b].late \subseteq bell'[b].late
                /\ bell[b].pc = "snap" => rows \subseteq bell'[b].late
                /\ report.owner = b => {r \in rows : UnderReport(r)} \subseteq bell'[b].late
<1> DEFINE late(b) == bell[b].late \cup {r \in rows :
                          bell[b].pc = "snap" \/ (report.owner = b /\ UnderReport(r))}
<1>1. ASSUME NEW b \in Bells
      PROVE  bell'[b] = [bell[b] EXCEPT !.late = late(b)] /\ bell[b] \in Bell /\ late(b) \in SUBSET Rows
  <2>1. bell[b] \in Bell
    BY Typed
  <2>2. bell'[b] = [bell[b] EXCEPT !.late = late(b)]
    BY <2>1 DEF Late, Bell
  <2>3. late(b) \in SUBSET Rows
    BY <2>1 DEF Bell
  <2> QED
    BY <2>1, <2>2, <2>3
<1>2. ASSUME NEW b \in Bells
      PROVE  /\ bell'[b] \in Bell /\ bell'[b].late = late(b)
             /\ bell'[b].pc = bell[b].pc /\ bell'[b].ver = bell[b].ver
             /\ bell'[b].rows = bell[b].rows /\ bell'[b].orphan = bell[b].orphan
  <2> HIDE DEF late
  <2> QED
    BY <1>1, ZenonT(40) DEF Bell
<1>3. bell' \in [Bells -> Bell]
  BY <1>2 DEF Late
<1>4. ASSUME NEW b \in Bells
      PROVE  /\ bell[b].late \subseteq late(b)
             /\ bell[b].pc = "snap" => rows \subseteq late(b)
             /\ report.owner = b => {r \in rows : UnderReport(r)} \subseteq late(b)
  OBVIOUS
<1> QED
  BY <1>2, <1>3, <1>4

(* What is unread and under an open report is still under it when the      *)
(* report is acknowledged up to the cursor.                                *)
LEMMA AckCovers ==
    ASSUME TypeOK, NEW rep, rep = Acknowledged(cursor), NEW r \in Pending, UnderReport(r)
    PROVE  rep.phase = report.phase /\ r[2] <= rep.pos[r[1]] /\ r \in Upto(rep.pos)
<1>1. r[1] \in Streams /\ r[2] \in Nat /\ cursor[r[1]] \in Nat /\ report.pos[r[1]] \in Nat
  BY PendingParts, RowParts, PositionParts, Typed DEF Report
<1>2. cursor[r[1]] < report.pos[r[1]] /\ r[2] <= report.pos[r[1]] /\ Open
  BY <1>1, PendingParts, UptoParts DEF UnderReport
<1>3. rep.phase = report.phase /\ rep.pos[r[1]] = report.pos[r[1]]
  BY <1>1, <1>2, AckIs, Typed
<1> QED
  BY <1>2, <1>3, UptoParts DEF UnderReport

-----------------------------------------------------------------------------
(* The steps of a doorbell *)

LEMMA BellPut ==
    ASSUME TypeOK, NEW b \in Bells, NEW x \in Bell, bell' = [bell EXCEPT ![b] = x]
    PROVE  /\ bell' \in [Bells -> Bell] /\ bell'[b] = x
           /\ \A c \in Bells \ {b} : bell'[c] = bell[c]
BY Typed

LEMMA BellParts ==
    ASSUME TypeOK, NEW b \in Bells
    PROVE  /\ bell[b] \in Bell /\ bell[b].rows \subseteq Rows /\ bell[b].ver \in Versions \cup {0}
           /\ bell[b].late \subseteq Rows
           /\ bell[b].orphan \in BOOLEAN /\ bell[b].settled \in BOOLEAN
           /\ Pending \subseteq Rows /\ b # None
BY Typed, WakeAssumption DEF Bell, Pending, Upto

(* A report that keeps its boundary, its owner or nobody, and its phase. *)
LEMMA SameReport ==
    ASSUME TypeOK, NEW b \in Bells, bell'[b].pc # "off", UNCHANGED report,
           bell'[b].pc = "snap" => bell[b].pc = "off"
    PROVE  Reports(b)
<1>1. report \in Report /\ \A s \in Streams : report.pos[s] <= report.pos[s]
  BY Typed, PositionParts DEF Report
<1> QED
  BY <1>1 DEF Reports, UnderReport, Open

(* A doorbell that exits leaves its report to others. *)
LEMMA ExitIs ==
    ASSUME TypeOK, NEW b \in Bells, Exit(b)
    PROVE  Rings(b) /\ Reports(b) /\ bell'[b] = NoBell
<1>1. bell' \in [Bells -> Bell] /\ bell'[b] = NoBell /\ \A c \in Bells \ {b} : bell'[c] = bell[c]
  BY BellPut, IdleTypes DEF Exit
<1>2. NoBell.pc = "off"
  BY DEF NoBell
<1>3. report \in Report /\ \A s \in Streams : report.pos[s] <= report.pos[s]
  BY Typed, PositionParts DEF Report
<1>4. /\ report' \in Report /\ report'.pos = report.pos /\ report'.phase = report.phase
      /\ report'.owner = IF report.owner = b THEN None ELSE report.owner
  BY <1>3 DEF Exit, OwnerGone, Report
<1>5. Reports(b)
  BY <1>3, <1>4, BellParts DEF Reports, UnderReport, Open
<1>6. Rings(b)
  BY <1>1, <1>2, <1>4, BellParts DEF Rings
<1> QED
  BY <1>1, <1>5, <1>6

(* A report that is acknowledged up to the cursor, and what else a doorbell *)
(* makes of it.                                                            *)
LEMMA AckReport ==
    ASSUME TypeOK, NEW b \in Bells, bell'[b].pc \notin {"off", "snap"},
           report' = Acknowledged(cursor)
    PROVE  Reports(b)
<1> PICK rep : rep = Acknowledged(cursor)
  OBVIOUS
<1>1. report' = rep
  OBVIOUS
<1>2. cursor \in Positions /\ report \in Report
  BY Typed
<1>3. /\ rep \in Report /\ rep.owner = report.owner
      /\ ~Open => rep = report
      /\ Open => rep.phase \in {report.phase, "acknowledged"}
      /\ \A s \in Streams : rep.pos[s] <= report.pos[s]
      /\ Open /\ rep.phase = "acknowledged" =>
             rep.pos = report.pos /\ \A s \in Streams : report.pos[s] <= cursor[s]
  BY <1>2, AckIs
<1>4. \A r \in Pending : UnderReport(r) => rep.phase = report.phase /\ r \in Upto(rep.pos)
  BY AckCovers
<1>5. \A r : UnderReport(r) => report.phase \in {"claimed", "reported"}
  BY DEF UnderReport, Open
<1> QED
  BY <1>1, <1>3, <1>4, <1>5 DEF Reports, Open

LEMMA TakenReport ==
    ASSUME TypeOK, NEW b \in Bells, bell'[b].pc \notin {"off", "snap"}, report.owner = None, Open,
           report' = Acquired(b, Acknowledged(cursor))
    PROVE  Reports(b)
<1> PICK rep : rep = Acknowledged(cursor)
  OBVIOUS
<1>1. report' = [phase |-> "claimed", pos |-> rep.pos, owner |-> b]
  BY DEF Acquired
<1>2. cursor \in Positions /\ report \in Report
  BY Typed
<1>3. rep \in Report /\ \A s \in Streams : rep.pos[s] <= report.pos[s]
  BY <1>2, AckIs
<1>4. report' \in Report /\ report'.phase = "claimed" /\ report'.pos = rep.pos /\ report'.owner = b
  BY <1>1, <1>3 DEF Report
<1>5. \A r \in Pending : UnderReport(r) => r \in Upto(rep.pos)
  BY AckCovers
<1> QED
  BY <1>3, <1>4, <1>5 DEF Reports

(* The frame of a doorbell's step, and the variables it shares with others. *)
LEMMA BellApart ==
    ASSUME TypeOK, NEW b \in Bells, Ringing(b) \/ BellKilled(b)
    PROVE  Apart(b)
<1> USE DEF journal, ears
<1>1. /\ stamp \in Versions \cup {0} /\ look \subseteq Bells /\ pipe \subseteq Rows
      /\ mishaps \in 0..MaxMishaps /\ bell[b] \in Bell /\ bell[b].rows \subseteq Rows
      /\ bell[b].ver \in Versions \cup {0} /\ Pending \subseteq Rows
  BY Typed, BellParts
<1>2. \A kind : Mishap(kind) => mishaps' \in 0..MaxMishaps
  BY <1>1, WakeAssumption DEF Mishap
<1>3. CASE SpawnBell(b)
  BY <1>1, <1>3 DEF SpawnBell, Apart
<1>4. CASE Arm(b)
  BY <1>1, <1>4 DEF Arm, JournalWritten, Apart
<1>5. CASE PrintReport(b)
  BY <1>1, <1>5 DEF PrintReport, Apart
<1>6. CASE MarkReported(b)
  BY <1>1, <1>6 DEF MarkReported, Apart
<1>7. CASE Settle(b)
  BY <1>1, <1>7 DEF Settle, Apart
<1>8. CASE Peek(b)
  BY <1>1, <1>8 DEF Peek, Apart
<1>9. CASE ClaimRing(b)
  BY <1>1, <1>9 DEF ClaimRing, Apart
<1>10. CASE PrintRing(b)
  BY <1>1, <1>10 DEF PrintRing, JournalWritten, Apart
<1>11. CASE BellQuits(b)
  BY <1>1, <1>11 DEF BellQuits, JournalWritten, Apart
<1>12. CASE RingFails(b)
  BY <1>1, <1>2, <1>12 DEF RingFails, Released, JournalWritten, Apart
<1>13. CASE BellKilled(b)
  BY <1>1, <1>2, <1>13 DEF BellKilled, Apart
<1> QED
  BY <1>3, <1>4, <1>5, <1>6, <1>7, <1>8, <1>9, <1>10, <1>11, <1>12, <1>13 DEF Ringing

(* What a doorbell does to itself and to the report. *)
LEMMA BellStep ==
    ASSUME TypeOK, NEW b \in Bells, Ringing(b) \/ BellKilled(b)
    PROVE  Apart(b) /\ Rings(b) /\ Reports(b)
<1>1. Apart(b)
  BY BellApart
<1>2. /\ bell[b] \in Bell /\ bell[b].rows \subseteq Rows /\ bell[b].ver \in Versions \cup {0}
      /\ bell[b].orphan \in BOOLEAN /\ bell[b].settled \in BOOLEAN
      /\ Pending \subseteq Rows /\ b # None
      /\ version \in Versions /\ bell \in [Bells -> Bell]
  BY BellParts, Typed
<1>3. ASSUME NEW x \in Bell, bell' = [bell EXCEPT ![b] = x], x.orphan = bell[b].orphan,
             x.pc \in {"off", "poll", "peek"},
             \/ x.late = bell[b].late
             \/ bell[b].pc = "snap" \/ report'.phase # "reported" \/ report'.owner # b
      PROVE  Rings(b)
  BY <1>3, BellPut DEF Rings
<1>4. CASE SpawnBell(b)
  <2> DEFINE x == [bell[b] EXCEPT !.pc = "snap", !.rows = Pending]
  <2>1. /\ x \in Bell /\ x.orphan = bell[b].orphan /\ x.pc = "snap" /\ x.rows = Pending
        /\ x.late = bell[b].late
    BY <1>2 DEF Bell
  <2>2. bell' = [bell EXCEPT ![b] = x] /\ UNCHANGED report /\ bell[b].pc = "off"
    BY <1>2, <1>4 DEF SpawnBell
  <2> HIDE DEF x
  <2>3. bell'[b].pc = "snap"
    BY <2>1, <2>2, BellPut
  <2>4. Rings(b)
    BY <2>1, <2>2, BellPut DEF Rings
  <2> QED
    BY <1>1, <2>2, <2>3, <2>4, SameReport
<1>5. CASE Arm(b)
  <2>1. CASE ArmFirst(b) \/ ArmTakesOver(b)
    <3> DEFINE x == [bell[b] EXCEPT !.pc = "report", !.settled = FALSE]
               rep == [phase |-> "claimed", pos |-> High(bell[b].rows), owner |-> b]
    <3>1. /\ x \in Bell /\ x.orphan = bell[b].orphan /\ x.pc = "report"
          /\ x.rows = bell[b].rows /\ x.late = bell[b].late
      BY <1>2 DEF Bell
    <3>2. bell' = [bell EXCEPT ![b] = x] /\ bell[b].pc = "snap"
      BY <1>2, <1>5, <2>1 DEF ArmFirst, ArmTakesOver, Arm
    <3> HIDE DEF x
    <3>3. bell'[b].pc = "report" /\ Rings(b)
      BY <3>1, <3>2, BellPut DEF Rings
    <3>4. CASE ArmFirst(b)
      <4>1. report' = rep /\ report.phase = "none"
        BY <3>4 DEF ArmFirst
      <4>2. rep \in Report /\ rep.owner = b /\ rep.phase = "claimed"
        BY <1>2, HighIs DEF Report
      <4>3. Reports(b)
        BY <1>2, <3>3, <4>1, <4>2 DEF Reports, UnderReport, Open
      <4> QED
        BY <1>1, <3>3, <4>3
    <3>5. CASE ArmTakesOver(b)
      <4>1. report' = Acquired(b, Acknowledged(cursor)) /\ report.owner = None /\ Open
        BY <3>5 DEF ArmTakesOver
      <4>2. Reports(b)
        BY <3>3, <4>1, TakenReport
      <4> QED
        BY <1>1, <3>3, <4>2
    <3> QED
      BY <2>1, <3>4, <3>5
  <2>2. CASE ArmWaits(b)
    <3> DEFINE x == [bell[b] EXCEPT !.pc = "poll", !.settled = FALSE, !.rows = {}, !.late = {}]
    <3>1. x \in Bell /\ x.orphan = bell[b].orphan /\ x.pc = "poll"
      BY <1>2 DEF Bell
    <3>2. bell' = [bell EXCEPT ![b] = x] /\ report' = Acknowledged(cursor) /\ bell[b].pc = "snap"
      BY <1>2, <1>5, <2>2 DEF ArmWaits, Arm
    <3> HIDE DEF x
    <3>3. bell'[b].pc \notin {"off", "snap"}
      BY <3>1, <3>2, BellPut
    <3> QED
      BY <1>1, <1>3, <3>1, <3>2, <3>3, AckReport
  <2>3. CASE ArmSettled(b)
    <3> DEFINE x == [bell[b] EXCEPT !.pc = "peek", !.rows = {}, !.late = {}]
    <3>1. x \in Bell /\ x.orphan = bell[b].orphan /\ x.pc = "peek"
      BY <1>2 DEF Bell
    <3>2. bell' = [bell EXCEPT ![b] = x] /\ report' = Acknowledged(cursor) /\ bell[b].pc = "snap"
      BY <1>2, <1>5, <2>3 DEF ArmSettled, Arm
    <3> HIDE DEF x
    <3>3. bell'[b].pc \notin {"off", "snap"}
      BY <3>1, <3>2, BellPut
    <3> QED
      BY <1>1, <1>3, <3>1, <3>2, <3>3, AckReport
  <2> QED
    BY <1>5, <2>1, <2>2, <2>3 DEF Arm
<1>6. CASE PrintReport(b)
  <2> DEFINE rest == Acknowledged(cursor).pos
             held == bell[b].rows \cap Upto(rest)
             fits == High(held) = rest
  <2>1. report' = Acknowledged(cursor) /\ report'.pos = rest /\ bell[b].pc = "report"
    BY <1>6 DEF PrintReport
  <2>2. CASE Open /\ ~Covered
    <3>1. /\ pipe' = pipe \cup (IF fits THEN held ELSE Pending \cap Upto(rest))
          /\ bell' = [bell EXCEPT ![b].pc = "mark", ![b].rows = {},
                                  ![b].late = IF fits THEN @ ELSE {}]
      BY <1>6, <2>2 DEF PrintReport
    <3>2. PICK late \in SUBSET Rows : late = IF fits THEN bell[b].late ELSE {}
      <4> HIDE DEF fits
      <4> QED
        BY BellParts
    <3> DEFINE x == [bell[b] EXCEPT !.pc = "mark", !.rows = {}, !.late = late]
    <3>3. x \in Bell /\ x.orphan = bell[b].orphan /\ x.pc = "mark" /\ x.late = late
      BY <1>2 DEF Bell
    <3>4. bell' = [bell EXCEPT ![b] = x]
      <4> HIDE DEF fits
      <4> QED
        BY <1>2, <3>1, <3>2
    <3>5. \/ held \subseteq pipe' /\ late = bell[b].late
          \/ Pending \cap Upto(rest) \subseteq pipe'
      <4> HIDE DEF fits
      <4> QED
        BY <3>1, <3>2
    <3>6. \/ bell[b].rows \cap Upto(report'.pos) \subseteq pipe' /\ late = bell[b].late
          \/ Pending \cap Upto(report'.pos) \subseteq pipe'
      BY <2>1, <3>5
    <3> HIDE DEF x
    <3>7. bell'[b] = x
      BY <3>3, <3>4, BellPut
    <3>8. Rings(b)
      BY <2>1, <3>3, <3>4, <3>6, <3>7, BellPut DEF Rings
    <3>9. Reports(b)
      BY <2>1, <3>3, <3>7, AckReport
    <3> QED
      BY <1>1, <3>8, <3>9
  <2>3. CASE ~(Open /\ ~Covered)
    <3> DEFINE x == [bell[b] EXCEPT !.pc = "peek", !.settled = TRUE, !.rows = {}, !.late = {}]
    <3>1. x \in Bell /\ x.orphan = bell[b].orphan /\ x.pc = "peek"
      BY <1>2 DEF Bell
    <3>2. bell' = [bell EXCEPT ![b] = x]
      BY <1>2, <1>6, <2>3 DEF PrintReport
    <3> HIDE DEF x
    <3>3. bell'[b].pc \notin {"off", "snap"}
      BY <3>1, <3>2, BellPut
    <3>4. report'.phase # "reported"
      <4>1. report \in Report
        BY Typed
      <4>2. CASE ~Open
        BY <2>1, <4>2 DEF Acknowledged, Open
      <4>3. CASE Open /\ Covered
        BY <2>1, <4>1, <4>3 DEF Acknowledged, Covered, Report
      <4> QED
        BY <2>3, <4>2, <4>3
    <3> QED
      BY <1>1, <1>3, <2>1, <3>1, <3>2, <3>3, <3>4, AckReport
  <2> QED
    BY <2>2, <2>3
<1>7. CASE MarkReported(b)
  <2> DEFINE x == [bell[b] EXCEPT !.pc = "peek", !.settled = TRUE]
  <2>1. /\ x \in Bell /\ x.orphan = bell[b].orphan /\ x.pc = "peek" /\ x.late = bell[b].late
    BY <1>2 DEF Bell
  <2>2. bell' = [bell EXCEPT ![b] = x] /\ bell[b].pc = "mark"
    BY <1>2, <1>7 DEF MarkReported
  <2> HIDE DEF x
  <2>3. bell'[b].pc \notin {"off", "snap"}
    BY <2>1, <2>2, BellPut
  <2>4. CASE report.phase = "claimed" /\ report.owner = b
    <3>1. report \in Report /\ \A s \in Streams : report.pos[s] <= report.pos[s]
      BY Typed, PositionParts DEF Report
    <3>2. report' = [report EXCEPT !.phase = "reported"]
      BY <1>7, <2>4 DEF MarkReported
    <3>3. /\ report' \in Report /\ report'.pos = report.pos /\ report'.owner = report.owner
          /\ report'.phase = "reported"
      BY <3>1, <3>2 DEF Report
    <3>4. Reports(b)
      BY <2>2, <2>3, <2>4, <3>1, <3>3 DEF Reports, UnderReport
    <3> QED
      BY <1>1, <1>3, <2>1, <2>2, <3>4
  <2>5. CASE ~(report.phase = "claimed" /\ report.owner = b)
    <3>1. UNCHANGED report
      BY <1>7, <2>5 DEF MarkReported
    <3> QED
      BY <1>1, <1>3, <2>1, <2>2, <2>3, <3>1, SameReport
  <2> QED
    BY <2>4, <2>5
<1>8. CASE Settle(b)
  <2>1. CASE Open /\ ~Covered /\ report.owner = None
    <3> DEFINE x == [bell[b] EXCEPT !.pc = "report", !.rows = Pending,
                                    !.settled = ~(Open /\ ~Covered)]
    <3>1. /\ x \in Bell /\ x.orphan = bell[b].orphan /\ x.pc = "report" /\ x.rows = Pending
          /\ x.late = bell[b].late
      BY <1>2 DEF Bell
    <3>2. bell' = [bell EXCEPT ![b] = x] /\ report' = Acquired(b, Acknowledged(cursor))
      BY <1>2, <1>8, <2>1 DEF Settle
    <3> HIDE DEF x
    <3>3. bell'[b].pc \notin {"off", "snap"}
      BY <3>1, <3>2, BellPut
    <3>4. Reports(b)
      BY <2>1, <3>2, <3>3, TakenReport
    <3>5. Rings(b)
      BY <3>1, <3>2, BellPut DEF Rings
    <3> QED
      BY <1>1, <3>4, <3>5
  <2>2. CASE ~(Open /\ ~Covered /\ report.owner = None)
    <3> DEFINE x == [bell[b] EXCEPT !.pc = "peek", !.rows = {}, !.settled = ~(Open /\ ~Covered)]
    <3>1. /\ x \in Bell /\ x.orphan = bell[b].orphan /\ x.pc = "peek" /\ x.late = bell[b].late
      BY <1>2 DEF Bell
    <3>2. bell' = [bell EXCEPT ![b] = x] /\ report' = Acknowledged(cursor)
      BY <1>2, <1>8, <2>2 DEF Settle
    <3> HIDE DEF x
    <3>3. bell'[b].pc \notin {"off", "snap"}
      BY <3>1, <3>2, BellPut
    <3> QED
      BY <1>1, <1>3, <3>1, <3>2, <3>3, AckReport
  <2> QED
    BY <2>1, <2>2
<1>9. CASE Peek(b)
  <2>1. UNCHANGED report
    BY <1>9 DEF Peek
  <2> DEFINE rows == IF b \in look THEN Pending \ Suppressed ELSE {}
  <2>2. CASE rows # {}
    <3> DEFINE x == [bell[b] EXCEPT !.pc = "ring", !.ver = version, !.rows = rows]
    <3>1. rows = Pending \ Suppressed
      BY <2>2
    <3>2. /\ x \in Bell /\ x.orphan = bell[b].orphan /\ x.pc = "ring"
          /\ x.rows = Pending \ Suppressed /\ x.late = bell[b].late
      BY <1>2, <3>1 DEF Bell
    <3>3. bell' = [bell EXCEPT ![b] = x]
      BY <1>2, <1>9, <2>2 DEF Peek
    <3> HIDE DEF x
    <3>4. bell'[b].pc \notin {"off", "snap"}
      BY <3>2, <3>3, BellPut
    <3>5. Rings(b)
      BY <2>1, <3>2, <3>3, BellPut DEF Rings
    <3> QED
      BY <1>1, <2>1, <3>4, <3>5, SameReport
  <2>3. CASE rows = {}
    <3> DEFINE x == [bell[b] EXCEPT !.pc = Loop(b)]
    <3>1. /\ x \in Bell /\ x.orphan = bell[b].orphan /\ x.pc \in {"poll", "peek"}
          /\ x.late = bell[b].late
      BY <1>2 DEF Bell, Loop
    <3>2. bell' = [bell EXCEPT ![b] = x]
      BY <1>2, <1>9, <2>3 DEF Peek
    <3> HIDE DEF x
    <3>3. bell'[b].pc \notin {"off", "snap"}
      BY <3>1, <3>2, BellPut
    <3> QED
      BY <1>1, <1>3, <2>1, <3>1, <3>2, <3>3, SameReport
  <2> QED
    BY <2>2, <2>3
<1>10. CASE ClaimRing(b)
  <2>1. UNCHANGED report /\ bell[b].pc = "ring"
    BY <1>10 DEF ClaimRing
  <2>2. CASE stamp = bell[b].ver
    <3> DEFINE x == [bell[b] EXCEPT !.pc = Loop(b), !.ver = 0, !.rows = {}]
    <3>1. x \in Bell /\ x.orphan = bell[b].orphan /\ x.pc \in {"poll", "peek"} /\ x.late = bell[b].late
      BY <1>2 DEF Bell, Loop
    <3>2. bell' = [bell EXCEPT ![b] = x]
      BY <1>2, <1>10, <2>2 DEF ClaimRing
    <3> HIDE DEF x
    <3>3. bell'[b].pc \notin {"off", "snap"}
      BY <3>1, <3>2, BellPut
    <3> QED
      BY <1>1, <1>3, <2>1, <3>1, <3>2, <3>3, SameReport
  <2>3. CASE stamp # bell[b].ver
    <3> DEFINE x == [bell[b] EXCEPT !.pc = "claimed"]
    <3>1. /\ x \in Bell /\ x.orphan = bell[b].orphan /\ x.pc = "claimed"
          /\ x.rows = bell[b].rows /\ x.ver = bell[b].ver /\ x.late = bell[b].late
      BY <1>2 DEF Bell
    <3>2. bell' = [bell EXCEPT ![b] = x]
      BY <1>2, <1>10, <2>3 DEF ClaimRing
    <3> HIDE DEF x
    <3>3. bell'[b].pc \notin {"off", "snap"}
      BY <3>1, <3>2, BellPut
    <3>4. Rings(b)
      BY <2>1, <3>1, <3>2, BellPut DEF Rings
    <3> QED
      BY <1>1, <2>1, <3>3, <3>4, SameReport
  <2> QED
    BY <2>2, <2>3
<1>11. CASE PrintRing(b) \/ BellQuits(b) \/ RingFails(b) \/ BellKilled(b)
  <2>1. Exit(b)
    BY <1>11 DEF PrintRing, BellQuits, RingFails, BellKilled
  <2> QED
    BY <1>1, <2>1, ExitIs
<1> QED
  BY <1>4, <1>5, <1>6, <1>7, <1>8, <1>9, <1>10, <1>11 DEF Ringing

-----------------------------------------------------------------------------
(* What the steps leave of ReportInv, MemoryInv, ToldInv and NothingHidden *)

LEMMA MemoryParts ==
    ASSUME TypeOK
    PROVE  /\ follow.seen \in [Streams -> 0..MaxRewinds] /\ sup.seen \in [Streams -> 0..MaxRewinds]
           /\ rewinds \in [Streams -> 0..MaxRewinds]
           /\ \A s \in Streams : follow.seen[s] \in Nat /\ sup.seen[s] \in Nat /\ rewinds[s] \in Nat
           /\ sup.rows \subseteq Rows /\ report.pos \in Positions
           /\ report.owner \in Bells \cup {None}
BY Typed, WakeAssumption DEF Follower, Memory, Report

(* NothingHidden, of one doorbell. *)
LEMMA HiddenIs ==
    ASSUME TypeOK
    PROVE  NothingHidden <=>
               (report.phase = "reported" /\ report.owner # None /\ ~bell[report.owner].orphan =>
                   Pending \cap Upto(report.pos) \subseteq heard \cup pipe \cup bell[report.owner].late)
BY DEF NothingHidden

(* A boundary that moves down covers less. *)
LEMMA UptoLess ==
    ASSUME NEW p \in Positions, NEW q \in Positions, \A s \in Streams : p[s] <= q[s]
    PROVE  Upto(p) \subseteq Upto(q)
<1> SUFFICES ASSUME NEW r \in Upto(p) PROVE r \in Upto(q)
  OBVIOUS
<1>1. r \in Rows /\ r[2] <= p[r[1]]
  BY UptoParts
<1>2. r[1] \in Streams /\ r[2] \in Nat /\ p[r[1]] \in Nat /\ q[r[1]] \in Nat
  BY <1>1, RowParts, PositionParts
<1> QED
  BY <1>1, <1>2, UptoParts

LEMMA BellShown ==
    ASSUME ShownInv, NEW b \in Bells, Ringing(b) \/ BellKilled(b)
    PROVE  ShownInv'
<1>1. TypeOK /\ ReportInv /\ MemoryInv /\ ToldInv /\ NothingHidden
  BY DEF ShownInv
<1>2. Apart(b) /\ Rings(b) /\ Reports(b)
  BY <1>1, BellStep
<1>3. TypeOK'
  BY <1>1, <1>2 DEF Apart, Rings, Reports, journal, TypeOK, Report, Bell, Follower, Memory
<1>4. /\ UNCHANGED <<mail, cursor, rewinds, follow, sup, heard>> /\ pipe \subseteq pipe'
      /\ UNCHANGED Pending
  BY <1>2 DEF Apart, journal, Pending
<1>5. /\ bell' \in [Bells -> Bell] /\ \A c \in Bells : c # b => bell'[c] = bell[c]
  BY <1>2 DEF Rings
<1>6. /\ report \in Report /\ report' \in Report /\ report.pos \in Positions /\ report'.pos \in Positions
      /\ b # None /\ report'.owner \in Bells \cup {None}
  BY <1>1, <1>2, Typed, BellParts DEF Reports, Report
<1>7. report'.owner # None => bell'[report'.owner].pc \notin {"off", "snap"}
  <2>1. /\ report'.owner \in {report.owner, None, b}
        /\ report'.owner = b =>
              \/ bell'[b].pc \notin {"off", "snap"}
              \/ bell'[b].pc = "snap" /\ bell[b].pc = "off" /\ report.owner = b
    BY <1>2 DEF Reports
  <2> QED
    BY <1>1, <1>5, <1>6, <2>1 DEF ReportInv
<1>8. ReportInv'
  BY <1>7 DEF ReportInv
<1>9. MemoryInv'
  BY <1>1, <1>4 DEF MemoryInv
<1>10. ASSUME NEW c \in Bells, c # b, report'.owner = c
       PROVE  /\ report.owner = c /\ report'.phase \in {report.phase, "acknowledged"}
              /\ Upto(report'.pos) \subseteq Upto(report.pos)
  <2>1. report'.owner = report.owner /\ report'.phase \in {report.phase, "acknowledged"}
    BY <1>2, <1>10, WakeAssumption DEF Reports
  <2>2. \A s \in Streams : report'.pos[s] <= report.pos[s]
    BY <1>2, <1>10 DEF Reports
  <2> QED
    BY <1>6, <1>10, <2>1, <2>2, UptoLess
<1>11. ASSUME NEW c \in Bells, bell'[c].pc = "snap"
       PROVE  Pending \subseteq bell'[c].rows \cup bell'[c].late
  <2>1. CASE c = b
    BY <1>2, <1>11, <2>1 DEF Rings
  <2>2. CASE c # b
    BY <1>1, <1>5, <1>11, <2>2 DEF ToldInv
  <2> QED
    BY <2>1, <2>2
<1>12. ASSUME NEW c \in Bells, bell'[c].pc = "report", report'.owner = c, report'.phase = "claimed"
       PROVE  Pending \cap Upto(report'.pos) \subseteq bell'[c].rows \cup bell'[c].late
  <2>1. CASE c = b
    BY <1>1, <1>2, <1>12, <2>1 DEF Rings, ToldInv
  <2>2. CASE c # b
    BY <1>1, <1>5, <1>10, <1>12, <2>2 DEF ToldInv
  <2> QED
    BY <2>1, <2>2
<1>13. ASSUME NEW c \in Bells, bell'[c].pc = "mark", report'.owner = c, ~bell'[c].orphan,
              report'.phase = "claimed"
       PROVE  Pending \cap Upto(report'.pos) \subseteq heard \cup pipe' \cup bell'[c].late
  <2>1. CASE c = b
    <3>1. /\ bell[b].pc = "report" /\ report' = Acknowledged(cursor)
          /\ \/ Pending \cap Upto(report'.pos) \subseteq pipe'
             \/ bell[b].rows \cap Upto(report'.pos) \subseteq pipe' /\ bell'[b].late = bell[b].late
      BY <1>2, <1>13, <2>1 DEF Rings
    <3>2. PICK rep : rep = report'
      OBVIOUS
    <3>3. /\ rep.owner = report.owner /\ rep.phase \in {report.phase, "acknowledged"}
          /\ \A s \in Streams : rep.pos[s] <= report.pos[s]
      <4>1. cursor \in Positions /\ rep = Acknowledged(cursor)
        BY <1>1, <3>1, <3>2, Typed
      <4> QED
        BY <1>1, <4>1, AckIs
    <3>4. Upto(report'.pos) \subseteq Upto(report.pos)
      BY <1>6, <3>2, <3>3, UptoLess
    <3>5. Pending \cap Upto(report.pos) \subseteq bell[b].rows \cup bell[b].late
      BY <1>1, <1>13, <2>1, <3>1, <3>2, <3>3 DEF ToldInv
    <3> QED
      BY <2>1, <3>1, <3>4, <3>5
  <2>2. CASE c # b
    <3>1. Pending \cap Upto(report.pos) \subseteq heard \cup pipe \cup bell[c].late
      BY <1>1, <1>5, <1>10, <1>13, <2>2 DEF ToldInv
    <3> QED
      BY <1>4, <1>5, <1>10, <1>13, <2>2, <3>1
  <2> QED
    BY <2>1, <2>2
<1>14. ToldInv'
  <2>1. Upto(report.pos)' = Upto(report'.pos)
    BY DEF Upto
  <2> QED
    BY <1>4, <1>11, <1>12, <1>13, <2>1 DEF ToldInv
<1>15. NothingHidden'
  <2> DEFINE o == report.owner
  <2> SUFFICES ASSUME report'.phase = "reported", report'.owner # None, ~bell'[report'.owner].orphan
               PROVE  Pending \cap Upto(report'.pos) \subseteq heard \cup pipe' \cup bell'[report'.owner].late
    BY <1>4 DEF NothingHidden, Upto
  <2>1. /\ report'.owner = o
        /\ \/ report.phase = "reported"
           \/ report.phase = "claimed" /\ o = b /\ bell[b].pc = "mark"
    BY <1>2 DEF Reports
  <2>2. Upto(report'.pos) \subseteq Upto(report.pos)
    <3>1. \A s \in Streams : report'.pos[s] <= report.pos[s]
      BY <1>2 DEF Reports
    <3> QED
      BY <1>6, <3>1, UptoLess
  <2>3. ~bell[o].orphan
    BY <1>2, <1>5, <1>6, <1>7, <2>1 DEF Rings
  <2>4. Pending \cap Upto(report.pos) \subseteq heard \cup pipe \cup bell[o].late
    <3>1. CASE report.phase = "reported"
      BY <1>1, <1>6, <2>1, <2>3, <3>1, HiddenIs
    <3>2. CASE report.phase = "claimed" /\ o = b /\ bell[b].pc = "mark"
      BY <1>1, <2>3, <3>2 DEF ToldInv
    <3> QED
      BY <2>1, <3>1, <3>2
  <2>5. bell'[o].late = bell[o].late \/ Pending \cap Upto(report'.pos) \subseteq pipe'
    <3>1. CASE o = b
      <4>1. bell[b].pc # "snap"
        BY <1>1, <1>6, <3>1 DEF ReportInv
      <4> QED
        BY <1>2, <2>1, <3>1, <4>1 DEF Rings
    <3>2. CASE o # b
      BY <1>5, <1>6, <2>1, <3>2
    <3> QED
      BY <3>1, <3>2
  <2> QED
    BY <1>4, <2>1, <2>2, <2>4, <2>5
<1> QED
  BY <1>3, <1>8, <1>9, <1>14, <1>15 DEF ShownInv

-----------------------------------------------------------------------------
(* The steps of the stream *)

LEMMA FollowStep ==
    ASSUME TypeOK, Following \/ FollowKilled
    PROVE  Streaming
<1> USE DEF journal, ears
<1>1. /\ stamp \in Versions \cup {0} /\ follow \in Follower /\ sup \in Memory /\ pipe \subseteq Rows
      /\ mishaps \in 0..MaxMishaps /\ follow.ver \in Versions \cup {0} /\ version \in Versions
      /\ rewinds \in [Streams -> 0..MaxRewinds] /\ Pending \subseteq Rows
      /\ follow.rows \subseteq Rows /\ follow.done \subseteq Rows
  BY Typed DEF Follower, Pending, Upto
<1>2. \A kind : Mishap(kind) => mishaps' \in 0..MaxMishaps
  BY <1>1, WakeAssumption DEF Mishap
<1>3. /\ NoFollow \in Follower /\ NoFollow.seen = Origin
      /\ 0 \in Versions \cup {0} /\ Released(follow.ver) \in Versions \cup {0}
  BY <1>1, IdleTypes DEF NoFollow, Released
<1>4. CASE SpawnFollow
  <2>1. CASE follow.pc = "off"
    <3> DEFINE high == IF report.phase = "acknowledged" THEN report.pos ELSE Origin
    <3>1. high \in Positions
      BY Typed, IdleTypes DEF Report
    <3>2. CASE UNCHANGED sup
      <4>1. follow' = [NoFollow EXCEPT !.pc = "poll", !.high = high]
        BY <1>4, <2>1, <3>2 DEF SpawnFollow
      <4> HIDE DEF high
      <4>2. follow' \in Follower /\ follow'.seen = Origin
        BY <1>3, <3>1, <4>1 DEF Follower
      <4> QED
        BY <1>1, <1>4, <3>2, <4>2 DEF SpawnFollow, Streaming
    <3> QED
      BY <1>4, <2>1, <3>2 DEF SpawnFollow
  <2>2. CASE follow.pc # "off"
    <3>1. sup' = [sup EXCEPT !.stopped = TRUE] /\ UNCHANGED follow
      BY <1>4, <2>2 DEF SpawnFollow
    <3>2. sup' \in Memory /\ sup'.st = sup.st /\ sup'.rows = sup.rows /\ sup'.seen = sup.seen
      BY <1>1, <3>1 DEF Memory
    <3> QED
      BY <1>1, <1>4, <3>1, <3>2 DEF SpawnFollow, Streaming
  <2> QED
    BY <2>1, <2>2
<1>5. CASE ReadRewinds
  <2> DEFINE moved == {s \in Streams : rewinds[s] # follow.seen[s]}
             reset == follow.reset \/ moved # {}
             done == {r \in follow.done : r[1] \notin moved}
             high == [s \in Streams |-> IF s \in moved THEN 0 ELSE follow.high[s]]
  <2>1. follow' = [follow EXCEPT !.pc = "peek", !.reset = reset, !.done = done,
                                 !.high = high, !.seen = rewinds]
    BY <1>1, <1>5 DEF ReadRewinds, Follower
  <2>2. high \in Positions /\ done \in SUBSET Rows /\ reset \in BOOLEAN
    BY <1>1, PositionParts, WakeAssumption DEF Follower, Positions
  <2> HIDE DEF high, done, reset
  <2>3. follow' \in Follower /\ follow'.seen = rewinds
    BY <1>1, <2>1, <2>2 DEF Follower
  <2> QED
    BY <1>1, <1>5, <2>3 DEF ReadRewinds, Streaming
<1>6. CASE FollowPeek
  <2> DEFINE rows == Pending \ Upto(follow.high)
             pc == IF follow.reset /\ Pending # {} THEN "release"
                   ELSE IF rows # {} THEN "claim" ELSE "poll"
             reset == IF pc = "release" THEN TRUE ELSE FALSE
             ver == IF pc = "poll" THEN 0 ELSE version
             out == IF pc = "poll" THEN {} ELSE rows
  <2>1. follow' = [follow EXCEPT !.pc = pc, !.reset = reset, !.ver = ver, !.rows = out]
    BY <1>6 DEF FollowPeek
  <2>2. /\ pc \in {"release", "claim", "poll"} /\ reset \in BOOLEAN /\ ver \in Versions \cup {0}
        /\ out \in SUBSET Rows
    BY <1>1
  <2> HIDE DEF pc, reset, ver, out
  <2>3. follow' \in Follower /\ follow'.seen = follow.seen
    BY <1>1, <2>1, <2>2 DEF Follower
  <2> QED
    BY <1>1, <1>6, <2>3 DEF FollowPeek, Streaming
<1>7. CASE FollowRelease
  <2>1. follow' \in Follower /\ follow'.seen = follow.seen
    BY <1>1, <1>7 DEF FollowRelease, Follower
  <2> QED
    BY <1>1, <1>3, <1>7, <2>1 DEF FollowRelease, Streaming
<1>8. CASE FollowClaim
  <2>1. follow' \in Follower /\ follow'.seen = follow.seen
    BY <1>1, <1>8 DEF FollowClaim, Follower
  <2> QED
    BY <1>1, <1>8, <2>1 DEF FollowClaim, Streaming
<1>9. CASE FollowEmit
  <2> DEFINE out == (follow.rows \ Upto(cursor)) \ follow.done
  <2>1. /\ follow' = [follow EXCEPT !.pc = "poll", !.done = follow.done \cup out, !.rows = {}, !.ver = 0]
        /\ pipe' = pipe \cup out /\ out \subseteq Rows
    BY <1>1, <1>9 DEF FollowEmit
  <2> HIDE DEF out
  <2>2. follow' \in Follower /\ follow'.seen = follow.seen
    BY <1>1, <2>1 DEF Follower
  <2> QED
    BY <1>1, <1>9, <2>1, <2>2 DEF FollowEmit, Streaming
<1>10. CASE EmitFails
  BY <1>1, <1>2, <1>3, <1>10 DEF EmitFails, Streaming
<1>11. CASE FollowQuits
  BY <1>1, <1>3, <1>11 DEF FollowQuits, Streaming
<1>12. CASE FollowKilled
  BY <1>1, <1>2, <1>3, <1>12 DEF FollowKilled, Streaming
<1> QED
  BY <1>4, <1>5, <1>6, <1>7, <1>8, <1>9, <1>10, <1>11, <1>12 DEF Following

LEMMA FollowShown ==
    ASSUME ShownInv, Following \/ FollowKilled
    PROVE  ShownInv'
<1>1. TypeOK /\ ReportInv /\ MemoryInv /\ ToldInv /\ NothingHidden /\ Streaming
  BY FollowStep DEF ShownInv
<1>2. TypeOK'
  BY <1>1 DEF Streaming, journal, TypeOK, Follower, Memory
<1>3. /\ UNCHANGED <<mail, cursor, rewinds, report, bell, heard>> /\ pipe \subseteq pipe'
      /\ UNCHANGED Pending
      /\ sup'.rows = sup.rows /\ sup'.seen = sup.seen
      /\ follow'.seen \in {follow.seen, rewinds, Origin}
  BY <1>1 DEF Streaming, journal, Pending
<1>4. ReportInv'
  BY <1>1, <1>3 DEF ReportInv
<1>5. MemoryInv'
  BY <1>1, <1>3, MemoryParts DEF MemoryInv, Origin
<1>6. ToldInv' /\ NothingHidden'
  <2>1. Upto(report.pos)' = Upto(report.pos)
    BY <1>3 DEF Upto
  <2>2. ToldInv'
    BY <1>1, <1>3, <2>1 DEF ToldInv
  <2>3. NothingHidden'
    BY <1>1, <1>3, <2>1 DEF NothingHidden
  <2> QED
    BY <2>2, <2>3
<1> QED
  BY <1>2, <1>4, <1>5, <1>6 DEF ShownInv

-----------------------------------------------------------------------------
(* Mail and the cursor *)

(* Rows that become unread, or unheard again, are late for whoever has     *)
(* taken a snapshot.                                                       *)
LEMMA LateShown ==
    ASSUME ShownInv, NEW rows \in SUBSET Rows, bell' = Late(rows), UNCHANGED <<report, pipe>>,
           Pending' \subseteq Pending \cup rows, Pending' \cap heard \subseteq heard' \cup rows
    PROVE  ReportInv' /\ ToldInv' /\ NothingHidden'
<1>1. TypeOK /\ ReportInv /\ ToldInv /\ NothingHidden
  BY DEF ShownInv
<1>2. \A b \in Bells :
          /\ bell'[b].pc = bell[b].pc
          /\ bell'[b].rows = bell[b].rows /\ bell'[b].orphan = bell[b].orphan
          /\ bell[b].late \subseteq bell'[b].late
          /\ bell[b].pc = "snap" => rows \subseteq bell'[b].late
          /\ report.owner = b => {r \in rows : UnderReport(r)} \subseteq bell'[b].late
  BY <1>1, LateIs
<1>3. report.owner \in Bells \cup {None}
  BY <1>1, MemoryParts
<1>4. ReportInv'
  BY <1>1, <1>2, <1>3 DEF ReportInv
<1>5. ASSUME NEW b \in Bells, report.owner = b, Open
      PROVE  rows \cap Upto(report.pos) \subseteq bell'[b].late
  BY <1>2, <1>5 DEF UnderReport
<1>6. Upto(report.pos)' = Upto(report.pos)
  BY DEF Upto
<1>7. ASSUME NEW b \in Bells, bell[b].pc = "snap" PROVE Pending' \subseteq bell'[b].rows \cup bell'[b].late
  BY <1>1, <1>2, <1>7 DEF ToldInv
<1>8. ASSUME NEW b \in Bells, bell[b].pc = "report", report.owner = b, report.phase = "claimed"
      PROVE  Pending' \cap Upto(report.pos) \subseteq bell'[b].rows \cup bell'[b].late
  <2>1. Pending \cap Upto(report.pos) \subseteq bell[b].rows \cup bell[b].late /\ Open
    BY <1>1, <1>8 DEF ToldInv, Open
  <2> QED
    BY <1>2, <1>5, <1>8, <2>1
<1>9. ASSUME NEW b \in Bells, report.owner = b, Open,
             Pending \cap Upto(report.pos) \subseteq heard \cup pipe \cup bell[b].late
      PROVE  Pending' \cap Upto(report.pos) \subseteq heard' \cup pipe \cup bell'[b].late
  BY <1>2, <1>5, <1>9
<1>10. ToldInv'
  <2>1. ASSUME NEW b \in Bells, bell[b].pc = "mark", report.owner = b, ~bell[b].orphan,
               report.phase = "claimed"
        PROVE  Pending' \cap Upto(report.pos) \subseteq heard' \cup pipe \cup bell'[b].late
    BY <1>1, <1>9, <2>1 DEF ToldInv, Open
  <2> QED
    BY <1>2, <1>6, <1>7, <1>8, <2>1 DEF ToldInv
<1>11. NothingHidden'
  <2> SUFFICES ASSUME report.phase = "reported", report.owner # None, ~bell[report.owner].orphan
               PROVE  Pending' \cap Upto(report.pos) \subseteq heard' \cup pipe \cup bell'[report.owner].late
    BY <1>2, <1>3, <1>6 DEF NothingHidden
  <2> QED
    BY <1>1, <1>3, <1>9, HiddenIs DEF Open
<1> QED
  BY <1>4, <1>10, <1>11

LEMMA PostShown == ASSUME ShownInv, NEW r \in Rows, Post(r) PROVE ShownInv'
<1>1. TypeOK /\ MemoryInv
  BY DEF ShownInv
<1>2. version' \in Versions
  BY <1>1, BumpedIs DEF Post
<1>3. mail' = mail \cup {r} /\ look' = Bells /\ bell' = Late({r})
  BY DEF Post, JournalWritten
<1>4. UNCHANGED <<cursor, rewinds, lease, stamp, report, follow, sup, pipe, heard, mishaps>>
  BY DEF Post, ears
<1>5. bell' \in [Bells -> Bell]
  BY <1>1, <1>3, LateIs
<1>6. /\ mail' \subseteq Rows
      /\ \A s \in Streams : cursor'[s] = 0 \/ \E q \in mail' : q[1] = s /\ cursor'[s] <= q[2]
      /\ look' \subseteq Bells
  BY <1>1, <1>3, <1>4, Typed
<1>7. TypeOK'
  BY <1>1, <1>2, <1>4, <1>5, <1>6 DEF TypeOK, Bell
<1>8. MemoryInv'
  BY <1>1, <1>4 DEF MemoryInv
<1>9. Pending' \subseteq Pending \cup {r}
  BY <1>3, <1>4 DEF Pending, Upto
<1>10. ReportInv' /\ ToldInv' /\ NothingHidden'
  BY <1>3, <1>4, <1>9, LateShown
<1> QED
  BY <1>7, <1>8, <1>10 DEF ShownInv

LEMMA AdvanceIs ==
    ASSUME TypeOK, NEW s \in Streams, NEW n \in 0..MaxMail, Advance(s, n)
    PROVE  /\ version' \in Versions /\ look' = Bells
           /\ UNCHANGED <<mail, rewinds, lease, stamp, bell, follow, sup, pipe, mishaps>>
           /\ cursor' \in Positions /\ \A t \in Streams : cursor[t] <= cursor'[t]
           /\ \A t \in Streams : cursor'[t] = 0 \/ \E r \in mail : r[1] = t /\ cursor'[t] <= r[2]
           /\ heard \subseteq heard' /\ heard' \subseteq Rows
           /\ report' \in Report /\ report'.owner = report.owner
           /\ report'.phase = report.phase \/ report'.phase = "acknowledged"
           /\ \A t \in Streams : report'.pos[t] <= report.pos[t]
           /\ report'.phase = "acknowledged" =>
                  report'.pos = report.pos /\ (report.phase = "acknowledged"
                                               \/ \A t \in Streams : report.pos[t] <= cursor'[t])
<1>1. /\ version' \in Versions /\ look' = Bells
      /\ UNCHANGED <<mail, rewinds, lease, stamp, bell, follow, sup, pipe, mishaps>>
  BY BumpedIs DEF Advance, JournalWritten
<1>2. /\ cursor \in Positions /\ mail \subseteq Rows
      /\ \A t \in Streams : cursor[t] = 0 \/ \E r \in mail : r[1] = t /\ cursor[t] <= r[2]
  BY Typed
<1>3. cursor' = [cursor EXCEPT ![s] = n] /\ cursor[s] < n /\ <<s, n>> \in mail
  BY DEF Advance
<1>4. /\ cursor' \in Positions /\ \A t \in Streams : cursor[t] <= cursor'[t]
      /\ \A t \in Streams : cursor'[t] = 0 \/ \E r \in mail : r[1] = t /\ cursor'[t] <= r[2]
  <2>1. /\ cursor' \in Positions /\ cursor'[s] = n /\ \A t \in Streams \ {s} : cursor'[t] = cursor[t]
        /\ \A t \in Streams : cursor[t] \in Nat
    BY <1>2, <1>3, PositionParts, WakeAssumption DEF Positions
  <2>2. \E r \in mail : r[1] = s /\ cursor'[s] <= r[2]
    <3>1. <<s, n>>[1] = s /\ <<s, n>>[2] = n /\ n <= n
      BY WakeAssumption
    <3> QED
      BY <1>3, <2>1, <3>1
  <2>3. \A t \in Streams : cursor[t] <= cursor'[t]
    BY <1>3, <2>1
  <2> QED
    BY <1>2, <2>1, <2>2, <2>3
<1>5. heard \subseteq heard' /\ heard' \subseteq Rows
  BY Typed DEF Advance, Pending, Upto
<1>6. PICK upto \in Positions : upto = cursor'
  BY <1>4
<1>7. PICK rep : rep = Acknowledged(upto)
  OBVIOUS
<1>8. report' \in {report, rep}
  BY <1>6, <1>7 DEF Advance, Acknowledged, Remainder
<1>9. report \in Report /\ \A t \in Streams : report.pos[t] <= report.pos[t]
  BY Typed, PositionParts DEF Report
<1>10. /\ rep \in Report /\ rep.owner = report.owner
       /\ ~Open => rep = report
       /\ Open => rep.phase \in {report.phase, "acknowledged"}
       /\ \A t \in Streams : rep.pos[t] <= report.pos[t]
       /\ Open /\ rep.phase = "acknowledged" =>
              rep.pos = report.pos /\ \A t \in Streams : report.pos[t] <= upto[t]
  BY <1>6, <1>7, AckIs
<1>11. CASE report' = report
  BY <1>1, <1>4, <1>5, <1>9, <1>11
<1>12. CASE report' = rep
  BY <1>1, <1>4, <1>5, <1>6, <1>9, <1>10, <1>12
<1> QED
  BY <1>8, <1>11, <1>12

LEMMA AdvanceShown ==
    ASSUME ShownInv, NEW s \in Streams, NEW n \in 0..MaxMail, Advance(s, n)
    PROVE  ShownInv'
<1>1. TypeOK /\ ReportInv /\ MemoryInv /\ ToldInv /\ NothingHidden
  BY DEF ShownInv
<1>2. /\ version' \in Versions /\ look' = Bells
      /\ UNCHANGED <<mail, rewinds, lease, stamp, bell, follow, sup, pipe, mishaps>>
      /\ cursor' \in Positions /\ \A t \in Streams : cursor[t] <= cursor'[t]
      /\ \A t \in Streams : cursor'[t] = 0 \/ \E r \in mail : r[1] = t /\ cursor'[t] <= r[2]
      /\ heard \subseteq heard' /\ heard' \subseteq Rows
      /\ report' \in Report /\ report'.owner = report.owner
      /\ report'.phase = report.phase \/ report'.phase = "acknowledged"
      /\ \A t \in Streams : report'.pos[t] <= report.pos[t]
  BY <1>1, AdvanceIs
<1>3. TypeOK'
  BY <1>1, <1>2 DEF TypeOK, Report
<1>4. report.pos \in Positions /\ report'.pos \in Positions /\ cursor \in Positions
  BY <1>1, <1>2, Typed DEF Report
<1>5. ReportInv'
  BY <1>1, <1>2 DEF ReportInv
<1>6. MemoryInv'
  BY <1>1, <1>2 DEF MemoryInv
<1>7. Pending' \subseteq Pending /\ Upto(report'.pos) \subseteq Upto(report.pos)
  <2>1. Upto(cursor) \subseteq Upto(cursor')
    BY <1>2, <1>4, UptoLess
  <2>2. Upto(report'.pos) \subseteq Upto(report.pos)
    BY <1>2, <1>4, UptoLess
  <2>3. Pending' = mail \ Upto(cursor')
    BY <1>2 DEF Pending, Upto
  <2> QED
    BY <2>1, <2>2, <2>3 DEF Pending
<1>8. Upto(report.pos)' = Upto(report'.pos)
  BY DEF Upto
<1>9. ToldInv'
  BY <1>1, <1>2, <1>7, <1>8 DEF ToldInv
<1>10. NothingHidden'
  <2> SUFFICES ASSUME report'.phase = "reported", report'.owner # None, ~bell[report.owner].orphan
               PROVE  Pending' \cap Upto(report'.pos) \subseteq heard' \cup pipe \cup bell[report.owner].late
    BY <1>2, <1>8 DEF NothingHidden
  <2>1. Pending \cap Upto(report.pos) \subseteq heard \cup pipe \cup bell[report.owner].late
    BY <1>1, <1>2, HiddenIs
  <2> QED
    BY <1>2, <1>7, <2>1
<1> QED
  BY <1>3, <1>5, <1>6, <1>9, <1>10 DEF ShownInv

(* A rewind is seen by nobody yet; what it takes back is of its stream.    *)
LEMMA SetCursorIs ==
    ASSUME TypeOK, NEW s \in Streams, NEW n \in 0..MaxMail, SetCursor(s, n)
    PROVE  /\ version' \in Versions /\ look' = Bells
           /\ UNCHANGED <<mail, lease, stamp, report, follow, sup, pipe, mishaps>>
           /\ cursor' \in Positions
           /\ \A t \in Streams : cursor'[t] = 0 \/ \E r \in mail : r[1] = t /\ cursor'[t] <= r[2]
           /\ \A t \in Streams \ {s} : cursor'[t] = cursor[t] /\ rewinds'[t] = rewinds[t]
           /\ rewinds' \in [Streams -> 0..MaxRewinds] /\ rewinds'[s] = rewinds[s] + 1
           /\ \A r \in heard : r[1] = s \/ r \in heard'
           /\ heard' \subseteq Rows
           /\ \E rows \in SUBSET Rows :
                /\ bell' = Late(rows) /\ Pending' \subseteq Pending \cup rows
                /\ Pending' \cap heard \subseteq heard' \cup rows
<1>1. /\ version' \in Versions /\ look' = Bells
      /\ UNCHANGED <<mail, lease, stamp, report, follow, sup, pipe, mishaps>>
  BY BumpedIs DEF SetCursor, JournalWritten
<1>2. /\ cursor \in Positions /\ mail \subseteq Rows
      /\ \A t \in Streams : cursor[t] = 0 \/ \E r \in mail : r[1] = t /\ cursor[t] <= r[2]
      /\ rewinds \in [Streams -> 0..MaxRewinds] /\ heard \subseteq Rows
  BY Typed
<1> DEFINE back == Upto(cursor) \ Upto(cursor')
<1>3. /\ cursor' = [cursor EXCEPT ![s] = n] /\ n < cursor[s] /\ rewinds[s] < MaxRewinds
      /\ rewinds' = [rewinds EXCEPT ![s] = @ + 1]
      /\ heard' = heard \ back /\ bell' = Late(mail \cap back)
  BY DEF SetCursor
<1>4. /\ cursor' \in Positions /\ cursor'[s] = n
      /\ \A t \in Streams \ {s} : cursor'[t] = cursor[t] /\ rewinds'[t] = rewinds[t]
      /\ rewinds' \in [Streams -> 0..MaxRewinds] /\ rewinds'[s] = rewinds[s] + 1
  BY <1>2, <1>3, PositionParts, WakeAssumption DEF Positions
<1>5. \E r \in mail : r[1] = s /\ cursor'[s] <= r[2]
  <2>1. cursor[s] \in Nat /\ n \in Nat
    BY <1>2, PositionParts, WakeAssumption
  <2>2. PICK r \in mail : r[1] = s /\ cursor[s] <= r[2]
    BY <1>2, <1>3, <2>1
  <2>3. r[2] \in Nat
    BY <1>2, <2>2, RowParts
  <2> QED
    BY <1>3, <1>4, <2>1, <2>2, <2>3
<1>6. \A t \in Streams : cursor'[t] = 0 \/ \E r \in mail : r[1] = t /\ cursor'[t] <= r[2]
  BY <1>2, <1>4, <1>5
<1>7. \A r \in Rows : r[1] = s \/ (r \in Upto(cursor') <=> r \in Upto(cursor))
  BY <1>4, UptoParts, RowParts
<1>8. Pending' = mail \ Upto(cursor')
  BY <1>1 DEF Pending, Upto
<1>9. /\ mail \cap back \in SUBSET Rows /\ Pending' \subseteq Pending \cup (mail \cap back)
      /\ Pending' \cap heard \subseteq heard' \cup (mail \cap back)
  BY <1>2, <1>3, <1>8 DEF Pending
<1>10. /\ \A r \in heard : r[1] = s \/ r \in heard'
       /\ heard' \subseteq Rows
  BY <1>2, <1>3, <1>7
<1> HIDE DEF back
<1>11. \E rows \in SUBSET Rows :
          /\ bell' = Late(rows) /\ Pending' \subseteq Pending \cup rows
          /\ Pending' \cap heard \subseteq heard' \cup rows
  BY <1>3, <1>9
<1> QED
  BY <1>1, <1>4, <1>6, <1>10, <1>11

LEMMA SetCursorShown ==
    ASSUME ShownInv, NEW s \in Streams, NEW n \in 0..MaxMail, SetCursor(s, n)
    PROVE  ShownInv'
<1>1. TypeOK /\ MemoryInv
  BY DEF ShownInv
<1>2. /\ version' \in Versions /\ look' = Bells
      /\ UNCHANGED <<mail, lease, stamp, report, follow, sup, pipe, mishaps>>
      /\ cursor' \in Positions
      /\ \A t \in Streams : cursor'[t] = 0 \/ \E r \in mail : r[1] = t /\ cursor'[t] <= r[2]
      /\ \A t \in Streams \ {s} : rewinds'[t] = rewinds[t]
      /\ rewinds' \in [Streams -> 0..MaxRewinds] /\ rewinds'[s] = rewinds[s] + 1
      /\ \A r \in heard : r[1] = s \/ r \in heard'
      /\ heard' \subseteq Rows
  BY <1>1, SetCursorIs
<1>3. PICK rows \in SUBSET Rows : /\ bell' = Late(rows) /\ Pending' \subseteq Pending \cup rows
                                  /\ Pending' \cap heard \subseteq heard' \cup rows
  BY <1>1, SetCursorIs
<1>4. bell' \in [Bells -> Bell]
  BY <1>1, <1>3, LateIs
<1>5. TypeOK'
  BY <1>1, <1>2, <1>4 DEF TypeOK, Bell
<1>6. /\ follow.seen[s] \in Nat /\ sup.seen[s] \in Nat /\ rewinds[s] \in Nat
      /\ follow.seen[s] <= rewinds[s] /\ sup.seen[s] <= rewinds[s]
      /\ sup.rows \subseteq Rows
  BY <1>1, MemoryParts DEF MemoryInv
<1>7. /\ rewinds'[s] # sup.seen[s]
      /\ follow.seen[s] <= rewinds'[s] /\ sup.seen[s] <= rewinds'[s]
  BY <1>2, <1>6
<1>8. MemoryInv'
  <2>1. \A t \in Streams : follow.seen[t] <= rewinds'[t] /\ sup.seen[t] <= rewinds'[t]
    BY <1>1, <1>2, <1>7 DEF MemoryInv
  <2>2. ASSUME NEW q \in sup.rows, rewinds'[q[1]] = sup.seen[q[1]] PROVE q \in heard'
    <3>1. q[1] \in Streams /\ q[1] # s
      BY <1>6, <1>7, <2>2, RowParts
    <3> QED
      BY <1>1, <1>2, <2>2, <3>1 DEF MemoryInv
  <2> QED
    BY <1>2, <2>1, <2>2 DEF MemoryInv
<1>9. ReportInv' /\ ToldInv' /\ NothingHidden'
  BY <1>2, <1>3, LateShown
<1> QED
  BY <1>5, <1>8, <1>9 DEF ShownInv

LEMMA EndLeaseShown == ASSUME ShownInv, EndLease PROVE ShownInv'
<1>1. mishaps \in 0..MaxMishaps /\ TypeOK
  BY Typed DEF ShownInv
<1>2. /\ lease' = FALSE /\ look' = Bells /\ mishaps' \in 0..MaxMishaps
      /\ UNCHANGED <<mail, cursor, version, rewinds, stamp, report, bell, follow, sup, pipe, heard>>
  BY <1>1, WakeAssumption DEF EndLease, Mishap, JournalWritten, ears
<1>3. lease' \in BOOLEAN /\ look' \subseteq Bells
  BY <1>2
<1>4. TypeOK'
  BY <1>1, <1>2, <1>3 DEF TypeOK
<1>5. ReportInv' /\ MemoryInv' /\ ToldInv' /\ NothingHidden'
  BY <1>2 DEF ShownInv, ReportInv, MemoryInv, ToldInv, NothingHidden, Pending, Upto
<1> QED
  BY <1>4, <1>5 DEF ShownInv

-----------------------------------------------------------------------------
(* The supervisor *)

(* A row that is forwarded was heard, or is now. *)
LEMMA ForwardIs ==
    ASSUME TypeOK, MemoryInv, NEW r \in Rows, Forward(r)
    PROVE  /\ UNCHANGED <<journal, stamp, report, bell, look, follow, mishaps>>
           /\ pipe' \subseteq Rows /\ heard' \subseteq Rows
           /\ sup' \in Memory /\ sup'.st = sup.st /\ sup'.stopped = sup.stopped
           /\ sup'.seen = rewinds
           /\ heard \subseteq heard' /\ heard \cup pipe \subseteq heard' \cup pipe'
           /\ sup'.rows \subseteq heard'
<1> DEFINE kept == {q \in sup.rows : rewinds[q[1]] = sup.seen[q[1]]}
<1>1. /\ sup \in Memory /\ rewinds \in [Streams -> 0..MaxRewinds]
      /\ pipe \subseteq Rows /\ heard \subseteq Rows
  BY Typed
<1>2. kept \subseteq heard /\ kept \subseteq Rows
  BY <1>1 DEF MemoryInv, Memory
<1>3. /\ UNCHANGED <<journal, stamp, report, bell, look, follow, mishaps>>
      /\ r \in pipe /\ pipe' = pipe \ {r}
      /\ sup' = [sup EXCEPT !.rows = kept \cup {r}, !.seen = rewinds]
      /\ heard' = IF r \in kept THEN heard ELSE heard \cup {r}
  BY DEF Forward
<1> HIDE DEF kept
<1>4. /\ sup' \in Memory /\ sup'.st = sup.st /\ sup'.stopped = sup.stopped
      /\ sup'.rows = kept \cup {r} /\ sup'.seen = rewinds
  BY <1>1, <1>2, <1>3 DEF Memory
<1>5. r \in heard' /\ heard \subseteq heard' /\ heard' \subseteq Rows
  BY <1>1, <1>2, <1>3
<1> QED
  BY <1>1, <1>2, <1>3, <1>4, <1>5

LEMMA ForwardShown == ASSUME ShownInv, NEW r \in Rows, Forward(r) PROVE ShownInv'
<1>1. TypeOK /\ ReportInv /\ MemoryInv /\ ToldInv /\ NothingHidden
  BY DEF ShownInv
<1>2. /\ UNCHANGED <<mail, cursor, version, rewinds, lease, stamp, report, bell, look, follow, mishaps>>
      /\ pipe' \subseteq Rows /\ heard' \subseteq Rows
      /\ sup' \in Memory /\ sup'.seen = rewinds
      /\ heard \cup pipe \subseteq heard' \cup pipe' /\ sup'.rows \subseteq heard'
  BY <1>1, ForwardIs DEF journal
<1>3. TypeOK'
  BY <1>1, <1>2 DEF TypeOK, Memory
<1>4. ReportInv'
  BY <1>1, <1>2 DEF ReportInv
<1>5. MemoryInv'
  BY <1>1, <1>2, MemoryParts DEF MemoryInv
<1>6. UNCHANGED Pending /\ Upto(report.pos)' = Upto(report.pos)
  BY <1>2 DEF Pending, Upto
<1>7. ToldInv'
  <2>1. \A rows : rows \subseteq heard \cup pipe => rows \subseteq heard' \cup pipe'
    BY <1>2
  <2> QED
    BY <1>1, <1>2, <1>6, <2>1 DEF ToldInv
<1>8. NothingHidden'
  BY <1>1, <1>2, <1>6 DEF NothingHidden
<1> QED
  BY <1>3, <1>4, <1>5, <1>7, <1>8 DEF ShownInv

(* What a supervisor that dies or stops leaves behind. *)
LEMMA KilledIs ==
    ASSUME TypeOK, SupervisorKilled
    PROVE  /\ UNCHANGED <<journal, stamp, report, look, heard>>
           /\ sup' = [NoMemory EXCEPT !.st = "down"] /\ sup' \in Memory
           /\ pipe' = {} /\ mishaps' \in 0..MaxMishaps
           /\ bell' \in [Bells -> Bell]
           /\ \A b \in Bells : /\ bell'[b].pc = bell[b].pc /\ bell'[b].rows = bell[b].rows
                               /\ bell'[b].ver = bell[b].ver /\ bell'[b].late = bell[b].late
                               /\ bell'[b].orphan = (bell[b].pc # "off")
           /\ follow' = [follow EXCEPT !.orphan = (follow.pc # "off")] /\ follow' \in Follower
<1>1. bell \in [Bells -> Bell] /\ follow \in Follower /\ mishaps \in 0..MaxMishaps
  BY Typed
<1>2. mishaps' \in 0..MaxMishaps
  BY <1>1, WakeAssumption DEF SupervisorKilled, Mishap
<1>3. sup' = [NoMemory EXCEPT !.st = "down"] /\ sup' \in Memory
  BY IdleTypes DEF SupervisorKilled, Memory
<1>4. follow' = [follow EXCEPT !.orphan = (follow.pc # "off")]
  BY DEF SupervisorKilled
<1>5. follow' \in Follower
  BY <1>1, <1>4 DEF Follower
<1>6. ASSUME NEW b \in Bells
      PROVE  /\ bell'[b] \in Bell /\ bell'[b].pc = bell[b].pc /\ bell'[b].rows = bell[b].rows
             /\ bell'[b].ver = bell[b].ver /\ bell'[b].late = bell[b].late
             /\ bell'[b].orphan = (bell[b].pc # "off")
  <2>1. bell[b] \in Bell
    BY <1>1
  <2>2. bell'[b] = [bell[b] EXCEPT !.orphan = (bell[b].pc # "off")]
    BY DEF SupervisorKilled
  <2> QED
    BY <2>1, <2>2 DEF Bell
<1>7. bell' \in [Bells -> Bell]
  BY <1>6 DEF SupervisorKilled
<1> QED
  BY <1>2, <1>3, <1>4, <1>5, <1>6, <1>7 DEF SupervisorKilled

LEMMA KilledShown == ASSUME ShownInv, SupervisorKilled PROVE ShownInv'
<1>1. TypeOK /\ ReportInv /\ MemoryInv /\ ToldInv /\ NothingHidden
  BY DEF ShownInv
<1>2. /\ UNCHANGED <<mail, cursor, version, rewinds, lease, stamp, report, look, heard>>
      /\ sup' = [NoMemory EXCEPT !.st = "down"] /\ sup' \in Memory
      /\ pipe' = {} /\ mishaps' \in 0..MaxMishaps
      /\ bell' \in [Bells -> Bell]
      /\ \A b \in Bells : /\ bell'[b].pc = bell[b].pc /\ bell'[b].rows = bell[b].rows
                          /\ bell'[b].late = bell[b].late
                          /\ bell'[b].orphan = (bell[b].pc # "off")
      /\ follow' = [follow EXCEPT !.orphan = (follow.pc # "off")] /\ follow' \in Follower
  BY <1>1, KilledIs DEF journal
<1>3. TypeOK'
  BY <1>1, <1>2 DEF TypeOK, Bell, Follower, Memory
<1>4. report.owner \in Bells \cup {None}
  BY <1>1, MemoryParts
<1>5. ReportInv'
  BY <1>1, <1>2, <1>4 DEF ReportInv
<1>6. MemoryInv'
  <2>1. sup'.rows = {} /\ sup'.seen = Origin
    BY <1>2 DEF NoMemory
  <2>2. follow'.seen = follow.seen
    BY <1>1, <1>2, Typed DEF Follower
  <2> QED
    BY <1>1, <1>2, <2>1, <2>2, MemoryParts DEF MemoryInv, Origin
<1>7. UNCHANGED Pending /\ Upto(report.pos)' = Upto(report.pos)
  BY <1>2 DEF Pending, Upto
<1>8. ToldInv'
  BY <1>1, <1>2, <1>7 DEF ToldInv
<1>9. NothingHidden'
  BY <1>1, <1>2, <1>4 DEF NothingHidden, ReportInv
<1> QED
  BY <1>3, <1>5, <1>6, <1>8, <1>9 DEF ShownInv

LEMMA StartShown ==
    ASSUME ShownInv, StartSupervisor \/ IncumbentsReleased
    PROVE  ShownInv'
<1>1. TypeOK /\ ReportInv /\ MemoryInv /\ ToldInv /\ NothingHidden
  BY DEF ShownInv
<1>2. UNCHANGED <<mail, cursor, version, rewinds, lease, stamp, report, bell, look, follow, pipe,
                  heard, mishaps>>
  BY DEF StartSupervisor, IncumbentsReleased, journal, ears
<1>3. sup' = [sup EXCEPT !.st = "releasing"] \/ sup' = NoMemory
  BY DEF StartSupervisor, IncumbentsReleased
<1>4. /\ sup' \in Memory
      /\ \/ sup'.rows = sup.rows /\ sup'.seen = sup.seen
         \/ sup'.rows = {} /\ sup'.seen = Origin
  <2>1. /\ sup \in Memory /\ NoMemory \in Memory
        /\ NoMemory.rows = {} /\ NoMemory.seen = Origin
    BY <1>1, Typed, IdleTypes DEF NoMemory
  <2>2. CASE sup' = [sup EXCEPT !.st = "releasing"]
    BY <2>1, <2>2 DEF Memory
  <2>3. CASE sup' = NoMemory
    BY <2>1, <2>3
  <2> QED
    BY <1>3, <2>2, <2>3
<1>5. TypeOK'
  BY <1>1, <1>2, <1>4 DEF TypeOK, Memory
<1>6. ReportInv' /\ ToldInv' /\ NothingHidden'
  BY <1>1, <1>2 DEF ReportInv, ToldInv, NothingHidden, Pending, Upto
<1>7. MemoryInv'
  BY <1>1, <1>2, <1>4, MemoryParts DEF MemoryInv, Origin
<1> QED
  BY <1>5, <1>6, <1>7 DEF ShownInv

LEMMA StopsShown == ASSUME ShownInv, SupervisorStops PROVE ShownInv'
<1>1. TypeOK /\ ReportInv /\ MemoryInv /\ ToldInv /\ NothingHidden
  BY DEF ShownInv
<1>2. /\ UNCHANGED <<mail, cursor, version, rewinds, lease, stamp, look, heard, mishaps>>
      /\ sup' = [NoMemory EXCEPT !.st = "stopped"] /\ pipe' = {}
      /\ bell' = [b \in Bells |-> NoBell] /\ follow' = NoFollow
      /\ report' = [report EXCEPT !.owner = None]
  BY DEF SupervisorStops, journal
<1>3. sup' \in Memory /\ sup'.rows = {} /\ sup'.seen = Origin
  BY <1>2, IdleTypes DEF Memory, NoMemory
<1>4. report' \in Report /\ report'.owner = None /\ report'.pos = report.pos
  BY <1>1, <1>2, Typed DEF Report
<1>5. bell' \in [Bells -> Bell] /\ \A b \in Bells : bell'[b] = NoBell
  BY <1>2, IdleTypes
<1>6. TypeOK'
  <2>1. follow' \in Follower /\ pipe' \subseteq Rows
    BY <1>2, IdleTypes
  <2> QED
    BY <1>1, <1>2, <1>3, <1>4, <1>5, <2>1 DEF TypeOK, Report, Bell, Follower, Memory
<1>7. ReportInv'
  BY <1>1, <1>2, <1>4, <1>5 DEF ReportInv
<1>8. MemoryInv'
  BY <1>1, <1>2, <1>3, MemoryParts DEF MemoryInv, NoFollow, Origin
<1>9. ToldInv' /\ NothingHidden'
  BY <1>4, <1>5 DEF ToldInv, NothingHidden, NoBell
<1> QED
  BY <1>6, <1>7, <1>8, <1>9 DEF ShownInv

-----------------------------------------------------------------------------
(* What the controller is told *)

LEMMA ShownInit == Init => ShownInv
<1> SUFFICES ASSUME Init PROVE ShownInv
  OBVIOUS
<1>1. /\ mail \subseteq Rows /\ cursor = Origin /\ version = 1 /\ rewinds = Origin /\ lease = TRUE
      /\ stamp = 0 /\ report = NoReport /\ bell = [b \in Bells |-> NoBell] /\ look = Bells
      /\ follow = NoFollow /\ sup = NoMemory /\ pipe = {} /\ heard = {} /\ mishaps = 0
  BY DEF Init
<1>2. 1 \in Versions
  <2>1. Cardinality(Bells) \in Nat
    BY WakeAssumption, FS_CardinalityType
  <2> QED
    BY <2>1 DEF Versions
<1>3. \A s \in Streams : Origin[s] = 0
  BY DEF Origin
<1>4. \A b \in Bells : bell[b] = NoBell
  BY <1>1
<1>5. TypeOK
  BY <1>1, <1>2, <1>3, IdleTypes, WakeAssumption DEF TypeOK, Report, Bell, Follower, Memory
<1>6. ReportInv
  BY <1>1 DEF ReportInv, NoReport
<1>7. MemoryInv
  BY <1>1, <1>3 DEF MemoryInv, NoFollow, NoMemory
<1>8. ToldInv /\ NothingHidden
  BY <1>1, <1>4 DEF ToldInv, NothingHidden, NoReport, NoBell
<1> QED
  BY <1>5, <1>6, <1>7, <1>8 DEF ShownInv

LEMMA ShownStep == ShownInv /\ [Next]_vars => ShownInv'
<1> SUFFICES ASSUME ShownInv, [Next]_vars PROVE ShownInv'
  OBVIOUS
<1>1. CASE Controller
  BY <1>1, PostShown, AdvanceShown, SetCursorShown, EndLeaseShown DEF Controller
<1>2. CASE \E b \in Bells : Ringing(b) \/ BellKilled(b)
  BY <1>2, BellShown
<1>3. CASE Following \/ FollowKilled
  BY <1>3, FollowShown
<1>4. CASE Supervising
  BY <1>4, ForwardShown, StartShown, StopsShown DEF Supervising
<1>5. CASE SupervisorKilled
  BY <1>5, KilledShown
<1>6. CASE UNCHANGED vars
  BY <1>6 DEF vars, ShownInv, TypeOK, ReportInv, MemoryInv, ToldInv, NothingHidden, Pending, Upto
<1> QED
  BY <1>1, <1>2, <1>3, <1>4, <1>5, <1>6 DEF Next

(* The invariant behind the next two holds in every reachable state.       *)
THEOREM ShownAlways == Spec => []ShownInv
<1> QED
  BY ShownInit, ShownStep, PTL DEF Spec

(* The states of the journal, of the report and of the processes are of    *)
(* their types, the cursor never passes the last visible row, and a version *)
(* that is taken is one nobody holds.                                      *)
THEOREM TypeCorrect == Spec => []TypeOK
<1>1. ShownInv => TypeOK
  BY DEF ShownInv
<1> QED
  BY <1>1, ShownAlways, PTL

(* The doorbells never pass over mail the controller could not have seen:  *)
(* unread mail under a reported boundary of a living, supervised owner was *)
(* heard, is in the pipe, or became unread after the snapshot the owner    *)
(* reports, for any number of doorbells, streams, rows that become visible *)
(* in any order, rewinds, deaths and restarts.                             *)
THEOREM NothingHiddenAlways == Spec => []NothingHidden
<1>1. ShownInv => NothingHidden
  BY DEF ShownInv
<1> QED
  BY <1>1, ShownAlways, PTL

-----------------------------------------------------------------------------
(* What a stamp answers for *)

LEMMA StreamParts ==
    ASSUME TypeOK
    PROVE  /\ follow \in Follower /\ follow.high \in Positions
           /\ follow.done \subseteq Rows /\ follow.rows \subseteq Rows
           /\ follow.orphan \in BOOLEAN /\ follow.reset \in BOOLEAN
           /\ cursor \in Positions /\ version \in Versions /\ 0 \notin Versions
           /\ \A s \in Streams : /\ follow.high[s] \in Nat /\ cursor[s] \in Nat
                                 /\ report.pos[s] \in Nat /\ rewinds[s] \in Nat
<1>1. 0 \notin Versions
  <2>1. Cardinality(Bells) \in Nat
    BY WakeAssumption, FS_CardinalityType
  <2> QED
    BY <2>1 DEF Versions
<1>2. follow \in Follower /\ report \in Report /\ cursor \in Positions /\ version \in Versions
  BY Typed
<1>3. follow.high \in Positions /\ report.pos \in Positions
  BY <1>2 DEF Follower, Report
<1> QED
  BY <1>1, <1>2, <1>3, PositionParts, MemoryParts DEF Follower

(* A version nobody has seen has no stamp, and nobody has read anything at *)
(* it.                                                                     *)
LEMMA BumpStamp ==
    ASSUME TypeOK, Bumped, UNCHANGED <<follow, stamp>>, \A b \in Bells : bell'[b].ver = bell[b].ver
    PROVE  BellRows' /\ FollowRows' /\ StampInv'
<1>1. /\ version' # stamp /\ version' # follow.ver /\ \A b \in Bells : version' # bell[b].ver
  BY BumpedIs
<1>2. stamp' # version' /\ follow'.ver # version' /\ \A b \in Bells : bell'[b].ver # version'
  BY <1>1
<1> QED
  BY <1>2 DEF BellRows, FollowRows, StampInv

(* How a doorbell changes the stamp. *)
LEMMA BellStamp ==
    ASSUME TypeOK, NEW b \in Bells, Ringing(b) \/ BellKilled(b), "ringing" \notin Mishaps
    PROVE  \/ stamp' = stamp /\ (bell[b].pc = "claimed" => bell[b].rows \subseteq pipe')
           \/ /\ bell[b].pc = "ring" /\ stamp' = bell[b].ver /\ bell'[b].pc = "claimed"
              /\ bell'[b].ver = bell[b].ver /\ bell'[b].rows = bell[b].rows
           \/ stamp' = Released(bell[b].ver)
<1>1. bell \in [Bells -> Bell] /\ bell[b] \in Bell
  BY Typed
<1>2. CASE PrintRing(b)
  BY <1>2 DEF PrintRing
<1>3. CASE RingFails(b)
  BY <1>3 DEF RingFails
<1>4. CASE ClaimRing(b)
  <2>1. CASE stamp = bell[b].ver
    BY <1>4, <2>1 DEF ClaimRing
  <2>2. CASE stamp # bell[b].ver
    <3>1. stamp' = bell[b].ver /\ bell' = [bell EXCEPT ![b].pc = "claimed"] /\ bell[b].pc = "ring"
      BY <1>4, <2>2 DEF ClaimRing
    <3>2. bell'[b].pc = "claimed" /\ bell'[b].ver = bell[b].ver /\ bell'[b].rows = bell[b].rows
      BY <1>1, <3>1 DEF Bell
    <3> QED
      BY <3>1, <3>2
  <2> QED
    BY <2>1, <2>2
<1>5. CASE BellKilled(b)
  BY <1>5 DEF BellKilled, Mishap
<1>6. CASE SpawnBell(b) \/ Arm(b) \/ PrintReport(b) \/ MarkReported(b)
  BY <1>6 DEF SpawnBell, Arm, PrintReport, MarkReported
<1>7. CASE Settle(b) \/ Peek(b) \/ BellQuits(b)
  BY <1>7 DEF Settle, Peek, BellQuits
<1> QED
  BY <1>2, <1>3, <1>4, <1>5, <1>6, <1>7 DEF Ringing

LEMMA BellAnswered ==
    ASSUME WakeInv, NEW b \in Bells, Ringing(b) \/ BellKilled(b), "ringing" \notin Mishaps
    PROVE  FollowInv' /\ BellRows' /\ FollowRows' /\ StampInv'
<1>1. TypeOK /\ ReportInv /\ FollowInv /\ BellRows /\ FollowRows /\ StampInv
  BY DEF WakeInv, ShownInv
<1>2. Apart(b) /\ Rings(b) /\ Reports(b)
  BY <1>1, BellStep
<1>3. /\ UNCHANGED <<mail, cursor, version, rewinds, follow, sup, heard>> /\ pipe \subseteq pipe'
      /\ UNCHANGED Pending /\ \A r : ByStream(r)' <=> ByStream(r)
  BY <1>2 DEF Apart, journal, Pending, ByStream, WillResetNow
<1>4. \A c \in Bells : c # b => bell'[c] = bell[c]
  BY <1>2 DEF Rings
<1>5. \A r \in Pending : UnderReport(r) => UnderReport(r)'
  BY <1>2 DEF Reports, UnderReport, Open, Upto
<1>6. FollowInv'
  <2>1. ASSUME report'.phase = "acknowledged", NEW s \in Streams
        PROVE  report'.pos[s] <= cursor[s] \/ rewinds[s] > 0
    <3>1. CASE report.phase = "acknowledged" /\ report'.pos = report.pos
      BY <1>1, <3>1 DEF FollowInv
    <3>2. CASE \A t \in Streams : report'.pos[t] <= cursor[t]
      BY <3>2
    <3> QED
      BY <1>2, <2>1, <3>1, <3>2 DEF Reports
  <2> QED
    BY <1>1, <1>3, <2>1 DEF FollowInv
<1>7. FollowRows'
  BY <1>1, <1>3 DEF FollowRows
<1>8. BellRows'
  <2> SUFFICES ASSUME NEW c \in Bells, bell'[c].pc \in {"ring", "claimed"}, bell'[c].ver = version,
                      NEW r \in Pending
               PROVE  r \in bell'[c].rows \/ UnderReport(r)'
    BY <1>3 DEF BellRows
  <2>1. CASE c # b
    BY <1>1, <1>4, <1>5, <2>1 DEF BellRows
  <2>2. CASE c = b
    <3>1. CASE bell[b].pc = "ring" /\ bell'[b].rows = bell[b].rows /\ bell'[b].ver = bell[b].ver
      BY <1>1, <1>5, <2>2, <3>1 DEF BellRows
    <3>2. CASE bell'[b].rows = Pending \ Suppressed /\ UNCHANGED report
      <4>1. r \in Suppressed => UnderReport(r)
        BY DEF Suppressed, UnderReport, Open
      <4> QED
        BY <1>5, <2>2, <3>2, <4>1
    <3> QED
      BY <1>2, <2>2, <3>1, <3>2 DEF Rings
  <2> QED
    BY <2>1, <2>2
<1>9. StampInv'
  <2> SUFFICES ASSUME stamp' = version, sup.st # "stopped", ~sup.stopped, NEW r \in Pending
               PROVE  ByOthers(r)' \/ ByStream(r)
    BY <1>3 DEF StampInv
  <2>1. version # 0
    BY <1>1, StreamParts
  <2>2. CASE stamp' = stamp /\ (bell[b].pc = "claimed" /\ bell[b].ver = version => bell[b].rows \subseteq pipe')
    <3>1. ByOthers(r) \/ ByStream(r)
      BY <1>1, <2>2 DEF StampInv
    <3>2. CASE r \in heard \cup pipe \/ UnderReport(r)
      BY <1>3, <1>5, <3>2 DEF ByOthers
    <3>3. ASSUME NEW c \in Bells, bell[c].pc = "claimed", bell[c].ver = version, r \in bell[c].rows
          PROVE  ByOthers(r)'
      <4>1. CASE c = b
        BY <2>2, <3>3, <4>1 DEF ByOthers
      <4>2. CASE c # b
        BY <1>3, <1>4, <3>3, <4>2 DEF ByOthers
      <4> QED
        BY <4>1, <4>2
    <3> QED
      BY <3>1, <3>2, <3>3 DEF ByOthers
  <2>3. CASE /\ bell[b].pc = "ring" /\ stamp' = bell[b].ver /\ bell'[b].pc = "claimed"
             /\ bell'[b].ver = bell[b].ver /\ bell'[b].rows = bell[b].rows
    <3>1. r \in bell'[b].rows \/ UnderReport(r)'
      BY <1>3, <1>8, <2>3 DEF BellRows
    <3> QED
      BY <1>3, <2>3, <3>1 DEF ByOthers
  <2>4. CASE stamp' = Released(bell[b].ver)
    <3>1. stamp' = stamp /\ bell[b].ver # version
      BY <2>1, <2>4 DEF Released
    <3> QED
      BY <2>2, <3>1
  <2> QED
    BY <1>1, <2>2, <2>3, <2>4, BellStamp
<1> QED
  BY <1>6, <1>7, <1>8, <1>9

(* What the stream leaves to others. *)
LEMMA StreamFrame ==
    ASSUME TypeOK, Streaming
    PROVE  /\ UNCHANGED <<mail, cursor, version, rewinds, lease, report, bell, heard>>
           /\ pipe \subseteq pipe' /\ sup'.st = sup.st /\ UNCHANGED Pending
           /\ \A r : ByOthers(r) => ByOthers(r)'
<1>1. /\ UNCHANGED <<mail, cursor, version, rewinds, lease, report, bell, heard>>
      /\ pipe \subseteq pipe' /\ sup'.st = sup.st
  BY DEF Streaming, journal
<1> QED
  BY <1>1 DEF Pending, ByOthers, UnderReport, Open, Upto

(* A stream that is gone, or that starts over, answers for everything. *)
LEMMA StreamGone ==
    ASSUME WakeInv, Streaming, follow' = NoFollow
    PROVE  FollowInv' /\ FollowRows' /\ StampInv'
<1>1. UNCHANGED <<cursor, rewinds, report>>
  BY StreamFrame DEF WakeInv, ShownInv
<1>2. follow'.pc = "off" /\ follow'.high = Origin
  BY DEF NoFollow
<1>3. FollowInv'
  BY <1>1, <1>2 DEF WakeInv, FollowInv, Origin
<1>4. FollowRows' /\ StampInv'
  BY <1>2 DEF FollowRows, StampInv, ByStream, WillResetNow
<1> QED
  BY <1>3, <1>4

LEMMA SpawnAnswered ==
    ASSUME WakeInv, Streaming, SpawnFollow
    PROVE  FollowInv' /\ FollowRows' /\ StampInv'
<1>1. TypeOK /\ FollowInv /\ FollowRows /\ StampInv
  BY DEF WakeInv, ShownInv
<1>2. /\ UNCHANGED <<mail, cursor, version, rewinds, report, heard>> /\ pipe \subseteq pipe'
      /\ sup'.st = sup.st /\ sup.st = "up" /\ UNCHANGED <<Pending, stamp>>
      /\ \A r : ByOthers(r) => ByOthers(r)'
  BY <1>1, StreamFrame DEF SpawnFollow
<1>3. CASE follow.pc = "off"
  <2> DEFINE high == IF report.phase = "acknowledged" THEN report.pos ELSE Origin
  <2>1. follow' = [NoFollow EXCEPT !.pc = "poll", !.high = high]
    BY <1>3 DEF SpawnFollow
  <2>2. /\ follow'.pc = "poll" /\ follow'.reset /\ follow'.done = {} /\ follow'.seen = Origin
        /\ follow'.high = high
    BY <2>1 DEF NoFollow
  <2>3. \A s \in Streams : high[s] = 0 \/ high[s] <= cursor[s] \/ rewinds[s] > 0
    BY <1>1 DEF FollowInv, Origin
  <2>4. FollowInv'
    BY <1>1, <1>2, <2>2, <2>3 DEF FollowInv, Origin
  <2>5. FollowRows' /\ StampInv'
    BY <2>2 DEF FollowRows, StampInv, ByStream, WillResetNow
  <2> QED
    BY <2>4, <2>5
<1>4. CASE follow.pc # "off"
  <2>1. UNCHANGED follow /\ sup' = [sup EXCEPT !.stopped = TRUE]
    BY <1>4 DEF SpawnFollow
  <2>2. sup'.stopped
    BY <1>1, <2>1, Typed DEF Memory
  <2>3. FollowInv' /\ FollowRows'
    BY <1>1, <1>2, <2>1 DEF FollowInv, FollowRows
  <2>4. StampInv'
    BY <2>2 DEF StampInv
  <2> QED
    BY <2>3, <2>4
<1> QED
  BY <1>3, <1>4

LEMMA RewindsAnswered ==
    ASSUME WakeInv, Streaming, ReadRewinds
    PROVE  FollowInv' /\ FollowRows' /\ StampInv'
<1>1. TypeOK /\ FollowInv /\ FollowRows /\ StampInv
  BY DEF WakeInv, ShownInv
<1>2. /\ UNCHANGED <<mail, cursor, version, rewinds, report, heard>> /\ pipe \subseteq pipe'
      /\ UNCHANGED <<Pending, stamp, sup>>
      /\ \A r : ByOthers(r) => ByOthers(r)'
  BY <1>1, StreamFrame DEF ReadRewinds
<1> DEFINE moved == {s \in Streams : rewinds[s] # follow.seen[s]}
<1>3. /\ follow.pc = "poll" /\ follow'.pc = "peek" /\ follow'.orphan = follow.orphan
      /\ follow'.reset = (follow.reset \/ moved # {})
      /\ follow'.done = {r \in follow.done : r[1] \notin moved}
      /\ follow'.high = [s \in Streams |-> IF s \in moved THEN 0 ELSE follow.high[s]]
      /\ follow'.seen = rewinds
  BY <1>1, StreamParts DEF ReadRewinds, Follower
<1>4. FollowInv'
  <2>1. ASSUME NEW s \in Streams
        PROVE  \/ follow'.high[s] = 0
               \/ follow'.seen[s] = 0 /\ (follow'.high[s] <= cursor[s] \/ rewinds[s] > 0)
    <3>1. CASE s \in moved
      BY <1>3, <3>1
    <3>2. CASE s \notin moved
      BY <1>1, <1>3, <3>2 DEF FollowInv
    <3> QED
      BY <3>1, <3>2
  <2>2. \/ follow'.orphan
        \/ \A r \in follow'.done : r \in heard \cup pipe' \/ rewinds[r[1]] # follow'.seen[r[1]]
    <3>1. follow.done \subseteq Rows
      BY <1>1, StreamParts
    <3>2. \A r \in follow'.done : r \in follow.done /\ rewinds[r[1]] = follow.seen[r[1]]
      BY <1>3, <3>1, RowParts
    <3>3. follow.orphan \/ \A r \in follow.done : r \in heard \cup pipe \/ rewinds[r[1]] # follow.seen[r[1]]
      BY <1>1, <1>3 DEF FollowInv
    <3> QED
      BY <1>2, <1>3, <3>2, <3>3
  <2> QED
    BY <1>1, <1>2, <1>3, <2>1, <2>2 DEF FollowInv
<1>5. FollowRows'
  BY <1>3 DEF FollowRows
<1>6. StampInv'
  <2>1. \A r : ByStream(r) => ByStream(r)'
    BY <1>2, <1>3 DEF ByStream, WillResetNow
  <2> QED
    BY <1>1, <1>2, <2>1 DEF StampInv
<1> QED
  BY <1>4, <1>5, <1>6

LEMMA PeekAnswered ==
    ASSUME WakeInv, Streaming, FollowPeek
    PROVE  FollowInv' /\ FollowRows' /\ StampInv'
<1>1. TypeOK /\ FollowInv /\ FollowRows /\ StampInv
  BY DEF WakeInv, ShownInv
<1>2. /\ UNCHANGED <<mail, cursor, version, rewinds, report, heard>> /\ pipe \subseteq pipe'
      /\ UNCHANGED <<Pending, stamp, sup>>
      /\ \A r : ByOthers(r) => ByOthers(r)'
  BY <1>1, StreamFrame DEF FollowPeek
<1> DEFINE rows == Pending \ Upto(follow.high)
           pc == IF follow.reset /\ Pending # {} THEN "release"
                 ELSE IF rows # {} THEN "claim" ELSE "poll"
<1>3. /\ follow.pc = "peek" /\ follow'.pc = pc /\ follow'.orphan = follow.orphan
      /\ follow'.reset = (pc = "release")
      /\ follow'.done = follow.done /\ follow'.high = follow.high /\ follow'.seen = follow.seen
      /\ pc # "poll" => follow'.ver = version /\ follow'.rows = rows
  BY <1>1, StreamParts DEF FollowPeek, Follower
<1>4. FollowInv'
  BY <1>1, <1>2, <1>3 DEF FollowInv
<1>5. FollowRows'
  <2> SUFFICES ASSUME pc # "poll", NEW r \in Pending, r \notin rows
               PROVE  rewinds[r[1]] # follow.seen[r[1]]
    BY <1>2, <1>3 DEF FollowRows
  <2>1. r[2] <= follow.high[r[1]] /\ r[1] \in Streams /\ r[2] \in 1..MaxMail /\ cursor[r[1]] < r[2]
    BY <1>1, UptoParts, PendingParts, RowParts
  <2>2. follow.high[r[1]] \in Nat /\ cursor[r[1]] \in Nat /\ rewinds[r[1]] \in Nat
    BY <1>1, <2>1, StreamParts
  <2>3. follow.seen[r[1]] = 0 /\ (follow.high[r[1]] <= cursor[r[1]] \/ rewinds[r[1]] > 0)
    BY <1>1, <2>1, <2>2 DEF FollowInv
  <2> QED
    BY <2>1, <2>2, <2>3
<1>6. StampInv'
  <2>1. ASSUME NEW r \in Pending, ByStream(r) PROVE ByStream(r)'
    BY <1>2, <1>3, <2>1 DEF ByStream, WillResetNow
  <2> QED
    BY <1>1, <1>2, <2>1 DEF StampInv
<1> QED
  BY <1>4, <1>5, <1>6

LEMMA ReleaseAnswered ==
    ASSUME WakeInv, Streaming, FollowRelease
    PROVE  FollowInv' /\ FollowRows' /\ StampInv'
<1>1. TypeOK /\ FollowInv /\ FollowRows /\ StampInv
  BY DEF WakeInv, ShownInv
<1>2. /\ UNCHANGED <<mail, cursor, version, rewinds, report, heard>> /\ pipe \subseteq pipe'
      /\ UNCHANGED <<Pending, sup>>
      /\ \A r : ByOthers(r) => ByOthers(r)'
  BY <1>1, StreamFrame DEF FollowRelease
<1>3. /\ follow.pc = "release" /\ follow'.pc \in {"poll", "claim"} /\ follow'.orphan = follow.orphan
      /\ follow'.done = follow.done /\ follow'.high = follow.high /\ follow'.seen = follow.seen
      /\ follow'.pc = "claim" => follow'.ver = follow.ver /\ follow'.rows = follow.rows
  BY <1>1, StreamParts DEF FollowRelease, Follower
<1>4. FollowInv'
  BY <1>1, <1>2, <1>3 DEF FollowInv
<1>5. FollowRows'
  BY <1>1, <1>2, <1>3 DEF FollowRows
<1>6. StampInv'
  <2> SUFFICES ASSUME stamp' = version, sup.st # "stopped", ~sup.stopped, NEW r \in Pending
               PROVE  ByOthers(r)' \/ ByStream(r)'
    BY <1>2 DEF StampInv
  <2>1. stamp = version /\ follow.ver # version
    BY <1>1, StreamParts DEF FollowRelease, Released
  <2>2. ByOthers(r) \/ ByStream(r)
    BY <1>1, <2>1 DEF StampInv
  <2>3. ByStream(r) => ByStream(r)'
    BY <1>2, <1>3, <2>1 DEF ByStream, WillResetNow
  <2> QED
    BY <1>2, <2>2, <2>3
<1> QED
  BY <1>4, <1>5, <1>6

LEMMA ClaimAnswered ==
    ASSUME WakeInv, Streaming, FollowClaim
    PROVE  FollowInv' /\ FollowRows' /\ StampInv'
<1>1. TypeOK /\ FollowInv /\ FollowRows /\ StampInv
  BY DEF WakeInv, ShownInv
<1>2. /\ UNCHANGED <<mail, cursor, version, rewinds, report, heard>> /\ pipe \subseteq pipe'
      /\ UNCHANGED <<Pending, sup>>
      /\ \A r : ByOthers(r) => ByOthers(r)'
  BY <1>1, StreamFrame DEF FollowClaim
<1>3. /\ follow.pc = "claim" /\ follow'.pc = (IF stamp = follow.ver THEN "poll" ELSE "emit")
      /\ follow'.orphan = follow.orphan /\ follow'.reset = follow.reset
      /\ follow'.done = follow.done /\ follow'.high = follow.high /\ follow'.seen = follow.seen
      /\ follow'.pc = "emit" => follow'.ver = follow.ver /\ follow'.rows = follow.rows
      /\ stamp' = follow.ver
  BY <1>1, StreamParts DEF FollowClaim, Follower
<1>4. FollowInv'
  BY <1>1, <1>2, <1>3 DEF FollowInv
<1>5. FollowRows'
  BY <1>1, <1>2, <1>3 DEF FollowRows
<1>6. StampInv'
  <2> SUFFICES ASSUME stamp' = version, sup.st # "stopped", ~sup.stopped, NEW r \in Pending
               PROVE  ByOthers(r)' \/ ByStream(r)'
    BY <1>2 DEF StampInv
  <2>1. CASE stamp = follow.ver
    <3>1. ByOthers(r) \/ ByStream(r)
      BY <1>1, <1>3, <2>1 DEF StampInv
    <3>2. ByStream(r) => ByStream(r)'
      BY <1>2, <1>3, <2>1 DEF ByStream, WillResetNow
    <3> QED
      BY <1>2, <3>1, <3>2
  <2>2. CASE stamp # follow.ver
    <3>1. r \in follow.rows \/ rewinds[r[1]] # follow.seen[r[1]]
      BY <1>1, <1>3 DEF FollowRows
    <3>2. r[1] \in Streams
      BY <1>1, PendingParts, RowParts
    <3> QED
      BY <1>2, <1>3, <2>2, <3>1, <3>2 DEF ByStream, WillResetNow
  <2> QED
    BY <2>1, <2>2
<1> QED
  BY <1>4, <1>5, <1>6

(* What it passes over it has printed before, unless a rewind is unread. *)
LEMMA EmitAnswered ==
    ASSUME WakeInv, Streaming, FollowEmit
    PROVE  FollowInv' /\ FollowRows' /\ StampInv'
<1>1. TypeOK /\ FollowInv /\ FollowRows /\ StampInv
  BY DEF WakeInv, ShownInv
<1>2. /\ UNCHANGED <<mail, cursor, version, rewinds, report, heard>> /\ pipe \subseteq pipe'
      /\ UNCHANGED <<Pending, stamp, sup>>
      /\ \A r : ByOthers(r) => ByOthers(r)'
  BY <1>1, StreamFrame DEF FollowEmit
<1> DEFINE out == (follow.rows \ Upto(cursor)) \ follow.done
<1>3. /\ follow.pc = "emit" /\ ~follow.orphan /\ follow'.pc = "poll"
      /\ follow'.orphan = follow.orphan /\ follow'.reset = follow.reset
      /\ follow'.done = follow.done \cup out
      /\ follow'.high = follow.high /\ follow'.seen = follow.seen
      /\ pipe' = pipe \cup out
  BY <1>1, StreamParts DEF FollowEmit, Follower
<1>4. \A r \in follow.done : r \in heard \cup pipe \/ rewinds[r[1]] # follow.seen[r[1]]
  BY <1>1, <1>3 DEF FollowInv
<1>5. FollowInv'
  BY <1>1, <1>2, <1>3, <1>4 DEF FollowInv
<1>6. FollowRows'
  BY <1>3 DEF FollowRows
<1>7. StampInv'
  <2> SUFFICES ASSUME stamp = version, sup.st # "stopped", ~sup.stopped, NEW r \in Pending
               PROVE  ByOthers(r)' \/ ByStream(r)'
    BY <1>2 DEF StampInv
  <2>1. ByOthers(r) \/ ByStream(r)
    BY <1>1 DEF StampInv
  <2>2. CASE WillResetNow
    BY <1>2, <1>3, <2>2 DEF ByStream, WillResetNow
  <2>3. CASE r \in follow.rows
    <3>1. r \notin Upto(cursor) /\ r[1] \in Streams
      BY <1>1, PendingParts, RowParts DEF Pending
    <3>2. CASE r \in follow.done
      BY <1>2, <1>3, <1>4, <3>1, <3>2 DEF ByOthers, ByStream, WillResetNow
    <3>3. CASE r \notin follow.done
      BY <1>3, <2>3, <3>1, <3>3 DEF ByOthers
    <3> QED
      BY <3>2, <3>3
  <2> QED
    BY <1>2, <2>1, <2>2, <2>3 DEF ByStream
<1> QED
  BY <1>5, <1>6, <1>7

LEMMA FollowAnswered ==
    ASSUME WakeInv, Following \/ FollowKilled
    PROVE  FollowInv' /\ BellRows' /\ FollowRows' /\ StampInv'
<1>1. Streaming /\ TypeOK /\ BellRows
  BY FollowStep DEF WakeInv, ShownInv
<1>2. BellRows'
  BY <1>1, StreamFrame DEF BellRows, UnderReport, Open, Upto
<1>3. CASE EmitFails \/ FollowQuits \/ FollowKilled
  <2>1. follow' = NoFollow
    BY <1>3 DEF EmitFails, FollowQuits, FollowKilled
  <2> QED
    BY <1>1, <1>2, <2>1, StreamGone
<1> QED
  BY <1>1, <1>2, <1>3, SpawnAnswered, RewindsAnswered, PeekAnswered, ReleaseAnswered,
     ClaimAnswered, EmitAnswered DEF Following

-----------------------------------------------------------------------------
(* The controller's steps *)

LEMMA ControllerAnswered ==
    ASSUME WakeInv, Controller
    PROVE  FollowInv' /\ BellRows' /\ FollowRows' /\ StampInv'
<1>1. TypeOK /\ MemoryInv /\ FollowInv /\ BellRows /\ FollowRows /\ StampInv
  BY DEF WakeInv, ShownInv
<1>2. ASSUME NEW r \in Rows, Post(r)
      PROVE  FollowInv' /\ BellRows' /\ FollowRows' /\ StampInv'
  <2>1. /\ Bumped /\ UNCHANGED <<cursor, rewinds, report, follow, stamp, sup, pipe, heard>>
        /\ bell' = Late({r})
    BY <1>2 DEF Post, ears
  <2>2. \A b \in Bells : bell'[b].ver = bell[b].ver
    BY <1>1, <2>1, LateIs
  <2>3. FollowInv'
    BY <1>1, <2>1 DEF FollowInv
  <2> QED
    BY <1>1, <2>1, <2>2, <2>3, BumpStamp
<1>3. ASSUME NEW s \in Streams, NEW n \in 0..MaxMail, Advance(s, n)
      PROVE  FollowInv' /\ BellRows' /\ FollowRows' /\ StampInv'
  <2>1. Bumped
    BY <1>3 DEF Advance
  <2>2. /\ UNCHANGED <<rewinds, bell, follow, stamp, sup, pipe>> /\ heard \subseteq heard'
        /\ cursor' \in Positions /\ \A t \in Streams : cursor[t] <= cursor'[t]
        /\ report'.phase = "acknowledged" =>
               report'.pos = report.pos /\ (report.phase = "acknowledged"
                                            \/ \A t \in Streams : report.pos[t] <= cursor'[t])
    BY <1>1, <1>3, AdvanceIs
  <2>3. \A t \in Streams : /\ cursor[t] \in Nat /\ cursor'[t] \in Nat
                           /\ report.pos[t] \in Nat /\ follow.high[t] \in Nat
    BY <1>1, <2>2, StreamParts, PositionParts
  <2>4. \A t \in Streams : \/ follow.high[t] = 0
                           \/ follow.seen[t] = 0 /\ (follow.high[t] <= cursor'[t] \/ rewinds[t] > 0)
    BY <1>1, <2>2, <2>3 DEF FollowInv
  <2>5. report'.phase = "acknowledged" =>
            \A t \in Streams : report'.pos[t] <= cursor'[t] \/ rewinds[t] > 0
    BY <1>1, <2>2, <2>3 DEF FollowInv
  <2>6. FollowInv'
    BY <1>1, <2>2, <2>4, <2>5 DEF FollowInv
  <2> QED
    BY <1>1, <2>1, <2>2, <2>6, BumpStamp
<1>4. ASSUME NEW s \in Streams, NEW n \in 0..MaxMail, SetCursor(s, n)
      PROVE  FollowInv' /\ BellRows' /\ FollowRows' /\ StampInv'
  <2>1. Bumped
    BY <1>4 DEF SetCursor
  <2>2. /\ UNCHANGED <<stamp, report, follow, sup, pipe>>
        /\ \A b \in Bells : bell'[b].ver = bell[b].ver
        /\ \A t \in Streams \ {s} : cursor'[t] = cursor[t] /\ rewinds'[t] = rewinds[t]
        /\ rewinds'[s] = rewinds[s] + 1
        /\ \A r \in heard : r[1] = s \/ r \in heard'
    BY <1>1, <1>4, SetCursorIs, LateIs
  <2>3. rewinds[s] \in Nat /\ follow.seen[s] \in Nat /\ follow.seen[s] <= rewinds[s]
    BY <1>1, MemoryParts DEF MemoryInv
  <2>4. rewinds'[s] > 0 /\ rewinds'[s] # follow.seen[s]
    BY <2>2, <2>3
  <2>5. \A t \in Streams : \/ follow.high[t] = 0
                           \/ follow.seen[t] = 0 /\ (follow.high[t] <= cursor'[t] \/ rewinds'[t] > 0)
    <3> SUFFICES ASSUME NEW t \in Streams
                 PROVE  \/ follow.high[t] = 0
                        \/ follow.seen[t] = 0 /\ (follow.high[t] <= cursor'[t] \/ rewinds'[t] > 0)
      OBVIOUS
    <3>1. CASE t = s
      BY <1>1, <2>4, <3>1 DEF FollowInv
    <3>2. CASE t # s
      BY <1>1, <2>2, <3>2 DEF FollowInv
    <3> QED
      BY <3>1, <3>2
  <2>6. report.phase = "acknowledged" =>
            \A t \in Streams : report.pos[t] <= cursor'[t] \/ rewinds'[t] > 0
    <3> SUFFICES ASSUME report.phase = "acknowledged", NEW t \in Streams
                 PROVE  report.pos[t] <= cursor'[t] \/ rewinds'[t] > 0
      OBVIOUS
    <3>1. CASE t = s
      BY <2>4, <3>1
    <3>2. CASE t # s
      BY <1>1, <2>2, <3>2 DEF FollowInv
    <3> QED
      BY <3>1, <3>2
  <2>7. ASSUME NEW r \in follow.done, r \in heard \cup pipe \/ rewinds[r[1]] # follow.seen[r[1]]
        PROVE  r \in heard' \cup pipe \/ rewinds'[r[1]] # follow.seen[r[1]]
    <3>1. r[1] \in Streams
      BY <1>1, StreamParts, RowParts
    <3>2. CASE r[1] = s
      BY <2>4, <3>2
    <3>3. CASE r[1] # s
      BY <2>2, <2>7, <3>1, <3>3
    <3> QED
      BY <3>2, <3>3
  <2>8. FollowInv'
    BY <1>1, <2>2, <2>5, <2>6, <2>7 DEF FollowInv
  <2> QED
    BY <1>1, <2>1, <2>2, <2>8, BumpStamp
<1>5. CASE EndLease
  <2>1. UNCHANGED <<mail, cursor, version, rewinds, stamp, report, bell, follow, sup, pipe, heard>>
    BY <1>5 DEF EndLease, ears
  <2> QED
    BY <1>1, <2>1 DEF FollowInv, BellRows, FollowRows, StampInv, ByOthers, ByStream, WillResetNow,
       UnderReport, Open, Pending, Upto
<1> QED
  BY <1>2, <1>3, <1>4, <1>5 DEF Controller

-----------------------------------------------------------------------------
(* The supervisor's steps *)

LEMMA ForwardAnswered ==
    ASSUME WakeInv, NEW r \in Rows, Forward(r)
    PROVE  FollowInv' /\ BellRows' /\ FollowRows' /\ StampInv'
<1>1. TypeOK /\ MemoryInv /\ FollowInv /\ BellRows /\ FollowRows /\ StampInv
  BY DEF WakeInv, ShownInv
<1>2. /\ UNCHANGED <<mail, cursor, version, rewinds, stamp, report, bell, follow>>
      /\ UNCHANGED Pending
      /\ sup'.st = sup.st /\ sup'.stopped = sup.stopped
      /\ heard \cup pipe \subseteq heard' \cup pipe'
  BY <1>1, ForwardIs DEF journal, Pending
<1>3. FollowInv'
  BY <1>1, <1>2 DEF FollowInv
<1>4. BellRows' /\ FollowRows'
  BY <1>1, <1>2 DEF BellRows, FollowRows, UnderReport, Open, Upto
<1>5. StampInv'
  <2>1. \A q : (ByOthers(q) => ByOthers(q)') /\ (ByStream(q) => ByStream(q)')
    BY <1>2 DEF ByOthers, ByStream, WillResetNow, UnderReport, Open, Upto
  <2> QED
    BY <1>1, <1>2, <2>1 DEF StampInv
<1> QED
  BY <1>3, <1>4, <1>5

LEMMA KilledAnswered ==
    ASSUME WakeInv, SupervisorKilled
    PROVE  FollowInv' /\ BellRows' /\ FollowRows' /\ StampInv'
<1>1. TypeOK /\ FollowInv /\ BellRows /\ FollowRows
  BY DEF WakeInv, ShownInv
<1>2. /\ UNCHANGED <<mail, cursor, version, rewinds, report>> /\ UNCHANGED Pending
      /\ \A b \in Bells : /\ bell'[b].pc = bell[b].pc /\ bell'[b].rows = bell[b].rows
                          /\ bell'[b].ver = bell[b].ver
      /\ follow' = [follow EXCEPT !.orphan = (follow.pc # "off")]
  BY <1>1, KilledIs DEF journal, Pending
<1>3. /\ follow'.pc = follow.pc /\ follow'.ver = follow.ver /\ follow'.rows = follow.rows
      /\ follow'.high = follow.high /\ follow'.seen = follow.seen /\ follow'.done = follow.done
      /\ follow'.pc = "off" \/ follow'.orphan
  BY <1>1, <1>2, StreamParts DEF Follower
<1>4. FollowInv'
  BY <1>1, <1>2, <1>3 DEF FollowInv
<1>5. BellRows' /\ FollowRows'
  BY <1>1, <1>2, <1>3 DEF BellRows, FollowRows, UnderReport, Open, Upto
<1>6. StampInv'
  BY <1>3 DEF StampInv, ByStream, WillResetNow
<1> QED
  BY <1>4, <1>5, <1>6

LEMMA StartAnswered ==
    ASSUME WakeInv, StartSupervisor \/ IncumbentsReleased
    PROVE  FollowInv' /\ BellRows' /\ FollowRows' /\ StampInv'
<1>1. TypeOK /\ FollowInv /\ BellRows /\ FollowRows
  BY DEF WakeInv, ShownInv
<1>2. /\ UNCHANGED <<mail, cursor, version, rewinds, report, bell, follow, heard, pipe>>
      /\ UNCHANGED Pending /\ sup.st \in {"down", "releasing"}
  BY DEF StartSupervisor, IncumbentsReleased, journal, ears, Pending
<1>3. follow.pc = "off" \/ follow.orphan
  BY <1>1, <1>2 DEF FollowInv
<1>4. FollowInv'
  BY <1>1, <1>2, <1>3 DEF FollowInv
<1>5. BellRows' /\ FollowRows'
  BY <1>1, <1>2 DEF BellRows, FollowRows, UnderReport, Open, Upto
<1>6. StampInv'
  BY <1>2, <1>3 DEF StampInv, ByStream, WillResetNow
<1> QED
  BY <1>4, <1>5, <1>6

LEMMA StopsAnswered ==
    ASSUME WakeInv, SupervisorStops
    PROVE  FollowInv' /\ BellRows' /\ FollowRows' /\ StampInv'
<1>1. TypeOK /\ FollowInv
  BY DEF WakeInv, ShownInv
<1>2. /\ UNCHANGED <<cursor, rewinds>> /\ follow' = NoFollow
      /\ bell' = [b \in Bells |-> NoBell] /\ report' = [report EXCEPT !.owner = None]
  BY DEF SupervisorStops, journal
<1>3. report'.phase = report.phase /\ report'.pos = report.pos
  BY <1>1, <1>2, Typed DEF Report
<1>4. follow'.pc = "off" /\ follow'.high = Origin
  BY <1>2 DEF NoFollow
<1>5. FollowInv'
  BY <1>1, <1>2, <1>3, <1>4 DEF FollowInv, Origin
<1>6. \A b \in Bells : bell'[b].pc = "off"
  BY <1>2 DEF NoBell
<1>7. BellRows' /\ FollowRows' /\ StampInv'
  BY <1>4, <1>6 DEF BellRows, FollowRows, StampInv, ByStream, WillResetNow
<1> QED
  BY <1>5, <1>7

-----------------------------------------------------------------------------
(* What stands behind a stamp *)

LEMMA WakeInit == Init => WakeInv
<1> SUFFICES ASSUME Init PROVE WakeInv
  OBVIOUS
<1>1. ShownInv
  BY ShownInit
<1>2. /\ report = NoReport /\ bell = [b \in Bells |-> NoBell] /\ follow = NoFollow
  BY DEF Init
<1>3. /\ follow.pc = "off" /\ follow.high = Origin /\ report.phase = "none"
      /\ \A b \in Bells : bell[b].pc = "off"
  BY <1>2 DEF NoFollow, NoReport, NoBell
<1>4. FollowInv
  BY <1>3 DEF FollowInv, Origin
<1>5. BellRows /\ FollowRows /\ StampInv
  BY <1>3 DEF BellRows, FollowRows, StampInv, ByStream, WillResetNow
<1> QED
  BY <1>1, <1>4, <1>5 DEF WakeInv

LEMMA WakeStep == "ringing" \notin Mishaps /\ WakeInv /\ [Next]_vars => WakeInv'
<1> SUFFICES ASSUME "ringing" \notin Mishaps, WakeInv, [Next]_vars PROVE WakeInv'
  OBVIOUS
<1>1. ShownInv'
  BY ShownStep DEF WakeInv
<1>2. SUFFICES FollowInv' /\ BellRows' /\ FollowRows' /\ StampInv'
  BY <1>1 DEF WakeInv
<1>3. CASE Controller
  BY <1>3, ControllerAnswered
<1>4. CASE \E b \in Bells : Ringing(b) \/ BellKilled(b)
  BY <1>4, BellAnswered
<1>5. CASE Following \/ FollowKilled
  BY <1>5, FollowAnswered
<1>6. CASE Supervising
  BY <1>6, ForwardAnswered, StartAnswered, StopsAnswered DEF Supervising
<1>7. CASE SupervisorKilled
  BY <1>7, KilledAnswered
<1>8. CASE UNCHANGED vars
  BY <1>8 DEF vars, WakeInv, FollowInv, BellRows, FollowRows, StampInv, ByOthers, ByStream,
     WillResetNow, UnderReport, Open, Pending, Upto
<1> QED
  BY <1>3, <1>4, <1>5, <1>6, <1>7, <1>8 DEF Next

LEMMA WakeAnswers == WakeInv => StampAnswered
<1> SUFFICES ASSUME WakeInv PROVE StampAnswered
  OBVIOUS
<1>1. WillResetNow => WillReset
  BY DEF WillResetNow, WillReset
<1>2. \A r : ByOthers(r) \/ ByStream(r) => r \in heard \cup pipe \/ UnderReport(r) \/ Answered(r)
  BY <1>1 DEF ByOthers, ByStream, Answered
<1> QED
  BY <1>2 DEF WakeInv, StampInv, StampAnswered

(* A stamp on the current version has somebody behind it: unread mail that *)
(* nobody heard is in the pipe, under an open report, about to be printed  *)
(* by the holder of the claim, or the stream is about to take the stamp    *)
(* back.  It holds of doorbells that are not killed between their claim    *)
(* and their print: one that is leaves a stamp nobody answers for, and     *)
(* the next version, or a new stream, is what makes good for it.           *)
THEOREM StampAnsweredAlways ==
    ASSUME "ringing" \notin Mishaps
    PROVE  Spec => []StampAnswered
<1>1. Spec => []WakeInv
  BY WakeInit, WakeStep, PTL DEF Spec
<1> QED
  BY <1>1, WakeAnswers, PTL
=============================================================================
