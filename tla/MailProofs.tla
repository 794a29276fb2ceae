----------------------------- MODULE MailProofs -----------------------------
(***************************************************************************)
(* Proofs about module Mail, for any number of controllers, projectors,    *)
(* events, generations and faults.                                         *)
(*                                                                         *)
(* The event and the position of a row never change and rows only grow;    *)
(* what the carrier, the outbox, a projector and a relay say of an event   *)
(* is said of its rows.                                                    *)
(***************************************************************************)
EXTENDS Mail, WellFoundedInduction, SequenceTheorems, TLAPS

(* The parts of TypeOK, as records. *)
Recipients == Labels \cup {Star}
Row == [to : Recipients, ev : Events, seq : Nat \ {0}, up : BOOLEAN, gone : BOOLEAN]
OutboxRow == [st : {"none", "pending", "projected", "quarantined"}, tries : 0..MaxTries]
Lease == [active : BOOLEAN, gen : 0..MaxLeases]
Relay == [pc : {"idle", "shown", "peeked", "passed"}, gen : 0..MaxLeases, pos : Nat,
          snap : SUBSET (Nat \X BOOLEAN)]
Run == [pc : {"idle", "append", "targets", "assign", "mark", "confirm", "failed"},
        ev : Terminals \cup {None}, tries : 0..(MaxTries - 1), todo : SUBSET Recipients,
        at : Recipients \cup {None}, done : SUBSET Recipients]
Sender == [pc : {"idle", "assign", "mark"}, ev : Posts \cup {None}, todo : SUBSET Recipients,
           done : SUBSET Recipients, begun : SUBSET Posts]

Typed ==
    /\ outbox \in [Terminals -> OutboxRow]
    /\ carrier \in Seq(Events) /\ rows \in Seq(Row)
    /\ lease \in [Labels -> Lease] /\ cursor \in [Labels -> Nat]
    /\ relay \in [Labels -> Relay] /\ proj \in [Projectors -> Run] /\ poster \in Sender
    /\ shown \subseteq Labels \X Events /\ read \subseteq Events /\ blind \subseteq Terminals
    /\ faults \in 0..MaxFaults

(* An event that can be tried again has a try left; whoever is at work has *)
(* an event.                                                               *)
WorkInv ==
    /\ \A e \in Terminals : outbox[e].st \in {"none", "pending"} => outbox[e].tries < MaxTries
    /\ \A p \in Projectors : proj[p].pc # "idle" => proj[p].ev \in Terminals
    /\ poster.pc # "idle" => poster.ev \in poster.begun

(* Posts are begun once, and only what was begun is in the carrier. *)
CarrierInv ==
    /\ \A m, n \in DOMAIN carrier : carrier[m] = carrier[n] => m = n
    /\ \A n \in DOMAIN carrier : carrier[n] \in Posts => carrier[n] \in poster.begun
    /\ poster.pc = "assign" => ~InCarrier(poster.ev)

(* What a projector works on, past the append, is in the carrier. *)
CarriedInv ==
    /\ \A p \in Projectors :
        proj[p].pc \in {"targets", "assign", "mark", "confirm"} => InCarrier(proj[p].ev)
    /\ \A e \in Terminals : outbox[e].st = "projected" => InCarrier(e)

(* Rows are at the position of their event, at the one it is to have, or   *)
(* left by a post that was never appended.                                 *)
RowsInv ==
    \A i \in DOMAIN rows :
        /\ rows[i].seq <= Len(carrier) + 1
        /\ InCarrier(rows[i].ev) =>
               rows[i].seq \in DOMAIN carrier /\ carrier[rows[i].seq] = rows[i].ev
        /\ ~InCarrier(rows[i].ev) => rows[i].ev \in poster.begun
        /\ poster.pc = "assign" /\ rows[i].ev = poster.ev => rows[i].seq = Len(carrier) + 1

(* What TerminalKept asks for an event. *)
Kept(e) ==
    \/ e \in read \/ e \in blind \/ Spoilt(Position(e))
    \/ \E i \in Live : rows[i].ev = e

(* A projector has marked a row before it reconciles, and what it is about *)
(* to confirm is kept.                                                     *)
KeptInv ==
    /\ \A p \in Projectors :
        /\ proj[p].pc = "assign" => proj[p].todo # {} \/ proj[p].done # {}
        /\ proj[p].pc = "confirm" => Kept(proj[p].ev)
    /\ TerminalKept

(* A relay saw rows; what the plain one saw visible it has printed. *)
SnapInv ==
    \A l \in Labels : \A s \in relay[l].snap :
        /\ s[1] \in DOMAIN rows
        /\ relay[l].pc = "shown" /\ s[2] => <<l, rows[s[1]].ev>> \in shown

MailInv == Typed /\ WorkInv /\ CarrierInv /\ CarriedInv /\ RowsInv /\ KeptInv /\ SnapInv

(* Rows keep their event and position. *)
RowsStay ==
    \A i \in DOMAIN rows :
        /\ i \in DOMAIN rows'
        /\ rows'[i].ev = rows[i].ev /\ rows'[i].seq = rows[i].seq

-----------------------------------------------------------------------------
(* The records say TypeOK. *)
LEMMA TypedOK == Typed => TypeOK
<1> SUFFICES ASSUME Typed PROVE TypeOK
  OBVIOUS
<1>1. /\ outbox \in [Terminals -> OutboxRow] /\ carrier \in Seq(Events) /\ rows \in Seq(Row)
      /\ lease \in [Labels -> Lease] /\ cursor \in [Labels -> Nat]
      /\ shown \subseteq Labels \X Events /\ read \subseteq Events /\ blind \subseteq Terminals
      /\ faults \in 0..MaxFaults
  BY DEF Typed
<1>2. /\ poster.pc \in {"idle", "assign", "mark"} /\ poster.ev \in Posts \cup {None}
      /\ poster.begun \subseteq Posts
      /\ poster.todo \subseteq Recipients /\ poster.done \subseteq Recipients
  BY DEF Typed, Sender
<1>3. ASSUME NEW p \in Projectors
      PROVE  /\ proj[p].pc \in {"idle", "append", "targets", "assign", "mark", "confirm", "failed"}
             /\ proj[p].ev \in Terminals \cup {None} /\ proj[p].tries \in 0..(MaxTries - 1)
             /\ proj[p].todo \subseteq Recipients /\ proj[p].done \subseteq Recipients
             /\ proj[p].at \in Recipients \cup {None}
  <2>1. proj[p] \in Run
    BY DEF Typed
  <2> QED
    BY <2>1 DEF Run
<1>4. ASSUME NEW l \in Labels
      PROVE  /\ relay[l].pc \in {"idle", "shown", "peeked", "passed"} /\ relay[l].gen \in 0..MaxLeases
             /\ relay[l].pos \in Nat /\ relay[l].snap \subseteq Nat \X BOOLEAN
  <2>1. relay[l] \in Relay
    BY DEF Typed
  <2> QED
    BY <2>1 DEF Relay
<1> QED
  BY <1>1, <1>2, <1>3, <1>4 DEF TypeOK, OutboxRow, Lease, Row, Recipients

(* The idle records. *)
LEMMA IdleTypes == NoRelay \in Relay /\ NoRun \in Run /\ NoPost \in Sender
BY MailAssumption DEF NoRelay, NoRun, NoPost, Relay, Run, Sender, Recipients

(* A nonempty set of numbers with a bound has a largest. *)
LEMMA Largest ==
    ASSUME NEW S \in SUBSET Nat, S # {}, NEW b \in Nat, \A s \in S : s <= b
    PROVE  \E m \in S : \A s \in S : s <= m
<1> DEFINE Less == OpToRel(<, Nat)
           T == {n \in Nat : \E s \in S : n = b - s}
<1>1. T # {} /\ T \subseteq Nat
  <2>1. PICK s \in S : TRUE
    OBVIOUS
  <2>2. b - s \in Nat
    BY <2>1
  <2> QED
    BY <2>1, <2>2
<1>2. IsWellFoundedOn(Less, Nat)
  BY NatLessThanWellFounded
<1> HIDE DEF Less
<1>3. PICK n \in T : \A k \in T : ~(<<k, n>> \in Less)
  BY <1>1, <1>2, WFMin
<1>4. PICK m \in S : n = b - m
  BY <1>3
<1>5. ASSUME NEW s \in S PROVE s <= m
  <2>1. b - s \in T
    OBVIOUS
  <2>2. ~(b - s < n)
    BY <1>1, <1>3, <2>1 DEF Less, OpToRel
  <2> QED
    BY <2>2, <1>4
<1> QED
  BY <1>4, <1>5

-----------------------------------------------------------------------------
(* What the operators on rows do *)

(* Rows that are withdrawn or change hands keep the rest. *)
LEMMA RewriteRows ==
    ASSUME rows \in Seq(Row), NEW gone, NEW moved, NEW to \in Recipients,
           rows' = Rewrite(gone, moved, to)
    PROVE  /\ rows' \in Seq(Row) /\ DOMAIN rows' = DOMAIN rows /\ RowsStay
           /\ \A i \in DOMAIN rows :
               /\ rows'[i].up = rows[i].up
               /\ rows'[i].gone = IF i \in gone THEN TRUE ELSE rows[i].gone
<1>1. /\ Len(rows) \in Nat /\ DOMAIN rows = 1..Len(rows)
      /\ \A i \in DOMAIN rows : rows[i] \in Row
  BY ElementOfSeq, LenProperties
<1>2. DOMAIN rows' = DOMAIN rows
  BY DEF Rewrite
<1>3. ASSUME NEW i \in DOMAIN rows
      PROVE  /\ rows'[i] \in Row
             /\ rows'[i].ev = rows[i].ev /\ rows'[i].seq = rows[i].seq
             /\ rows'[i].up = rows[i].up
             /\ rows'[i].gone = IF i \in gone THEN TRUE ELSE rows[i].gone
  <2>1. rows'[i] = IF i \in gone THEN [rows[i] EXCEPT !.gone = TRUE]
                   ELSE IF i \in moved THEN [rows[i] EXCEPT !.to = to] ELSE rows[i]
    BY DEF Rewrite
  <2>2. CASE i \in gone
    BY <1>1, <2>1, <2>2 DEF Row
  <2>3. CASE i \notin gone /\ i \in moved
    BY <1>1, <2>1, <2>3 DEF Row
  <2>4. CASE i \notin gone /\ i \notin moved
    BY <1>1, <2>1, <2>4
  <2> QED
    BY <2>2, <2>3, <2>4
<1>4. rows' \in [1..Len(rows) -> Row]
  BY <1>1, <1>3 DEF Rewrite
<1>5. rows' \in Seq(Row)
  BY <1>1, <1>4, IsASeq
<1> QED
  BY <1>2, <1>3, <1>5 DEF RowsStay

(* Rows that are made visible keep the rest. *)
LEMMA ShownRows ==
    ASSUME rows \in Seq(Row), NEW is, rows' = Shown(is)
    PROVE  /\ rows' \in Seq(Row) /\ DOMAIN rows' = DOMAIN rows /\ RowsStay
           /\ \A i \in DOMAIN rows : rows'[i].gone = rows[i].gone
<1>1. /\ Len(rows) \in Nat /\ DOMAIN rows = 1..Len(rows)
      /\ \A i \in DOMAIN rows : rows[i] \in Row
  BY ElementOfSeq, LenProperties
<1>2. DOMAIN rows' = DOMAIN rows
  BY DEF Shown
<1>3. ASSUME NEW i \in DOMAIN rows
      PROVE  /\ rows'[i] \in Row
             /\ rows'[i].ev = rows[i].ev /\ rows'[i].seq = rows[i].seq
             /\ rows'[i].gone = rows[i].gone
  <2>1. rows'[i] = IF i \in is THEN [rows[i] EXCEPT !.up = TRUE] ELSE rows[i]
    BY DEF Shown
  <2> QED
    BY <1>1, <2>1 DEF Row
<1>4. rows' \in [1..Len(rows) -> Row]
  BY <1>1, <1>3 DEF Shown
<1>5. rows' \in Seq(Row)
  BY <1>1, <1>4, IsASeq
<1> QED
  BY <1>2, <1>3, <1>5 DEF RowsStay

(* An assignment adds at most one row, of its event and position. *)
LEMMA AssignedRows ==
    ASSUME rows \in Seq(Row), NEW to \in Recipients, NEW e \in Events, NEW n \in Nat \ {0},
           rows' = Assigned(to, e, n)
    PROVE  /\ rows' \in Seq(Row) /\ RowsStay
           /\ \A i \in DOMAIN rows : rows'[i] = rows[i]
           /\ \A i \in DOMAIN rows' : i \notin DOMAIN rows => rows'[i].ev = e /\ rows'[i].seq = n
<1> DEFINE r == [to |-> to, ev |-> e, seq |-> n, up |-> FALSE, gone |-> FALSE]
<1>1. r \in Row /\ r.ev = e /\ r.seq = n
  BY DEF Row
<1> HIDE DEF r
<1>2. CASE Keyed(to, e) # {}
  <2>1. rows' = rows
    BY <1>2 DEF Assigned
  <2> QED
    BY <2>1 DEF RowsStay
<1>3. CASE Keyed(to, e) = {}
  <2>1. rows' = Append(rows, r)
    BY <1>3 DEF Assigned, r
  <2>2. /\ rows' \in Seq(Row) /\ Len(rows') = Len(rows) + 1 /\ rows'[Len(rows) + 1] = r
        /\ \A i \in 1..Len(rows) : rows'[i] = rows[i]
    BY <1>1, <2>1, AppendProperties
  <2>3. Len(rows) \in Nat /\ DOMAIN rows = 1..Len(rows) /\ DOMAIN rows' = 1..(Len(rows) + 1)
    BY <2>2, LenProperties
  <2> QED
    BY <1>1, <2>2, <2>3 DEF RowsStay
<1> QED
  BY <1>2, <1>3

(* An event in the carrier has a position, the only one when the carrier   *)
(* holds nothing twice.                                                    *)
LEMMA PositionOf ==
    ASSUME carrier \in Seq(Events), NEW e, InCarrier(e)
    PROVE  /\ Position(e) \in DOMAIN carrier /\ carrier[Position(e)] = e
           /\ Position(e) \in Nat \ {0} /\ Position(e) <= Len(carrier)
<1>1. PICK n \in DOMAIN carrier : carrier[n] = e
  BY DEF InCarrier
<1>2. Position(e) \in DOMAIN carrier /\ carrier[Position(e)] = e
  BY <1>1 DEF Position
<1>3. DOMAIN carrier = 1..Len(carrier) /\ Len(carrier) \in Nat
  BY LenProperties
<1> QED
  BY <1>2, <1>3

(* An event added at the end is one more; the others stay where they are.  *)
LEMMA CarrierGrows ==
    ASSUME carrier \in Seq(Events), NEW e \in Events, carrier' = Append(carrier, e)
    PROVE  /\ carrier' \in Seq(Events) /\ Len(carrier) \in Nat /\ Len(carrier') = Len(carrier) + 1
           /\ DOMAIN carrier = 1..Len(carrier) /\ DOMAIN carrier' = 1..(Len(carrier) + 1)
           /\ carrier'[Len(carrier) + 1] = e
           /\ \A n \in DOMAIN carrier : n \in DOMAIN carrier' /\ carrier'[n] = carrier[n]
           /\ \A f : InCarrier(f)' <=> InCarrier(f) \/ f = e
<1>1. Len(carrier) \in Nat /\ DOMAIN carrier = 1..Len(carrier)
  BY LenProperties
<1>2. /\ carrier' \in Seq(Events) /\ Len(carrier') = Len(carrier) + 1
      /\ carrier'[Len(carrier) + 1] = e
      /\ \A n \in 1..Len(carrier) : carrier'[n] = carrier[n]
  BY AppendProperties
<1>3. DOMAIN carrier' = 1..(Len(carrier) + 1)
  BY <1>2, LenProperties
<1>4. ASSUME NEW f PROVE InCarrier(f)' <=> InCarrier(f) \/ f = e
  <2>1. \A n \in DOMAIN carrier' : n \in DOMAIN carrier \/ n = Len(carrier) + 1
    BY <1>1, <1>3
  <2>2. Len(carrier) + 1 \in DOMAIN carrier' /\ DOMAIN carrier \subseteq DOMAIN carrier'
    BY <1>1, <1>3
  <2> QED
    BY <1>1, <1>2, <2>1, <2>2 DEF InCarrier
<1> QED
  BY <1>1, <1>2, <1>3, <1>4

-----------------------------------------------------------------------------
(* Types *)

(* A sender that lets go of the lock. *)
LEMMA UnlockedType ==
    ASSUME Typed
    PROVE  /\ Unlocked \in Sender /\ Unlocked.pc = "idle" /\ Unlocked.begun = poster.begun
BY IdleTypes DEF Typed, Unlocked, NoPost, Sender

(* The recipients of a post, and what an exact choice becomes. *)
LEMMA TargetTypes ==
    /\ PostTargets \subseteq Recipients
    /\ \A to \in Recipients : /\ Effective(to, Owner = None) \in Recipients
                              /\ Effective(to, to # Star) \in Recipients
<1>1. PostTargets \subseteq Recipients
  BY MailAssumption DEF PostTargets, Active, Recipients
<1>2. ASSUME NEW to \in Recipients
      PROVE  /\ Effective(to, Owner = None) \in Recipients
             /\ Effective(to, to # Star) \in Recipients
  BY DEF Effective, Recipients
<1> QED
  BY <1>1, <1>2

(* Senders keep the types. *)
LEMMA TypePosts ==
    ASSUME Typed, WorkInv,
           \/ \E e \in Posts : BeginPost(e)
           \/ \E to \in Recipients : AssignPost(to) \/ MarkPost(to)
           \/ AppendPost \/ EndPost \/ PostDies
    PROVE  Typed'
<1>1. poster \in Sender /\ rows \in Seq(Row) /\ carrier \in Seq(Events)
  BY DEF Typed
<1>2. ASSUME rows' \in Seq(Row), carrier' \in Seq(Events), poster' \in Sender,
             UNCHANGED <<outbox, proj, readers, blind, faults>>
      PROVE  Typed'
  BY <1>2 DEF Typed, readers
<1>3. ASSUME NEW e \in Posts, BeginPost(e) PROVE Typed'
  BY <1>1, <1>2, <1>3, TargetTypes DEF BeginPost, Sender
<1>4. ASSUME NEW to \in Recipients, AssignPost(to) PROVE Typed'
  <2> DEFINE eff == Effective(to, Owner = None)
  <2>1. eff \in Recipients /\ poster.ev \in Events /\ Len(carrier) + 1 \in Nat \ {0}
    <3>1. eff \in Recipients
      BY TargetTypes
    <3>2. poster.ev \in Events
      BY <1>1, <1>4 DEF AssignPost, WorkInv, Sender, Events
    <3>3. Len(carrier) \in Nat
      BY <1>1, LenProperties
    <3> QED
      BY <3>1, <3>2, <3>3
  <2> HIDE DEF eff
  <2>2. CASE poster' = Unlocked /\ UNCHANGED rows
    BY <1>1, <1>2, <1>4, <2>2, UnlockedType DEF AssignPost
  <2>3. CASE /\ rows' = Assigned(eff, poster.ev, Len(carrier) + 1)
             /\ poster' = [poster EXCEPT !.todo = @ \ {to}, !.done = @ \cup {eff}]
    <3>1. rows' \in Seq(Row)
      BY <1>1, <2>1, <2>3, AssignedRows
    <3>2. poster' \in Sender
      BY <1>1, <2>1, <2>3 DEF Sender
    <3> QED
      BY <1>1, <1>2, <1>4, <3>1, <3>2 DEF AssignPost
  <2> QED
    BY <1>4, <2>2, <2>3 DEF AssignPost, eff
<1>5. ASSUME NEW to \in Recipients, MarkPost(to) PROVE Typed'
  <2>1. rows' \in Seq(Row)
    BY <1>1, <1>5, ShownRows DEF MarkPost
  <2>2. poster' \in Sender
    BY <1>1, <1>5 DEF MarkPost, Sender
  <2> QED
    BY <1>1, <1>2, <1>5, <2>1, <2>2 DEF MarkPost
<1>6. ASSUME AppendPost PROVE Typed'
  <2>1. carrier' \in Seq(Events)
    <3>1. poster.ev \in Events
      BY <1>1, <1>6 DEF AppendPost, WorkInv, Sender, Events
    <3> QED
      BY <1>1, <1>6, <3>1, CarrierGrows DEF AppendPost
  <2>2. poster' \in Sender
    BY <1>1, <1>6 DEF AppendPost, Sender
  <2> QED
    BY <1>1, <1>2, <1>6, <2>1, <2>2 DEF AppendPost
<1>7. ASSUME EndPost \/ PostDies PROVE Typed'
  BY <1>1, <1>2, <1>7, UnlockedType DEF EndPost, PostDies
<1> QED
  BY <1>3, <1>4, <1>5, <1>6, <1>7

(* Projectors and the outbox keep the types. *)
LEMMA TypeProject ==
    ASSUME Typed, WorkInv, CarriedInv, NEW p \in Projectors,
           Project(p) \/ StepRefused(p) \/ ProjectorDies(p)
    PROVE  Typed'
<1>1. /\ rows \in Seq(Row) /\ carrier \in Seq(Events) /\ outbox \in [Terminals -> OutboxRow]
      /\ proj[p] \in Run /\ blind \subseteq Terminals /\ faults \in 0..MaxFaults
  BY DEF Typed
<1>2. ASSUME outbox' \in [Terminals -> OutboxRow], rows' \in Seq(Row), carrier' \in Seq(Events),
             NEW r \in Run, proj' = [proj EXCEPT ![p] = r],
             blind' \subseteq Terminals, faults' \in 0..MaxFaults, UNCHANGED <<poster, readers>>
      PROVE  Typed'
  BY <1>2 DEF Typed, readers
<1>3. proj[p].todo \in SUBSET Recipients /\ proj[p].done \in SUBSET Recipients
      /\ proj[p].tries \in 0..(MaxTries - 1)
  BY <1>1 DEF Run
<1>a. \A pc \in {"idle", "append", "targets", "assign", "mark", "confirm", "failed"} :
          [proj[p] EXCEPT !.pc = pc] \in Run
  BY <1>1 DEF Run
<1>4. ASSUME NEW e \in Terminals, Pick(p, e) PROVE Typed'
  <2>1. outbox[e].tries \in 0..(MaxTries - 1)
    BY <1>1, <1>4, MailAssumption DEF Pick, WorkInv, OutboxRow
  <2>2. [NoRun EXCEPT !.pc = "append", !.ev = e, !.tries = outbox[e].tries] \in Run
    BY <2>1, IdleTypes DEF Run
  <2> QED
    BY <1>1, <1>2, <1>4, <2>2 DEF Pick
<1>5. CASE AppendEvent(p)
  <2>1. carrier' \in Seq(Events)
    <3>1. proj[p].ev \in Events
      BY <1>5 DEF AppendEvent, WorkInv, Events
    <3> QED
      BY <1>1, <1>5, <3>1, CarrierGrows DEF AppendEvent
  <2>2. proj' = [proj EXCEPT ![p] = [proj[p] EXCEPT !.pc = "targets"]]
    BY <1>5 DEF AppendEvent
  <2>3. UNCHANGED <<outbox, rows, poster, readers, blind, faults>>
    BY <1>5 DEF AppendEvent
  <2>4. [proj[p] EXCEPT !.pc = "targets"] \in Run
    BY <1>a
  <2> QED
    BY <1>1, <1>2, <2>1, <2>2, <2>3, <2>4
<1>6. CASE ChooseTargets(p)
  <2> DEFINE todo == IF Owner \in Active THEN {Owner}
                     ELSE IF Active # {} THEN Active ELSE {Star}
  <2>1. todo \in SUBSET Recipients
    BY MailAssumption DEF Active, Recipients
  <2>2. proj' = [proj EXCEPT ![p] = [proj[p] EXCEPT !.pc = "assign", !.todo = todo]]
    BY <1>6 DEF ChooseTargets
  <2>3. UNCHANGED <<outbox, carrier, rows, poster, readers, blind, faults>>
    BY <1>6 DEF ChooseTargets
  <2> HIDE DEF todo
  <2>4. [proj[p] EXCEPT !.pc = "assign", !.todo = todo] \in Run
    BY <1>1, <2>1 DEF Run
  <2> QED
    BY <1>1, <1>2, <2>2, <2>3, <2>4
<1>7. ASSUME NEW to \in Recipients, AssignEvent(p, to) PROVE Typed'
  <2> DEFINE e == proj[p].ev
             eff == Effective(to, to # Star)
  <2>1. e \in Events /\ InCarrier(e)
    BY <1>7 DEF AssignEvent, WorkInv, CarriedInv, Events
  <2>2. Position(e) \in Nat \ {0} /\ eff \in Recipients
    BY <1>1, <2>1, PositionOf, TargetTypes
  <2>3. \/ /\ rows' = Assigned(eff, e, Position(e))
           /\ proj' = [proj EXCEPT ![p] = [proj[p] EXCEPT !.pc = "mark",
                                             !.todo = proj[p].todo \ {to}, !.at = eff]]
        \/ proj' = [proj EXCEPT ![p] = [proj[p] EXCEPT !.pc = "failed"]] /\ UNCHANGED rows
    BY <1>7 DEF AssignEvent
  <2>4. /\ UNCHANGED <<outbox, carrier, poster, readers, blind, faults>>
    BY <1>7 DEF AssignEvent
  <2> HIDE DEF e, eff
  <2>5. CASE UNCHANGED rows /\ proj' = [proj EXCEPT ![p] = [proj[p] EXCEPT !.pc = "failed"]]
    <3>1. [proj[p] EXCEPT !.pc = "failed"] \in Run
      BY <1>a
    <3> QED
      BY <1>1, <1>2, <2>4, <2>5, <3>1
  <2>6. CASE /\ rows' = Assigned(eff, e, Position(e))
             /\ proj' = [proj EXCEPT ![p] = [proj[p] EXCEPT !.pc = "mark",
                                             !.todo = proj[p].todo \ {to}, !.at = eff]]
    <3>1. rows' \in Seq(Row)
      BY <1>1, <2>1, <2>2, <2>6, AssignedRows
    <3>2. proj[p].todo \ {to} \in SUBSET Recipients
      BY <1>3
    <3>3. [proj[p] EXCEPT !.pc = "mark", !.todo = proj[p].todo \ {to}, !.at = eff] \in Run
      BY <1>1, <2>2, <3>2 DEF Run
    <3> QED
      BY <1>1, <1>2, <2>4, <2>6, <3>1, <3>3
  <2> QED
    BY <2>3, <2>5, <2>6
<1>8. CASE MarkEvent(p)
  <2> DEFINE is == Followed(proj[p].at, proj[p].ev)
             tos == {rows[i].to : i \in is}
  <2>1. tos \in SUBSET Recipients
    <3>1. is \subseteq DOMAIN rows
      BY DEF Followed, Keyed
    <3>2. ASSUME NEW i \in DOMAIN rows PROVE rows[i].to \in Recipients
      <4>1. rows[i] \in Row
        BY <1>1, LenProperties, ElementOfSeq
      <4> QED
        BY <4>1 DEF Row
    <3> HIDE DEF is
    <3> QED
      BY <3>1, <3>2
  <2>2. \/ /\ rows' = Shown(is)
           /\ proj' = [proj EXCEPT ![p] = [proj[p] EXCEPT !.pc = "assign",
                                             !.done = proj[p].done \cup tos]]
        \/ proj' = [proj EXCEPT ![p] = [proj[p] EXCEPT !.pc = "failed"]] /\ UNCHANGED rows
    BY <1>8 DEF MarkEvent
  <2>3. UNCHANGED <<outbox, carrier, poster, readers, blind, faults>>
    BY <1>8 DEF MarkEvent
  <2> HIDE DEF is, tos
  <2>4. rows' \in Seq(Row)
    BY <1>1, <2>2, ShownRows
  <2>5. proj[p].done \cup tos \in SUBSET Recipients
    BY <1>3, <2>1
  <2>6. /\ [proj[p] EXCEPT !.pc = "assign", !.done = proj[p].done \cup tos] \in Run
        /\ [proj[p] EXCEPT !.pc = "failed"] \in Run
    BY <1>1, <2>5 DEF Run
  <2> QED
    BY <1>1, <1>2, <2>2, <2>3, <2>4, <2>6
<1>9. CASE ReconcileRecipients(p)
  <2>1. rows' \in Seq(Row)
    BY <1>1, <1>9, RewriteRows DEF ReconcileRecipients, Recipients
  <2>2. blind' \subseteq Terminals
    BY <1>1, <1>9 DEF ReconcileRecipients, WorkInv
  <2>3. /\ proj' = [proj EXCEPT ![p] = [proj[p] EXCEPT !.pc = "confirm"]]
        /\ UNCHANGED <<outbox, carrier, poster, readers, faults>>
    BY <1>9 DEF ReconcileRecipients
  <2>4. [proj[p] EXCEPT !.pc = "confirm"] \in Run
    BY <1>a
  <2> QED
    BY <1>1, <1>2, <2>1, <2>2, <2>3, <2>4
<1>10. CASE ConfirmProjected(p)
  <2>1. [st |-> "projected", tries |-> proj[p].tries + 1] \in OutboxRow
    BY <1>3, MailAssumption DEF OutboxRow
  <2>2. outbox' \in [Terminals -> OutboxRow]
    BY <1>1, <1>10, <2>1 DEF ConfirmProjected
  <2> QED
    BY <1>1, <1>2, <1>10, <2>2, IdleTypes DEF ConfirmProjected
<1>11. CASE RecordFailure(p)
  <2> DEFINE n == proj[p].tries + 1
  <2>1. [st |-> IF n >= MaxTries THEN "quarantined" ELSE "pending", tries |-> n] \in OutboxRow
    BY <1>3, MailAssumption DEF OutboxRow
  <2>2. outbox' \in [Terminals -> OutboxRow]
    BY <1>1, <1>11, <2>1 DEF RecordFailure
  <2> QED
    BY <1>1, <1>2, <1>11, <2>2, IdleTypes DEF RecordFailure
<1>12. CASE StepRefused(p)
  <2>1. faults' \in 0..MaxFaults
    BY <1>1, <1>12, MailAssumption DEF StepRefused
  <2>2. proj' = [proj EXCEPT ![p] = [proj[p] EXCEPT !.pc = "failed"]]
    BY <1>12 DEF StepRefused
  <2>3. UNCHANGED <<outbox, carrier, rows, poster, readers, blind>>
    BY <1>12 DEF StepRefused
  <2>4. [proj[p] EXCEPT !.pc = "failed"] \in Run
    BY <1>a
  <2> QED
    BY <1>1, <1>2, <2>1, <2>2, <2>3, <2>4
<1>13. CASE ProjectorDies(p)
  <2>1. faults' \in 0..MaxFaults
    BY <1>1, <1>13, MailAssumption DEF ProjectorDies
  <2> QED
    BY <1>1, <1>2, <1>13, <2>1, IdleTypes DEF ProjectorDies
<1> QED
  BY <1>4, <1>5, <1>6, <1>7, <1>8, <1>9, <1>10, <1>11, <1>12, <1>13 DEF Project, Recipients

(* The commit of an event keeps the types. *)
LEMMA TypeCommit ==
    ASSUME Typed, NEW e \in Terminals, CommitTerminal(e)
    PROVE  Typed'
<1>1. outbox' \in [Terminals -> OutboxRow]
  BY DEF Typed, CommitTerminal, OutboxRow
<1> QED
  BY <1>1 DEF Typed, CommitTerminal, readers

(* The position a peek ends at. *)
LEMMA PeekType ==
    ASSUME Typed, RowsInv, NEW l \in Labels, Pending(l) # {}
    PROVE  (CHOOSE m \in {rows[i].seq : i \in Pending(l)} : \A i \in Pending(l) : rows[i].seq <= m) \in Nat
<1> DEFINE seen == Pending(l)
           seqs == {rows[i].seq : i \in seen}
<1>1. rows \in Seq(Row) /\ Len(carrier) + 1 \in Nat
  BY LenProperties DEF Typed
<1>2. seen \subseteq DOMAIN rows /\ seen # {}
  BY DEF Pending, Live
<1>3. ASSUME NEW i \in DOMAIN rows PROVE rows[i].seq \in Nat /\ rows[i].seq <= Len(carrier) + 1
  <2>1. rows[i] \in Row
    BY <1>1, LenProperties, ElementOfSeq
  <2> QED
    BY <2>1 DEF Row, RowsInv
<1> HIDE DEF seen
<1>4. seqs \in SUBSET Nat /\ seqs # {} /\ \A s \in seqs : s <= Len(carrier) + 1
  BY <1>2, <1>3
<1> HIDE DEF seqs
<1>5. \E m \in seqs : \A s \in seqs : s <= m
  BY <1>1, <1>4, Largest
<1>6. \E m \in seqs : \A i \in seen : rows[i].seq <= m
  BY <1>5 DEF seqs
<1>7. (CHOOSE m \in seqs : \A i \in seen : rows[i].seq <= m) \in seqs
  BY <1>6
<1> QED
  BY <1>4, <1>7 DEF seen, seqs

(* Controllers keep the types. *)
LEMMA TypeReaders ==
    ASSUME Typed, RowsInv, SnapInv, NEW l \in Labels,
           Claim(l) \/ Expire(l) \/ Retire(l) \/ Drain(l)
    PROVE  Typed'
<1>1. /\ rows \in Seq(Row) /\ lease \in [Labels -> Lease] /\ cursor \in [Labels -> Nat]
      /\ relay \in [Labels -> Relay] /\ relay[l] \in Relay /\ lease[l] \in Lease
      /\ shown \subseteq Labels \X Events /\ read \subseteq Events
  BY DEF Typed
<1>2. ASSUME rows' \in Seq(Row), lease' \in [Labels -> Lease], cursor' \in [Labels -> Nat],
             relay' \in [Labels -> Relay], shown' \subseteq Labels \X Events, read' \subseteq Events,
             UNCHANGED <<senders, faults>>
      PROVE  Typed'
  BY <1>2 DEF Typed, senders
<1>3. ASSUME NEW i \in DOMAIN rows PROVE rows[i] \in Row /\ rows[i].ev \in Events /\ i \in Nat
  <2>1. rows[i] \in Row /\ i \in Nat
    BY <1>1, LenProperties, ElementOfSeq
  <2> QED
    BY <2>1 DEF Row
<1>4. CASE Claim(l)
  <2>1. lease' \in [Labels -> Lease]
    BY <1>1, <1>4, MailAssumption DEF Claim, Lease
  <2> QED
    BY <1>1, <1>2, <1>4, <2>1 DEF Claim
<1>5. CASE Expire(l)
  <2>1. lease' \in [Labels -> Lease]
    BY <1>1, <1>5 DEF Expire, Lease
  <2> QED
    BY <1>1, <1>2, <1>5, <2>1 DEF Expire
<1>6. CASE Retire(l)
  <2>1. lease' \in [Labels -> Lease]
    BY <1>1, <1>6 DEF Retire, Lease
  <2>2. rows' \in Seq(Row)
    BY <1>1, <1>6, RewriteRows DEF Retire, Recipients
  <2> QED
    BY <1>1, <1>2, <1>6, <2>1, <2>2 DEF Retire
<1>7. CASE Peek(l)
  <2> DEFINE n == CHOOSE m \in {rows[i].seq : i \in Pending(l)} : \A i \in Pending(l) : rows[i].seq <= m
  <2>1. n \in Nat
    BY <1>7, PeekType DEF Peek
  <2>0. PICK pc \in {"shown", "peeked"} :
            /\ relay' = [relay EXCEPT ![l] = [pc |-> pc, gen |-> lease[l].gen, pos |-> n,
                                             snap |-> Snapshot(l, n)]]
            /\ shown' = IF pc = "shown" THEN shown \cup {<<l, rows[i].ev>> : i \in Pending(l)}
                        ELSE shown
    BY <1>7 DEF Peek
  <2> DEFINE r == [pc |-> pc, gen |-> lease[l].gen, pos |-> n, snap |-> Snapshot(l, n)]
  <2>2. relay' = [relay EXCEPT ![l] = r]
    BY <2>0
  <2>3. UNCHANGED <<senders, rows, lease, cursor, read, faults>>
    BY <1>7 DEF Peek
  <2> HIDE DEF n
  <2>4. Snapshot(l, n) \in SUBSET (Nat \X BOOLEAN)
    <3>1. Between(l, n) \subseteq DOMAIN rows
      BY DEF Between, Live
    <3>2. ASSUME NEW i \in DOMAIN rows PROVE <<i, rows[i].up>> \in Nat \X BOOLEAN
      BY <1>3 DEF Row
    <3> QED
      BY <3>1, <3>2 DEF Snapshot
  <2>5. r \in Relay
    BY <1>1, <2>1, <2>4 DEF Relay, Lease
  <2> HIDE DEF r
  <2>6. relay' \in [Labels -> Relay]
    BY <1>1, <2>2, <2>5
  <2>7. shown' \subseteq Labels \X Events
    <3>1. Pending(l) \subseteq DOMAIN rows
      BY DEF Pending, Live
    <3> QED
      BY <1>1, <1>3, <2>0, <3>1
  <2> QED
    BY <1>1, <1>2, <2>3, <2>6, <2>7
<1>8. CASE Advance(l)
  <2> DEFINE n == relay[l].pos
             range == {i \in Between(l, n) : rows[i].up}
  <2>1. rows' \in Seq(Row)
    BY <1>1, <1>8, RewriteRows DEF Advance, Consume, Recipients
  <2>2. n \in Nat
    BY <1>1 DEF Relay
  <2>3. cursor' \in [Labels -> Nat]
    BY <1>1, <1>8, <2>2 DEF Advance, Consume
  <2>4. read' \subseteq Events
    <3>1. range \subseteq DOMAIN rows
      BY DEF Between, Live
    <3>2. read' = read \cup {rows[i].ev : i \in range}
      BY <1>8 DEF Advance, Consume
    <3> HIDE DEF range
    <3> QED
      BY <1>1, <1>3, <3>1, <3>2
  <2>5. relay' \in [Labels -> Relay]
    <3>1. [NoRelay EXCEPT !.pc = "passed", !.snap = relay[l].snap] \in Relay
      BY <1>1, IdleTypes DEF Relay
    <3> QED
      BY <1>1, <1>8, <3>1, IdleTypes DEF Advance
  <2>6. UNCHANGED <<senders, lease, shown, faults>>
    BY <1>8 DEF Advance
  <2> QED
    BY <1>1, <1>2, <2>1, <2>3, <2>4, <2>5, <2>6, SMTT(40)
<1>9. CASE Abandon(l)
  <2>1. relay' \in [Labels -> Relay]
    BY <1>1, <1>9, IdleTypes DEF Abandon
  <2> QED
    BY <1>1, <1>2, <1>9, <2>1 DEF Abandon
<1>10. CASE PrintDrained(l)
  <2>1. relay' \in [Labels -> Relay]
    BY <1>1, <1>10, IdleTypes DEF PrintDrained
  <2>2. shown' \subseteq Labels \X Events
    <3>1. \A x \in relay[l].snap : rows[x[1]].ev \in Events
      BY <1>3 DEF SnapInv
    <3> QED
      BY <1>1, <1>10, <3>1 DEF PrintDrained
  <2> QED
    BY <1>1, <1>2, <1>10, <2>1, <2>2 DEF PrintDrained
<1> QED
  BY <1>4, <1>5, <1>6, <1>7, <1>8, <1>9, <1>10 DEF Drain

-----------------------------------------------------------------------------
(* Positions *)

(* Nothing is appended, begun or assigned. *)
LEMMA PlaceQuiet ==
    ASSUME CarrierInv, RowsInv, carrier' = carrier, RowsStay, DOMAIN rows' = DOMAIN rows,
           poster'.begun = poster.begun, poster' = poster \/ poster'.pc # "assign"
    PROVE  CarrierInv' /\ RowsInv'
<1>1. \A e : InCarrier(e)' <=> InCarrier(e)
  BY DEF InCarrier
<1>2. CarrierInv'
  <2>1. CASE poster' = poster
    BY <2>1, <1>1 DEF CarrierInv
  <2>2. CASE poster'.pc # "assign"
    BY <2>2 DEF CarrierInv
  <2> QED
    BY <2>1, <2>2
<1>3. ASSUME NEW i \in DOMAIN rows'
      PROVE  /\ rows'[i].seq <= Len(carrier) + 1
             /\ InCarrier(rows'[i].ev) =>
                    rows'[i].seq \in DOMAIN carrier /\ carrier[rows'[i].seq] = rows'[i].ev
             /\ ~InCarrier(rows'[i].ev) => rows'[i].ev \in poster.begun
             /\ poster'.pc = "assign" /\ rows'[i].ev = poster'.ev => rows'[i].seq = Len(carrier) + 1
  <2>1. /\ i \in DOMAIN rows /\ rows'[i].ev = rows[i].ev /\ rows'[i].seq = rows[i].seq
    BY DEF RowsStay
  <2>2. /\ rows[i].seq <= Len(carrier) + 1
        /\ InCarrier(rows[i].ev) => rows[i].seq \in DOMAIN carrier /\ carrier[rows[i].seq] = rows[i].ev
        /\ ~InCarrier(rows[i].ev) => rows[i].ev \in poster.begun
        /\ poster.pc = "assign" /\ rows[i].ev = poster.ev => rows[i].seq = Len(carrier) + 1
    BY <2>1 DEF RowsInv
  <2> QED
    BY <2>1, <2>2
<1>4. RowsInv'
  BY <1>1, <1>3 DEF RowsInv
<1> QED
  BY <1>2, <1>4

(* An event that is not in the carrier, and whose rows point behind its    *)
(* end, is appended.                                                       *)
LEMMA PlaceAppend ==
    ASSUME Typed, CarrierInv, RowsInv, NEW e \in Events, ~InCarrier(e),
           carrier' = Append(carrier, e), rows' = rows, poster'.begun = poster.begun,
           poster'.pc # "assign", e \in Posts => e \in poster.begun,
           \A i \in DOMAIN rows : rows[i].ev = e => rows[i].seq = Len(carrier) + 1
    PROVE  CarrierInv' /\ RowsInv'
<1>1. /\ Len(carrier) \in Nat /\ Len(carrier') = Len(carrier) + 1
      /\ DOMAIN carrier = 1..Len(carrier) /\ DOMAIN carrier' = 1..(Len(carrier) + 1)
      /\ carrier'[Len(carrier) + 1] = e
      /\ \A n \in DOMAIN carrier : n \in DOMAIN carrier' /\ carrier'[n] = carrier[n]
      /\ \A f : InCarrier(f)' <=> InCarrier(f) \/ f = e
  BY CarrierGrows DEF Typed
<1>2. CarrierInv'
  <2>1. \A n \in DOMAIN carrier : carrier[n] # e
    BY DEF InCarrier
  <2>2. \A n \in DOMAIN carrier' : n \in DOMAIN carrier \/ n = Len(carrier) + 1
    BY <1>1
  <2>3. \A m, n \in DOMAIN carrier' : carrier'[m] = carrier'[n] => m = n
    BY <1>1, <2>1, <2>2 DEF CarrierInv
  <2>4. \A n \in DOMAIN carrier' : carrier'[n] \in Posts => carrier'[n] \in poster'.begun
    BY <1>1, <2>2 DEF CarrierInv
  <2> QED
    BY <2>3, <2>4 DEF CarrierInv
<1>3. ASSUME NEW i \in DOMAIN rows
      PROVE  /\ rows[i].seq <= Len(carrier') + 1
             /\ InCarrier(rows[i].ev)' =>
                    rows[i].seq \in DOMAIN carrier' /\ carrier'[rows[i].seq] = rows[i].ev
             /\ ~InCarrier(rows[i].ev)' => rows[i].ev \in poster'.begun
  <2>1. rows[i].seq \in Nat
    <3>1. rows[i] \in Row
      BY LenProperties, ElementOfSeq DEF Typed
    <3> QED
      BY <3>1 DEF Row
  <2>2. /\ rows[i].seq <= Len(carrier) + 1
        /\ InCarrier(rows[i].ev) => rows[i].seq \in DOMAIN carrier /\ carrier[rows[i].seq] = rows[i].ev
        /\ ~InCarrier(rows[i].ev) => rows[i].ev \in poster.begun
    BY DEF RowsInv
  <2>3. CASE rows[i].ev = e
    BY <1>1, <2>1, <2>2, <2>3
  <2>4. CASE rows[i].ev # e
    BY <1>1, <2>1, <2>2, <2>4
  <2> QED
    BY <2>3, <2>4
<1>4. RowsInv'
  BY <1>3 DEF RowsInv
<1> QED
  BY <1>2, <1>4

(* New rows are of an event in the carrier, or of the post in hand. *)
LEMMA PlaceAssign ==
    ASSUME Typed, CarrierInv, RowsInv, NEW e \in Events, NEW n \in Nat, carrier' = carrier, RowsStay,
           \A i \in DOMAIN rows' : i \notin DOMAIN rows => rows'[i].ev = e /\ rows'[i].seq = n,
           poster'.pc = poster.pc, poster'.ev = poster.ev, poster'.begun = poster.begun,
           \/ InCarrier(e) /\ n = Position(e)
           \/ poster.pc = "assign" /\ e = poster.ev /\ e \in poster.begun /\ n = Len(carrier) + 1
    PROVE  CarrierInv' /\ RowsInv'
<1>1. \A f : InCarrier(f)' <=> InCarrier(f)
  BY DEF InCarrier
<1>2. CarrierInv'
  BY <1>1 DEF CarrierInv
<1>3. carrier \in Seq(Events) /\ Len(carrier) \in Nat
  BY LenProperties DEF Typed
<1>4. /\ n <= Len(carrier) + 1
      /\ InCarrier(e) => n \in DOMAIN carrier /\ carrier[n] = e
      /\ ~InCarrier(e) => e \in poster.begun
      /\ poster.pc = "assign" /\ e = poster.ev => n = Len(carrier) + 1
  <2>1. CASE InCarrier(e) /\ n = Position(e)
    BY <1>3, <2>1, PositionOf DEF CarrierInv
  <2>2. CASE poster.pc = "assign" /\ e = poster.ev /\ e \in poster.begun /\ n = Len(carrier) + 1
    BY <1>3, <2>2 DEF CarrierInv
  <2> QED
    BY <2>1, <2>2
<1>5. ASSUME NEW i \in DOMAIN rows'
      PROVE  /\ rows'[i].seq <= Len(carrier) + 1
             /\ InCarrier(rows'[i].ev) =>
                    rows'[i].seq \in DOMAIN carrier /\ carrier[rows'[i].seq] = rows'[i].ev
             /\ ~InCarrier(rows'[i].ev) => rows'[i].ev \in poster.begun
             /\ poster.pc = "assign" /\ rows'[i].ev = poster.ev => rows'[i].seq = Len(carrier) + 1
  <2>1. CASE i \in DOMAIN rows
    <3>1. rows'[i].ev = rows[i].ev /\ rows'[i].seq = rows[i].seq
      BY <2>1 DEF RowsStay
    <3>2. /\ rows[i].seq <= Len(carrier) + 1
          /\ InCarrier(rows[i].ev) => rows[i].seq \in DOMAIN carrier /\ carrier[rows[i].seq] = rows[i].ev
          /\ ~InCarrier(rows[i].ev) => rows[i].ev \in poster.begun
          /\ poster.pc = "assign" /\ rows[i].ev = poster.ev => rows[i].seq = Len(carrier) + 1
      BY <2>1 DEF RowsInv
    <3> QED
      BY <3>1, <3>2
  <2>2. CASE i \notin DOMAIN rows
    <3>1. rows'[i].ev = e /\ rows'[i].seq = n
      BY <2>2
    <3> QED
      BY <3>1, <1>4
  <2> QED
    BY <2>1, <2>2
<1>6. RowsInv'
  BY <1>1, <1>5 DEF RowsInv
<1> QED
  BY <1>2, <1>6

(* Sender steps keep the positions, and the carrier only grows. *)
LEMMA PlacePosts ==
    ASSUME Typed, WorkInv, CarrierInv, RowsInv,
           \/ \E e \in Posts : BeginPost(e)
           \/ \E to \in Recipients : AssignPost(to) \/ MarkPost(to)
           \/ AppendPost \/ EndPost \/ PostDies
    PROVE  /\ WorkInv' /\ CarrierInv' /\ RowsInv' /\ RowsStay
           /\ \A n \in DOMAIN carrier : n \in DOMAIN carrier' /\ carrier'[n] = carrier[n]
           /\ \A i \in Live : i \in Live'
<1>1. rows \in Seq(Row) /\ carrier \in Seq(Events) /\ poster \in Sender /\ Len(carrier) \in Nat
  BY LenProperties DEF Typed
<1>2. ASSUME NEW e \in Posts, BeginPost(e)
      PROVE  /\ WorkInv' /\ CarrierInv' /\ RowsInv' /\ UNCHANGED <<rows, carrier>>
  <2>1. /\ poster.pc = "idle" /\ e \notin poster.begun
        /\ poster'.pc = "assign" /\ poster'.ev = e /\ poster'.begun = poster.begun \cup {e}
        /\ UNCHANGED <<outbox, carrier, rows, proj>>
    BY <1>2 DEF BeginPost
  <2>2. \A f : InCarrier(f)' <=> InCarrier(f)
    BY <2>1 DEF InCarrier
  <2>3. ~InCarrier(e)
    BY <2>1 DEF CarrierInv, InCarrier
  <2>4. CarrierInv'
    BY <2>1, <2>2, <2>3 DEF CarrierInv
  <2>5. RowsInv'
    BY <2>1, <2>2, <2>3 DEF RowsInv
  <2>6. WorkInv'
    BY <2>1 DEF WorkInv
  <2> QED
    BY <2>1, <2>4, <2>5, <2>6
<1>3. ASSUME NEW to \in Recipients, AssignPost(to)
      PROVE  /\ WorkInv' /\ CarrierInv' /\ RowsInv' /\ RowsStay /\ UNCHANGED carrier
             /\ \A i \in Live : i \in Live'
  <2> DEFINE eff == Effective(to, Owner = None)
             e == poster.ev
             n == Len(carrier) + 1
  <2>1. /\ poster.pc = "assign" /\ UNCHANGED <<outbox, carrier, proj>>
        /\ \/ /\ rows' = Assigned(eff, e, n)
              /\ poster' = [poster EXCEPT !.todo = @ \ {to}, !.done = @ \cup {eff}]
           \/ poster' = Unlocked /\ UNCHANGED rows
    BY <1>3 DEF AssignPost
  <2>2. eff \in Recipients
    BY TargetTypes
  <2>3. e \in Events /\ e \in poster.begun /\ n \in Nat \ {0}
    BY <1>1, <2>1 DEF WorkInv, Sender, Events
  <2> HIDE DEF eff
  <2>4. CASE poster' = Unlocked /\ UNCHANGED rows
    <3>1. poster'.pc = "idle" /\ poster'.begun = poster.begun
      BY <2>4, UnlockedType
    <3>2. RowsStay /\ DOMAIN rows' = DOMAIN rows
      BY <2>4 DEF RowsStay
    <3>3. CarrierInv' /\ RowsInv'
      BY <2>1, <3>1, <3>2, PlaceQuiet
    <3>4. WorkInv'
      BY <2>1, <3>1 DEF WorkInv
    <3> QED
      BY <2>1, <2>4, <3>2, <3>3, <3>4 DEF Live
  <2>5. CASE /\ rows' = Assigned(eff, e, n)
             /\ poster' = [poster EXCEPT !.todo = @ \ {to}, !.done = @ \cup {eff}]
    <3>1. poster'.pc = poster.pc /\ poster'.ev = poster.ev /\ poster'.begun = poster.begun
      BY <1>1, <2>5 DEF Sender
    <3>2. /\ RowsStay /\ \A i \in DOMAIN rows : rows'[i] = rows[i]
          /\ \A i \in DOMAIN rows' : i \notin DOMAIN rows => rows'[i].ev = e /\ rows'[i].seq = n
      BY <1>1, <2>2, <2>3, <2>5, AssignedRows
    <3>3. CarrierInv' /\ RowsInv'
      <4> HIDE DEF e, n
      <4>1. n \in Nat /\ poster.pc = "assign" /\ e = poster.ev /\ n = Len(carrier) + 1
        BY <1>1, <2>1 DEF e, n
      <4> QED
        BY <2>1, <2>3, <3>1, <3>2, <4>1, PlaceAssign
    <3>4. WorkInv'
      BY <2>1, <3>1 DEF WorkInv
    <3> QED
      BY <2>1, <3>2, <3>3, <3>4 DEF Live, RowsStay
  <2> QED
    BY <2>1, <2>4, <2>5
<1>4. ASSUME NEW to \in Recipients, MarkPost(to)
      PROVE  /\ WorkInv' /\ CarrierInv' /\ RowsInv' /\ RowsStay /\ UNCHANGED carrier
             /\ \A i \in Live : i \in Live'
  <2>1. /\ rows' = Shown(Followed(to, poster.ev)) /\ poster.pc = "mark"
        /\ poster' = [poster EXCEPT !.done = @ \ {to}] /\ UNCHANGED <<outbox, carrier, proj>>
    BY <1>4 DEF MarkPost
  <2>2. /\ RowsStay /\ DOMAIN rows' = DOMAIN rows
        /\ \A i \in DOMAIN rows : rows'[i].gone = rows[i].gone
    BY <1>1, <2>1, ShownRows
  <2>3. poster'.pc = "mark" /\ poster'.ev = poster.ev /\ poster'.begun = poster.begun
    BY <1>1, <2>1 DEF Sender
  <2>4. CarrierInv' /\ RowsInv'
    BY <2>1, <2>2, <2>3, PlaceQuiet
  <2>5. WorkInv'
    BY <2>1, <2>3 DEF WorkInv
  <2> QED
    BY <2>1, <2>2, <2>4, <2>5 DEF Live
<1>5. ASSUME AppendPost
      PROVE  /\ WorkInv' /\ CarrierInv' /\ RowsInv' /\ UNCHANGED rows
             /\ \A n \in DOMAIN carrier : n \in DOMAIN carrier' /\ carrier'[n] = carrier[n]
  <2>1. /\ poster.pc = "assign" /\ carrier' = Append(carrier, poster.ev)
        /\ poster'.pc = "mark" /\ poster'.ev = poster.ev /\ poster'.begun = poster.begun
        /\ UNCHANGED <<outbox, rows, proj>>
    BY <1>1, <1>5 DEF AppendPost, Sender
  <2>2. poster.ev \in Events /\ poster.ev \in poster.begun /\ ~InCarrier(poster.ev)
    BY <1>1, <2>1 DEF WorkInv, CarrierInv, Sender, Events
  <2>3. \A i \in DOMAIN rows : rows[i].ev = poster.ev => rows[i].seq = Len(carrier) + 1
    BY <2>1 DEF RowsInv
  <2>4. CarrierInv' /\ RowsInv'
    BY <2>1, <2>2, <2>3, PlaceAppend
  <2>5. \A n \in DOMAIN carrier : n \in DOMAIN carrier' /\ carrier'[n] = carrier[n]
    BY <1>1, <2>1, <2>2, CarrierGrows
  <2>6. WorkInv'
    BY <2>1 DEF WorkInv
  <2> QED
    BY <2>1, <2>4, <2>5, <2>6
<1>6. ASSUME EndPost \/ PostDies
      PROVE  /\ WorkInv' /\ CarrierInv' /\ RowsInv' /\ UNCHANGED <<rows, carrier>>
  <2>1. poster' = Unlocked /\ UNCHANGED <<outbox, rows, carrier, proj>>
    BY <1>6 DEF EndPost, PostDies
  <2>2. poster'.pc = "idle" /\ poster'.begun = poster.begun
    BY <2>1, UnlockedType
  <2>3. RowsStay /\ DOMAIN rows' = DOMAIN rows
    BY <2>1 DEF RowsStay
  <2>4. CarrierInv' /\ RowsInv'
    BY <2>1, <2>2, <2>3, PlaceQuiet
  <2>5. WorkInv'
    BY <2>1, <2>2 DEF WorkInv
  <2> QED
    BY <2>1, <2>4, <2>5
<1>7. UNCHANGED rows => RowsStay /\ \A i \in Live : i \in Live'
  BY DEF RowsStay, Live
<1> QED
  BY <1>2, <1>3, <1>4, <1>5, <1>6, <1>7

-----------------------------------------------------------------------------
(* Projected events *)

(* What is in the carrier stays there, and what is kept stays kept, when   *)
(* every live row of the event that goes has left something behind.        *)
LEMMA InCarrierStays ==
    ASSUME \A n \in DOMAIN carrier : n \in DOMAIN carrier' /\ carrier'[n] = carrier[n],
           NEW e, InCarrier(e)
    PROVE  InCarrier(e)'
BY DEF InCarrier

LEMMA KeptStays ==
    ASSUME Typed, CarrierInv', RowsInv', RowsStay,
           \A n \in DOMAIN carrier : n \in DOMAIN carrier' /\ carrier'[n] = carrier[n],
           read \subseteq read', blind \subseteq blind',
           NEW e, InCarrier(e), Kept(e),
           \A i \in Live : rows[i].ev = e =>
               \/ e \in read' \/ e \in blind' \/ Spoilt(Position(e))
               \/ \E j \in Live' : rows'[j].ev = e
    PROVE  Kept(e)'
<1>1. PICK n \in DOMAIN carrier : n = Position(e) /\ carrier[n] = e
  BY PositionOf DEF Typed
<1>2. Position(e)' = n
  <2>1. n \in DOMAIN carrier' /\ carrier'[n] = e
    BY <1>1
  <2>2. \A m \in DOMAIN carrier' : carrier'[m] = e => m = n
    BY <2>1 DEF CarrierInv
  <2> QED
    BY <2>1, <2>2 DEF Position
<1>3. ASSUME Spoilt(n) PROVE Spoilt(n)'
  <2>1. PICK i \in DOMAIN rows : rows[i].seq = n /\ ~InCarrier(rows[i].ev)
    BY <1>3 DEF Spoilt
  <2>2. i \in DOMAIN rows' /\ rows'[i].seq = n /\ rows'[i].ev = rows[i].ev
    BY <2>1 DEF RowsStay
  <2>3. ~InCarrier(rows[i].ev)'
    <3>1. rows[i].ev # e
      BY <2>1
    <3>2. carrier'[n] = e
      BY <1>1
    <3>3. (\E m \in DOMAIN carrier' : carrier'[m] = rows'[i].ev) => carrier'[n] = rows'[i].ev
      BY <2>2 DEF RowsInv, InCarrier
    <3>4. ~\E m \in DOMAIN carrier' : carrier'[m] = rows'[i].ev
      BY <2>2, <3>1, <3>2, <3>3
    <3> QED
      BY <2>2, <3>4 DEF InCarrier
  <2>4. ~\E m \in DOMAIN carrier' : carrier'[m] = rows'[i].ev
    BY <2>2, <2>3 DEF InCarrier
  <2> QED
    BY <2>2, <2>4 DEF Spoilt, InCarrier
<1>4. CASE e \in read \/ e \in blind
  BY <1>4 DEF Kept
<1>5. CASE Spoilt(Position(e))
  <2>1. Spoilt(Position(e))'
    BY <1>1, <1>2, <1>3, <1>5 DEF Spoilt
  <2> QED
    BY <2>1 DEF Kept
<1>6. CASE \E i \in Live : rows[i].ev = e
  <2>1. \/ e \in read' \/ e \in blind' \/ Spoilt(n)
        \/ \E j \in Live' : rows'[j].ev = e
    BY <1>1, <1>6
  <2> QED
    BY <1>2, <1>3, <2>1 DEF Kept, Spoilt
<1> QED
  BY <1>4, <1>5, <1>6 DEF Kept

(* The outbox and the projectors wait while rows are added or shown. *)
LEMMA Quiet ==
    ASSUME Typed, CarriedInv, KeptInv, CarrierInv', RowsInv', RowsStay,
           \A n \in DOMAIN carrier : n \in DOMAIN carrier' /\ carrier'[n] = carrier[n],
           \A e : InCarrier(e) /\ Kept(e) => Kept(e)',
           UNCHANGED <<outbox, proj>>
    PROVE  CarriedInv' /\ KeptInv'
<1>1. ASSUME NEW e, InCarrier(e) PROVE InCarrier(e)'
  BY <1>1, InCarrierStays
<1>2. CarriedInv'
  BY <1>1 DEF CarriedInv
<1>3. ASSUME NEW p \in Projectors, proj[p].pc = "confirm", NEW e, e = proj[p].ev PROVE Kept(e)'
  BY <1>3 DEF KeptInv, CarriedInv
<1>4. ASSUME NEW e \in Terminals, outbox[e].st = "projected" PROVE Kept(e)'
  BY <1>4 DEF KeptInv, CarriedInv, TerminalKept, Kept
<1>5. TerminalKept'
  BY <1>4 DEF TerminalKept, Kept
<1> QED
  BY <1>2, <1>3, <1>5 DEF KeptInv

(* What is projected was, or is in the carrier and kept. *)
OutboxStep ==
    \A e \in Terminals :
        /\ outbox'[e].st \in {"none", "pending"} => outbox'[e].tries < MaxTries
        /\ outbox'[e].st = "projected" => outbox[e].st = "projected" \/ (InCarrier(e) /\ Kept(e))

LEMMA OutboxWaits ==
    ASSUME WorkInv, UNCHANGED outbox
    PROVE  OutboxStep
BY DEF WorkInv, OutboxStep

(* A projector goes on. *)
LEMMA RunStep ==
    ASSUME Typed, WorkInv, CarriedInv, KeptInv, CarrierInv', RowsInv', RowsStay,
           \A n \in DOMAIN carrier : n \in DOMAIN carrier' /\ carrier'[n] = carrier[n],
           UNCHANGED poster,
           \A e : InCarrier(e) /\ Kept(e) => Kept(e)',
           NEW p \in Projectors, NEW r, proj' = [proj EXCEPT ![p] = r],
           r.pc # "idle" => r.ev \in Terminals,
           r.pc \in {"targets", "assign", "mark", "confirm"} => InCarrier(r.ev)',
           r.pc = "assign" => r.todo # {} \/ r.done # {},
           r.pc = "confirm" => Kept(r.ev)',
           OutboxStep
    PROVE  WorkInv' /\ CarriedInv' /\ KeptInv'
<1>1. ASSUME NEW e, InCarrier(e) PROVE InCarrier(e)'
  BY <1>1, InCarrierStays
<1>2. ASSUME NEW q \in Projectors PROVE proj'[q] = IF q = p THEN r ELSE proj[q]
  BY DEF Typed
<1>3. WorkInv'
  BY <1>2 DEF WorkInv, OutboxStep
<1>4. ASSUME NEW e \in Terminals, outbox'[e].st = "projected" PROVE InCarrier(e)' /\ Kept(e)'
  BY <1>1, <1>4 DEF CarriedInv, KeptInv, TerminalKept, Kept, OutboxStep
<1>5. ASSUME NEW q \in Projectors, NEW e, e = proj'[q].ev
      PROVE  /\ proj'[q].pc \in {"targets", "assign", "mark", "confirm"} => InCarrier(e)'
             /\ proj'[q].pc = "confirm" => Kept(e)'
  <2>1. CASE q = p
    BY <1>2, <1>5, <2>1
  <2>2. CASE q # p
    BY <1>1, <1>2, <1>5, <2>2 DEF CarriedInv, KeptInv
  <2> QED
    BY <2>1, <2>2
<1>6. CarriedInv'
  BY <1>4, <1>5 DEF CarriedInv
<1>7. KeptInv'
  <2>1. TerminalKept'
    BY <1>4 DEF TerminalKept, Kept
  <2>2. \A q \in Projectors : proj'[q].pc = "assign" => proj'[q].todo # {} \/ proj'[q].done # {}
    BY <1>2 DEF KeptInv
  <2> QED
    BY <1>5, <2>1, <2>2 DEF KeptInv
<1> QED
  BY <1>3, <1>6, <1>7

(* A projector that touches neither rows nor carrier. *)
LEMMA PlainRun ==
    ASSUME Typed, WorkInv, CarrierInv, CarriedInv, RowsInv, KeptInv,
           UNCHANGED <<carrier, rows, poster, read, blind>>,
           NEW p \in Projectors, NEW r, proj' = [proj EXCEPT ![p] = r],
           r.pc # "idle" => r.ev \in Terminals,
           r.pc \in {"targets", "assign", "mark", "confirm"} => InCarrier(r.ev),
           r.pc = "assign" => r.todo # {} \/ r.done # {},
           r.pc # "confirm",
           OutboxStep
    PROVE  WorkInv' /\ CarrierInv' /\ CarriedInv' /\ RowsInv' /\ KeptInv' /\ RowsStay
<1>1. RowsStay /\ DOMAIN rows' = DOMAIN rows
  BY DEF RowsStay
<1>2. CarrierInv' /\ RowsInv'
  BY <1>1, PlaceQuiet
<1>3. \A n \in DOMAIN carrier : n \in DOMAIN carrier' /\ carrier'[n] = carrier[n]
  OBVIOUS
<1>4. \A e : InCarrier(e) /\ Kept(e) => Kept(e)'
  BY DEF Kept, Spoilt, Position, Live, InCarrier
<1>5. InCarrier(r.ev) => InCarrier(r.ev)'
  BY DEF InCarrier
<1>6. WorkInv' /\ CarriedInv' /\ KeptInv'
  BY <1>1, <1>2, <1>3, <1>4, <1>5, RunStep
<1> QED
  BY <1>1, <1>2, <1>6

(* The steps of a projector that write its record or the outbox. *)
LEMMA InvPlainRuns ==
    ASSUME Typed, WorkInv, CarrierInv, CarriedInv, RowsInv, KeptInv, NEW p \in Projectors,
           \/ \E e \in Terminals : Pick(p, e)
           \/ ChooseTargets(p) \/ ConfirmProjected(p) \/ RecordFailure(p)
           \/ StepRefused(p) \/ ProjectorDies(p)
    PROVE  WorkInv' /\ CarrierInv' /\ CarriedInv' /\ RowsInv' /\ KeptInv' /\ RowsStay
<1>1. proj[p] \in Run /\ outbox \in [Terminals -> OutboxRow] /\ NoRun.pc = "idle"
  BY DEF Typed, NoRun
<1>2. UNCHANGED outbox => OutboxStep
  BY OutboxWaits
<1>3. ASSUME NEW e \in Terminals, Pick(p, e)
      PROVE  WorkInv' /\ CarrierInv' /\ CarriedInv' /\ RowsInv' /\ KeptInv' /\ RowsStay
  <2>1. PICK r : r = [NoRun EXCEPT !.pc = "append", !.ev = e, !.tries = outbox[e].tries]
    OBVIOUS
  <2>2. r.pc = "append" /\ r.ev = e
    BY <2>1 DEF NoRun
  <2>3. proj' = [proj EXCEPT ![p] = r] /\ UNCHANGED <<outbox, carrier, rows, poster, read, blind>>
    BY <1>3, <2>1 DEF Pick, readers
  <2> QED
    BY <1>2, <2>2, <2>3, PlainRun
<1>4. CASE ChooseTargets(p)
  <2>1. PICK r : r = proj'[p]
    OBVIOUS
  <2>2. /\ r.pc = "assign" /\ r.ev = proj[p].ev /\ r.todo # {} /\ proj' = [proj EXCEPT ![p] = r]
        /\ proj[p].pc = "targets" /\ UNCHANGED <<outbox, carrier, rows, poster, read, blind>>
    BY <1>1, <1>4, <2>1 DEF ChooseTargets, Run, Typed, readers
  <2>3. r.ev \in Terminals /\ InCarrier(r.ev)
    BY <2>2 DEF WorkInv, CarriedInv
  <2> QED
    BY <1>2, <2>2, <2>3, PlainRun
<1>5. CASE ConfirmProjected(p)
  <2>1. PICK e : e = proj[p].ev
    OBVIOUS
  <2>2. e \in Terminals /\ InCarrier(e) /\ Kept(e)
    BY <1>5, <2>1 DEF ConfirmProjected, WorkInv, CarriedInv, KeptInv
  <2>3. /\ outbox' = [outbox EXCEPT ![e] = [st |-> "projected", tries |-> proj[p].tries + 1]]
        /\ proj' = [proj EXCEPT ![p] = NoRun] /\ UNCHANGED <<carrier, rows, poster, read, blind>>
    BY <1>5, <2>1 DEF ConfirmProjected, readers
  <2>4. OutboxStep
    <3>1. /\ outbox'[e].st = "projected"
          /\ \A f \in Terminals : f # e => outbox'[f] = outbox[f]
      BY <1>1, <2>2, <2>3
    <3> QED
      BY <2>2, <3>1 DEF OutboxStep, WorkInv
  <2> QED
    BY <1>1, <2>3, <2>4, PlainRun
<1>6. CASE RecordFailure(p)
  <2>1. /\ proj' = [proj EXCEPT ![p] = NoRun] /\ UNCHANGED <<carrier, rows, poster, read, blind>>
    BY <1>6 DEF RecordFailure, readers
  <2>2. OutboxStep
    <3>1. PICK e, n : e = proj[p].ev /\ n = proj[p].tries + 1
      OBVIOUS
    <3>2. n \in Nat /\ e \in Terminals
      BY <1>1, <1>6, <3>1, MailAssumption DEF Run, RecordFailure, WorkInv
    <3>3. CASE outbox[e].st = "pending"
      <4>1. outbox' = [outbox EXCEPT ![e] =
                         [st |-> IF n >= MaxTries THEN "quarantined" ELSE "pending", tries |-> n]]
        BY <1>6, <3>1, <3>3 DEF RecordFailure
      <4>2. /\ outbox'[e].st = (IF n >= MaxTries THEN "quarantined" ELSE "pending")
            /\ outbox'[e].tries = n
            /\ \A f \in Terminals : f # e => outbox'[f] = outbox[f]
        BY <1>1, <3>2, <4>1
      <4>3. outbox'[e].st = "pending" => outbox'[e].tries < MaxTries
        BY <3>2, <4>2, MailAssumption
      <4>4. outbox'[e].st \notin {"none", "projected"}
        BY <4>2
      <4> QED
        BY <4>2, <4>3, <4>4 DEF OutboxStep, WorkInv
    <3>4. CASE outbox[e].st # "pending"
      <4>1. outbox' = outbox
        BY <1>6, <3>1, <3>4 DEF RecordFailure
      <4> QED
        BY <1>2, <4>1
    <3> QED
      BY <3>3, <3>4
  <2> QED
    BY <1>1, <2>1, <2>2, PlainRun
<1>7. CASE StepRefused(p)
  <2>1. PICK r : r = [proj[p] EXCEPT !.pc = "failed"]
    OBVIOUS
  <2>2. /\ r.pc = "failed" /\ r.ev = proj[p].ev /\ proj' = [proj EXCEPT ![p] = r]
        /\ UNCHANGED <<outbox, carrier, rows, poster, read, blind>>
    BY <1>1, <1>7, <2>1 DEF StepRefused, Run, readers
  <2>3. r.ev \in Terminals
    BY <1>7, <2>2 DEF StepRefused, WorkInv
  <2> QED
    BY <1>2, <2>2, <2>3, PlainRun
<1>8. CASE ProjectorDies(p)
  <2>1. proj' = [proj EXCEPT ![p] = NoRun] /\ UNCHANGED <<outbox, carrier, rows, poster, read, blind>>
    BY <1>8 DEF ProjectorDies, readers
  <2> QED
    BY <1>1, <1>2, <2>1, PlainRun
<1> QED
  BY <1>3, <1>4, <1>5, <1>6, <1>7, <1>8

(* A projector that writes the carrier or the rows. *)
LEMMA InvProject ==
    ASSUME Typed, WorkInv, CarrierInv, CarriedInv, RowsInv, KeptInv, NEW p \in Projectors,
           Project(p) \/ StepRefused(p) \/ ProjectorDies(p)
    PROVE  WorkInv' /\ CarrierInv' /\ CarriedInv' /\ RowsInv' /\ KeptInv' /\ RowsStay
<1>1. /\ proj[p] \in Run /\ rows \in Seq(Row) /\ carrier \in Seq(Events)
      /\ Len(carrier) \in Nat /\ poster.begun \subseteq Posts /\ Terminals \cap Posts = {}
  BY LenProperties, MailAssumption DEF Typed, Sender
<1>2. UNCHANGED outbox => OutboxStep
  BY OutboxWaits
<1>3. CASE AppendEvent(p)
  <2>1. PICK e, r : e = proj[p].ev /\ r = proj'[p]
    OBVIOUS
  <2>2. /\ r.pc = "targets" /\ r.ev = e /\ proj' = [proj EXCEPT ![p] = r]
        /\ carrier' = (IF InCarrier(e) THEN carrier ELSE Append(carrier, e))
        /\ poster.pc = "idle" /\ UNCHANGED <<outbox, rows, poster, read, blind>>
    BY <1>1, <1>3, <2>1 DEF AppendEvent, Run, Typed, readers
  <2>3. e \in Terminals /\ e \in Events /\ e \notin Posts
    BY <1>1, <1>3, <2>1 DEF AppendEvent, WorkInv, Events
  <2>4. RowsStay /\ DOMAIN rows' = DOMAIN rows
    BY <2>2 DEF RowsStay
  <2>5. /\ CarrierInv' /\ RowsInv' /\ InCarrier(e)'
        /\ \A n \in DOMAIN carrier : n \in DOMAIN carrier' /\ carrier'[n] = carrier[n]
    <3>1. CASE InCarrier(e)
      <4>1. carrier' = carrier
        BY <2>2, <3>1
      <4>2. CarrierInv' /\ RowsInv'
        BY <2>2, <2>4, <4>1, PlaceQuiet
      <4> QED
        BY <3>1, <4>1, <4>2 DEF InCarrier
    <3>2. CASE ~InCarrier(e)
      <4>1. carrier' = Append(carrier, e)
        BY <2>2, <3>2
      <4>2. \A i \in DOMAIN rows : rows[i].ev # e
        BY <1>1, <2>3, <3>2 DEF RowsInv
      <4>3. CarrierInv' /\ RowsInv'
        BY <2>2, <2>3, <3>2, <4>1, <4>2, PlaceAppend
      <4> QED
        BY <1>1, <2>3, <4>1, <4>3, CarrierGrows
    <3> QED
      BY <3>1, <3>2
  <2>6. \A f : InCarrier(f) /\ Kept(f) => Kept(f)'
    <3>1. \A i \in Live : \A f : rows[i].ev = f => \E j \in Live' : rows'[j].ev = f
      BY <2>2 DEF Live
    <3> QED
      BY <2>2, <2>4, <2>5, <3>1, KeptStays
  <2>7. WorkInv' /\ CarriedInv' /\ KeptInv'
    BY <1>2, <2>2, <2>3, <2>4, <2>5, <2>6, RunStep
  <2> QED
    BY <2>4, <2>5, <2>7
<1>4. ASSUME NEW to \in Recipients, AssignEvent(p, to)
      PROVE  WorkInv' /\ CarrierInv' /\ CarriedInv' /\ RowsInv' /\ KeptInv' /\ RowsStay
  <2>1. PICK e, eff, r : e = proj[p].ev /\ eff = Effective(to, to # Star) /\ r = proj'[p]
    OBVIOUS
  <2>2. /\ e \in Terminals /\ e \in Events /\ InCarrier(e) /\ eff \in Recipients
        /\ Position(e) \in Nat \ {0}
    BY <1>1, <1>4, <2>1, TargetTypes, PositionOf DEF AssignEvent, WorkInv, CarriedInv, Events
  <2>3. /\ r.pc \in {"mark", "failed"} /\ r.ev = e /\ proj' = [proj EXCEPT ![p] = r]
        /\ UNCHANGED <<outbox, carrier, poster, read, blind>>
        /\ rows' = Assigned(eff, e, Position(e)) \/ rows' = rows
    BY <1>1, <1>4, <2>1 DEF AssignEvent, Run, Typed, readers
  <2>4. /\ RowsStay /\ \A i \in DOMAIN rows : rows'[i] = rows[i]
        /\ \A i \in DOMAIN rows' : i \notin DOMAIN rows => rows'[i].ev = e /\ rows'[i].seq = Position(e)
    <3>1. CASE rows' = rows
      BY <3>1 DEF RowsStay
    <3>2. CASE rows' = Assigned(eff, e, Position(e))
      BY <1>1, <2>2, <3>2, AssignedRows
    <3> QED
      BY <2>3, <3>1, <3>2
  <2>5. CarrierInv' /\ RowsInv'
    BY <2>2, <2>3, <2>4, PlaceAssign
  <2>6. \A f : InCarrier(f) /\ Kept(f) => Kept(f)'
    <3>1. \A i \in Live : \A f : rows[i].ev = f => \E j \in Live' : rows'[j].ev = f
      BY <2>4 DEF Live, RowsStay
    <3> QED
      BY <2>3, <2>4, <2>5, <3>1, KeptStays
  <2>7. InCarrier(e)'
    BY <2>2, <2>3 DEF InCarrier
  <2>8. WorkInv' /\ CarriedInv' /\ KeptInv'
    BY <1>2, <2>2, <2>3, <2>4, <2>5, <2>6, <2>7, RunStep
  <2> QED
    BY <2>4, <2>5, <2>8
<1>5. CASE MarkEvent(p)
  <2>1. PICK e, is, r : e = proj[p].ev /\ is = Followed(proj[p].at, e) /\ r = proj'[p]
    OBVIOUS
  <2>2. /\ r.ev = e /\ proj' = [proj EXCEPT ![p] = r] /\ proj[p].pc = "mark"
        /\ UNCHANGED <<outbox, carrier, poster, read, blind>>
        /\ \/ r.pc = "assign" /\ r.done # {} /\ rows' = Shown(is)
           \/ r.pc = "failed" /\ rows' = rows
    <3>1. proj[p].pc = "mark" /\ UNCHANGED <<outbox, carrier, poster, read, blind>>
      BY <1>5 DEF MarkEvent, readers
    <3>2. CASE is # {}
      <4>1. PICK tos : tos = {rows[i].to : i \in is}
        OBVIOUS
      <4>2. /\ rows' = Shown(is)
            /\ proj' = [proj EXCEPT ![p].pc = "assign", ![p].done = @ \cup tos]
        BY <1>5, <2>1, <3>2, <4>1 DEF MarkEvent
      <4>3. tos # {}
        BY <3>2, <4>1
      <4>4. r = [proj[p] EXCEPT !.pc = "assign", !.done = @ \cup tos]
            /\ proj' = [proj EXCEPT ![p] = r]
        BY <2>1, <4>2 DEF Typed
      <4>5. r.pc = "assign" /\ r.ev = e /\ r.done # {}
        BY <1>1, <2>1, <4>3, <4>4 DEF Run
      <4> QED
        BY <3>1, <4>2, <4>4, <4>5
    <3>3. CASE is = {}
      <4>1. rows' = rows /\ proj' = [proj EXCEPT ![p].pc = "failed"]
        BY <1>5, <2>1, <3>3 DEF MarkEvent
      <4>2. r = [proj[p] EXCEPT !.pc = "failed"] /\ proj' = [proj EXCEPT ![p] = r]
        BY <2>1, <4>1 DEF Typed
      <4>3. r.pc = "failed" /\ r.ev = e
        BY <1>1, <2>1, <4>2 DEF Run
      <4> QED
        BY <3>1, <4>1, <4>2, <4>3
    <3> QED
      BY <3>2, <3>3
  <2>3. e \in Terminals /\ InCarrier(e)
    BY <2>1, <2>2 DEF WorkInv, CarriedInv
  <2>4. /\ RowsStay /\ DOMAIN rows' = DOMAIN rows
        /\ \A i \in DOMAIN rows : rows'[i].gone = rows[i].gone
    BY <1>1, <2>2, ShownRows DEF RowsStay
  <2>5. CarrierInv' /\ RowsInv'
    BY <2>2, <2>4, PlaceQuiet
  <2>6. \A f : InCarrier(f) /\ Kept(f) => Kept(f)'
    <3>1. \A i \in Live : \A f : rows[i].ev = f => \E j \in Live' : rows'[j].ev = f
      BY <2>4 DEF Live, RowsStay
    <3> QED
      BY <2>2, <2>4, <2>5, <3>1, KeptStays
  <2>7. InCarrier(e)'
    BY <2>2, <2>3 DEF InCarrier
  <2>8. WorkInv' /\ CarriedInv' /\ KeptInv'
    BY <1>2, <2>2, <2>3, <2>4, <2>5, <2>6, <2>7, RunStep
  <2> QED
    BY <2>4, <2>5, <2>8
<1>6. CASE ReconcileRecipients(p)
  <2> DEFINE mine == {i \in Live : rows[i].ev = proj[p].ev}
             live == {rows[i].to : i \in mine}
             preserved == proj[p].done
                            \cup IF Star \in live /\ ~(proj[p].done \subseteq live) THEN {Star} ELSE {}
             stale == {i \in mine : rows[i].to \notin preserved}
  <2>1. PICK e, r : e = proj[p].ev /\ r = proj'[p]
    OBVIOUS
  <2>2. /\ r.pc = "confirm" /\ r.ev = e /\ proj' = [proj EXCEPT ![p] = r]
        /\ proj[p].pc = "assign" /\ proj[p].done # {}
        /\ rows' = Rewrite(stale, {}, Star) /\ UNCHANGED <<outbox, carrier, poster, read>>
        /\ blind' = (IF \E i \in mine : rows[i].to \in proj[p].done \cup {Star}
                    THEN blind ELSE blind \cup {e})
    BY <1>1, <1>6, <2>1 DEF ReconcileRecipients, Run, Typed, readers, KeptInv
  <2>3. e \in Terminals /\ InCarrier(e)
    BY <2>1, <2>2 DEF WorkInv, CarriedInv
  <2>4. /\ RowsStay /\ DOMAIN rows' = DOMAIN rows
        /\ \A i \in DOMAIN rows : rows'[i].gone = IF i \in stale THEN TRUE ELSE rows[i].gone
    <3> HIDE DEF stale
    <3>1. Star \in Recipients
      BY DEF Recipients
    <3> QED
      BY <1>1, <2>2, <3>1, RewriteRows
  <2>5. CarrierInv' /\ RowsInv'
    BY <2>2, <2>4, PlaceQuiet
  <2>6. e \in blind' \/ \E j \in Live' : rows'[j].ev = e
    <3>1. CASE ~\E i \in mine : rows[i].to \in proj[p].done \cup {Star}
      BY <2>2, <3>1
    <3>2. CASE \E i \in mine : rows[i].to \in proj[p].done
      <4>1. PICK i \in mine : rows[i].to \in proj[p].done
        BY <3>2
      <4>2. i \in DOMAIN rows /\ ~rows[i].gone /\ rows[i].ev = e /\ i \notin stale
        BY <2>1, <4>1 DEF Live
      <4> QED
        BY <2>4, <4>2 DEF Live, RowsStay
    <3>3. CASE /\ \E i \in mine : rows[i].to = Star
               /\ ~\E i \in mine : rows[i].to \in proj[p].done
      <4>1. PICK i \in mine : rows[i].to = Star
        BY <3>3
      <4>2. Star \in live
        BY <4>1
      <4>3. ~(proj[p].done \subseteq live)
        BY <2>2, <3>3
      <4>4. i \in DOMAIN rows /\ ~rows[i].gone /\ rows[i].ev = e /\ i \notin stale
        BY <2>1, <4>1, <4>2, <4>3 DEF Live
      <4> QED
        BY <2>4, <4>4 DEF Live, RowsStay
    <3> QED
      BY <3>1, <3>2, <3>3
  <2>7. \A f : InCarrier(f) /\ Kept(f) => Kept(f)'
    <3>1. blind \subseteq blind'
      BY <2>2
    <3>2. \A i \in Live : \A f : rows[i].ev = f => f \in blind' \/ \E j \in Live' : rows'[j].ev = f
      <4>1. \A i \in Live : rows[i].ev # e => i \in Live' /\ rows'[i].ev = rows[i].ev
        BY <2>1, <2>4 DEF Live, RowsStay
      <4> HIDE DEF stale
      <4> QED
        BY <2>6, <4>1
    <3> HIDE DEF stale, mine
    <3> QED
      BY <2>2, <2>4, <2>5, <3>1, <3>2, KeptStays
  <2>8. InCarrier(e)'
    BY <2>2, <2>3 DEF InCarrier
  <2>9. Kept(e)'
    BY <2>6 DEF Kept
  <2>10. WorkInv' /\ CarriedInv' /\ KeptInv'
    <3> HIDE DEF stale, mine
    <3> QED
      BY <1>2, <2>2, <2>3, <2>4, <2>5, <2>7, <2>8, <2>9, RunStep
  <2> QED
    BY <2>4, <2>5, <2>10
<1>7. CASE \/ \E e \in Terminals : Pick(p, e)
           \/ ChooseTargets(p) \/ ConfirmProjected(p) \/ RecordFailure(p)
           \/ StepRefused(p) \/ ProjectorDies(p)
  BY <1>7, InvPlainRuns
<1> QED
  BY <1>3, <1>4, <1>5, <1>6, <1>7 DEF Project, Recipients

-----------------------------------------------------------------------------
(* Controllers *)

(* Senders, projectors and the outbox leave relays and what they printed.  *)
LEMMA SnapStays ==
    ASSUME SnapInv, RowsStay, UNCHANGED <<relay, shown>>
    PROVE  SnapInv'
BY DEF SnapInv, RowsStay

(* What a retirement withdraws has a live twin that stays, of the same     *)
(* event or at its position.                                               *)
LEMMA RetireKeeps ==
    ASSUME Typed, CarrierInv, RowsInv, NEW l \in Labels, Retire(l)
    PROVE  /\ RowsStay /\ DOMAIN rows' = DOMAIN rows
           /\ \A i \in Live : \A e : InCarrier(e) /\ rows[i].ev = e =>
                  Spoilt(Position(e)) \/ \E j \in Live' : rows'[j].ev = e
<1>1. rows \in Seq(Row) /\ carrier \in Seq(Events) /\ Star \in Recipients /\ l # Star
  BY MailAssumption DEF Typed, Recipients
<1>2. PICK gone, moved : /\ gone = Redundant(l) /\ moved = Unprocessed(l) \ Redundant(l)
                         /\ rows' = Rewrite(gone, moved, Star)
  BY DEF Retire
<1>3. /\ RowsStay /\ DOMAIN rows' = DOMAIN rows
      /\ \A i \in DOMAIN rows : rows'[i].gone = IF i \in gone THEN TRUE ELSE rows[i].gone
  <2>1. rows' = Rewrite(gone, moved, Star)
    BY <1>2
  <2> QED
    BY <1>1, <2>1, RewriteRows
<1>4. ASSUME NEW i \in Live, i \notin gone PROVE i \in Live' /\ rows'[i].ev = rows[i].ev
  BY <1>3, <1>4 DEF Live, RowsStay
<1>5. ASSUME NEW i \in gone, NEW e, InCarrier(e), rows[i].ev = e
      PROVE  Spoilt(Position(e)) \/ \E j \in Live' : rows'[j].ev = e
  <2>1. PICK j \in Live : /\ rows[j].to = Star
                          /\ rows[j].ev = rows[i].ev \/ rows[j].seq = rows[i].seq
    BY <1>2, <1>5 DEF Redundant
  <2>2. j \notin gone
    BY <1>1, <1>2, <2>1 DEF Redundant, Unprocessed
  <2>3. j \in Live' /\ rows'[j].ev = rows[j].ev
    BY <1>4, <2>2
  <2>4. CASE rows[j].ev = e
    BY <2>3, <2>4
  <2>5. CASE rows[j].ev # e
    <3>1. rows[j].seq = rows[i].seq /\ i \in DOMAIN rows /\ j \in DOMAIN rows
      BY <1>2, <1>5, <2>1, <2>5 DEF Redundant, Unprocessed, Live
    <3>2. rows[i].seq \in DOMAIN carrier /\ carrier[rows[i].seq] = e
      BY <1>5, <3>1 DEF RowsInv
    <3>3. Position(e) = rows[i].seq
      BY <1>1, <1>5, <3>2, PositionOf DEF CarrierInv
    <3>4. ~InCarrier(rows[j].ev)
      BY <2>5, <3>1, <3>2 DEF RowsInv
    <3> QED
      BY <3>1, <3>3, <3>4 DEF Spoilt
  <2> QED
    BY <2>4, <2>5
<1>6. ASSUME NEW i \in Live, NEW e, InCarrier(e), rows[i].ev = e
      PROVE  Spoilt(Position(e)) \/ \E j \in Live' : rows'[j].ev = e
  <2>1. CASE i \in gone
    BY <1>5, <1>6, <2>1
  <2>2. CASE i \notin gone
    BY <1>4, <1>6, <2>2, SMTT(40)
  <2> QED
    BY <2>1, <2>2
<1> QED
  BY <1>3, <1>6

(* What a moved cursor withdraws it has read. *)
LEMMA AdvanceKeeps ==
    ASSUME Typed, NEW l \in Labels, Advance(l)
    PROVE  /\ RowsStay /\ DOMAIN rows' = DOMAIN rows /\ read \subseteq read'
           /\ \A i \in Live : rows[i].ev \in read' \/ \E j \in Live' : rows'[j].ev = rows[i].ev
<1>1. rows \in Seq(Row) /\ l \in Recipients
  BY DEF Typed, Recipients
<1>2. PICK range, wild, twin :
          /\ range = {i \in Between(l, relay[l].pos) : rows[i].up}
          /\ wild = {i \in range : rows[i].to = Star}
          /\ twin = {i \in wild : Keyed(l, rows[i].ev) # {} \/ Taken(l, rows[i].seq)}
          /\ rows' = Rewrite(twin, wild \ twin, l)
          /\ read' = read \cup {rows[i].ev : i \in range}
  BY DEF Advance, Consume
<1>3. /\ RowsStay /\ DOMAIN rows' = DOMAIN rows
      /\ \A i \in DOMAIN rows : rows'[i].gone = IF i \in twin THEN TRUE ELSE rows[i].gone
  <2>1. PICK moved : moved = wild \ twin
    OBVIOUS
  <2>2. rows' = Rewrite(twin, moved, l)
    BY <1>2, <2>1
  <2> QED
    BY <1>1, <2>2, RewriteRows
<1>4. ASSUME NEW i \in Live, i \notin twin PROVE i \in Live' /\ rows'[i].ev = rows[i].ev
  BY <1>3, <1>4 DEF Live, RowsStay
<1>5. ASSUME NEW i \in twin PROVE rows[i].ev \in read'
  BY <1>2, <1>5
<1> QED
  BY <1>2, <1>3, <1>4, <1>5

(* Controllers keep the invariants. *)
LEMMA InvReaders ==
    ASSUME Typed, WorkInv, CarrierInv, CarriedInv, RowsInv, KeptInv, SnapInv, NEW l \in Labels,
           Claim(l) \/ Expire(l) \/ Retire(l) \/ Drain(l)
    PROVE  /\ WorkInv' /\ CarrierInv' /\ CarriedInv' /\ RowsInv' /\ KeptInv' /\ SnapInv'
           /\ RowsStay
<1>1. UNCHANGED <<outbox, carrier, proj, poster, blind>> /\ read \subseteq read'
  <2>1. CASE Advance(l)
    BY <2>1, AdvanceKeeps DEF Advance, senders
  <2>2. CASE Claim(l) \/ Expire(l) \/ Retire(l) \/ Peek(l) \/ PrintDrained(l) \/ Abandon(l)
    BY <2>2 DEF Claim, Expire, Retire, Peek, PrintDrained, Abandon, senders
  <2> QED
    BY <2>1, <2>2 DEF Drain
<1>2. /\ RowsStay /\ DOMAIN rows' = DOMAIN rows
      /\ \A i \in Live : \A e : InCarrier(e) /\ rows[i].ev = e =>
              e \in read' \/ Spoilt(Position(e)) \/ \E j \in Live' : rows'[j].ev = e
  <2>1. CASE Advance(l)
    BY <2>1, AdvanceKeeps
  <2>2. CASE Retire(l)
    BY <2>2, RetireKeeps
  <2>3. CASE Claim(l) \/ Expire(l) \/ Peek(l) \/ PrintDrained(l) \/ Abandon(l)
    <3>1. rows' = rows
      BY <2>3 DEF Claim, Expire, Peek, PrintDrained, Abandon
    <3> QED
      BY <3>1 DEF RowsStay, Live
  <2> QED
    BY <2>1, <2>2, <2>3 DEF Drain
<1>3. CarrierInv' /\ RowsInv'
  BY <1>1, <1>2, PlaceQuiet
<1>4. WorkInv'
  BY <1>1 DEF WorkInv
<1>5. ASSUME NEW e, InCarrier(e), Kept(e) PROVE Kept(e)'
  BY <1>1, <1>2, <1>3, <1>5, KeptStays
<1>6. CarriedInv' /\ KeptInv'
  BY <1>1, <1>2, <1>3, <1>5, Quiet
<1>7. SnapInv'
  <2>0. ASSUME NEW r, relay' = [relay EXCEPT ![l] = r], shown \subseteq shown',
               \A s \in r.snap : /\ s[1] \in DOMAIN rows
                                 /\ r.pc = "shown" /\ s[2] => <<l, rows[s[1]].ev>> \in shown'
        PROVE  SnapInv'
    <3>1. \A k \in Labels : relay'[k] = IF k = l THEN r ELSE relay[k]
      BY <2>0 DEF Typed
    <3>2. ASSUME NEW k \in Labels, NEW s \in relay'[k].snap
          PROVE  s[1] \in DOMAIN rows' /\ (relay'[k].pc = "shown" /\ s[2] => <<k, rows'[s[1]].ev>> \in shown')
      <4>1. s[1] \in DOMAIN rows /\ (relay'[k].pc = "shown" /\ s[2] => <<k, rows[s[1]].ev>> \in shown')
        BY <2>0, <3>1, <3>2 DEF SnapInv
      <4> QED
        BY <1>2, <4>1 DEF RowsStay
    <3> QED
      BY <3>2 DEF SnapInv
  <2>1. CASE Peek(l)
    <3>1. PICK n, pc : /\ relay' = [relay EXCEPT ![l] = [pc |-> pc, gen |-> lease[l].gen, pos |-> n,
                                                         snap |-> Snapshot(l, n)]]
                       /\ shown' = IF pc = "shown"
                                   THEN shown \cup {<<l, rows[i].ev>> : i \in Pending(l)}
                                   ELSE shown
      BY <2>1 DEF Peek
    <3> DEFINE r == [pc |-> pc, gen |-> lease[l].gen, pos |-> n, snap |-> Snapshot(l, n)]
    <3>2. ASSUME NEW i \in Between(l, n)
          PROVE  i \in DOMAIN rows /\ (pc = "shown" /\ rows[i].up => <<l, rows[i].ev>> \in shown')
      <4>1. i \in Live /\ rows[i].to \in {l, Star} /\ rows[i].seq \in (cursor[l] + 1)..n
        BY DEF Between
      <4>2. rows[i].seq > cursor[l]
        BY <4>1 DEF Typed
      <4>3. rows[i].up => i \in Pending(l)
        BY <4>1, <4>2 DEF Pending
      <4> QED
        BY <3>1, <4>1, <4>3 DEF Live
    <3>3. \A s \in r.snap : /\ s[1] \in DOMAIN rows
                            /\ r.pc = "shown" /\ s[2] => <<l, rows[s[1]].ev>> \in shown'
      BY <3>2 DEF Snapshot
    <3>4. relay' = [relay EXCEPT ![l] = r] /\ shown \subseteq shown'
      BY <3>1
    <3> HIDE DEF r
    <3> QED
      BY <2>0, <3>3, <3>4
  <2>2. CASE Advance(l)
    <3>1. PICK r : /\ r = IF relay[l].pc = "shown" THEN NoRelay
                          ELSE [NoRelay EXCEPT !.pc = "passed", !.snap = relay[l].snap]
                   /\ relay' = [relay EXCEPT ![l] = r] /\ shown' = shown
      BY <2>2 DEF Advance, Typed
    <3>2. r.snap \subseteq relay[l].snap /\ r.pc # "shown"
      BY <3>1 DEF NoRelay
    <3> QED
      BY <2>0, <3>1, <3>2 DEF SnapInv
  <2>4. CASE PrintDrained(l) \/ Abandon(l)
    <3>1. relay' = [relay EXCEPT ![l] = NoRelay] /\ shown \subseteq shown' /\ NoRelay.snap = {}
      BY <2>4 DEF PrintDrained, Abandon, NoRelay
    <3> QED
      BY <2>0, <3>1
  <2>3. CASE Claim(l) \/ Expire(l) \/ Retire(l)
    <3>1. UNCHANGED <<relay, shown>>
      BY <2>3 DEF Claim, Expire, Retire
    <3> QED
      BY <1>2, <3>1, SnapStays
  <2> QED
    BY <2>1, <2>2, <2>3, <2>4 DEF Drain
<1> QED
  BY <1>2, <1>3, <1>4, <1>6, <1>7

-----------------------------------------------------------------------------
(* The invariant of the specification *)

(* The first state *)
LEMMA MailInit ==
    ASSUME Init
    PROVE  MailInv
<1>1. /\ carrier = <<>> /\ rows = <<>> /\ Len(carrier) = 0
      /\ DOMAIN rows = {} /\ DOMAIN carrier = {}
      /\ rows \in Seq(Row) /\ carrier \in Seq(Events)
  BY DEF Init
<1>2. poster = NoPost /\ poster.pc = "idle" /\ poster.begun = {}
  BY DEF Init, NoPost
<1>3. /\ \A p \in Projectors : proj[p] = NoRun /\ proj[p].pc = "idle"
      /\ \A l \in Labels : relay[l] = NoRelay /\ relay[l].snap = {}
      /\ \A e \in Terminals : outbox[e].st = "none" /\ outbox[e].tries = 0
  BY DEF Init, NoRun, NoRelay
<1>4. Typed
  <2>1. outbox \in [Terminals -> OutboxRow] /\ faults \in 0..MaxFaults
    BY MailAssumption DEF Init, OutboxRow
  <2>2. lease \in [Labels -> Lease] /\ cursor \in [Labels -> Nat]
    BY MailAssumption DEF Init, Lease
  <2>3. relay \in [Labels -> Relay] /\ proj \in [Projectors -> Run] /\ poster \in Sender
    BY <1>2, IdleTypes DEF Init
  <2>4. shown = {} /\ read = {} /\ blind = {}
    BY DEF Init
  <2> QED
    BY <1>1, <2>1, <2>2, <2>3, <2>4 DEF Typed
<1>5. WorkInv
  BY <1>2, <1>3, MailAssumption DEF WorkInv
<1>6. CarrierInv /\ RowsInv
  BY <1>1, <1>2 DEF CarrierInv, RowsInv
<1>7. CarriedInv /\ KeptInv
  BY <1>3 DEF CarriedInv, KeptInv, TerminalKept
<1>8. SnapInv
  BY <1>3 DEF SnapInv
<1> QED
  BY <1>4, <1>5, <1>6, <1>7, <1>8 DEF MailInv

(* Every step *)
LEMMA MailStep ==
    ASSUME MailInv, [Next]_vars
    PROVE  MailInv' /\ RowsStay
<1>1. /\ Typed /\ WorkInv /\ CarrierInv /\ CarriedInv /\ RowsInv /\ KeptInv /\ SnapInv
  BY DEF MailInv
<1>2. ASSUME NEW e \in Terminals, CommitTerminal(e) PROVE MailInv' /\ RowsStay
  <2>1. UNCHANGED <<carrier, rows, proj, poster, relay, shown, read, blind>>
    BY <1>2 DEF CommitTerminal, readers
  <2>2. RowsStay /\ DOMAIN rows' = DOMAIN rows
    BY <2>1 DEF RowsStay
  <2>3. CarrierInv' /\ RowsInv'
    BY <1>1, <2>1, <2>2, PlaceQuiet
  <2>4. \A f \in Terminals :
            /\ outbox'[f].st = "projected" => outbox[f].st = "projected"
            /\ outbox'[f].st \in {"none", "pending"} => outbox'[f].tries < MaxTries
    <3>1. outbox' = [outbox EXCEPT ![e].st = "pending"] /\ outbox[e].st = "none"
      BY <1>2 DEF CommitTerminal
    <3>2. outbox[e] \in OutboxRow
      BY <1>1 DEF Typed
    <3>3. outbox'[e].st = "pending" /\ outbox'[e].tries = outbox[e].tries
      BY <1>1, <3>1, <3>2 DEF Typed, OutboxRow
    <3>4. \A f \in Terminals : f # e => outbox'[f] = outbox[f]
      BY <1>1, <3>1 DEF Typed
    <3> QED
      BY <1>1, <3>1, <3>3, <3>4 DEF WorkInv
  <2>5. WorkInv' /\ CarriedInv' /\ KeptInv'
    <3>1. \A f : InCarrier(f)' <=> InCarrier(f)
      BY <2>1 DEF InCarrier
    <3>2. \A f : Kept(f)' <=> Kept(f)
      BY <2>1 DEF Kept, Spoilt, Position, Live, InCarrier
    <3>3. WorkInv'
      BY <1>1, <2>1, <2>4 DEF WorkInv
    <3>4. ASSUME NEW f \in Terminals, outbox'[f].st = "projected" PROVE InCarrier(f)' /\ Kept(f)'
      <4>1. outbox[f].st = "projected"
        BY <2>4, <3>4
      <4> QED
        BY <1>1, <3>1, <3>2, <4>1 DEF CarriedInv, KeptInv, TerminalKept, Kept
    <3>5. ASSUME NEW p \in Projectors, NEW f, f = proj[p].ev
          PROVE  /\ proj[p].pc \in {"targets", "assign", "mark", "confirm"} => InCarrier(f)'
                 /\ proj[p].pc = "confirm" => Kept(f)'
      BY <1>1, <3>1, <3>2, <3>5 DEF CarriedInv, KeptInv
    <3>6. CarriedInv'
      BY <2>1, <3>4, <3>5 DEF CarriedInv
    <3>7. TerminalKept'
      BY <3>4 DEF TerminalKept, Kept
    <3> QED
      BY <1>1, <2>1, <3>3, <3>5, <3>6, <3>7 DEF KeptInv
  <2>6. Typed' /\ SnapInv'
    BY <1>1, <1>2, <2>1, <2>2, TypeCommit, SnapStays
  <2> QED
    BY <2>2, <2>3, <2>5, <2>6 DEF MailInv
<1>3. CASE \/ \E e \in Posts : BeginPost(e)
           \/ \E to \in Recipients : AssignPost(to) \/ MarkPost(to)
           \/ AppendPost \/ EndPost \/ PostDies
  <2>1. UNCHANGED <<outbox, proj, relay, shown, read, blind>>
    BY <1>3 DEF BeginPost, AssignPost, MarkPost, AppendPost, EndPost, PostDies, readers
  <2>2. /\ WorkInv' /\ CarrierInv' /\ RowsInv' /\ RowsStay
        /\ \A n \in DOMAIN carrier : n \in DOMAIN carrier' /\ carrier'[n] = carrier[n]
        /\ \A i \in Live : i \in Live'
    BY <1>1, <1>3, PlacePosts
  <2>3. \A e : InCarrier(e) /\ Kept(e) => Kept(e)'
    <3>1. \A i \in Live : \A e : rows[i].ev = e => \E j \in Live' : rows'[j].ev = e
      BY <2>2 DEF RowsStay, Live
    <3> QED
      BY <1>1, <2>1, <2>2, <3>1, KeptStays
  <2>4. CarriedInv' /\ KeptInv'
    BY <1>1, <2>1, <2>2, <2>3, Quiet
  <2>5. Typed' /\ SnapInv'
    BY <1>1, <1>3, <2>1, <2>2, TypePosts, SnapStays
  <2> QED
    BY <2>2, <2>4, <2>5 DEF MailInv
<1>4. ASSUME NEW p \in Projectors, Project(p) \/ StepRefused(p) \/ ProjectorDies(p)
      PROVE  MailInv' /\ RowsStay
  <2>1. UNCHANGED <<relay, shown>>
    BY <1>4 DEF Project, Pick, AppendEvent, ChooseTargets, AssignEvent, MarkEvent,
                ReconcileRecipients, ConfirmProjected, RecordFailure, StepRefused, ProjectorDies, readers
  <2>2. WorkInv' /\ CarrierInv' /\ CarriedInv' /\ RowsInv' /\ KeptInv' /\ RowsStay
    BY <1>1, <1>4, InvProject
  <2>3. Typed' /\ SnapInv'
    BY <1>1, <1>4, <2>1, <2>2, TypeProject, SnapStays
  <2> QED
    BY <2>2, <2>3, SMTT(40) DEF MailInv
<1>5. ASSUME NEW l \in Labels, Claim(l) \/ Expire(l) \/ Retire(l) \/ Drain(l)
      PROVE  MailInv' /\ RowsStay
  BY <1>1, <1>5, TypeReaders, InvReaders DEF MailInv
<1>6. CASE UNCHANGED vars
  <2>1. /\ Typed' /\ WorkInv' /\ CarrierInv' /\ CarriedInv' /\ RowsInv'
    BY <1>1, <1>6 DEF vars, Typed, WorkInv, CarrierInv, CarriedInv, RowsInv, InCarrier
  <2>2. KeptInv'
    BY <1>1, <1>6 DEF vars, KeptInv, TerminalKept, Kept, Spoilt, Position, Live, InCarrier
  <2>3. RowsStay /\ UNCHANGED <<relay, shown>>
    BY <1>6 DEF vars, RowsStay
  <2> QED
    BY <1>1, <2>1, <2>2, <2>3, SnapStays DEF MailInv
<1> QED
  BY <1>2, <1>3, <1>4, <1>5, <1>6 DEF Next, Post, Recipients

(* The invariant says what the runs check. *)
LEMMA MailInvSays == MailInv => TypeOK /\ OnePosition /\ TerminalKept
<1> SUFFICES ASSUME MailInv PROVE TypeOK /\ OnePosition /\ TerminalKept
  OBVIOUS
<1>1. Typed /\ CarrierInv /\ RowsInv /\ TerminalKept
  BY DEF MailInv, KeptInv
<1>2. ASSUME NEW i \in DOMAIN rows, InCarrier(rows[i].ev) PROVE rows[i].seq = Position(rows[i].ev)
  <2>1. rows[i].seq \in DOMAIN carrier /\ carrier[rows[i].seq] = rows[i].ev
    BY <1>1, <1>2 DEF RowsInv
  <2>2. Position(rows[i].ev) \in DOMAIN carrier /\ carrier[Position(rows[i].ev)] = rows[i].ev
    BY <1>1, <1>2, PositionOf DEF Typed
  <2> QED
    BY <1>1, <2>1, <2>2 DEF CarrierInv
<1>3. OnePosition
  BY <1>1, <1>2 DEF OnePosition, CarrierInv
<1> QED
  BY <1>1, <1>3, TypedOK

(* What a cursor passes, the relay that moved it saw visible: it has       *)
(* printed it or holds it.                                                 *)
LEMMA PassedStep ==
    ASSUME MailInv, [Next]_vars
    PROVE  \A l \in Labels : \A i \in Between(l, cursor'[l]) :
               <<l, rows[i].ev>> \in shown \/ Owed(l, i)'
<1>1. Typed /\ SnapInv
  BY DEF MailInv
<1>2. SUFFICES ASSUME NEW l \in Labels, NEW i \in Between(l, cursor'[l])
               PROVE  <<l, rows[i].ev>> \in shown \/ Owed(l, i)'
  OBVIOUS
<1>3. CASE cursor'[l] = cursor[l]
  <2>1. rows[i].seq \in (cursor[l] + 1)..cursor[l] /\ cursor[l] \in Nat
    BY <1>1, <1>2, <1>3 DEF Between, Typed
  <2> QED
    BY <2>1
<1>4. CASE Advance(l)
  <2>1. Unchanged(l) /\ cursor'[l] = relay[l].pos
    BY <1>1, <1>4 DEF Advance, Consume, Typed
  <2>2. Snapshot(l, relay[l].pos) = relay[l].snap /\ rows[i].up
    BY <1>2, <2>1 DEF Unchanged
  <2>3. <<i, rows[i].up>> \in relay[l].snap
    BY <1>2, <2>1, <2>2 DEF Snapshot
  <2>4. CASE relay[l].pc = "shown"
    BY <1>1, <2>2, <2>3, <2>4 DEF SnapInv
  <2>5. CASE relay[l].pc = "peeked"
    <3>1. relay'[l].pc = "passed" /\ relay'[l].snap = relay[l].snap
      BY <1>1, <1>4, <2>5 DEF Advance, NoRelay, Typed
    <3>2. rows[i] \in Row
      BY <1>1, LenProperties, ElementOfSeq DEF Between, Live, Typed
    <3>3. rows[i].up = TRUE
      BY <2>2, <3>2 DEF Row
    <3> QED
      BY <2>3, <3>1, <3>3 DEF Owed
  <2> QED
    BY <1>4, <2>4, <2>5 DEF Advance
<1>5. ASSUME NEW k \in Labels, Advance(k), k # l PROVE cursor'[l] = cursor[l]
  BY <1>1, <1>5 DEF Advance, Consume, Typed
<1>6. CASE UNCHANGED cursor
  BY <1>3, <1>6
<1>7. UNCHANGED cursor \/ \E k \in Labels : Advance(k)
  <2>1. ASSUME NEW e \in Terminals, CommitTerminal(e) PROVE UNCHANGED cursor
    BY <2>1 DEF CommitTerminal, readers
  <2>2. ASSUME \/ \E e \in Posts : BeginPost(e)
               \/ \E to \in Recipients : AssignPost(to) \/ MarkPost(to)
               \/ AppendPost \/ EndPost \/ PostDies
        PROVE  UNCHANGED cursor
    BY <2>2 DEF BeginPost, AssignPost, MarkPost, AppendPost, EndPost, PostDies, readers
  <2>3. ASSUME NEW p \in Projectors, Project(p) \/ StepRefused(p) \/ ProjectorDies(p)
        PROVE  UNCHANGED cursor
    <3>1. ASSUME NEW e \in Terminals, Pick(p, e) PROVE UNCHANGED cursor
      BY <3>1 DEF Pick, readers
    <3>2. ASSUME NEW to \in Recipients, AssignEvent(p, to) PROVE UNCHANGED cursor
      BY <3>2 DEF AssignEvent, readers
    <3>3. ASSUME AppendEvent(p) \/ ChooseTargets(p) \/ MarkEvent(p) \/ ReconcileRecipients(p)
          PROVE  UNCHANGED cursor
      BY <3>3 DEF AppendEvent, ChooseTargets, MarkEvent, ReconcileRecipients, readers
    <3>4. ASSUME \/ ConfirmProjected(p) \/ RecordFailure(p) \/ StepRefused(p) \/ ProjectorDies(p)
          PROVE  UNCHANGED cursor
      BY <3>4 DEF ConfirmProjected, RecordFailure, StepRefused, ProjectorDies, readers
    <3> QED
      BY <2>3, <3>1, <3>2, <3>3, <3>4 DEF Project, Recipients
  <2>4. ASSUME NEW k \in Labels,
               \/ Claim(k) \/ Expire(k) \/ Retire(k)
               \/ Peek(k) \/ PrintDrained(k) \/ Abandon(k)
        PROVE  UNCHANGED cursor
    BY <2>4 DEF Claim, Expire, Retire, Peek, PrintDrained, Abandon
  <2>5. ASSUME UNCHANGED vars PROVE UNCHANGED cursor
    BY <2>5 DEF vars
  <2> QED
    BY <2>1, <2>2, <2>3, <2>4, <2>5 DEF Next, Post, Drain, Recipients
<1> QED
  BY <1>3, <1>4, <1>5, <1>6, <1>7

-----------------------------------------------------------------------------
(* The records of journal, carrier and processes have their types, for any *)
(* number of controllers, projectors and events: no attempt is counted     *)
(* past the last, and a position is one of the carrier.                    *)
THEOREM TypeCorrect == Spec => []TypeOK
<1>1. Init => MailInv
  BY MailInit
<1>2. MailInv /\ [Next]_vars => MailInv'
  BY MailStep
<1>3. MailInv => TypeOK
  BY MailInvSays
<1> QED
  BY <1>1, <1>2, <1>3, PTL DEF Spec

(* The carrier holds an event once, and every row of an event points at    *)
(* its place: whichever projectors append, are refused, die and repeat.    *)
THEOREM OnePositionAlways == Spec => []OnePosition
<1>1. Init => MailInv
  BY MailInit
<1>2. MailInv /\ [Next]_vars => MailInv'
  BY MailStep
<1>3. MailInv => OnePosition
  BY MailInvSays
<1> QED
  BY <1>1, <1>2, <1>3, PTL DEF Spec

(* A projected terminal event was passed by a cursor or has a row that is  *)
(* not withdrawn, with the two exceptions TerminalKept names, for any      *)
(* number of projectors.                                                   *)
THEOREM TerminalKeptAlways == Spec => []TerminalKept
<1>1. Init => MailInv
  BY MailInit
<1>2. MailInv /\ [Next]_vars => MailInv'
  BY MailStep
<1>3. MailInv => TerminalKept
  BY MailInvSays
<1> QED
  BY <1>1, <1>2, <1>3, PTL DEF Spec

(* No cursor passes a live row that was not printed for its controller and *)
(* is not held by the JSON drain that moved the cursor, to print it next.  *)
THEOREM PassedOnlyShownAlways == Spec => PassedOnlyShown
<1>1. Init => MailInv
  BY MailInit
<1>2. MailInv /\ [Next]_vars => MailInv'
  BY MailStep
<1>3. MailInv /\ [Next]_vars =>
        [\A l \in Labels : \A i \in Between(l, cursor'[l]) :
            <<l, rows[i].ev>> \in shown \/ Owed(l, i)']_vars
  BY PassedStep
<1> QED
  BY <1>1, <1>2, <1>3, PTL DEF Spec, PassedOnlyShown

=============================================================================
