---------------------------- MODULE QueueProofs ----------------------------
(***************************************************************************)
(* Proofs about module Queue, for any number of drains, claims and faults. *)
(*                                                                         *)
(* A dispatch gets one worker because its attempt is started once; its     *)
(* work is kept because the files give way only to something final.  Both  *)
(* need what the files, the row and the processes say of one another.      *)
(***************************************************************************)
EXTENDS Queue, FiniteSetTheorems, TLAPS

(* The parts of TypeOK. *)
Tokens == {0} \cup Slots
TxnIds == {0} \cup Txns
Carriers == [st : {"none", "queued", "prepared"}, txn : TxnIds, rc : Nat, fails : Nat]
Claims == [held : BOOLEAN, tok : Tokens, started : BOOLEAN, intent : BOOLEAN,
           wpid : BOOLEAN, seen : BOOLEAN, txn : TxnIds, rc : Nat, fails : Nat]
Rows == [st : {"absent", "starting", "running"} \cup PreWorkerStates \cup Terminal,
         tok : Tokens, txn : TxnIds, wpid : BOOLEAN, rc : Nat, fails : Nat]
Attempts == [life : {"NONE", "PREPARED", "STARTING", "RUNNING", "FINAL"}, tok : Tokens]
Passes == [pc : {"idle", "peeked", "claimed", "launching", "exiting"},
           slot : Tokens, tok : Tokens, tried : {"no", "yes", "failed"}, hold : BOOLEAN]
Shelves == {"failed", "quarantine", "withdrawn"}

(* A drain that has claimed works on the slot of its claim. *)
DrainInv ==
    \A d \in Drains :
        drain[d].pc \in {"claimed", "launching", "exiting"} => drain[d].slot \in Slots

(* The journal's attempt was started for this slot and no other. *)
Begun(c) == child[c] \in {"starting", "intent", "spawned", "noted"} \/ worker[c] # "none"

StartedOnce ==
    /\ \A c, k \in Slots : Begun(c) /\ Begun(k) => c = k
    /\ (\E c \in Slots : Begun(c)) => att.life \notin {"NONE", "PREPARED"}

(* The ledger says terminal after the journal, and names a worker only     *)
(* when there has been one; so does a child that goes on after the spawn.  *)
RowInv ==
    /\ row.st \in Terminal => att.life = "FINAL"
    /\ row.wpid => Spawned
    /\ \A c \in Slots : child[c] \in {"spawned", "noted"} => worker[c] # "none"

(* The dispatch needs no file any more. *)
Closed == att.life = "FINAL" \/ shelf # {} \/ Spawned

(* A carrier that is not published has its claim beside it. *)
PreparedInv == carrier.st = "prepared" => Held # {} \/ Closed

QueueInv ==
    /\ TypeOK /\ DrainInv /\ StartedOnce /\ RowInv /\ WorkKept /\ PreparedInv

-----------------------------------------------------------------------------
(* TypeOK in the names of this module. *)
LEMMA Types ==
    TypeOK <=> /\ carrier \in Carriers /\ claim \in [Slots -> Claims] /\ row \in Rows
               /\ att \in Attempts /\ child \in [Slots -> {"none"} \cup Running \cup Exits]
               /\ worker \in [Slots -> {"none", "live", "dead"}]
               /\ drain \in [Drains -> Passes]
               /\ truth \in {"open", "complete", "unreadable"}
               /\ linked \in BOOLEAN /\ old \in BOOLEAN
               /\ shelf \subseteq Shelves /\ mishaps \in Nat
BY DEF TypeOK, Carriers, Claims, Rows, Attempts, Passes, Shelves, Tokens, TxnIds

(* The same of the next state. *)
LEMMA TypesNext ==
    TypeOK' <=> /\ carrier' \in Carriers /\ claim' \in [Slots -> Claims] /\ row' \in Rows
                /\ att' \in Attempts
                /\ child' \in [Slots -> {"none"} \cup Running \cup Exits]
                /\ worker' \in [Slots -> {"none", "live", "dead"}]
                /\ drain' \in [Drains -> Passes]
                /\ truth' \in {"open", "complete", "unreadable"}
                /\ linked' \in BOOLEAN /\ old' \in BOOLEAN
                /\ shelf' \subseteq Shelves /\ mishaps' \in Nat
BY DEF TypeOK, Carriers, Claims, Rows, Attempts, Passes, Shelves, Tokens, TxnIds

(* The empty file, row, claim and pass. *)
LEMMA Empties ==
    /\ NoCarrier \in Carriers /\ NoClaim \in Claims /\ NoRow \in Rows /\ Idle \in Passes
    /\ ~NoClaim.held /\ NoCarrier.st = "none" /\ Idle.pc = "idle"
    /\ NoRow.st = "absent" /\ ~NoRow.wpid
BY DEF NoCarrier, NoClaim, NoRow, Idle, Carriers, Claims, Rows, Passes, Tokens, TxnIds

(* One more element, at most one more to count. *)
LEMMA OneMore ==
    ASSUME NEW S, IsFiniteSet(S), NEW x
    PROVE  /\ IsFiniteSet(S \cup {x}) /\ Cardinality(S \cup {x}) \in Nat
           /\ Cardinality(S) \in Nat /\ Cardinality(S \cup {x}) <= Cardinality(S) + 1
<1>1. IsFiniteSet(S \cup {x})
      /\ Cardinality(S \cup {x}) = IF x \in S THEN Cardinality(S) ELSE Cardinality(S) + 1
  BY FS_AddElement
<1>2. Cardinality(S) \in Nat
  BY FS_CardinalityType
<1> QED
  BY <1>1, <1>2

(* There are more transaction ids than files and rows that could use one.  *)
LEMMA TxnLeft ==
    ASSUME TypeOK
    PROVE  (CHOOSE t \in FreshTxn : TRUE) \in Txns
<1> DEFINE Seen == {claim[c].txn : c \in Slots}
           Used == (Seen \cup {row.txn}) \cup {carrier.txn}
<1>1. IsFiniteSet(Slots) /\ Cardinality(Slots) \in Nat
  BY QueueAssumption, FS_CardinalityType
<1>2. IsFiniteSet(Seen) /\ Cardinality(Seen) <= Cardinality(Slots)
  <2> DEFINE f == [c \in Slots |-> claim[c].txn]
  <2>1. f \in Surjection(Slots, Seen)
    BY DEF Surjection
  <2> HIDE DEF f
  <2> QED
    BY <1>1, <2>1, FS_Surjection
<1> HIDE DEF Seen
<1>3. Cardinality(Seen) \in Nat
  BY <1>2, FS_CardinalityType
<1>4. /\ IsFiniteSet(Seen \cup {row.txn}) /\ Cardinality(Seen \cup {row.txn}) \in Nat
      /\ Cardinality(Seen \cup {row.txn}) <= Cardinality(Seen) + 1
  BY <1>2, OneMore
<1>5. IsFiniteSet(Used) /\ Cardinality(Used) <= Cardinality(Seen \cup {row.txn}) + 1
  BY <1>4, OneMore
<1>6. Cardinality(Used) \in Nat /\ Cardinality(Txns) \in Nat
  BY <1>5, QueueAssumption, FS_CardinalityType
<1>7. ~(Txns \subseteq Used)
  <2> SUFFICES ASSUME Txns \subseteq Used PROVE FALSE
    OBVIOUS
  <2>1. Cardinality(Txns) <= Cardinality(Used)
    BY <1>5, FS_Subset
  <2> QED
    BY <2>1, <1>1, <1>2, <1>3, <1>4, <1>5, <1>6, QueueAssumption
<1>8. FreshTxn = Txns \ Used
  BY DEF FreshTxn, Seen
<1>9. \E t \in FreshTxn : TRUE
  BY <1>7, <1>8
<1> QED
  BY <1>8, <1>9

-----------------------------------------------------------------------------
(* What the operations write has its type. *)

(* A dropped claim is not held; the others stay. *)
LEMMA DropType ==
    ASSUME TypeOK, NEW c \in Slots
    PROVE  /\ Drop(claim, c) \in [Slots -> Claims]
           /\ ~Drop(claim, c)[c].held
           /\ \A k \in Slots : k # c => Drop(claim, c)[k] = claim[k]
<1>1. claim \in [Slots -> Claims] /\ claim[c].tok \in Tokens
  BY Types DEF Claims
<1>2. [NoClaim EXCEPT !.tok = claim[c].tok] \in Claims
      /\ ~[NoClaim EXCEPT !.tok = claim[c].tok].held
  BY <1>1, Empties DEF Claims
<1> QED
  BY <1>1, <1>2 DEF Drop

(* A restore has a transaction id. *)
LEMMA RestoreTxnType ==
    ASSUME TypeOK
    PROVE  RestoreTxn \in TxnIds
<1>1. carrier.txn \in TxnIds /\ row.txn \in TxnIds
  BY Types DEF Carriers, Rows
<1> QED
  BY <1>1, TxnLeft DEF RestoreTxn, TxnIds

(* A terminal commit closes the attempt and names no new worker. *)
LEMMA CommitTerminalType ==
    ASSUME TypeOK, NEW tok \in Tokens, NEW state \in Terminal, CommitTerminal(tok, state)
    PROVE  /\ att' \in Attempts /\ row' \in Rows
           /\ att'.life = "FINAL" /\ row'.wpid = row.wpid
<1>1. att \in Attempts /\ row \in Rows
  BY Types
<1>2. att' \in Attempts /\ att'.life = "FINAL"
  BY <1>1 DEF CommitTerminal, Attempts
<1>3. row' \in Rows /\ row'.wpid = row.wpid
  BY <1>1 DEF CommitTerminal, Rows
<1> QED
  BY <1>2, <1>3

(* A quarantine marks the claim or puts it on the shelf. *)
LEMMA QuarantineType ==
    ASSUME TypeOK, NEW c \in Held, NEW stale, QuarantineIfOrphan(c, stale)
    PROVE  /\ claim' \in [Slots -> Claims] /\ shelf' \subseteq Shelves
           /\ shelf \subseteq shelf'
           /\ shelf' # {} \/ claim'[c].held
<1>1. c \in Slots /\ claim \in [Slots -> Claims] /\ claim[c].held /\ shelf \subseteq Shelves
  BY Types DEF Held
<1>2. CASE UNCHANGED <<claim, shelf>>
  BY <1>1, <1>2
<1>3. CASE claim' = [claim EXCEPT ![c].seen = TRUE] /\ UNCHANGED shelf
  <2>1. [claim[c] EXCEPT !.seen = TRUE] \in Claims
        /\ [claim[c] EXCEPT !.seen = TRUE].held = claim[c].held
    BY <1>1 DEF Claims
  <2> QED
    BY <1>1, <1>3, <2>1
<1>4. CASE claim' = Drop(claim, c) /\ shelf' = shelf \cup {"quarantine"}
  BY <1>1, <1>4, DropType DEF Shelves
<1> QED
  BY <1>2, <1>3, <1>4 DEF QuarantineIfOrphan

(* A finished claim is closed for good, or stays and is marked. *)
LEMMA CloseCompletedType ==
    ASSUME TypeOK, NEW c \in Held, NEW stale, CloseCompleted(c, stale)
    PROVE  /\ claim' \in [Slots -> Claims] /\ shelf' \subseteq Shelves
           /\ shelf \subseteq shelf'
           /\ att' \in Attempts /\ row' \in Rows
           /\ att'.life = "FINAL" /\ row'.wpid = row.wpid
<1>1. c \in Slots /\ claim[c].tok \in Tokens /\ shelf \subseteq Shelves
  BY Types DEF Held, Claims
<1>2. att' \in Attempts /\ row' \in Rows /\ att'.life = "FINAL" /\ row'.wpid = row.wpid
  BY <1>1, CommitTerminalType DEF CloseCompleted, Terminal
<1>3. /\ claim' \in [Slots -> Claims] /\ shelf' \subseteq Shelves
      /\ shelf \subseteq shelf'
  BY <1>1, DropType, QuarantineType DEF CloseCompleted
<1> QED
  BY <1>2, <1>3

(* A restore leaves a carrier; before its last write it leaves the claims. *)
LEMMA CommitRestoreType ==
    ASSUME TypeOK, NEW after \in [Slots -> Claims], NEW e, e.rc \in Nat, e.fails \in Nat,
           NEW stamp \in Nat, NEW writes \in 1..4, CommitRestore(after, e, stamp, writes)
    PROVE  /\ carrier' \in Carriers /\ row' \in Rows /\ claim' \in [Slots -> Claims]
           /\ UNCHANGED <<att, shelf>>
           /\ carrier'.st # "none" /\ (writes >= 3 => carrier'.st = "queued")
           /\ writes < 4 => claim' = claim
           /\ row'.wpid = row.wpid /\ (row'.st \in Terminal => row.st \in Terminal)
<1> DEFINE t == RestoreTxn
           count == IF writes = 4 THEN stamp ELSE 0
           target == IF carrier.st # "none" THEN carrier
                     ELSE [st |-> IF row.st = "queued" THEN "queued" ELSE "prepared",
                           txn |-> t, rc |-> e.rc, fails |-> e.fails]
           sent == IF writes >= 3 THEN [target EXCEPT !.st = "queued"] ELSE target
           mark == IF writes >= 2 /\ ~(row.st = "queued" /\ row.txn = t)
                   THEN [row EXCEPT !.st = "queued", !.txn = t, !.rc = target.rc,
                                    !.tok = IF row.st = "queued" THEN @ ELSE 0]
                   ELSE row
<1>1. /\ carrier \in Carriers /\ row \in Rows /\ claim \in [Slots -> Claims]
      /\ t \in TxnIds /\ count \in Nat
  BY Types, RestoreTxnType
<1>2. target \in Carriers /\ target.st # "none"
  BY <1>1 DEF Carriers
<1>3. sent \in Carriers /\ sent.st # "none" /\ (writes >= 3 => sent.st = "queued")
  BY <1>2 DEF Carriers
<1>4. target.rc \in Nat
  BY <1>2 DEF Carriers
<1>5. mark \in Rows /\ mark.wpid = row.wpid /\ (mark.st \in Terminal => row.st \in Terminal)
  <2>1. CASE ~(writes >= 2 /\ ~(row.st = "queued" /\ row.txn = t))
    BY <1>1, <2>1
  <2>2. CASE writes >= 2 /\ ~(row.st = "queued" /\ row.txn = t)
    <3>1. mark = [row EXCEPT !.st = "queued", !.txn = t, !.rc = target.rc,
                             !.tok = IF row.st = "queued" THEN row.tok ELSE 0]
      BY <2>2
    <3> HIDE DEF mark, target, t
    <3>2. mark \in Rows
      BY <1>1, <1>4, <3>1 DEF Rows, PreWorkerStates, Tokens
    <3>3. mark.wpid = row.wpid /\ mark.st = "queued"
      BY <1>1, <3>1 DEF Rows
    <3> QED
      BY <3>2, <3>3 DEF Terminal
  <2> QED
    BY <2>1, <2>2
<1>6. carrier' = Counted(sent, count) /\ row' = Counted(mark, count)
      /\ claim' = (IF writes = 4 THEN after ELSE claim) /\ UNCHANGED <<att, shelf>>
  BY DEF CommitRestore
<1> HIDE DEF sent, mark, count, target, t
<1>7. carrier' \in Carriers /\ carrier'.st = sent.st
  BY <1>1, <1>3, <1>6 DEF Counted, Carriers
<1>8. row' \in Rows /\ row'.wpid = mark.wpid /\ row'.st = mark.st
  BY <1>1, <1>5, <1>6 DEF Counted, Rows
<1> QED
  BY <1>1, <1>3, <1>5, <1>6, <1>7, <1>8

(* A withdrawn carrier is none. *)
LEMMA UnlinkType ==
    ASSUME TypeOK, UnlinkRestoreTarget
    PROVE  carrier' \in Carriers /\ (carrier'.st = "none" \/ carrier' = carrier)
BY Types, Empties DEF UnlinkRestoreTarget

(* A row of a launch. *)
LEMMA RecordType ==
    ASSUME TypeOK, NEW c \in Slots,
           NEW state \in {"absent", "starting", "running"} \cup PreWorkerStates \cup Terminal
    PROVE  /\ Record(c, state) \in Rows
           /\ [Record(c, state) EXCEPT !.wpid = TRUE] \in Rows
           /\ Record(c, state).st = state /\ ~Record(c, state).wpid
           /\ [Record(c, state) EXCEPT !.wpid = TRUE].st = state
<1>1. claim[c].tok \in Tokens
  BY Types DEF Claims
<1> QED
  BY <1>1, Empties DEF Record, Rows

(* Where drains and children go. *)
LEMMA PassTypes ==
    ASSUME TypeOK, NEW d \in Drains
    PROVE  /\ Return(d) => /\ drain' \in [Drains -> Passes]
                           /\ \A e \in Drains : drain'[e] = IF e = d THEN Idle ELSE drain[e]
           /\ \A p \in {"claimed", "launching", "exiting"} :
                Goto(d, p) => /\ drain' \in [Drains -> Passes]
                              /\ \A e \in Drains : drain'[e].slot = drain[e].slot
                              /\ \A e \in Drains : e # d => drain'[e] = drain[e]
           /\ \A tried \in {"yes", "failed"}, hold \in BOOLEAN :
                GiveBack(d, tried, hold) =>
                    /\ drain' \in [Drains -> Passes]
                    /\ \A e \in Drains : drain'[e].slot = drain[e].slot
                    /\ \A e \in Drains : e # d => drain'[e] = drain[e]
<1>1. drain \in [Drains -> Passes] /\ drain[d] \in Passes
  BY Types
<1>2. \A p \in {"claimed", "launching", "exiting"} :
        [drain[d] EXCEPT !.pc = p] \in Passes
        /\ [drain[d] EXCEPT !.pc = p].slot = drain[d].slot
  BY <1>1 DEF Passes
<1>3. \A tried \in {"yes", "failed"}, hold \in BOOLEAN :
        [drain[d] EXCEPT !.pc = "exiting", !.tried = tried, !.hold = hold] \in Passes
        /\ [drain[d] EXCEPT !.pc = "exiting", !.tried = tried, !.hold = hold].slot
             = drain[d].slot
  BY <1>1 DEF Passes
<1>4. Return(d) => /\ drain' \in [Drains -> Passes]
                   /\ \A e \in Drains : drain'[e] = IF e = d THEN Idle ELSE drain[e]
  BY <1>1, Empties DEF Return
<1>5. ASSUME NEW p \in {"claimed", "launching", "exiting"}, Goto(d, p)
      PROVE  /\ drain' \in [Drains -> Passes]
             /\ \A e \in Drains : drain'[e].slot = drain[e].slot
             /\ \A e \in Drains : e # d => drain'[e] = drain[e]
  <2>1. drain' = [drain EXCEPT ![d] = [drain[d] EXCEPT !.pc = p]]
    BY <1>5 DEF Goto
  <2> QED
    BY <1>1, <1>2, <2>1
<1>6. ASSUME NEW tried \in {"yes", "failed"}, NEW hold \in BOOLEAN, GiveBack(d, tried, hold)
      PROVE  /\ drain' \in [Drains -> Passes]
             /\ \A e \in Drains : drain'[e].slot = drain[e].slot
             /\ \A e \in Drains : e # d => drain'[e] = drain[e]
  <2>1. drain' = [drain EXCEPT ![d] = [drain[d] EXCEPT !.pc = "exiting", !.tried = tried,
                                                       !.hold = hold]]
    BY <1>6 DEF GiveBack
  <2> QED
    BY <1>1, <1>3, <2>1
<1> QED
  BY <1>4, <1>5, <1>6

(* A mishap is counted. *)
LEMMA MishapType ==
    ASSUME TypeOK, NEW kind
    PROVE  /\ Mishap(kind) => mishaps' \in Nat
           /\ \A n \in 1..4 : Cut(n) => mishaps' \in Nat
BY Types DEF Mishap, Cut

(* The count of failed launches is a number. *)
LEMMA FailureType ==
    ASSUME TypeOK, NEW d \in Drains, drain[d].slot \in Slots
    PROVE  FailureCount(d) \in Nat /\ Stamp(d) \in Nat
<1>1. claim[drain[d].slot].fails \in Nat /\ row.fails \in Nat
  BY Types DEF Claims, Rows
<1> QED
  BY <1>1 DEF FailureCount, Stamp

-----------------------------------------------------------------------------
(* What a step may change without disturbing the invariant. *)

(* In every state a published carrier, a claim or an end. *)
LEMMA FileThere == QueueInv => carrier.st = "queued" \/ Held # {} \/ Closed
<1> SUFFICES ASSUME QueueInv PROVE carrier.st = "queued" \/ Held # {} \/ Closed
  OBVIOUS
<1>1. carrier.st \in {"none", "queued", "prepared"}
  BY Types DEF QueueInv, Carriers
<1> QED
  BY <1>1 DEF QueueInv, WorkKept, PreparedInv, Closed

(* No attempt is started, none is reopened, no worker forgotten, and the   *)
(* files give way only to an end.                                          *)
LEMMA Keeps ==
    ASSUME QueueInv, TypeOK', DrainInv',
           att.life = "FINAL" => att'.life = "FINAL",
           att.life \notin {"NONE", "PREPARED"} => att'.life \notin {"NONE", "PREPARED"},
           \A k \in Slots : Begun(k)' => Begun(k),
           RowInv', carrier'.st = "queued" \/ Held' # {} \/ Closed'
    PROVE  QueueInv'
<1>1. StartedOnce'
  BY DEF QueueInv, StartedOnce
<1>2. WorkKept' /\ PreparedInv'
  BY DEF WorkKept, PreparedInv, Closed
<1> QED
  BY <1>1, <1>2 DEF QueueInv

(* The same for a step of a drain that leaves all processes alone. *)
LEMMA Still ==
    ASSUME QueueInv, UNCHANGED <<child, worker, world>>,
           carrier' \in Carriers, claim' \in [Slots -> Claims], row' \in Rows,
           att' \in Attempts, drain' \in [Drains -> Passes], DrainInv',
           shelf' \subseteq Shelves, mishaps' \in Nat,
           att' = att \/ att'.life = "FINAL", row'.wpid => row.wpid,
           row'.st \in Terminal => row.st \in Terminal \/ att'.life = "FINAL",
           carrier'.st = "queued" \/ Held' # {} \/ Closed'
    PROVE  QueueInv'
<1>1. TypeOK'
  BY TypesNext, Types DEF QueueInv, world
<1>2. \A k \in Slots : Begun(k)' => Begun(k)
  BY DEF Begun
<1>3. RowInv'
  BY DEF QueueInv, RowInv, Spawned
<1> QED
  BY <1>1, <1>2, <1>3, Keeps

(* What is true of the files and of the drains while they do not change. *)
LEMMA Facts ==
    ASSUME QueueInv
    PROVE  /\ carrier \in Carriers /\ claim \in [Slots -> Claims] /\ row \in Rows
           /\ att \in Attempts /\ drain \in [Drains -> Passes]
           /\ shelf \subseteq Shelves /\ mishaps \in Nat
           /\ UNCHANGED drain => DrainInv'
           /\ \A c \in Held : c \in Slots /\ claim[c].held /\ claim[c].tok \in Tokens
           /\ row.tok \in Tokens
           /\ TypeOK
BY Types DEF QueueInv, DrainInv, Held, Claims, Rows

-----------------------------------------------------------------------------
(* Recovery *)

(* A drain recovers a claim that nobody owns. *)
LEMMA InvRecoverClaim ==
    ASSUME QueueInv, NEW d \in Drains, NEW c \in Slots,
           \/ ClearLiveCarrier(d, c) \/ RecoverSettled(d, c) \/ RecoverCompleted(d, c)
           \/ RecoverRestore(d, c) \/ RecoverUnlinked(d, c) \/ RecoverDead(d, c)
    PROVE  QueueInv'
<1> USE DEF files, env, world
<1>1. c \in Held
  BY DEF ClearLiveCarrier, RecoverSettled, RecoverCompleted, RecoverRestore,
         RecoverUnlinked, RecoverDead, RecoverOpen, Recovering
<1>2. CASE ClearLiveCarrier(d, c)
  <2>1. Closed'
    BY <1>2 DEF ClearLiveCarrier, Closed, Spawned
  <2>2. claim' \in [Slots -> Claims]
    BY <1>2, DropType, Facts DEF ClearLiveCarrier
  <2> QED
    BY <1>2, <2>1, <2>2, Still, Facts DEF ClearLiveCarrier
<1>3. CASE RecoverSettled(d, c)
  <2>1. Closed'
    BY <1>3 DEF RecoverSettled, OwnTerminalRow, QueueInv, RowInv, Closed
  <2>2. claim' \in [Slots -> Claims] /\ shelf' \subseteq Shelves
    BY <1>1, <1>3, DropType, QuarantineType, Facts DEF RecoverSettled
  <2> QED
    BY <1>3, <2>1, <2>2, Still, Facts DEF RecoverSettled
<1>4. CASE RecoverCompleted(d, c)
  <2>1. CloseCompleted(c, old)
    BY <1>4 DEF RecoverCompleted
  <2>2. /\ claim' \in [Slots -> Claims] /\ shelf' \subseteq Shelves
        /\ att' \in Attempts /\ row' \in Rows
        /\ att'.life = "FINAL" /\ row'.wpid = row.wpid
    BY <1>1, <2>1, CloseCompletedType, Facts
  <2>3. Closed'
    BY <2>2 DEF Closed
  <2> QED
    BY <1>4, <2>2, <2>3, Still, Facts DEF RecoverCompleted
<1>5. CASE RecoverRestore(d, c)
  <2>1. PICK n \in 1..4 :
          /\ Cut(n)
          /\ CommitRestore(Drop(claim, c), [claim[c] EXCEPT !.rc = @ + 1], 0, n)
          /\ UNCHANGED <<child, worker, drain, world>>
    BY <1>5 DEF RecoverRestore
  <2> DEFINE e == [claim[c] EXCEPT !.rc = @ + 1]
  <2>2. e.rc \in Nat /\ e.fails \in Nat
    BY Facts DEF Claims
  <2>3. Drop(claim, c) \in [Slots -> Claims]
    BY DropType, Facts
  <2> HIDE DEF e
  <2>4. CommitRestore(Drop(claim, c), e, 0, n)
    BY <2>1 DEF e
  <2>5. /\ carrier' \in Carriers /\ row' \in Rows /\ claim' \in [Slots -> Claims]
        /\ UNCHANGED <<att, shelf>>
        /\ carrier'.st # "none" /\ (n >= 3 => carrier'.st = "queued")
        /\ n < 4 => claim' = claim
        /\ row'.wpid = row.wpid /\ (row'.st \in Terminal => row.st \in Terminal)
    BY <2>2, <2>3, <2>4, CommitRestoreType, Facts
  <2>6. carrier'.st = "queued" \/ Held' # {}
    BY <1>1, <2>5 DEF Held
  <2>7. mishaps' \in Nat
    BY <2>1, MishapType, Facts
  <2> QED
    BY <2>1, <2>5, <2>6, <2>7, Still, Facts
<1>6. CASE RecoverUnlinked(d, c)
  <2>1. /\ claim' \in [Slots -> Claims] /\ shelf' \subseteq Shelves
        /\ shelf' # {} \/ claim'[c].held
    BY <1>1, <1>6, QuarantineType, Facts DEF RecoverUnlinked
  <2>2. Held' # {} \/ Closed'
    BY <2>1 DEF Held, Closed
  <2> QED
    BY <1>6, <2>1, <2>2, Still, Facts DEF RecoverUnlinked
<1>7. CASE RecoverDead(d, c)
  <2>1. claim' \in [Slots -> Claims]
    BY <1>7, DropType, Facts DEF RecoverDead
  <2>2. CASE carrier.st = "queued"
    BY <1>7, <2>1, <2>2, Still, Facts DEF RecoverDead
  <2>3. CASE carrier.st # "queued"
    <3>1. CommitTerminal(claim[c].tok, "ended")
      BY <1>7, <2>3 DEF RecoverDead
    <3>2. att' \in Attempts /\ row' \in Rows /\ att'.life = "FINAL" /\ row'.wpid = row.wpid
      BY <1>1, <3>1, CommitTerminalType, Facts DEF Terminal
    <3>3. Closed'
      BY <3>2 DEF Closed
    <3> QED
      BY <1>7, <2>1, <3>2, <3>3, Still, Facts DEF RecoverDead
  <2> QED
    BY <2>2, <2>3
<1> QED
  BY <1>2, <1>3, <1>4, <1>5, <1>6, <1>7

(* A drain mends a row, a prepared carrier or a final attempt. *)
LEMMA InvRecoverRow ==
    ASSUME QueueInv, NEW d \in Drains,
           RepublishCarrier(d) \/ CloseOrphanRow(d) \/ ResumeRestore(d) \/ SettleFinal(d)
    PROVE  QueueInv'
<1> USE DEF files, env, world
<1>1. CASE RepublishCarrier(d)
  <2> DEFINE t == CHOOSE x \in FreshTxn : TRUE
  <2>1. t \in TxnIds
    BY TxnLeft, Facts DEF TxnIds
  <2> HIDE DEF t
  <2>2. PICK n \in {2, 4} :
          /\ Cut(n)
          /\ carrier' = [st |-> "queued", txn |-> t, rc |-> row.rc, fails |-> row.fails]
          /\ row' = IF n = 2 THEN row
                    ELSE [row EXCEPT !.st = "queued", !.tok = 0, !.txn = t]
          /\ UNCHANGED <<claim, att, child, worker, drain, world, shelf>>
    BY <1>1 DEF RepublishCarrier, t
  <2>3. carrier' \in Carriers /\ carrier'.st = "queued"
    BY <2>1, <2>2, Facts DEF Carriers, Rows
  <2>4. row' \in Rows /\ row'.wpid = row.wpid /\ (row'.st \in Terminal => row.st \in Terminal)
    BY <2>1, <2>2, Facts DEF Rows, PreWorkerStates, Terminal, Tokens
  <2>5. mishaps' \in Nat
    BY <2>2, MishapType, Facts
  <2> QED
    BY <2>2, <2>3, <2>4, <2>5, Still, Facts
<1>2. CASE CloseOrphanRow(d)
  <2>1. att' \in Attempts /\ row' \in Rows /\ att'.life = "FINAL" /\ row'.wpid = row.wpid
    BY <1>2, CommitTerminalType, Facts DEF CloseOrphanRow, Terminal
  <2>2. Closed'
    BY <2>1 DEF Closed
  <2> QED
    BY <1>2, <2>1, <2>2, Still, Facts DEF CloseOrphanRow
<1>3. CASE ResumeRestore(d)
  <2>1. PICK n \in {2, 4} :
          /\ Cut(n)
          /\ carrier.st = "prepared"
          /\ IF RestoreBlocked(0, carrier.txn)
             THEN n = 4 /\ UnlinkRestoreTarget /\ UNCHANGED <<claim, row, att, shelf>>
             ELSE CommitRestore(claim, carrier, 0, n)
          /\ UNCHANGED <<child, worker, drain, world>>
    BY <1>3 DEF ResumeRestore
  <2>2. mishaps' \in Nat
    BY <2>1, MishapType, Facts
  <2>3. Held # {} \/ Closed
    BY <2>1, FileThere
  <2>4. CASE RestoreBlocked(0, carrier.txn)
    <3>1. carrier' \in Carriers
      BY <2>1, <2>4, UnlinkType, Facts
    <3>2. Held' # {} \/ Closed'
      BY <2>1, <2>3, <2>4 DEF Held, Closed, Spawned
    <3> QED
      BY <2>1, <2>2, <2>4, <3>1, <3>2, Still, Facts
  <2>5. CASE ~RestoreBlocked(0, carrier.txn)
    <3>1. carrier.rc \in Nat /\ carrier.fails \in Nat
      BY Facts DEF Carriers
    <3>2. /\ carrier' \in Carriers /\ row' \in Rows /\ claim' \in [Slots -> Claims]
          /\ UNCHANGED <<att, shelf>>
          /\ (n >= 3 => carrier'.st = "queued")
          /\ n < 4 => claim' = claim
          /\ row'.wpid = row.wpid /\ (row'.st \in Terminal => row.st \in Terminal)
      BY <2>1, <2>5, <3>1, CommitRestoreType, Facts
    <3>3. carrier'.st = "queued" \/ Held' # {} \/ Closed'
      BY <2>1, <2>3, <3>2 DEF Held, Closed, Spawned
    <3> QED
      BY <2>1, <2>2, <3>2, <3>3, Still, Facts
  <2> QED
    BY <2>4, <2>5
<1>4. CASE SettleFinal(d)
  <2>1. Closed' /\ att.life = "FINAL"
    BY <1>4 DEF SettleFinal, Closed
  <2>2. claim' \in [Slots -> Claims]
    <3>1. \A c \in Slots : [NoClaim EXCEPT !.tok = claim[c].tok] \in Claims
      BY Facts, Empties DEF Claims
    <3> QED
      BY <1>4, <3>1 DEF SettleFinal
  <2>3. row' \in Rows /\ row'.wpid = row.wpid
    BY <1>4, Facts DEF SettleFinal, Rows, Terminal
  <2>4. carrier' \in Carriers /\ shelf' \subseteq Shelves
    BY <1>4, Facts, Empties DEF SettleFinal, Shelves
  <2> QED
    BY <1>4, <2>1, <2>2, <2>3, <2>4, Still, Facts DEF SettleFinal
<1> QED
  BY <1>1, <1>2, <1>3, <1>4

-----------------------------------------------------------------------------
(* The drain's launch *)

(* A drain that returns, or goes on with the slot it has. *)
LEMMA DrainStep ==
    ASSUME QueueInv, NEW d \in Drains,
           \/ Return(d)
           \/ \E p \in {"launching", "exiting"} : Goto(d, p) /\ ~At(d, "idle") /\ ~At(d, "peeked")
           \/ \E tried \in {"yes", "failed"}, hold \in BOOLEAN :
                GiveBack(d, tried, hold) /\ At(d, "launching")
    PROVE  drain' \in [Drains -> Passes] /\ DrainInv'
<1>1. drain[d].pc \in {"idle", "peeked", "claimed", "launching", "exiting"}
  BY Facts DEF Passes
<1>2. CASE Return(d)
  BY <1>2, PassTypes, Facts, Empties DEF QueueInv, DrainInv
<1>3. ASSUME NEW p \in {"launching", "exiting"}, Goto(d, p), ~At(d, "idle"), ~At(d, "peeked")
      PROVE  drain' \in [Drains -> Passes] /\ DrainInv'
  <2>1. drain[d].slot \in Slots
    BY <1>1, <1>3 DEF QueueInv, DrainInv, At
  <2>2. /\ drain' \in [Drains -> Passes]
        /\ \A e \in Drains : drain'[e].slot = drain[e].slot
        /\ \A e \in Drains : e # d => drain'[e] = drain[e]
    BY <1>3, PassTypes, Facts
  <2> QED
    BY <2>1, <2>2 DEF QueueInv, DrainInv
<1>4. ASSUME NEW tried \in {"yes", "failed"}, NEW hold \in BOOLEAN,
             GiveBack(d, tried, hold), At(d, "launching")
      PROVE  drain' \in [Drains -> Passes] /\ DrainInv'
  <2>1. drain[d].slot \in Slots
    BY <1>4 DEF QueueInv, DrainInv, At
  <2>2. /\ drain' \in [Drains -> Passes]
        /\ \A e \in Drains : drain'[e].slot = drain[e].slot
        /\ \A e \in Drains : e # d => drain'[e] = drain[e]
    BY <1>4, PassTypes, Facts
  <2> QED
    BY <2>1, <2>2 DEF QueueInv, DrainInv
<1> QED
  BY <1>2, <1>3, <1>4

(* Files that do not change. *)
LEMMA FilesStay ==
    ASSUME QueueInv, UNCHANGED <<carrier, shelf>>, att.life = "FINAL" => att'.life = "FINAL",
           \A k \in Slots : claim'[k].held = claim[k].held,
           \A k \in Slots : worker[k] # "none" => worker'[k] # "none"
    PROVE  carrier'.st = "queued" \/ Held' # {} \/ Closed'
BY FileThere DEF Held, Closed, Spawned

(* A drain reads the token and claims the carrier. *)
LEMMA InvClaim ==
    ASSUME QueueInv, NEW d \in Drains, PeekToken(d) \/ ClaimEntry(d)
    PROVE  QueueInv'
<1> USE DEF files, env, world
<1>1. CASE PeekToken(d)
  <2> DEFINE p == [Idle EXCEPT !.pc = "peeked",
                               !.tok = IF att.life = "PREPARED" THEN att.tok ELSE 0]
  <2>1. p \in Passes /\ p.pc = "peeked"
    BY Facts, Empties DEF Passes, Attempts, Tokens
  <2>2. drain' = [drain EXCEPT ![d] = p]
    BY <1>1 DEF PeekToken
  <2> HIDE DEF p
  <2>3. drain' \in [Drains -> Passes] /\ DrainInv'
    BY <2>1, <2>2, Facts DEF QueueInv, DrainInv
  <2>4. carrier'.st = "queued"
    BY <1>1 DEF PeekToken
  <2> QED
    BY <1>1, <2>3, <2>4, Still, Facts DEF PeekToken
<1>2. CASE ClaimEntry(d) /\ carrier.st = "none"
  <2>1. Return(d) /\ UNCHANGED <<carrier, claim, shelf, row, att, child, worker, env>>
    BY <1>2 DEF ClaimEntry
  <2>2. drain' \in [Drains -> Passes] /\ DrainInv'
    BY <2>1, DrainStep
  <2>3. carrier'.st = "queued" \/ Held' # {} \/ Closed'
    BY <2>1, FilesStay
  <2> QED
    BY <2>1, <2>2, <2>3, Still, Facts
<1>3. CASE ClaimEntry(d) /\ carrier.st # "none"
  <2> DEFINE c == CHOOSE k \in Slots : Unused(k)
             e == [NoClaim EXCEPT !.held = TRUE, !.txn = carrier.txn,
                     !.rc = carrier.rc, !.fails = carrier.fails,
                     !.tok = IF drain[d].tok = 0 THEN c ELSE drain[d].tok]
             p == [drain[d] EXCEPT !.pc = "claimed", !.slot = c]
  <2>1. c \in Slots
    BY <1>3 DEF ClaimEntry
  <2>2. /\ claim' = [claim EXCEPT ![c] = e] /\ carrier' = NoCarrier
        /\ drain' = [drain EXCEPT ![d] = p]
        /\ UNCHANGED <<shelf, row, att, child, worker, env>>
    BY <1>3 DEF ClaimEntry
  <2> HIDE DEF c
  <2>3. e \in Claims /\ e.held
    BY <2>1, Facts, Empties DEF Claims, Carriers, Passes, Tokens
  <2>4. p \in Passes /\ p.slot = c
    BY <2>1, Facts DEF Passes, Tokens
  <2> HIDE DEF e, p
  <2>5. claim' \in [Slots -> Claims] /\ Held' # {}
    BY <2>1, <2>2, <2>3, Facts DEF Held
  <2>6. drain' \in [Drains -> Passes] /\ DrainInv'
    BY <2>1, <2>2, <2>4, Facts DEF QueueInv, DrainInv
  <2> QED
    BY <2>2, <2>5, <2>6, Still, Facts, Empties
<1> QED
  BY <1>1, <1>2, <1>3

(* A child that starts, moves, or ends, with the claims as they were. *)
LEMMA Moves ==
    ASSUME QueueInv, UNCHANGED <<carrier, shelf, world>>, mishaps' \in Nat,
           drain' \in [Drains -> Passes], DrainInv', claim' \in [Slots -> Claims],
           row' \in Rows, att' \in Attempts,
           child' \in [Slots -> {"none"} \cup Running \cup Exits],
           worker' \in [Slots -> {"none", "live", "dead"}],
           \A k \in Slots : worker[k] # "none" => worker'[k] # "none",
           \A k \in Slots : claim'[k].held = claim[k].held,
           att.life = "FINAL" => att'.life = "FINAL",
           att.life \notin {"NONE", "PREPARED"} => att'.life \notin {"NONE", "PREPARED"},
           \A k \in Slots : Begun(k)' => Begun(k), RowInv'
    PROVE  QueueInv'
<1>1. TypeOK'
  BY TypesNext, Types DEF QueueInv, world
<1>2. carrier'.st = "queued" \/ Held' # {} \/ Closed'
  BY FilesStay
<1> QED
  BY <1>1, <1>2, Keeps

(* One child changes its place. *)
LEMMA ChildStep ==
    ASSUME QueueInv, NEW c \in Slots, NEW to \in {"none"} \cup Running \cup Exits,
           child' = [child EXCEPT ![c] = to],
           to \in {"starting", "intent", "spawned", "noted"} => Begun(c),
           to \in {"spawned", "noted"} => worker'[c] # "none",
           \A k \in Slots : worker'[k] # "none" <=> worker[k] # "none",
           row'.st \in Terminal => att'.life = "FINAL", row'.wpid => Spawned
    PROVE  /\ child' \in [Slots -> {"none"} \cup Running \cup Exits]
           /\ \A k \in Slots : Begun(k)' => Begun(k)
           /\ RowInv'
<1>1. child \in [Slots -> {"none"} \cup Running \cup Exits]
  BY Types DEF QueueInv
<1>2. child' \in [Slots -> {"none"} \cup Running \cup Exits]
      /\ \A k \in Slots : child'[k] = IF k = c THEN to ELSE child[k]
  BY <1>1
<1>3. \A k \in Slots : Begun(k)' => Begun(k)
  BY <1>2 DEF Begun
<1>4. RowInv'
  BY <1>2 DEF QueueInv, RowInv, Spawned
<1> QED
  BY <1>2, <1>3, <1>4

(* A drain launches the child and reads how it ended. *)
LEMMA InvLaunch ==
    ASSUME QueueInv, NEW d \in Drains,
           LaunchChild(d) \/ ConcludeLaunch(d) \/ LaunchTimeout(d)
    PROVE  QueueInv'
<1> USE DEF files, env, world
<1> DEFINE c == drain[d].slot
<1>1. c \in Slots
  BY DEF LaunchChild, ConcludeLaunch, LaunchTimeout, At, QueueInv, DrainInv
<1>2. row.st \in Terminal => att.life = "FINAL"
  BY DEF QueueInv, RowInv
<1>3. row.wpid => Spawned
  BY DEF QueueInv, RowInv
<1> HIDE DEF c
<1>4. child \in [Slots -> {"none"} \cup Running \cup Exits]
      /\ worker \in [Slots -> {"none", "live", "dead"}]
  BY Types DEF QueueInv
<1>5. CASE LaunchChild(d)
  <2>1. UNCHANGED <<carrier, claim, shelf, row, att, worker, env>>
    BY <1>5 DEF LaunchChild
  <2>2. drain' \in [Drains -> Passes] /\ DrainInv'
    BY <1>5, DrainStep DEF LaunchChild, At
  <2>3. CASE child' = [child EXCEPT ![c] = "born"]
    <3>1. /\ child' \in [Slots -> {"none"} \cup Running \cup Exits]
          /\ \A k \in Slots : Begun(k)' => Begun(k)
          /\ RowInv'
      BY <1>1, <1>2, <1>3, <2>1, <2>3, ChildStep DEF Running
    <3> QED
      BY <1>4, <2>1, <2>2, <3>1, Moves, Facts
  <2>4. CASE UNCHANGED child
    BY <2>1, <2>2, <2>4, FilesStay, Still, Facts
  <2> QED
    BY <1>5, <2>3, <2>4 DEF LaunchChild, c
<1>6. CASE ConcludeLaunch(d) \/ LaunchTimeout(d)
  <2>1. /\ UNCHANGED <<carrier, row, att, worker, world>>
        /\ child' = [child EXCEPT ![c] = "none"] /\ At(d, "launching")
    BY <1>6 DEF ConcludeLaunch, LaunchTimeout, c
  <2>2. mishaps' \in Nat
    BY <1>6, MishapType, Facts DEF ConcludeLaunch, LaunchTimeout
  <2>3. drain' \in [Drains -> Passes] /\ DrainInv'
    BY <1>6, DrainStep DEF ConcludeLaunch, LaunchTimeout, ConsumeConfirmed
  <2>4. /\ child' \in [Slots -> {"none"} \cup Running \cup Exits]
        /\ \A k \in Slots : Begun(k)' => Begun(k)
        /\ RowInv'
    BY <1>1, <1>2, <1>3, <2>1, ChildStep
  <2>5. CASE UNCHANGED <<claim, shelf>>
    BY <1>4, <2>1, <2>2, <2>3, <2>4, <2>5, Moves, Facts
  <2>6. CASE HasWorkerRecord(c) /\ (claim' = claim \/ claim' = Drop(claim, c)) /\ UNCHANGED shelf
    <3>1. Closed'
      BY <1>3, <2>1, <2>6 DEF HasWorkerRecord, Closed, Spawned
    <3>2. claim' \in [Slots -> Claims]
      BY <1>1, <2>6, DropType, Facts
    <3>3. TypeOK'
      BY <1>4, <2>1, <2>2, <2>3, <2>4, <2>6, <3>2, Facts, Types, TypesNext
    <3> QED
      BY <2>1, <2>3, <2>4, <3>1, <3>3, Keeps
  <2>7. CASE claim' = Drop(claim, c) /\ shelf' = shelf \cup {"failed"}
    <3>1. Closed'
      BY <2>7 DEF Closed
    <3>2. claim' \in [Slots -> Claims] /\ shelf' \subseteq Shelves
      BY <1>1, <2>7, DropType, Facts DEF Shelves
    <3>3. TypeOK'
      BY <1>4, <2>1, <2>2, <2>3, <2>4, <3>2, Facts, Types, TypesNext
    <3> QED
      BY <2>1, <2>3, <2>4, <3>1, <3>3, Keeps
  <2> QED
    BY <1>6, <2>5, <2>6, <2>7 DEF ConcludeLaunch, LaunchTimeout, ConsumeConfirmed, c
<1> QED
  BY <1>5, <1>6

(* The claim guard's exit. *)
LEMMA InvExit ==
    ASSUME QueueInv, NEW d \in Drains,
           \/ ExitHeld(d) \/ ExitFailed(d) \/ ExitRestore(d) \/ ExitBlocked(d)
           \/ ExitDeferred(d) \/ ExitPending(d)
    PROVE  QueueInv'
<1> USE DEF files, env, world
<1> DEFINE c == drain[d].slot
<1>1. Return(d) /\ UNCHANGED <<child, worker, world>> /\ At(d, "exiting")
  BY DEF ExitHeld, ExitFailed, ExitRestore, ExitBlocked, ExitDeferred, ExitPending, Exiting
<1>2. c \in Slots
  BY <1>1 DEF QueueInv, DrainInv, At
<1>3. drain' \in [Drains -> Passes] /\ DrainInv'
  BY <1>1, DrainStep
<1>4. claim[c] \in Claims /\ claim[c].tok \in Tokens
  BY <1>2, Facts DEF Claims
<1>5. FailureCount(d) \in Nat /\ Stamp(d) \in Nat
  BY <1>2, FailureType, Facts
<1>6. CASE ExitHeld(d) \/ ExitDeferred(d)
  <2>1. UNCHANGED <<carrier, claim, shelf, row, att, mishaps>>
    BY <1>6 DEF ExitHeld, ExitDeferred
  <2> QED
    BY <1>1, <1>3, <2>1, FilesStay, Still, Facts
<1>7. CASE ExitFailed(d)
  <2>1. \/ UNCHANGED <<row, att>>
        \/ CommitTerminal(claim[c].tok, "failed")
    BY <1>7 DEF ExitFailed
  <2>2. /\ att' \in Attempts /\ row' \in Rows /\ row'.wpid = row.wpid
        /\ UNCHANGED <<row, att>> \/ att'.life = "FINAL"
    BY <1>4, <2>1, CommitTerminalType, Facts DEF Terminal
  <2>3. UNCHANGED carrier
    BY <1>7 DEF ExitFailed
  <2>4. CASE UNCHANGED <<claim, shelf>>
    <3>1. mishaps' \in Nat
      BY <1>7, MishapType, Facts DEF ExitFailed
    <3>2. carrier'.st = "queued" \/ Held' # {} \/ Closed'
      BY <1>1, <2>2, <2>3, <2>4, FilesStay
    <3> QED
      BY <1>1, <1>3, <2>2, <2>3, <2>4, <3>1, <3>2, Still, Facts
  <2>5. CASE claim' = Drop(claim, c) /\ shelf' = shelf \cup {"failed"}
    <3>1. mishaps' \in Nat
      BY <1>7, MishapType, Facts DEF ExitFailed
    <3>2. Closed' /\ shelf' \subseteq Shelves
      BY <2>5, Facts DEF Closed, Shelves
    <3>3. claim' \in [Slots -> Claims]
      BY <1>2, <2>5, DropType, Facts
    <3> QED
      BY <1>1, <1>3, <2>2, <2>3, <3>1, <3>2, <3>3, Still, Facts
  <2> QED
    BY <1>7, <2>4, <2>5 DEF ExitFailed
<1>8. CASE ExitRestore(d)
  <2> DEFINE e == [claim[c] EXCEPT !.fails = FailureCount(d)]
  <2>1. PICK n \in 1..4 : Cut(n) /\ CommitRestore(Drop(claim, c), e, Stamp(d), n)
    BY <1>8 DEF ExitRestore
  <2>2. e.rc \in Nat /\ e.fails \in Nat
    BY <1>4, <1>5 DEF Claims
  <2>3. Drop(claim, c) \in [Slots -> Claims]
    BY <1>2, DropType, Facts
  <2> HIDE DEF e
  <2>4. /\ carrier' \in Carriers /\ row' \in Rows /\ claim' \in [Slots -> Claims]
        /\ UNCHANGED <<att, shelf>>
        /\ (n >= 3 => carrier'.st = "queued")
        /\ n < 4 => claim' = claim
        /\ row'.wpid = row.wpid /\ (row'.st \in Terminal => row.st \in Terminal)
    BY <1>5, <2>1, <2>2, <2>3, CommitRestoreType, Facts
  <2>5. c \in Held
    BY <1>2, <1>8 DEF ExitRestore, Exiting, Releasable, Held
  <2>6. carrier'.st = "queued" \/ Held' # {}
    BY <2>4, <2>5 DEF Held
  <2>7. mishaps' \in Nat
    BY <2>1, MishapType, Facts
  <2> QED
    BY <1>1, <1>3, <2>4, <2>6, <2>7, Still, Facts
<1>9. CASE ExitBlocked(d)
  <2>1. c \in Held
    BY <1>2, <1>9 DEF ExitBlocked, Exiting, Releasable, Held
  <2>2. carrier' \in Carriers
    BY <1>9, UnlinkType, Facts DEF ExitBlocked
  <2>3. UNCHANGED mishaps
    BY <1>9 DEF ExitBlocked
  <2>4. CASE CloseCompleted(c, old)
    <3>1. /\ claim' \in [Slots -> Claims] /\ shelf' \subseteq Shelves
          /\ att' \in Attempts /\ row' \in Rows
          /\ att'.life = "FINAL" /\ row'.wpid = row.wpid
      BY <2>1, <2>4, CloseCompletedType, Facts
    <3>2. Closed'
      BY <3>1 DEF Closed
    <3> QED
      BY <1>1, <1>3, <2>2, <2>3, <3>1, <3>2, Still, Facts
  <2>5. CASE QuarantineIfOrphan(c, old) /\ UNCHANGED <<row, att>>
    <3>1. /\ claim' \in [Slots -> Claims] /\ shelf' \subseteq Shelves
          /\ shelf' # {} \/ claim'[c].held
      BY <2>1, <2>5, QuarantineType, Facts
    <3>2. Held' # {} \/ Closed'
      BY <1>2, <3>1 DEF Held, Closed
    <3> QED
      BY <1>1, <1>3, <2>2, <2>3, <2>5, <3>1, <3>2, Still, Facts
  <2> QED
    BY <1>9, <2>4, <2>5 DEF ExitBlocked
<1>10. CASE ExitPending(d)
  <2>1. UNCHANGED <<carrier, shelf, att, mishaps>>
    BY <1>10 DEF ExitPending
  <2>2. Counted(claim[c], Stamp(d)) \in Claims
        /\ Counted(claim[c], Stamp(d)).held = claim[c].held
    BY <1>4, <1>5 DEF Counted, Claims
  <2>3. claim' \in [Slots -> Claims] /\ \A k \in Slots : claim'[k].held = claim[k].held
    BY <1>2, <1>10, <2>2, Facts DEF ExitPending
  <2>4. row' \in Rows /\ row'.wpid = row.wpid /\ row'.st = row.st
    BY <1>5, <1>10, Facts DEF ExitPending, Counted, Rows
  <2>5. carrier'.st = "queued" \/ Held' # {} \/ Closed'
    BY <1>1, <2>1, <2>3, FilesStay
  <2> QED
    BY <1>1, <1>3, <2>1, <2>3, <2>4, <2>5, Still, Facts
<1> QED
  BY <1>6, <1>7, <1>8, <1>9, <1>10

(* A drain that dies, or a child of its that nobody waits for any more. *)
LEMMA InvCrash ==
    ASSUME QueueInv, NEW d \in Drains, DrainCrash(d)
    PROVE  QueueInv'
<1> USE DEF files, env, world
<1>1. UNCHANGED <<carrier, claim, shelf, row, att, worker, world>> /\ Return(d)
  BY DEF DrainCrash
<1>2. child \in [Slots -> {"none"} \cup Running \cup Exits]
      /\ worker \in [Slots -> {"none", "live", "dead"}]
  BY Types DEF QueueInv
<1>3. /\ child' \in [Slots -> {"none"} \cup Running \cup Exits]
      /\ \A k \in Slots : child'[k] = child[k] \/ child'[k] = "none"
  BY <1>2 DEF DrainCrash
<1>4. drain' \in [Drains -> Passes] /\ DrainInv'
  BY <1>1, DrainStep
<1>5. mishaps' \in Nat
  BY MishapType, Facts DEF DrainCrash
<1>6. \A k \in Slots : Begun(k)' => Begun(k)
  BY <1>1, <1>3 DEF Begun
<1>7. RowInv'
  BY <1>1, <1>3 DEF QueueInv, RowInv, Spawned
<1> QED
  BY <1>1, <1>2, <1>3, <1>4, <1>5, <1>6, <1>7, Moves, Facts

-----------------------------------------------------------------------------
(* The launcher child *)

(* A step of one child that starts no attempt and keeps the files. *)
LEMMA ChildKeeps ==
    ASSUME QueueInv, NEW c \in Slots, NEW to \in {"none"} \cup Running \cup Exits,
           child' = [child EXCEPT ![c] = to],
           UNCHANGED <<carrier, shelf, world, drain>>, mishaps' \in Nat,
           to \in {"starting", "intent", "spawned", "noted"} => Begun(c),
           to \in {"spawned", "noted"} => worker'[c] # "none",
           worker' \in [Slots -> {"none", "live", "dead"}],
           \A k \in Slots : worker'[k] # "none" <=> worker[k] # "none",
           claim' \in [Slots -> Claims],
           \A k \in Slots : claim'[k].held = claim[k].held,
           row' \in Rows, row'.st \in Terminal => att'.life = "FINAL", row'.wpid => Spawned,
           att' \in Attempts, att.life = "FINAL" => att'.life = "FINAL",
           att.life \notin {"NONE", "PREPARED"} => att'.life \notin {"NONE", "PREPARED"}
    PROVE  QueueInv'
<1>1. /\ child' \in [Slots -> {"none"} \cup Running \cup Exits]
      /\ \A k \in Slots : Begun(k)' => Begun(k)
      /\ RowInv'
  BY ChildStep
<1> QED
  BY <1>1, Moves, Facts

(* An exit reaches its drain or nobody. *)
LEMMA ExitTo ==
    ASSUME NEW c \in Slots, NEW code \in Exits, Exit(c, code)
    PROVE  \E to \in {"none"} \cup Exits : child' = [child EXCEPT ![c] = to]
BY DEF Exit

(* The same for a child that exits and leaves the worker alone. *)
LEMMA ExitKeeps ==
    ASSUME QueueInv, NEW c \in Slots, NEW code \in Exits, Exit(c, code),
           UNCHANGED <<carrier, claim, shelf, world, drain, worker>>, mishaps' \in Nat,
           row' \in Rows, row'.st \in Terminal => att'.life = "FINAL", row'.wpid => Spawned,
           att' \in Attempts, att.life = "FINAL" => att'.life = "FINAL",
           att.life \notin {"NONE", "PREPARED"} => att'.life \notin {"NONE", "PREPARED"}
    PROVE  QueueInv'
<1>1. PICK to \in {"none"} \cup Exits : child' = [child EXCEPT ![c] = to]
  BY ExitTo
<1>2. to \notin {"starting", "intent", "spawned", "noted"}
  BY DEF Exits
<1>3. worker \in [Slots -> {"none", "live", "dead"}]
  BY Types DEF QueueInv
<1> QED
  BY <1>1, <1>2, <1>3, ChildKeeps, Facts

(* The row agrees with the attempt and the worker, now. *)
LEMMA RowFacts ==
    ASSUME QueueInv
    PROVE  /\ row.st \in Terminal => att.life = "FINAL"
           /\ row.wpid => Spawned
           /\ worker \in [Slots -> {"none", "live", "dead"}]
           /\ att.life \in {"NONE", "PREPARED", "STARTING", "RUNNING", "FINAL"}
BY Types DEF QueueInv, RowInv, Attempts

(* Before the spawn intent: waiting, reserving, refusing, failing. *)
LEMMA InvRefuse ==
    ASSUME QueueInv, NEW c \in Slots,
           \/ RecordWaiting(c) \/ RefusePermanently(c) \/ ReserveCapacity(c)
           \/ RefuseCapacity(c) \/ FinishFailed(c) \/ ChildCrash(c)
    PROVE  QueueInv'
<1> USE DEF files, env, world
<1>1. UNCHANGED <<carrier, claim, shelf, world, drain, worker>>
  BY DEF RecordWaiting, RefusePermanently, ReserveCapacity, RefuseCapacity, FinishFailed,
         ChildCrash
<1>2. mishaps' \in Nat
  BY MishapType, Facts DEF RecordWaiting, RefusePermanently, ReserveCapacity,
         RefuseCapacity, FinishFailed, ChildCrash
<1>3. claim[c].tok \in Tokens
  BY Facts DEF Claims
<1>4. CASE RecordWaiting(c)
  <2>1. CASE Exit(c, "refused") /\ UNCHANGED <<att, row>>
    BY <1>1, <1>2, <2>1, ExitKeeps, Facts, RowFacts DEF Exits
  <2>2. CASE /\ MayPrepare(c) /\ Step(c, "born", "waiting")
             /\ att' = [life |-> "PREPARED", tok |-> claim[c].tok]
             /\ row' = Record(c, "waiting_capacity")
    <3>1. att' \in Attempts /\ att.life \in {"NONE", "PREPARED"}
      BY <1>3, <2>2 DEF MayPrepare, Attempts
    <3>2. row' \in Rows /\ row'.st \notin Terminal /\ ~row'.wpid
      BY <2>2, RecordType, Facts DEF PreWorkerStates, Terminal
    <3>3. child' = [child EXCEPT ![c] = "waiting"]
      BY <2>2 DEF Step
    <3> QED
      BY <1>1, <1>2, <3>1, <3>2, <3>3, ChildKeeps, Facts, RowFacts DEF Running
  <2> QED
    BY <1>4, <2>1, <2>2 DEF RecordWaiting
<1>5. CASE RefusePermanently(c)
  BY <1>1, <1>2, <1>5, ExitKeeps, Facts, RowFacts DEF RefusePermanently, Exits
<1>6. CASE ReserveCapacity(c)
  <2>1. child' = [child EXCEPT ![c] = "reserved"] /\ UNCHANGED <<row, att>>
    BY <1>6 DEF ReserveCapacity, Step
  <2> QED
    BY <1>1, <1>2, <2>1, ChildKeeps, Facts, RowFacts DEF Running
<1>7. CASE RefuseCapacity(c)
  <2>1. UNCHANGED att
    BY <1>7 DEF RefuseCapacity
  <2>2. row' \in Rows /\ row'.st \notin Terminal /\ ~row'.wpid
    <3>1. row' = Record(c, "blocked_capacity") \/ row' = NoRow
      BY <1>7 DEF RefuseCapacity
    <3>2. /\ Record(c, "blocked_capacity") \in Rows
          /\ Record(c, "blocked_capacity").st = "blocked_capacity"
          /\ ~Record(c, "blocked_capacity").wpid
      BY RecordType, Facts DEF PreWorkerStates
    <3> QED
      BY <3>1, <3>2, Empties DEF Terminal
  <2>3. Exit(c, "capacity") \/ Exit(c, "refused")
    BY <1>7 DEF RefuseCapacity
  <2> QED
    BY <1>1, <1>2, <2>1, <2>2, <2>3, ExitKeeps, Facts DEF Exits
<1>8. CASE FinishFailed(c)
  <2>1. CommitTerminal(claim[c].tok, "failed") /\ Exit(c, "refused")
    BY <1>8 DEF FinishFailed
  <2>2. /\ att' \in Attempts /\ row' \in Rows
        /\ att'.life = "FINAL" /\ row'.wpid = row.wpid
    BY <1>3, <2>1, CommitTerminalType, Facts DEF Terminal
  <2> QED
    BY <1>1, <1>2, <2>1, <2>2, ExitKeeps, RowFacts DEF Exits
<1>9. CASE ChildCrash(c)
  BY <1>1, <1>2, <1>9, ExitKeeps, Facts, RowFacts DEF ChildCrash, Exits
<1> QED
  BY <1>4, <1>5, <1>6, <1>7, <1>8, <1>9

(* The marks on the claim: none of them starts an attempt. *)
LEMMA InvMark ==
    ASSUME QueueInv, NEW c \in Slots,
           MarkLaunchStarted(c) \/ MarkSpawnIntent(c) \/ MarkSpawned(c) \/ LaunchError(c)
    PROVE  QueueInv'
<1> USE DEF files, env, world
<1>1. UNCHANGED <<carrier, shelf, row, att, worker, drain, world>>
  BY DEF MarkLaunchStarted, MarkSpawnIntent, MarkSpawned, LaunchError
<1>2. mishaps' \in Nat
  BY MishapType, Facts DEF MarkLaunchStarted, MarkSpawnIntent, MarkSpawned, LaunchError
<1>3. claim[c] \in Claims
  BY Facts
<1>4. /\ [claim[c] EXCEPT !.started = TRUE] \in Claims
      /\ [claim[c] EXCEPT !.intent = TRUE] \in Claims
      /\ [claim[c] EXCEPT !.wpid = TRUE] \in Claims
      /\ [claim[c] EXCEPT !.started = TRUE].held = claim[c].held
      /\ [claim[c] EXCEPT !.intent = TRUE].held = claim[c].held
      /\ [claim[c] EXCEPT !.wpid = TRUE].held = claim[c].held
  BY <1>3 DEF Claims
<1>5. \/ UNCHANGED claim
      \/ claim' = [claim EXCEPT ![c] = [claim[c] EXCEPT !.started = TRUE]]
      \/ claim' = [claim EXCEPT ![c] = [claim[c] EXCEPT !.intent = TRUE]]
      \/ claim' = [claim EXCEPT ![c] = [claim[c] EXCEPT !.wpid = TRUE]]
  BY DEF MarkLaunchStarted, MarkSpawnIntent, MarkSpawned, LaunchError
<1>6. claim' \in [Slots -> Claims] /\ \A k \in Slots : claim'[k].held = claim[k].held
  BY <1>4, <1>5, Facts
<1>7. PICK to \in {"marked", "failing", "intent", "noted"} :
        /\ child' = [child EXCEPT ![c] = to]
        /\ to = "intent" => child[c] = "starting"
        /\ to = "noted" => child[c] = "spawned"
  BY DEF MarkLaunchStarted, MarkSpawnIntent, MarkSpawned, LaunchError, Step
<1>8. to = "noted" => worker[c] # "none"
  BY <1>7 DEF QueueInv, RowInv
<1>9. to \in {"intent", "noted"} => Begun(c)
  BY <1>7 DEF Begun
<1>10. to \in Running
  BY DEF Running
<1> QED
  BY <1>1, <1>2, <1>6, <1>7, <1>8, <1>9, <1>10, ChildKeeps, Facts, RowFacts

(* The attempt is started: there was none before, so this is the only one. *)
LEMMA InvStart ==
    ASSUME QueueInv, NEW c \in Slots, RecordStarting(c)
    PROVE  QueueInv'
<1> USE DEF files, env, world
<1>1. UNCHANGED <<carrier, claim, shelf, worker, drain, world, mishaps>>
  BY DEF RecordStarting
<1>2. CASE Step(c, "marked", "failing") /\ UNCHANGED <<att, row>>
  <2>1. child' = [child EXCEPT ![c] = "failing"]
    BY <1>2 DEF Step
  <2> QED
    BY <1>1, <1>2, <2>1, ChildKeeps, Facts, RowFacts DEF Running
<1>3. CASE /\ MayStart(c) /\ Step(c, "marked", "starting")
           /\ att' = [att EXCEPT !.life = "STARTING"] /\ row' = Record(c, "starting")
  <2>1. att' \in Attempts /\ att'.life = "STARTING" /\ att.life = "PREPARED"
    BY <1>3, Facts DEF Attempts, MayStart
  <2>2. row' \in Rows /\ row'.st \notin Terminal /\ ~row'.wpid
    BY <1>3, RecordType, Facts DEF Terminal
  <2>3. \A k \in Slots : ~Begun(k)
    BY <2>1 DEF QueueInv, StartedOnce
  <2>4. child \in [Slots -> {"none"} \cup Running \cup Exits]
    BY Types DEF QueueInv
  <2>5. /\ child' \in [Slots -> {"none"} \cup Running \cup Exits]
        /\ \A k \in Slots : child'[k] = IF k = c THEN "starting" ELSE child[k]
    BY <1>3, <2>4 DEF Step, Running
  <2>6. TypeOK'
    BY <1>1, <2>1, <2>2, <2>5, Types, TypesNext DEF QueueInv
  <2>7. \A k \in Slots : Begun(k)' => k = c
    BY <1>1, <2>3, <2>5 DEF Begun
  <2>8. StartedOnce'
    BY <2>1, <2>7 DEF StartedOnce
  <2>9. RowInv'
    BY <1>1, <2>2, <2>5 DEF QueueInv, RowInv
  <2>10. carrier'.st = "queued" \/ Held' # {} \/ Closed'
    BY <1>1, <2>1, FilesStay
  <2>11. WorkKept' /\ PreparedInv' /\ DrainInv'
    BY <1>1, <2>10, Facts DEF WorkKept, PreparedInv, Closed
  <2> QED
    BY <2>6, <2>8, <2>9, <2>11 DEF QueueInv
<1> QED
  BY <1>2, <1>3 DEF RecordStarting

(* The spawn is the started slot's. *)
LEMMA InvSpawn ==
    ASSUME QueueInv, NEW c \in Slots, Spawn(c)
    PROVE  QueueInv'
<1> USE DEF files, env, world
<1>1. /\ UNCHANGED <<carrier, claim, shelf, row, att, drain, world, mishaps>>
      /\ child[c] = "intent" /\ child' = [child EXCEPT ![c] = "spawned"]
      /\ worker' = [worker EXCEPT ![c] = "live"]
  BY DEF Spawn, Step
<1>2. child \in [Slots -> {"none"} \cup Running \cup Exits]
      /\ worker \in [Slots -> {"none", "live", "dead"}]
  BY Types DEF QueueInv
<1>3. /\ child' \in [Slots -> {"none"} \cup Running \cup Exits]
      /\ \A k \in Slots : child'[k] = IF k = c THEN "spawned" ELSE child[k]
      /\ worker' \in [Slots -> {"none", "live", "dead"}]
      /\ \A k \in Slots : worker'[k] = IF k = c THEN "live" ELSE worker[k]
  BY <1>1, <1>2 DEF Running
<1>4. \A k \in Slots : Begun(k)' => Begun(k)
  BY <1>1, <1>3 DEF Begun
<1>5. RowInv'
  BY <1>1, <1>3 DEF QueueInv, RowInv, Spawned
<1> QED
  BY <1>1, <1>3, <1>4, <1>5, Moves, Facts

(* The worker is recorded, or wound up because the attempt is closed. *)
LEMMA InvRunning ==
    ASSUME QueueInv, NEW c \in Slots, RecordRunning(c)
    PROVE  QueueInv'
<1> USE DEF files, env, world
<1>1. /\ UNCHANGED <<carrier, claim, shelf, drain, world, mishaps>> /\ child[c] = "noted"
  BY DEF RecordRunning
<1>2. worker[c] # "none" /\ Spawned
  BY <1>1 DEF QueueInv, RowInv, Spawned
<1>3. CASE /\ Step(c, "noted", "failing")
           /\ worker' = [worker EXCEPT ![c] = "dead"] /\ UNCHANGED <<att, row>>
  <2>1. child' = [child EXCEPT ![c] = "failing"]
    BY <1>3 DEF Step
  <2>2. /\ worker' \in [Slots -> {"none", "live", "dead"}]
        /\ \A k \in Slots : worker'[k] # "none" <=> worker[k] # "none"
    BY <1>2, <1>3, RowFacts
  <2> QED
    BY <1>1, <1>3, <2>1, <2>2, ChildKeeps, Facts, RowFacts DEF Running
<1>4. CASE /\ Exit(c, "launched") /\ att.life # "FINAL"
           /\ att' = [att EXCEPT !.life = "RUNNING"]
           /\ row' = [Record(c, "running") EXCEPT !.wpid = TRUE] /\ UNCHANGED worker
  <2>1. att' \in Attempts /\ att'.life = "RUNNING"
    BY <1>4, Facts DEF Attempts
  <2>2. row' \in Rows /\ row'.st \notin Terminal
    BY <1>4, RecordType, Facts DEF Terminal
  <2> QED
    BY <1>1, <1>2, <1>4, <2>1, <2>2, ExitKeeps, Facts DEF Exits
<1> QED
  BY <1>3, <1>4 DEF RecordRunning

-----------------------------------------------------------------------------
(* Everything else *)

(* Workers, watchers, deadlines, the task store and time. *)
LEMMA InvWorld ==
    ASSUME QueueInv,
           \/ \E c \in Slots : WorkerExits(c) \/ WatcherFinishes(c)
           \/ ExpireLaunch \/ StoreChanges \/ GrowOld
    PROVE  QueueInv'
<1> USE DEF files, env, world
<1>1. child \in [Slots -> {"none"} \cup Running \cup Exits]
  BY Types DEF QueueInv
<1>2. ASSUME NEW c \in Slots, WorkerExits(c) PROVE QueueInv'
  <2>1. /\ UNCHANGED <<carrier, claim, shelf, row, att, child, drain, world, mishaps>>
        /\ worker[c] = "live" /\ worker' = [worker EXCEPT ![c] = "dead"]
    BY <1>2 DEF WorkerExits
  <2>2. /\ worker' \in [Slots -> {"none", "live", "dead"}]
        /\ \A k \in Slots : worker'[k] # "none" <=> worker[k] # "none"
    BY <2>1, RowFacts
  <2>3. \A k \in Slots : Begun(k)' => Begun(k)
    BY <2>1, <2>2 DEF Begun
  <2>4. RowInv'
    BY <2>1, <2>2 DEF QueueInv, RowInv, Spawned
  <2> QED
    BY <1>1, <2>1, <2>2, <2>3, <2>4, Moves, Facts
<1>3. ASSUME NEW c \in Slots, WatcherFinishes(c) PROVE QueueInv'
  <2>1. /\ UNCHANGED <<carrier, claim, shelf, child, worker, drain, world, mishaps>>
        /\ CommitTerminal(claim[c].tok, "ended")
    BY <1>3 DEF WatcherFinishes
  <2>2. claim[c].tok \in Tokens
    BY Facts DEF Claims
  <2>3. /\ att' \in Attempts /\ row' \in Rows
        /\ att'.life = "FINAL" /\ row'.wpid = row.wpid
    BY <2>1, <2>2, CommitTerminalType, Facts DEF Terminal
  <2>4. Closed'
    BY <2>3 DEF Closed
  <2> QED
    BY <2>1, <2>3, <2>4, Still, Facts
<1>4. CASE ExpireLaunch
  <2>1. UNCHANGED <<carrier, claim, shelf, child, worker, drain, world, mishaps>>
    BY <1>4 DEF ExpireLaunch
  <2>2. att' \in Attempts /\ att'.life = "FINAL"
    BY <1>4, Facts DEF ExpireLaunch, Attempts
  <2>3. row' \in Rows /\ row'.wpid = row.wpid
    BY <1>4, Facts DEF ExpireLaunch, Rows, Terminal
  <2>4. Closed'
    BY <2>2 DEF Closed
  <2> QED
    BY <2>1, <2>2, <2>3, <2>4, Still, Facts
<1>5. CASE StoreChanges \/ GrowOld
  <2>1. UNCHANGED <<carrier, claim, shelf, row, att, child, worker, drain, linked>>
    BY <1>5 DEF StoreChanges, GrowOld
  <2>2. mishaps' \in Nat /\ truth' \in {"open", "complete", "unreadable"} /\ old' \in BOOLEAN
    BY <1>5, MishapType, Facts, Types DEF StoreChanges, GrowOld
  <2>3. TypeOK'
    BY <2>1, <2>2, Types, TypesNext DEF QueueInv
  <2>4. \A k \in Slots : Begun(k)' => Begun(k)
    BY <2>1 DEF Begun
  <2>5. RowInv'
    BY <2>1 DEF QueueInv, RowInv, Spawned
  <2>6. carrier'.st = "queued" \/ Held' # {} \/ Closed'
    BY <2>1, FilesStay
  <2> QED
    BY <2>1, <2>3, <2>4, <2>5, <2>6, Keeps, Facts
<1> QED
  BY <1>2, <1>3, <1>4, <1>5

-----------------------------------------------------------------------------
(* The invariant *)

(* The invariant holds of a queued dispatch. *)
LEMMA QueueInvInit == Init => QueueInv
<1> SUFFICES ASSUME Init PROVE QueueInv
  OBVIOUS
<1>1. carrier \in Carriers /\ carrier.st = "queued"
  BY Empties DEF Init, Carriers
<1>2. row \in Rows /\ ~row.wpid /\ row.st \notin Terminal
  BY Empties DEF Init, Rows, PreWorkerStates, Terminal
<1>3. att \in Attempts
  BY DEF Init, Attempts, Tokens
<1>4. claim \in [Slots -> Claims] /\ drain \in [Drains -> Passes]
      /\ \A d \in Drains : drain[d].pc = "idle"
  BY Empties DEF Init
<1>5. TypeOK
  BY <1>1, <1>2, <1>3, <1>4, Types, QueueAssumption DEF Init, Shelves
<1>6. DrainInv
  BY <1>4 DEF DrainInv
<1>7. StartedOnce
  BY DEF Init, StartedOnce, Begun
<1>8. RowInv
  BY <1>2 DEF Init, RowInv
<1>9. WorkKept /\ PreparedInv
  BY <1>1 DEF WorkKept, PreparedInv
<1> QED
  BY <1>5, <1>6, <1>7, <1>8, <1>9 DEF QueueInv

(* Every step keeps it. *)
LEMMA QueueInvNext == QueueInv /\ [Next]_vars => QueueInv'
<1> SUFFICES ASSUME QueueInv, [Next]_vars PROVE QueueInv'
  OBVIOUS
<1>1. ASSUME NEW d \in Drains, Recover(d) PROVE QueueInv'
  BY <1>1, InvRecoverClaim, InvRecoverRow DEF Recover
<1>2. ASSUME NEW d \in Drains, Launch(d) PROVE QueueInv'
  BY <1>2, InvClaim, InvLaunch, InvExit DEF Launch
<1>3. ASSUME NEW d \in Drains, DrainCrash(d) PROVE QueueInv'
  BY <1>3, InvCrash
<1>4. ASSUME NEW c \in Slots,
             \/ Child(c) \/ RefusePermanently(c) \/ RefuseCapacity(c) \/ LaunchError(c)
             \/ ChildCrash(c)
      PROVE  QueueInv'
  BY <1>4, InvRefuse, InvMark, InvStart, InvSpawn, InvRunning DEF Child
<1>5. CASE \/ \E c \in Slots : WorkerExits(c) \/ WatcherFinishes(c)
           \/ ExpireLaunch \/ StoreChanges \/ GrowOld
  BY <1>5, InvWorld
<1>6. CASE UNCHANGED vars
  <2>1. UNCHANGED <<carrier, claim, shelf, row, att, child, worker, drain, world, mishaps>>
    BY <1>6 DEF vars, world
  <2> QED
    BY <2>1, FilesStay, Still, Facts
<1> QED
  BY <1>1, <1>2, <1>3, <1>4, <1>5, <1>6 DEF Next

(* In every run of any number of drains, with any faults, the invariant    *)
(* holds.                                                                  *)
THEOREM QueueInvariant == Spec => []QueueInv
BY QueueInvInit, QueueInvNext, PTL DEF Spec

(* The files, the row, the attempt and the processes keep their types.     *)
THEOREM TypeCorrect == Spec => []TypeOK
<1>1. QueueInv => TypeOK
  BY DEF QueueInv
<1> QED
  BY <1>1, QueueInvariant, PTL

(* A queued dispatch never has two workers: a worker is spawned for the    *)
(* slot whose child started the attempt, and an attempt is started once.   *)
THEOREM OneWorkerAlways == Spec => []OneWorker
<1>1. QueueInv => OneWorker
  BY DEF QueueInv, StartedOnce, Begun, OneWorker
<1> QED
  BY <1>1, QueueInvariant, PTL

(* Queued work always has a file, a worker or an end, whoever dies between *)
(* two writes of a restore.                                                *)
THEOREM WorkKeptAlways == Spec => []WorkKept
<1>1. QueueInv => WorkKept
  BY DEF QueueInv
<1> QED
  BY <1>1, QueueInvariant, PTL

=============================================================================
