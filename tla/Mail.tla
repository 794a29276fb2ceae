-------------------------------- MODULE Mail --------------------------------
(***************************************************************************)
(* The terminal outbox of goalflight_journal.py, the carrier file of a     *)
(* dispatch in goalflight_messages.py and the delivery rows, leases and    *)
(* cursors by which controllers read it.                                   *)
(*                                                                         *)
(* A terminal event is committed to the outbox; a projector appends it to  *)
(* the carrier, assigns it to the owner of the dispatch, to every active   *)
(* controller or to the wildcard, makes the assignments visible and marks  *)
(* the outbox row.  Other mail of the same dispatch is posted under the    *)
(* lock of the carrier.  A controller peeks and moves its cursor if its    *)
(* view has not changed; it prints before the move, or after it if it was  *)
(* asked for JSON.  Every journal call is one transaction.                 *)
(*                                                                         *)
(* One stream is modelled.  cursor_version is left out: an older version   *)
(* is admissible and none is from the future.                              *)
(***************************************************************************)
EXTENDS Naturals, Sequences, FiniteSets

CONSTANTS
    Labels,         \* controller labels
    Owner,          \* owner_controller_label of the attempt, or None
    Terminals,      \* events of the outbox
    Posts,          \* events of other senders
    JsonReaders,    \* controllers whose drains may ask for JSON
    Projectors,     \* processes inside project_terminal_outbox
    MaxTries,       \* OUTBOX_MAX_PROJECTION_ATTEMPTS
    MaxLeases,      \* generations of a lease, at most
    MaxFaults,      \* deaths of projectors and refusals they meet, at most
    Star,           \* the wildcard recipient
    None

Events == Terminals \cup Posts

ASSUME MailAssumption ==
    /\ Terminals \cap Posts = {} /\ None \notin Events
    /\ Star \notin Labels /\ None \notin Labels /\ Star # None
    /\ Owner \in Labels \cup {None} /\ JsonReaders \subseteq Labels
    /\ MaxTries \in Nat \ {0} /\ MaxLeases \in Nat /\ MaxFaults \in Nat

VARIABLES
    outbox,     \* terminal_outbox: projection state and attempts
    carrier,    \* the carrier file: the event at every position
    rows,       \* delivery_events by rowid
    lease,      \* controller_leases: is a generation active, and its number
    cursor,     \* controller_stream_cursors
    relay,      \* relay --drain of a controller
    proj,       \* a projector
    poster,     \* the sender that holds the lock of the carrier
    shown,      \* mail printed for a controller
    read,       \* events a cursor was moved over
    blind,      \* events reconciled when no row made visible for them was live
    faults

vars == <<outbox, carrier, rows, lease, cursor, relay, proj, poster, shown, read, blind, faults>>
senders == <<outbox, carrier, proj, poster, blind>>
readers == <<lease, cursor, relay, shown, read>>

NoRelay == [pc |-> "idle", gen |-> 0, pos |-> 0, snap |-> {}]
NoRun == [pc |-> "idle", ev |-> None, tries |-> 0, todo |-> {}, at |-> None, done |-> {}]
NoPost == [pc |-> "idle", ev |-> None, todo |-> {}, done |-> {}, begun |-> {}]
Unlocked == [NoPost EXCEPT !.begun = poster.begun]

Init ==
    /\ outbox = [e \in Terminals |-> [st |-> "none", tries |-> 0]]
    /\ carrier = <<>>
    /\ rows = <<>>
    /\ lease = [l \in Labels |-> [active |-> FALSE, gen |-> 0]]
    /\ cursor = [l \in Labels |-> 0]
    /\ relay = [l \in Labels |-> NoRelay]
    /\ proj = [p \in Projectors |-> NoRun]
    /\ poster = NoPost
    /\ shown = {} /\ read = {} /\ blind = {}
    /\ faults = 0

-----------------------------------------------------------------------------
(* The delivery rows *)

Active == {l \in Labels : lease[l].active}
InCarrier(e) == \E n \in DOMAIN carrier : carrier[n] = e
Position(e) == CHOOSE n \in DOMAIN carrier : carrier[n] = e

(* The primary key is recipient and event. *)
Keyed(to, e) == {i \in DOMAIN rows : rows[i].to = to /\ rows[i].ev = e}
Live == {i \in DOMAIN rows : ~rows[i].gone}

(* delivery_events_live_stream_seq_idx: one live row per recipient and     *)
(* position.                                                               *)
Taken(to, n) == \E i \in Live : rows[i].to = to /\ rows[i].seq = n

(* record_delivery_event: an exact choice from the roster must still be    *)
(* active, and becomes the wildcard if it is not.                          *)
Effective(to, fallback) ==
    IF fallback /\ to \notin Active THEN Star ELSE to

Assignable(to, e, n) == Keyed(to, e) # {} \/ ~Taken(to, n)

Assigned(to, e, n) ==
    IF Keyed(to, e) # {} THEN rows
    ELSE Append(rows, [to |-> to, ev |-> e, seq |-> n, up |-> FALSE, gone |-> FALSE])

(* mark_delivery_projected follows a row that retirement moved. *)
Followed(to, e) ==
    IF Keyed(to, e) # {} THEN Keyed(to, e) ELSE Keyed(Star, e) \cap Live

Shown(is) == [i \in DOMAIN rows |-> IF i \in is THEN [rows[i] EXCEPT !.up = TRUE] ELSE rows[i]]

(* Rows of a set leave the mail; others change hands. *)
Rewrite(gone, moved, to) ==
    [i \in DOMAIN rows |->
        IF i \in gone THEN [rows[i] EXCEPT !.gone = TRUE]
        ELSE IF i \in moved THEN [rows[i] EXCEPT !.to = to] ELSE rows[i]]

(* Live rows a controller sees, or would see once they are up, between its *)
(* cursor and a position.                                                  *)
Between(l, n) ==
    {i \in Live : rows[i].to \in {l, Star} /\ rows[i].seq \in (cursor[l] + 1)..n}

Pending(l) ==
    {i \in Live : rows[i].to \in {l, Star} /\ rows[i].up /\ rows[i].seq > cursor[l]}

(* _cursor_stream_snapshot *)
Snapshot(l, n) == {<<i, rows[i].up>> : i \in Between(l, n)}

-----------------------------------------------------------------------------
(* Senders of other mail: post_message, under the lock of the carrier *)

(* _journal_delivery_targets *)
PostTargets == IF Owner # None THEN {Owner} ELSE IF Active # {} THEN Active ELSE {Star}

BeginPost(e) ==
    /\ poster.pc = "idle" /\ e \notin poster.begun
    /\ poster' = [pc |-> "assign", ev |-> e, todo |-> PostTargets, done |-> {},
                  begun |-> poster.begun \cup {e}]
    /\ UNCHANGED <<outbox, carrier, rows, proj, readers, blind, faults>>

(* _prepare_journal_delivery.  A position taken by another event fails the *)
(* post; what it has assigned stays.                                       *)
AssignPost(to) ==
    LET eff == Effective(to, Owner = None) IN
    /\ poster.pc = "assign" /\ to \in poster.todo
    /\ IF Assignable(eff, poster.ev, Len(carrier) + 1)
       THEN /\ rows' = Assigned(eff, poster.ev, Len(carrier) + 1)
            /\ poster' = [poster EXCEPT !.todo = @ \ {to}, !.done = @ \cup {eff}]
       ELSE poster' = Unlocked /\ UNCHANGED rows
    /\ UNCHANGED <<outbox, carrier, proj, readers, blind, faults>>

AppendPost ==
    /\ poster.pc = "assign" /\ poster.todo = {}
    /\ carrier' = Append(carrier, poster.ev)
    /\ poster' = [poster EXCEPT !.pc = "mark"]
    /\ UNCHANGED <<outbox, rows, proj, readers, blind, faults>>

(* _mark_journal_delivery *)
MarkPost(to) ==
    /\ poster.pc = "mark" /\ to \in poster.done
    /\ Followed(to, poster.ev) # {}
    /\ rows' = Shown(Followed(to, poster.ev))
    /\ poster' = [poster EXCEPT !.done = @ \ {to}]
    /\ UNCHANGED <<outbox, carrier, proj, readers, blind, faults>>

(* All is marked, or an assignment has gone and the post reports it. *)
EndPost ==
    /\ poster.pc = "mark"
    /\ poster.done = {} \/ \E to \in poster.done : Followed(to, poster.ev) = {}
    /\ poster' = Unlocked
    /\ UNCHANGED <<outbox, carrier, rows, proj, readers, blind, faults>>

PostDies ==
    /\ poster.pc # "idle"
    /\ poster' = Unlocked
    /\ UNCHANGED <<outbox, carrier, rows, proj, readers, blind, faults>>

-----------------------------------------------------------------------------
(* The outbox: commit_terminal and project_terminal_outbox *)

CommitTerminal(e) ==
    /\ outbox[e].st = "none"
    /\ outbox' = [outbox EXCEPT ![e].st = "pending"]
    /\ UNCHANGED <<carrier, rows, proj, poster, readers, blind, faults>>

(* pending_outbox: what a row says is read once, for the whole attempt. *)
Pick(p, e) ==
    /\ proj[p].pc = "idle" /\ outbox[e].st = "pending"
    /\ proj' = [proj EXCEPT ![p] = [NoRun EXCEPT !.pc = "append", !.ev = e,
                                                 !.tries = outbox[e].tries]]
    /\ UNCHANGED <<outbox, carrier, rows, poster, readers, blind, faults>>

(* Mutant: an event is appended again by a retry. *)
AppendEventAgain(p) ==
    /\ proj[p].pc = "append" /\ poster.pc = "idle"
    /\ carrier' = Append(carrier, proj[p].ev)
    /\ proj' = [proj EXCEPT ![p].pc = "targets"]
    /\ UNCHANGED <<outbox, rows, poster, readers, blind, faults>>

(* post_message finds an event that is in the carrier by its identity. *)
AppendEvent(p) ==
    /\ proj[p].pc = "append" /\ poster.pc = "idle"
    /\ carrier' = IF InCarrier(proj[p].ev) THEN carrier ELSE Append(carrier, proj[p].ev)
    /\ proj' = [proj EXCEPT ![p].pc = "targets"]
    /\ UNCHANGED <<outbox, rows, poster, readers, blind, faults>>

(* _complete_terminal_delivery: the owner if its lease is active, else the *)
(* roster, else the wildcard.                                              *)
ChooseTargets(p) ==
    /\ proj[p].pc = "targets"
    /\ proj' = [proj EXCEPT ![p].pc = "assign",
                            ![p].todo = IF Owner \in Active THEN {Owner}
                                        ELSE IF Active # {} THEN Active ELSE {Star}]
    /\ UNCHANGED <<outbox, carrier, rows, poster, readers, blind, faults>>

AssignEvent(p, to) ==
    LET e == proj[p].ev  eff == Effective(to, to # Star) IN
    /\ proj[p].pc = "assign" /\ to \in proj[p].todo
    /\ IF Assignable(eff, e, Position(e))
       THEN /\ rows' = Assigned(eff, e, Position(e))
            /\ proj' = [proj EXCEPT ![p].pc = "mark", ![p].todo = @ \ {to}, ![p].at = eff]
       ELSE proj' = [proj EXCEPT ![p].pc = "failed"] /\ UNCHANGED rows
    /\ UNCHANGED <<outbox, carrier, poster, readers, blind, faults>>

(* What becomes visible is what is reconciled with later. *)
MarkEvent(p) ==
    LET is == Followed(proj[p].at, proj[p].ev) IN
    /\ proj[p].pc = "mark"
    /\ IF is # {}
       THEN /\ rows' = Shown(is)
            /\ proj' = [proj EXCEPT ![p].pc = "assign",
                                    ![p].done = @ \cup {rows[i].to : i \in is}]
       ELSE proj' = [proj EXCEPT ![p].pc = "failed"] /\ UNCHANGED rows
    /\ UNCHANGED <<outbox, carrier, poster, readers, blind, faults>>

(* Mutant: a row that retirement moved to the wildcard counts as stale. *)
ReconcileMovedToo(p) ==
    LET mine == {i \in Live : rows[i].ev = proj[p].ev} IN
    /\ proj[p].pc = "assign" /\ proj[p].todo = {}
    /\ rows' = Rewrite({i \in mine : rows[i].to \notin proj[p].done}, {}, Star)
    /\ proj' = [proj EXCEPT ![p].pc = "confirm"]
    /\ blind' = IF \E i \in mine : rows[i].to \in proj[p].done \cup {Star}
                THEN blind ELSE blind \cup {proj[p].ev}
    /\ UNCHANGED <<outbox, carrier, poster, readers, faults>>

(* _reconcile_terminal_delivery_recipients *)
ReconcileRecipients(p) ==
    LET mine == {i \in Live : rows[i].ev = proj[p].ev}
        live == {rows[i].to : i \in mine}
        preserved == proj[p].done
                       \cup IF Star \in live /\ ~(proj[p].done \subseteq live) THEN {Star} ELSE {}
    IN
    /\ proj[p].pc = "assign" /\ proj[p].todo = {}
    /\ rows' = Rewrite({i \in mine : rows[i].to \notin preserved}, {}, Star)
    /\ proj' = [proj EXCEPT ![p].pc = "confirm"]
    /\ blind' = IF \E i \in mine : rows[i].to \in proj[p].done \cup {Star}
                THEN blind ELSE blind \cup {proj[p].ev}
    /\ UNCHANGED <<outbox, carrier, poster, readers, faults>>

ConfirmProjected(p) ==
    /\ proj[p].pc = "confirm"
    /\ outbox' = [outbox EXCEPT ![proj[p].ev] = [st |-> "projected", tries |-> proj[p].tries + 1]]
    /\ proj' = [proj EXCEPT ![p] = NoRun]
    /\ UNCHANGED <<carrier, rows, poster, readers, blind, faults>>

(* Mutant: one attempt too many. *)
RecordFailureLate(p) ==
    LET e == proj[p].ev  n == proj[p].tries + 1 IN
    /\ proj[p].pc = "failed"
    /\ outbox' = IF outbox[e].st = "pending"
                 THEN [outbox EXCEPT ![e] =
                         [st |-> IF n > MaxTries THEN "quarantined" ELSE "pending", tries |-> n]]
                 ELSE outbox
    /\ proj' = [proj EXCEPT ![p] = NoRun]
    /\ UNCHANGED <<carrier, rows, poster, readers, blind, faults>>

(* Mutant: a failed attempt is not counted. *)
RecordFailureUncounted(p) ==
    /\ proj[p].pc = "failed"
    /\ proj' = [proj EXCEPT ![p] = NoRun]
    /\ UNCHANGED <<outbox, carrier, rows, poster, readers, blind, faults>>

(* _record_outbox_projection_failure: the last attempt shelves the event   *)
(* and opens an item for attention in the same transaction; a row another  *)
(* projector has settled is left alone.                                    *)
RecordFailure(p) ==
    LET e == proj[p].ev  n == proj[p].tries + 1 IN
    /\ proj[p].pc = "failed"
    /\ outbox' = IF outbox[e].st = "pending"
                 THEN [outbox EXCEPT ![e] =
                         [st |-> IF n >= MaxTries THEN "quarantined" ELSE "pending", tries |-> n]]
                 ELSE outbox
    /\ proj' = [proj EXCEPT ![p] = NoRun]
    /\ UNCHANGED <<carrier, rows, poster, readers, blind, faults>>

(* The journal is busy beyond its retry budget, or the carrier cannot be   *)
(* written.                                                                *)
StepRefused(p) ==
    /\ proj[p].pc \in {"append", "targets", "assign", "mark"} /\ faults < MaxFaults
    /\ proj' = [proj EXCEPT ![p].pc = "failed"]
    /\ faults' = faults + 1
    /\ UNCHANGED <<outbox, carrier, rows, poster, readers, blind>>

ProjectorDies(p) ==
    /\ proj[p].pc # "idle" /\ faults < MaxFaults
    /\ proj' = [proj EXCEPT ![p] = NoRun]
    /\ faults' = faults + 1
    /\ UNCHANGED <<outbox, carrier, rows, poster, readers, blind>>

-----------------------------------------------------------------------------
(* Controllers *)

(* claim_or_renew_lease: a new generation, over an ended one or by         *)
(* takeover; the cursor of the label stays where it is.                    *)
Claim(l) ==
    /\ lease[l].gen < MaxLeases
    /\ lease' = [lease EXCEPT ![l] = [active |-> TRUE, gen |-> @.gen + 1]]
    /\ UNCHANGED <<senders, rows, cursor, relay, shown, read, faults>>

(* expire_stale_leases: the holder is proven dead; its mail stays its own. *)
Expire(l) ==
    /\ lease[l].active
    /\ lease' = [lease EXCEPT ![l].active = FALSE]
    /\ UNCHANGED <<senders, rows, cursor, relay, shown, read, faults>>

(* _rehome_retired_delivery_events *)
Unprocessed(l) ==
    {i \in Live : rows[i].to = l /\ (~rows[i].up \/ rows[i].seq > cursor[l])}

Redundant(l) ==
    {i \in Unprocessed(l) :
        \E j \in Live : /\ rows[j].to = Star
                        /\ rows[j].ev = rows[i].ev \/ rows[j].seq = rows[i].seq}

(* A wildcard row that was withdrawn keeps the key of its event. *)
Movable(l) ==
    \A i \in Unprocessed(l) \ Redundant(l) : Keyed(Star, rows[i].ev) = {}

(* release_lease *)
Retire(l) ==
    /\ lease[l].active /\ Movable(l)
    /\ lease' = [lease EXCEPT ![l].active = FALSE]
    /\ rows' = Rewrite(Redundant(l), Unprocessed(l) \ Redundant(l), Star)
    /\ UNCHANGED <<senders, cursor, relay, shown, read, faults>>

(* cursor_peek.  The plain drain prints what it found and moves its cursor *)
(* then ("Visibility precedes receipt"); the JSON drain keeps it for the   *)
(* one object it prints at its end.                                        *)
Peek(l) ==
    LET seen == Pending(l)
        n == CHOOSE m \in {rows[i].seq : i \in seen} : \A i \in seen : rows[i].seq <= m
    IN
    /\ relay[l].pc = "idle" /\ lease[l].active /\ seen # {}
    /\ \E pc \in {"shown"} \cup (IF l \in JsonReaders THEN {"peeked"} ELSE {}) :
        /\ relay' = [relay EXCEPT ![l] = [pc |-> pc, gen |-> lease[l].gen, pos |-> n,
                                          snap |-> Snapshot(l, n)]]
        /\ shown' = IF pc = "shown" THEN shown \cup {<<l, rows[i].ev>> : i \in seen} ELSE shown
    /\ UNCHANGED <<senders, rows, lease, cursor, read, faults>>

(* Mutant: a row that is assigned and not yet visible is overlooked. *)
UnchangedVisible(l) ==
    LET r == relay[l] IN
    /\ lease[l].active /\ lease[l].gen = r.gen /\ cursor[l] < r.pos
    /\ \E i \in Live : rows[i].to \in {l, Star} /\ rows[i].seq = r.pos /\ rows[i].up

(* advance_cursor's conditions *)
Unchanged(l) ==
    LET r == relay[l] IN
    /\ lease[l].active /\ lease[l].gen = r.gen /\ cursor[l] < r.pos
    /\ \E i \in Live : rows[i].to \in {l, Star} /\ rows[i].seq = r.pos /\ rows[i].up
    /\ Snapshot(l, r.pos) = r.snap
    /\ \A i \in Between(l, r.pos) : rows[i].up

(* _write_cursor_positions: wildcard mail up to the position becomes the   *)
(* reader's own, or goes if the reader has its own copy.                   *)
Consume(l, n) ==
    LET range == {i \in Between(l, n) : rows[i].up}
        wild == {i \in range : rows[i].to = Star}
        twin == {i \in wild : \/ Keyed(l, rows[i].ev) # {}
                              \/ Taken(l, rows[i].seq)}
    IN
    /\ rows' = Rewrite(twin, wild \ twin, l)
    /\ cursor' = [cursor EXCEPT ![l] = n]
    /\ read' = read \cup {rows[i].ev : i \in range}

Advance(l) ==
    /\ relay[l].pc \in {"shown", "peeked"} /\ Unchanged(l)
    /\ Consume(l, relay[l].pos)
    /\ relay' = [relay EXCEPT ![l] =
                    IF @.pc = "shown" THEN NoRelay
                    ELSE [NoRelay EXCEPT !.pc = "passed", !.snap = relay[l].snap]]
    /\ UNCHANGED <<senders, lease, shown, faults>>

(* The JSON drain prints what it peeked, after the committed move. *)
PrintDrained(l) ==
    /\ relay[l].pc = "passed"
    /\ shown' = shown \cup {<<l, rows[x[1]].ev>> : x \in {y \in relay[l].snap : y[2]}}
    /\ relay' = [relay EXCEPT ![l] = NoRelay]
    /\ UNCHANGED <<senders, rows, lease, cursor, read, faults>>

(* "drain conflict, retry", or the relay is killed: the cursor stays where *)
(* it is, and what was not printed is not printed.                         *)
Abandon(l) ==
    /\ relay[l].pc # "idle"
    /\ relay' = [relay EXCEPT ![l] = NoRelay]
    /\ UNCHANGED <<senders, rows, lease, cursor, shown, read, faults>>

-----------------------------------------------------------------------------
Project(p) ==
    \/ \E e \in Terminals : Pick(p, e)
    \/ AppendEvent(p) \/ ChooseTargets(p)
    \/ \E to \in Labels \cup {Star} : AssignEvent(p, to)
    \/ MarkEvent(p) \/ ReconcileRecipients(p) \/ ConfirmProjected(p) \/ RecordFailure(p)

Post ==
    \/ \E to \in Labels \cup {Star} : AssignPost(to) \/ MarkPost(to)
    \/ AppendPost \/ EndPost

Drain(l) == Peek(l) \/ Advance(l) \/ PrintDrained(l) \/ Abandon(l)

Next ==
    \/ \E e \in Terminals : CommitTerminal(e)
    \/ \E e \in Posts : BeginPost(e)
    \/ Post \/ PostDies
    \/ \E p \in Projectors : Project(p) \/ StepRefused(p) \/ ProjectorDies(p)
    \/ \E l \in Labels : Claim(l) \/ Expire(l) \/ Retire(l) \/ Drain(l)

(* A projector of another process always comes; what it starts it ends,    *)
(* and so does a sender.  No controller is obliged to read.                *)
Fairness ==
    /\ \A p \in Projectors : WF_vars(Project(p))
    /\ WF_vars(Post)

Spec == Init /\ [][Next]_vars /\ Fairness

-----------------------------------------------------------------------------
(* Correctness *)

TypeOK ==
    /\ outbox \in [Terminals -> [st : {"none", "pending", "projected", "quarantined"},
                                 tries : 0..MaxTries]]
    /\ carrier \in Seq(Events)
    /\ rows \in Seq([to : Labels \cup {Star}, ev : Events, seq : Nat \ {0},
                     up : BOOLEAN, gone : BOOLEAN])
    /\ lease \in [Labels -> [active : BOOLEAN, gen : 0..MaxLeases]]
    /\ cursor \in [Labels -> Nat]
    /\ poster.pc \in {"idle", "assign", "mark"} /\ poster.ev \in Posts \cup {None}
    /\ poster.begun \subseteq Posts
    /\ poster.todo \subseteq Labels \cup {Star} /\ poster.done \subseteq Labels \cup {Star}
    /\ \A p \in Projectors :
        /\ proj[p].pc \in {"idle", "append", "targets", "assign", "mark", "confirm", "failed"}
        /\ proj[p].ev \in Terminals \cup {None} /\ proj[p].tries \in 0..(MaxTries - 1)
        /\ proj[p].todo \subseteq Labels \cup {Star} /\ proj[p].done \subseteq Labels \cup {Star}
        /\ proj[p].at \in Labels \cup {Star, None}
    /\ \A l \in Labels :
        /\ relay[l].pc \in {"idle", "shown", "peeked", "passed"} /\ relay[l].gen \in 0..MaxLeases
        /\ relay[l].pos \in Nat /\ relay[l].snap \subseteq Nat \X BOOLEAN
    /\ shown \subseteq Labels \X Events /\ read \subseteq Events /\ blind \subseteq Terminals
    /\ faults \in 0..MaxFaults

(* The carrier holds an event at one position, and the rows of an event    *)
(* point at it: whatever is retried, and by whom.                          *)
OnePosition ==
    /\ \A m, n \in DOMAIN carrier : carrier[m] = carrier[n] => m = n
    /\ \A i \in DOMAIN rows : InCarrier(rows[i].ev) => rows[i].seq = Position(rows[i].ev)

(* The relay that has moved the cursor of l still holds row i, to print it. *)
Owed(l, i) == relay[l].pc = "passed" /\ <<i, TRUE>> \in relay[l].snap

(* No live row is passed by a cursor that was not printed for the          *)
(* controller or is held by its JSON drain, which prints it next unless it *)
(* is killed: what is assigned, made visible, moved or withdrawn between   *)
(* the peek and the move stops the move.                                   *)
PassedOnlyShown ==
    [][\A l \in Labels : \A i \in Between(l, cursor'[l]) :
            <<l, rows[i].ev>> \in shown \/ Owed(l, i)']_vars

(* A projected terminal event has been passed by a cursor or has a row that *)
(* is not withdrawn, through retirement, reconciliation, consumption and   *)
(* projectors that die and are repeated; whether a reader's cursor is      *)
(* still below that row is not asked.  The exceptions are an event that    *)
(* was reconciled with rows of which none is live, and the position of a   *)
(* post whose sender died before the append.                               *)
Spoilt(n) == \E i \in DOMAIN rows : rows[i].seq = n /\ ~InCarrier(rows[i].ev)

TerminalKept ==
    \A e \in Terminals :
        outbox[e].st = "projected" =>
            \/ e \in read \/ e \in blind \/ Spoilt(Position(e))
            \/ \E i \in Live : rows[i].ev = e

(* "Ensure a carrier-projected terminal has a visible delivery row": at    *)
(* least, one that was read or is not withdrawn.                           *)
ProjectedHasRow ==
    \A e \in Terminals :
        outbox[e].st = "projected" => e \in read \/ \E i \in Live : rows[i].ev = e

(* Every committed terminal event is projected or given up in the open,    *)
(* although a projector dies, is refused and comes again.                  *)
Settled == \A e \in Terminals : outbox[e].st = "pending" ~> outbox[e].st \in {"projected", "quarantined"}
=============================================================================
