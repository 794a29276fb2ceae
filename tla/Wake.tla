-------------------------------- MODULE Wake --------------------------------
(***************************************************************************)
(* How mail wakes a controller: the supervised pool of goalflight_wake.py, *)
(* goalflight_messages.py (listen, follow, supervise) and                  *)
(* goalflight_wake_supervise.py, for one lease generation.                 *)
(*                                                                         *)
(* Doorbells wait for unread mail, ring once and exit; a stream (follow)   *)
(* prints every unread row and stays.  All of them race for one stamp per  *)
(* cursor version.  The first doorbell to arm over a backlog reports it,   *)
(* under a claim file that others may take over when its owner is dead.    *)
(* What a child prints is in a pipe until the supervisor forwards it.      *)
(*                                                                         *)
(* A row of mail is a pair <<stream, position>>; all of it is waking mail  *)
(* from others, and it becomes visible in any order: a terminal event has  *)
(* its position long before its row is projected.  Positions are functions *)
(* of the stream, 0 where absent.                                          *)
(* The stamp is the version it holds, 0 when there is none.                *)
(***************************************************************************)
EXTENDS Naturals, FiniteSets

CONSTANTS
    Streams,        \* streams with mail for the controller
    Bells,          \* doorbell slots of the pool
    MaxMail,        \* rows a stream gets
    MaxRewinds,     \* times the controller puts its cursor back
    Mishaps,        \* what may go wrong: a death of a "bell", of one that has
                    \* claimed the ring ("ringing"), of the "follow" or of the
                    \* "supervisor", a "slow" incumbent, the end of the "lease"
    MaxMishaps,     \* how many of them
    None

ASSUME WakeAssumption ==
    /\ MaxMail \in Nat /\ MaxRewinds \in Nat /\ MaxMishaps \in Nat
    /\ IsFiniteSet(Bells) /\ None \notin Bells
    /\ Mishaps \subseteq {"bell", "ringing", "follow", "supervisor", "slow", "lease"}

VARIABLES
    mail,       \* rows that are visible
    cursor,     \* positions the controller has consumed
    version,    \* cursor_version
    rewinds,    \* rewind_version, by stream
    lease,      \* whether the generation's nonce is the live one
    stamp,      \* the ring stamp
    report,     \* the pending-report file
    bell,       \* the doorbell of a slot
    look,       \* doorbells that see a journal change or still have to peek
    follow,     \* the stream
    sup,        \* the supervisor
    pipe,       \* rows its children printed and it has not forwarded
    heard,      \* rows that reached the controller since they were last unread
    mishaps     \* mishaps so far

vars == <<mail, cursor, version, rewinds, lease, stamp, report, bell, look,
          follow, sup, pipe, heard, mishaps>>
journal == <<mail, cursor, version, rewinds, lease>>
ears == <<pipe, heard>>

Versions == 1..(Cardinality(Bells) + 4)
Rows == Streams \X (1..MaxMail)
Positions == [Streams -> 0..MaxMail]
Origin == [s \in Streams |-> 0]

(* _cursor_positions: the highest position of each stream. *)
High(rows) ==
    [s \in Streams |->
        LET ns == {0} \cup {r[2] : r \in {q \in rows : q[1] = s}}
        IN  CHOOSE n \in ns : \A m \in ns : m <= n]

Upto(pos) == {r \in Rows : r[2] <= pos[r[1]]}
Pending == mail \ Upto(cursor)

NoReport == [phase |-> "none", pos |-> Origin, owner |-> None]
NoBell == [pc |-> "off", ver |-> 0, rows |-> {}, late |-> {}, settled |-> TRUE, orphan |-> FALSE]
NoFollow == [pc |-> "off", ver |-> 0, rows |-> {}, reset |-> TRUE, done |-> {},
             high |-> Origin, seen |-> Origin, orphan |-> FALSE]
NoMemory == [st |-> "up", rows |-> {}, seen |-> Origin, stopped |-> FALSE]

Init ==
    /\ mail \in SUBSET Rows
    /\ cursor = Origin
    /\ version = 1
    /\ rewinds = Origin
    /\ lease = TRUE
    /\ stamp = 0
    /\ report = NoReport
    /\ bell = [b \in Bells |-> NoBell]
    /\ look = Bells
    /\ follow = NoFollow
    /\ sup = NoMemory
    /\ pipe = {} /\ heard = {}
    /\ mishaps = 0

Mishap(kind) == kind \in Mishaps /\ mishaps < MaxMishaps /\ mishaps' = mishaps + 1

(***************************************************************************)
(* Mail and the cursor.                                                    *)
(***************************************************************************)
(* Versions are only compared for equality: the next one is a number that  *)
(* is neither on the stamp nor in the hands of a process.                  *)
Bumped ==
    LET held == {0, version, stamp, follow.ver} \cup {bell[b].ver : b \in Bells}
    IN  version' = CHOOSE v \in Versions : v \notin held /\ \A w \in 1..(v - 1) : w \in held

(* Every write of the journal changes the data version doorbells watch. *)
JournalWritten == look' = Bells

(* A report that is not acknowledged: its boundary still holds. *)
Open == report.phase \in {"claimed", "reported"}

(* A row under the boundary of a report that is not over. *)
UnderReport(r) == Open /\ r \in Upto(report.pos)

(* A history: the rows that become unread after a doorbell took the        *)
(* snapshot it reports, or may report.                                     *)
Late(rows) ==
    [b \in Bells |->
        [bell[b] EXCEPT !.late = @ \cup {r \in rows :
            bell[b].pc = "snap" \/ (report.owner = b /\ UnderReport(r))}]]

(* mark_delivery_projected: the rows above and below it do not matter. *)
Post(r) ==
    /\ r \notin mail
    /\ mail' = mail \cup {r}
    /\ Bumped
    /\ bell' = Late({r})
    /\ JournalWritten
    /\ UNCHANGED <<cursor, rewinds, lease, stamp, report, follow, sup, ears, mishaps>>

(* The streams of a boundary that a cursor does not cover. *)
Remainder(pos, upto) == [s \in Streams |-> IF upto[s] < pos[s] THEN pos[s] ELSE 0]

(* acknowledge_pending_report: what is covered leaves the boundary, and the *)
(* report is over when nothing is left of it.                              *)
Acknowledged(upto) ==
    LET rest == Remainder(report.pos, upto) IN
    IF ~Open THEN report
    ELSE IF rest = Origin THEN [report EXCEPT !.phase = "acknowledged"]
    ELSE [report EXCEPT !.pos = rest]

(* Mutant: a position past the mail that is visible. *)
AdvancePastEnd(s, n) ==
    /\ lease
    /\ cursor[s] < n
    /\ cursor' = [cursor EXCEPT ![s] = n]
    /\ Bumped
    /\ report' \in {report, Acknowledged(cursor')}
    /\ heard' = heard \cup {r \in Pending : r[1] = s /\ r[2] <= n}
    /\ JournalWritten
    /\ UNCHANGED <<mail, rewinds, lease, stamp, bell, follow, sup, pipe, mishaps>>

(* An advance command the controller was given, or a relay that prints     *)
(* what it consumes; a row that is assigned and not visible stops it, one  *)
(* that is assigned later does not.  The acknowledgement that follows may  *)
(* fail.                                                                   *)
Advance(s, n) ==
    /\ lease
    /\ cursor[s] < n /\ <<s, n>> \in mail
    /\ cursor' = [cursor EXCEPT ![s] = n]
    /\ Bumped
    /\ report' \in {report, Acknowledged(cursor')}
    /\ heard' = heard \cup {r \in Pending : r[1] = s /\ r[2] <= n}
    /\ JournalWritten
    /\ UNCHANGED <<mail, rewinds, lease, stamp, bell, follow, sup, pipe, mishaps>>

(* set_cursor, to a position already passed. *)
SetCursor(s, n) ==
    /\ n < cursor[s]
    /\ \A t \in Streams : rewinds[t] < MaxRewinds
    /\ cursor' = [cursor EXCEPT ![s] = n]
    /\ Bumped
    /\ rewinds' = [rewinds EXCEPT ![s] = @ + 1]
    /\ heard' = heard \ (Upto(cursor) \ Upto(cursor'))
    /\ bell' = Late(mail \cap (Upto(cursor) \ Upto(cursor')))
    /\ JournalWritten
    /\ UNCHANGED <<mail, lease, stamp, report, follow, sup, pipe, mishaps>>

EndLease ==
    /\ lease
    /\ Mishap("lease")
    /\ lease' = FALSE
    /\ JournalWritten
    /\ UNCHANGED <<mail, cursor, version, rewinds, stamp, report, bell, follow, sup,
                   ears>>

(***************************************************************************)
(* The pending report.                                                     *)
(***************************************************************************)
Covered == Remainder(report.pos, cursor) = Origin

(* Taken over from a dead owner; the boundary stays. *)
Acquired(b, rep) == [phase |-> "claimed", pos |-> rep.pos, owner |-> b]

OwnerGone(b) == IF report.owner = b THEN [report EXCEPT !.owner = None] ELSE report

(***************************************************************************)
(* A doorbell.                                                             *)
(***************************************************************************)
Loop(b) == IF bell[b].settled THEN "peek" ELSE "poll"

(* The process is gone, and the claim it may own has a dead owner. *)
Exit(b) == bell' = [bell EXCEPT ![b] = NoBell] /\ report' = OwnerGone(b)

(* The slot lock is taken and the snapshot fixed before the coverage row is *)
(* published.                                                              *)
SpawnBell(b) ==
    /\ sup.st = "up" /\ lease
    /\ bell[b].pc = "off"
    /\ bell' = [bell EXCEPT ![b].pc = "snap", ![b].rows = Pending]
    /\ look' = look \cup {b}
    /\ UNCHANGED <<journal, stamp, report, follow, sup, ears, mishaps>>

(* Mutant: the claim is written as a report already made. *)
ArmFirstReported(b) ==
    /\ report.phase = "none" /\ bell[b].rows # {}
    /\ report' = [phase |-> "reported", pos |-> High(bell[b].rows), owner |-> b]
    /\ bell' = [bell EXCEPT ![b].pc = "report", ![b].settled = FALSE]

(* Nobody has reported the backlog the snapshot found. *)
ArmFirst(b) ==
    /\ report.phase = "none" /\ bell[b].rows # {}
    /\ report' = [phase |-> "claimed", pos |-> High(bell[b].rows), owner |-> b]
    /\ bell' = [bell EXCEPT ![b].pc = "report", ![b].settled = FALSE]

(* An open report whose owner is dead is claimed again. *)
ArmTakesOver(b) ==
    /\ Open /\ ~Covered /\ report.owner = None
    /\ report' = Acquired(b, Acknowledged(cursor))
    /\ bell' = [bell EXCEPT ![b].pc = "report", ![b].settled = FALSE]

(* An open report of a living owner. *)
ArmWaits(b) ==
    /\ Open /\ ~Covered /\ report.owner # None
    /\ report' = Acknowledged(cursor)
    /\ bell' = [bell EXCEPT ![b].pc = "poll", ![b].settled = FALSE, ![b].rows = {}, ![b].late = {}]

(* Nothing unread, or all of it under a report that is over. *)
ArmSettled(b) ==
    /\ \/ report.phase = "none" /\ bell[b].rows = {}
       \/ report.phase = "acknowledged"
       \/ Open /\ Covered
    /\ report' = Acknowledged(cursor)
    /\ bell' = [bell EXCEPT ![b].pc = "peek", ![b].rows = {}, ![b].late = {}]

Arm(b) ==
    /\ bell[b].pc = "snap" /\ lease
    /\ ArmFirst(b) \/ ArmTakesOver(b) \/ ArmWaits(b) \/ ArmSettled(b)
    /\ JournalWritten
    /\ UNCHANGED <<journal, stamp, follow, sup, ears, mishaps>>

(* emit_pending_report up to its flush; nothing to say when it is consumed. *)
(* The snapshot is told if it reaches the boundary, else what is unread up *)
(* to it now.                                                              *)
PrintReport(b) ==
    LET rest == Acknowledged(cursor).pos
        held == bell[b].rows \cap Upto(rest)
        fits == High(held) = rest
    IN
    /\ bell[b].pc = "report" /\ ~bell[b].orphan
    /\ report' = Acknowledged(cursor)
    /\ IF Open /\ ~Covered
       THEN /\ pipe' = pipe \cup IF fits THEN held ELSE Pending \cap Upto(rest)
            /\ bell' = [bell EXCEPT ![b].pc = "mark", ![b].rows = {},
                                    ![b].late = IF fits THEN @ ELSE {}]
       ELSE /\ bell' = [bell EXCEPT ![b].pc = "peek", ![b].settled = TRUE, ![b].rows = {},
                                    ![b].late = {}]
            /\ UNCHANGED pipe
    /\ UNCHANGED <<journal, stamp, look, follow, sup, heard, mishaps>>

MarkReported(b) ==
    /\ bell[b].pc = "mark"
    /\ report' = IF report.phase = "claimed" /\ report.owner = b
                 THEN [report EXCEPT !.phase = "reported"] ELSE report
    /\ bell' = [bell EXCEPT ![b].pc = "peek", ![b].settled = TRUE]
    /\ UNCHANGED <<journal, stamp, look, follow, sup, ears, mishaps>>

(* The top of the loop while a report is open: settle it or take it over,  *)
(* with a snapshot of its own.                                             *)
Settle(b) ==
    /\ bell[b].pc = "poll" /\ ~bell[b].orphan
    /\ LET takes == Open /\ ~Covered /\ report.owner = None
           rep == Acknowledged(cursor)
       IN  /\ report' = IF takes THEN Acquired(b, rep) ELSE rep
           /\ bell' = [bell EXCEPT ![b].pc = IF takes THEN "report" ELSE "peek",
                                   ![b].rows = IF takes THEN Pending ELSE {},
                                   ![b].settled = ~(Open /\ ~Covered)]
    /\ UNCHANGED <<journal, stamp, look, follow, sup, ears, mishaps>>

(* pending_report_suppression: mail a living owner has reported. *)
Suppressed ==
    IF report.phase = "reported" /\ report.owner # None THEN Upto(report.pos) ELSE {}

Peek(b) ==
    /\ bell[b].pc = "peek" /\ ~bell[b].orphan /\ lease
    /\ LET rows == IF b \in look THEN Pending \ Suppressed ELSE {} IN
       IF rows # {}
       THEN /\ bell' = [bell EXCEPT ![b].pc = "ring", ![b].ver = version, ![b].rows = rows]
            /\ UNCHANGED look
       ELSE /\ bell' = [bell EXCEPT ![b].pc = Loop(b)]
            /\ look' = look \ {b}
    /\ UNCHANGED <<journal, stamp, report, follow, sup, ears, mishaps>>

ClaimRing(b) ==
    /\ bell[b].pc = "ring"
    /\ IF stamp = bell[b].ver
       THEN /\ bell' = [bell EXCEPT ![b].pc = Loop(b), ![b].ver = 0, ![b].rows = {}]
            /\ UNCHANGED stamp
       ELSE /\ stamp' = bell[b].ver
            /\ bell' = [bell EXCEPT ![b].pc = "claimed"]
    /\ look' = look \cup {b}
    /\ UNCHANGED <<journal, report, follow, sup, ears, mishaps>>

(* Mutant: a failed delivery keeps the stamp. *)
ReleasedNothing(ver) == stamp

(* release_ring_claim removes only the stamp of its own version. *)
Released(ver) == IF stamp = ver THEN 0 ELSE stamp

PrintRing(b) ==
    /\ bell[b].pc = "claimed" /\ ~bell[b].orphan
    /\ pipe' = pipe \cup bell[b].rows
    /\ Exit(b)
    /\ JournalWritten
    /\ UNCHANGED <<journal, stamp, follow, sup, heard, mishaps>>

(* Standard output is gone, or a step of the delivery raises. *)
RingFails(b) ==
    /\ bell[b].pc = "claimed"
    /\ IF bell[b].orphan THEN UNCHANGED mishaps ELSE Mishap("bell")
    /\ stamp' = Released(bell[b].ver)
    /\ Exit(b)
    /\ JournalWritten
    /\ UNCHANGED <<journal, follow, sup, ears>>

(* A lost parent, a closed pipe or a stale lease, seen in the loop. *)
BellQuits(b) ==
    /\ bell[b].pc \in {"snap", "report", "mark", "poll", "peek"}
    /\ bell[b].orphan \/ ~lease
    /\ Exit(b)
    /\ JournalWritten
    /\ UNCHANGED <<journal, stamp, follow, sup, ears, mishaps>>

BellKilled(b) ==
    /\ bell[b].pc # "off"
    /\ Mishap(IF bell[b].pc = "claimed" THEN "ringing" ELSE "bell")
    /\ Exit(b)
    /\ UNCHANGED <<journal, stamp, look, follow, sup, ears>>

(***************************************************************************)
(* The stream.                                                             *)
(***************************************************************************)
(* A second stream is refused the generation lock and its slot stops. *)
SpawnFollow ==
    /\ sup.st = "up" /\ lease /\ ~sup.stopped
    /\ \/ /\ follow.pc = "off"
          /\ follow' = [NoFollow EXCEPT !.pc = "poll",
                !.high = IF report.phase = "acknowledged" THEN report.pos ELSE Origin]
          /\ UNCHANGED sup
       \/ /\ follow.pc # "off" /\ follow.orphan
          /\ sup' = [sup EXCEPT !.stopped = TRUE]
          /\ UNCHANGED follow
    /\ UNCHANGED <<journal, stamp, report, bell, look, ears, mishaps>>

(* What was delivered of a stream that was rewound is forgotten. *)
ReadRewinds ==
    /\ follow.pc = "poll" /\ lease
    /\ LET moved == {s \in Streams : rewinds[s] # follow.seen[s]} IN
       follow' = [follow EXCEPT
            !.pc = "peek",
            !.reset = @ \/ moved # {},
            !.done = {r \in @ : r[1] \notin moved},
            !.high = [s \in Streams |-> IF s \in moved THEN 0 ELSE @[s]],
            !.seen = rewinds]
    /\ UNCHANGED <<journal, stamp, report, bell, look, sup, ears, mishaps>>

(* Unread rows above the boundary; after a start or a rewind, the stamp    *)
(* that may cover them goes first.                                         *)
FollowPeek ==
    /\ follow.pc = "peek" /\ lease
    /\ LET rows == Pending \ Upto(follow.high)
           pc == IF follow.reset /\ Pending # {} THEN "release"
                 ELSE IF rows # {} THEN "claim" ELSE "poll"
       IN  follow' = [follow EXCEPT
                !.pc = pc, !.reset = IF pc = "release" THEN TRUE ELSE FALSE,
                !.ver = IF pc = "poll" THEN 0 ELSE version,
                !.rows = IF pc = "poll" THEN {} ELSE rows]
    /\ UNCHANGED <<journal, stamp, report, bell, look, sup, ears, mishaps>>

(* Mutant: a stamp that somebody holds is respected, and tried again. *)
FollowReleaseWaits ==
    /\ follow.pc = "release"
    /\ follow' = IF stamp = follow.ver
                 THEN [follow EXCEPT !.pc = "poll", !.rows = {}, !.ver = 0]
                 ELSE [follow EXCEPT !.pc = "claim", !.reset = FALSE]
    /\ UNCHANGED <<journal, stamp, report, bell, look, sup, ears, mishaps>>

(* The lock proves that the previous stream is gone, not that what it or a *)
(* doorbell printed has arrived.                                           *)
FollowRelease ==
    /\ follow.pc = "release"
    /\ stamp' = Released(follow.ver)
    /\ follow' = IF follow.rows = {}
                 THEN [follow EXCEPT !.pc = "poll", !.reset = FALSE, !.ver = 0]
                 ELSE [follow EXCEPT !.pc = "claim", !.reset = FALSE]
    /\ UNCHANGED <<journal, report, bell, look, sup, ears, mishaps>>

FollowClaim ==
    /\ follow.pc = "claim"
    /\ stamp' = follow.ver
    /\ follow' = IF stamp = follow.ver
                 THEN [follow EXCEPT !.pc = "poll", !.rows = {}, !.ver = 0]
                 ELSE [follow EXCEPT !.pc = "emit"]
    /\ UNCHANGED <<journal, report, bell, look, sup, ears, mishaps>>

(* Rows consumed or delivered meanwhile are passed over. *)
FollowEmit ==
    /\ follow.pc = "emit" /\ ~follow.orphan
    /\ LET out == (follow.rows \ Upto(cursor)) \ follow.done IN
       /\ pipe' = pipe \cup out
       /\ follow' = [follow EXCEPT !.pc = "poll", !.done = @ \cup out, !.rows = {}, !.ver = 0]
    /\ UNCHANGED <<journal, stamp, report, bell, look, sup, heard, mishaps>>

EmitFails ==
    /\ follow.pc = "emit"
    /\ IF follow.orphan THEN UNCHANGED mishaps ELSE Mishap("follow")
    /\ stamp' = Released(follow.ver)
    /\ follow' = NoFollow
    /\ UNCHANGED <<journal, report, bell, look, sup, ears>>

(* A stale lease, or a heartbeat that nobody reads. *)
FollowQuits ==
    /\ follow.pc \in {"poll", "peek"}
    /\ follow.orphan \/ ~lease
    /\ follow' = NoFollow
    /\ UNCHANGED <<journal, stamp, report, bell, look, sup, ears, mishaps>>

FollowKilled ==
    /\ follow.pc # "off"
    /\ Mishap("follow")
    /\ follow' = NoFollow
    /\ UNCHANGED <<journal, stamp, report, bell, look, sup, ears>>

(***************************************************************************)
(* The supervisor.                                                         *)
(***************************************************************************)
(* forward_child_line: rows this supervisor has forwarded are not repeated, *)
(* unless their stream was rewound since.                                  *)
Forward(r) ==
    /\ sup.st = "up" /\ r \in pipe
    /\ pipe' = pipe \ {r}
    /\ LET kept == {q \in sup.rows : rewinds[q[1]] = sup.seen[q[1]]} IN
       /\ sup' = [sup EXCEPT !.rows = kept \cup {r}, !.seen = rewinds]
       /\ heard' = IF r \in kept THEN heard ELSE heard \cup {r}
    /\ UNCHANGED <<journal, stamp, report, bell, look, follow, mishaps>>

(* Its pipes and its memory die with it. *)
SupervisorKilled ==
    /\ sup.st = "up"
    /\ Mishap("supervisor")
    /\ sup' = [NoMemory EXCEPT !.st = "down"]
    /\ pipe' = {}
    /\ bell' = [b \in Bells |-> [bell[b] EXCEPT !.orphan = bell[b].pc # "off"]]
    /\ follow' = [follow EXCEPT !.orphan = follow.pc # "off"]
    /\ UNCHANGED <<journal, stamp, report, look, heard>>

Orphans == {b \in Bells : bell[b].orphan} # {} \/ follow.orphan

(* A new supervisor signals the children it finds and waits for their      *)
(* locks, but not for ever.                                                *)
StartSupervisor ==
    /\ sup.st = "down" /\ lease
    /\ sup' = [sup EXCEPT !.st = "releasing"]
    /\ UNCHANGED <<journal, stamp, report, bell, look, follow, ears, mishaps>>

IncumbentsReleased ==
    /\ sup.st = "releasing"
    /\ Orphans => "slow" \in Mishaps
    /\ sup' = NoMemory
    /\ UNCHANGED <<journal, stamp, report, bell, look, follow, ears, mishaps>>

(* A dead nonce stops the supervisor and everything it started. *)
SupervisorStops ==
    /\ sup.st = "up" /\ ~lease
    /\ sup' = [NoMemory EXCEPT !.st = "stopped"]
    /\ pipe' = {}
    /\ bell' = [b \in Bells |-> NoBell]
    /\ report' = [report EXCEPT !.owner = None]
    /\ follow' = NoFollow
    /\ UNCHANGED <<journal, stamp, look, heard, mishaps>>

-----------------------------------------------------------------------------
Controller ==
    \/ \E r \in Rows : Post(r)
    \/ \E s \in Streams, n \in 0..MaxMail : Advance(s, n) \/ SetCursor(s, n)
    \/ EndLease

Ringing(b) ==
    \/ SpawnBell(b) \/ Arm(b) \/ PrintReport(b) \/ MarkReported(b)
    \/ Settle(b) \/ Peek(b) \/ ClaimRing(b) \/ PrintRing(b) \/ BellQuits(b)
    \/ RingFails(b)

Following ==
    \/ SpawnFollow \/ ReadRewinds \/ FollowPeek \/ FollowRelease \/ FollowClaim
    \/ FollowEmit \/ EmitFails \/ FollowQuits

Supervising ==
    \/ \E r \in Rows : Forward(r)
    \/ StartSupervisor \/ IncumbentsReleased \/ SupervisorStops

Next ==
    \/ Controller
    \/ \E b \in Bells : Ringing(b) \/ BellKilled(b)
    \/ Following \/ FollowKilled
    \/ Supervising \/ SupervisorKilled

Spec == Init /\ [][Next]_vars

(* Processes that run take their steps and the supervisor does its work;   *)
(* nobody has to post, to read, to end the lease or to start a supervisor. *)
FairSpec ==
    /\ Spec
    /\ \A b \in Bells : WF_vars(Ringing(b))
    /\ WF_vars(Following)
    /\ WF_vars(\E r \in Rows : Forward(r))
    /\ WF_vars(IncumbentsReleased)

-----------------------------------------------------------------------------
TypeOK ==
    /\ mail \subseteq Rows /\ cursor \in Positions
    /\ \A s \in Streams : cursor[s] = 0 \/ \E r \in mail : r[1] = s /\ cursor[s] <= r[2]
    /\ version \in Versions
    /\ rewinds \in [Streams -> 0..MaxRewinds]
    /\ lease \in BOOLEAN
    /\ stamp \in Versions \cup {0}
    /\ report \in [phase : {"none", "claimed", "reported", "acknowledged"},
                   pos : Positions, owner : Bells \cup {None}]
    /\ bell \in [Bells -> [pc : {"off", "snap", "report", "mark", "poll", "peek",
                                 "ring", "claimed"},
                           ver : Versions \cup {0}, rows : SUBSET Rows, late : SUBSET Rows,
                           settled : BOOLEAN, orphan : BOOLEAN]]
    /\ look \subseteq Bells
    /\ follow \in [pc : {"off", "poll", "peek", "release", "claim", "emit"},
                   ver : Versions \cup {0}, rows : SUBSET Rows, reset : BOOLEAN,
                   done : SUBSET Rows, high : Positions,
                   seen : [Streams -> 0..MaxRewinds], orphan : BOOLEAN]
    /\ sup \in [st : {"up", "down", "releasing", "stopped"}, rows : SUBSET Rows,
                seen : [Streams -> 0..MaxRewinds], stopped : BOOLEAN]
    /\ pipe \subseteq Rows /\ heard \subseteq Rows
    /\ mishaps \in 0..MaxMishaps

(* What a doorbell that reports found unread is not suppressed before the  *)
(* controller could see it: unread mail under a reported boundary whose    *)
(* owner is in a supervised pool has reached the controller or is in the   *)
(* supervisor's pipe.  Mail that became unread after the owner's snapshot, *)
(* because a row below the boundary was made visible late or the           *)
(* controller put it back, is suppressed unseen.                           *)
NothingHidden ==
    report.phase = "reported" /\ report.owner # None =>
        \/ bell[report.owner].orphan
        \/ Pending \cap Upto(report.pos) \subseteq heard \cup pipe \cup bell[report.owner].late

(* The stream will take the stamp back before it waits again. *)
WillReset ==
    \/ follow.pc = "off" \/ follow.orphan
    \/ follow.reset
    \/ \E s \in Streams : rewinds[s] # follow.seen[s]

(* Somebody who holds the stamp prints the row, or the stamp goes. *)
Answered(r) ==
    \/ WillReset
    \/ \E b \in Bells : bell[b].pc = "claimed" /\ bell[b].ver = version /\ r \in bell[b].rows
    \/ follow.pc = "emit" /\ follow.ver = version /\ r \in follow.rows

(* A stamp on the current version has somebody behind it: what is unread   *)
(* and unheard is in the pipe, or about to be printed by the holder of the *)
(* claim, or the stream is about to clear the stamp, or the row is below   *)
(* the boundary of an open report, whose owner tells it, or told it, or    *)
(* has left it behind.                                                     *)
StampAnswered ==
    stamp = version /\ sup.st = "up" /\ ~sup.stopped =>
        \A r \in Pending \ (heard \cup pipe) : UnderReport(r) \/ Answered(r)

(* A row that became unread below a reported boundary, after the snapshot  *)
(* of the owner that lives: the doorbells suppress it, and when one of     *)
(* them has rung this version for newer mail, the stream passes it over.   *)
LeftBehind(r) ==
    /\ report.phase = "reported" /\ report.owner # None /\ UnderReport(r)
    /\ r \in bell[report.owner].late
    /\ stamp = version /\ ~Answered(r)

Unheard == {r \in Pending \ heard : ~LeftBehind(r)}
Supervised == lease /\ sup.st = "up" /\ ~sup.stopped

(* While a supervisor runs and the lease is live, unread mail reaches the  *)
(* controller, through a report, a ring or the stream, unless it is left   *)
(* behind.  Rows and rewinds are finitely many, so it is asked of all mail *)
(* at once.                                                                *)
EveryMailHeard == Supervised ~> Unheard = {} \/ ~Supervised
=============================================================================
