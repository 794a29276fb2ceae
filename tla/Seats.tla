------------------------------- MODULE Seats -------------------------------
(***************************************************************************)
(* The pool of worktree seats: goalflight_worktree_pool.py, the part of    *)
(* goalflight_dispatch.py that binds a worker to a seat, and the removal   *)
(* of checkouts by goalflight_worktree_gc.py.                              *)
(*                                                                         *)
(* A seat is a checkout s-N, a lock file whose flock is the ownership of   *)
(* the seat, and the name of the occupant written in that file.  A         *)
(* launcher claims the flock, saves what the previous dispatch left,       *)
(* checks out its own branch, names itself the occupant and spawns a       *)
(* worker that inherits the descriptor; it then closes its own.  The       *)
(* kernel frees the flock when the last process that has the descriptor    *)
(* is gone.  Launchers may die between any two steps.                      *)
(*                                                                         *)
(* Work is counted in edits: <<d, n>> is the n-th edit of dispatch d.      *)
(***************************************************************************)
EXTENDS Naturals, FiniteSets

CONSTANTS
    Dispatches,     \* dispatch ids, each launched once
    Parent,         \* the dispatch a dispatch resumes, or None; resumed once
    SeatLimit,      \* configured_worktree_seats()
    MaxEdits,       \* edits of the worker of a dispatch, at most
    MaxFaults,      \* killed launchers and failed git steps, at most
    None

ASSUME SeatsAssumption ==
    /\ None \notin Dispatches
    /\ Parent \in [Dispatches -> Dispatches \cup {None}]
    /\ \A d, e \in Dispatches : Parent[d] = Parent[e] => d = e \/ Parent[d] = None
    /\ SeatLimit \in Nat \ {0} /\ MaxEdits \in [Dispatches -> Nat] /\ MaxFaults \in Nat

VARIABLES
    tree,       \* the checkout of a seat: branch and uncommitted edits
    tip,        \* edits committed on branch worktree/<dispatch>
    saved,      \* refs/goalflight/keep/<dispatch>/head
    kept,       \* edits in quarantine branches and stamped keep refs
    merged,     \* edits in the integration branch, the base of new seats
    meta,       \* the occupant named in the lock file
    flock,      \* processes that share the descriptor of the seat lock
    occ,        \* processes that share the descriptor of the path lock
    alloc,      \* who holds allocation.lock
    hwm,        \* slots ever created
    pc,         \* where a launcher is
    seat,       \* the seat a launcher works on, its worker's cwd
    tried,      \* candidates a launcher has passed over
    branch,     \* the branch a launcher checks out
    worker,     \* the worker process
    row,        \* ledger row: its state and what it proves
    gc,         \* the removal pass
    wrote,      \* edits a worker has made
    faults

vars == <<tree, tip, saved, kept, merged, meta, flock, occ, alloc, hwm, pc, seat,
          tried, branch, worker, row, gc, wrote, faults>>
git == <<tip, saved, kept, merged>>
locks == <<flock, occ>>
self == <<seat, tried, branch>>

Seats == 1..SeatLimit
Work == {w \in Dispatches \X Nat : w[2] \in 1..MaxEdits[w[1]]}
Absent == [there |-> FALSE, branch |-> None, dirty |-> {}]
L(d) == <<"launcher", d>>
W(d) == <<"worker", d>>
GC == <<"gc", None>>
Procs == {L(d) : d \in Dispatches} \cup {W(d) : d \in Dispatches} \cup {GC}
Alive == {"choosing", "claimed", "examined", "headed", "quarantined", "fresh",
          "created", "attached", "seated", "starting", "spawned", "dropped", "refused"}

Init ==
    /\ tree = [s \in Seats |-> Absent]
    /\ tip = [d \in Dispatches |-> {}]
    /\ saved = [d \in Dispatches |-> None]
    /\ kept = {} /\ merged = {}
    /\ meta = [s \in Seats |-> None]
    /\ flock = [s \in Seats |-> {}]
    /\ occ = [s \in Seats |-> {}]
    /\ alloc = None /\ hwm = 0
    /\ pc = [d \in Dispatches |-> "idle"]
    /\ seat = [d \in Dispatches |-> 0]
    /\ tried = [d \in Dispatches |-> {}]
    /\ branch = [d \in Dispatches |-> d]
    /\ worker = [d \in Dispatches |-> "unborn"]
    /\ row = [d \in Dispatches |->
                [state |-> "none", known |-> FALSE, prelaunch |-> FALSE, aged |-> FALSE]]
    /\ gc = [pc |-> "idle", seat |-> 0]
    /\ wrote = [d \in Dispatches |-> 0]
    /\ faults = 0

-----------------------------------------------------------------------------
(* What a seat shows of its holder *)

(* _holder_record, _validate_holder: the dispatch is terminal and either   *)
(* its recorded worker is proven gone or it provably never launched.       *)
Settled(h) ==
    /\ row[h].state = "terminal"
    /\ IF row[h].known THEN worker[h] # "live" ELSE row[h].prelaunch

(* The branch names the holder; a resume keeps the branch and renames the  *)
(* occupant.  Both must be settled.                                        *)
HoldersSettled(s) ==
    \A h \in {tree[s].branch, meta[s]} : Settled(h)

(* _holder_is_terminal_or_unresolvable *)
TerminalOrUnresolvable(h) ==
    \/ ~row[h].known
    \/ worker[h] # "live" /\ row[h].state = "terminal"

(* A present checkout without a readable occupant is not a free seat. *)
Nameless(s) == tree[s].there /\ meta[s] = None

CapacityOccupants == {s \in Seats : flock[s] # {} \/ Nameless(s)}

(* The launcher's descriptors close, by a return or by its death. *)
Close(p, s) ==
    /\ flock' = [flock EXCEPT ![s] = @ \ {p}]
    /\ occ' = [occ EXCEPT ![s] = @ \ {p}]

-----------------------------------------------------------------------------
(* Choosing a seat: acquire_worktree_seat *)

Free == alloc = None

(* A dispatch enters the ledger; a resume after its parent has ended. *)
Submit(d) ==
    /\ row[d].state = "none"
    /\ Parent[d] # None => row[Parent[d]].state = "terminal"
    /\ row' = [row EXCEPT ![d].state = "queued"]
    /\ UNCHANGED <<tree, git, meta, locks, alloc, hwm, pc, self, worker, gc, wrote, faults>>

(* The occupants are counted under the allocation lock. *)
Begin(d) ==
    /\ pc[d] = "idle" /\ row[d].state = "queued" /\ Parent[d] = None /\ Free
    /\ Cardinality(CapacityOccupants) < SeatLimit
    /\ alloc' = d
    /\ pc' = [pc EXCEPT ![d] = "choosing"]
    /\ tried' = [tried EXCEPT ![d] = {}]
    /\ UNCHANGED <<tree, git, meta, locks, hwm, seat, branch, worker, row, gc, wrote, faults>>

(* try_candidate with a seat that can be claimed: the allocation lock goes *)
(* before the seat is prepared.                                            *)
Claim(d, s) ==
    /\ pc[d] = "choosing" /\ s \in 1..hwm \ tried[d]
    /\ flock[s] = {} /\ ~Nameless(s)
    /\ flock' = [flock EXCEPT ![s] = {L(d)}]
    /\ alloc' = None
    /\ pc' = [pc EXCEPT ![d] = "claimed"]
    /\ seat' = [seat EXCEPT ![d] = s]
    /\ UNCHANGED <<tree, git, meta, occ, hwm, tried, branch, worker, row, gc, wrote, faults>>

(* try_candidate with a seat that is held or has no readable occupant. *)
PassOver(d, s) ==
    /\ pc[d] = "choosing" /\ s \in 1..hwm \ tried[d]
    /\ flock[s] # {} \/ Nameless(s)
    /\ tried' = [tried EXCEPT ![d] = @ \cup {s}]
    /\ UNCHANGED <<tree, git, meta, locks, alloc, hwm, pc, seat, branch, worker, row, gc,
                   wrote, faults>>

(* Mutant: a slot beyond the limit. *)
CreateSlotBeyond(d) ==
    /\ pc[d] = "choosing" /\ tried[d] = 1..hwm
    /\ hwm' = hwm + 1
    /\ UNCHANGED <<tree, git, meta, locks, alloc, pc, seat, tried, branch, worker, row, gc,
                   wrote, faults>>

(* create_next_slot: the high-water mark is written before the slot is     *)
(* tried.                                                                  *)
CreateNextSlot(d) ==
    /\ pc[d] = "choosing" /\ tried[d] = 1..hwm /\ hwm < SeatLimit
    /\ hwm' = hwm + 1
    /\ UNCHANGED <<tree, git, meta, locks, alloc, pc, seat, tried, branch, worker, row, gc,
                   wrote, faults>>

(* Mutant: the allocation lock is kept by a launcher that found no seat. *)
UnavailableLocked(d) ==
    /\ pc[d] = "choosing" /\ tried[d] = Seats
    /\ pc' = [pc EXCEPT ![d] = "idle"]
    /\ UNCHANGED <<tree, git, meta, locks, alloc, hwm, self, worker, row, gc, wrote, faults>>

(* Every candidate is busy or refused: the caller waits and tries again. *)
Unavailable(d) ==
    /\ pc[d] = "choosing" /\ tried[d] = Seats
    /\ alloc' = None
    /\ pc' = [pc EXCEPT ![d] = "idle"]
    /\ UNCHANGED <<tree, git, meta, locks, hwm, self, worker, row, gc, wrote, faults>>

(* After a refusal the allocation lock is taken again and the next         *)
(* candidate tried.                                                        *)
NextCandidate(d) ==
    /\ pc[d] = "refused" /\ Free
    /\ alloc' = d
    /\ pc' = [pc EXCEPT ![d] = "choosing"]
    /\ tried' = [tried EXCEPT ![d] = @ \cup {seat[d]}]
    /\ UNCHANGED <<tree, git, meta, locks, hwm, seat, branch, worker, row, gc, wrote, faults>>

-----------------------------------------------------------------------------
(* Preparing a claimed seat: _prepare_claimed_seat *)

Refuse(d) ==
    /\ Close(L(d), seat[d])
    /\ pc' = [pc EXCEPT ![d] = "refused"]
    /\ UNCHANGED <<tree, git, meta, alloc, hwm, self, worker, row, gc, wrote>>

(* The path lock excludes writers, then the holders are validated. *)
Examine(d) ==
    LET s == seat[d] IN
    /\ pc[d] = "claimed" /\ tree[s].there
    /\ occ[s] = {} /\ HoldersSettled(s)
    /\ occ' = [occ EXCEPT ![s] = {L(d)}]
    /\ pc' = [pc EXCEPT ![d] = "examined"]
    /\ UNCHANGED <<tree, git, meta, flock, alloc, hwm, self, worker, row, gc, wrote, faults>>

RefuseHolder(d) ==
    LET s == seat[d] IN
    /\ pc[d] = "claimed" /\ tree[s].there
    /\ occ[s] # {} \/ ~HoldersSettled(s)
    /\ Refuse(d) /\ UNCHANGED faults

(* The head is saved under the name of its branch; a different head saved  *)
(* there before is never overwritten.                                      *)
SaveHead(d) ==
    LET b == tree[seat[d]].branch IN
    /\ pc[d] = "examined" /\ saved[b] \in {None, tip[b]}
    /\ saved' = [saved EXCEPT ![b] = tip[b]]
    /\ pc' = [pc EXCEPT ![d] = "headed"]
    /\ UNCHANGED <<tree, tip, kept, merged, meta, locks, alloc, hwm, self, worker, row, gc,
                   wrote, faults>>

RefuseOverwrite(d) ==
    LET b == tree[seat[d]].branch IN
    /\ pc[d] = "examined" /\ saved[b] \notin {None, tip[b]}
    /\ Refuse(d) /\ UNCHANGED faults

(* Mutant: only the head is kept, not what is uncommitted. *)
QuarantineHead(d) ==
    /\ pc[d] = "headed"
    /\ kept' = kept \cup tip[tree[seat[d]].branch]
    /\ pc' = [pc EXCEPT ![d] = "quarantined"]
    /\ UNCHANGED <<tree, tip, saved, merged, meta, locks, alloc, hwm, self, worker, row, gc,
                   wrote, faults>>

(* Whatever is uncommitted becomes a quarantine commit, verified. *)
QuarantineDirty(d) ==
    /\ pc[d] = "headed"
    /\ kept' = kept \cup tree[seat[d]].dirty
    /\ pc' = [pc EXCEPT ![d] = "quarantined"]
    /\ UNCHANGED <<tree, tip, saved, merged, meta, locks, alloc, hwm, self, worker, row, gc,
                   wrote, faults>>

(* A git step that fails before the checkout is a refusal. *)
GitFails(d) ==
    /\ pc[d] \in {"examined", "headed", "quarantined"} /\ faults < MaxFaults
    /\ Refuse(d) /\ faults' = faults + 1

(* The base of a fresh dispatch is the integration branch, of a relocated  *)
(* resume the tip of the branch it resumes.                                *)
Base(d) == IF branch[d] = d THEN merged ELSE tip[branch[d]]

(* A branch that a forced checkout moves is pinned first. *)
ForcedCheckout(d) ==
    /\ kept' = kept \cup (tip[branch[d]] \ Base(d))
    /\ tip' = [tip EXCEPT ![branch[d]] = Base(d)]
    /\ tree' = [tree EXCEPT ![seat[d]] =
                  [there |-> TRUE, branch |-> branch[d], dirty |-> {}]]

Checkout(d) ==
    /\ pc[d] = "quarantined"
    /\ ForcedCheckout(d)
    /\ pc' = [pc EXCEPT ![d] = "fresh"]
    /\ UNCHANGED <<saved, merged, meta, locks, alloc, hwm, self, worker, row, gc, wrote,
                   faults>>

(* _create_seat_worktree *)
CreateTree(d) ==
    /\ pc[d] = "claimed" /\ ~tree[seat[d]].there
    /\ ForcedCheckout(d)
    /\ pc' = [pc EXCEPT ![d] = "created"]
    /\ UNCHANGED <<saved, merged, meta, locks, alloc, hwm, self, worker, row, gc, wrote,
                   faults>>

(* _write_occupant is the last step: until then the old name stays.  The   *)
(* path lock of a reset ends with it; a new checkout takes one that its    *)
(* worker inherits.                                                        *)
WriteOccupant(d) ==
    LET s == seat[d] IN
    /\ pc[d] \in {"fresh", "created", "attached"}
    /\ meta' = [meta EXCEPT ![s] = d]
    /\ occ' = [occ EXCEPT ![s] = IF pc[d] = "fresh" THEN {} ELSE {L(d)}]
    /\ pc' = [pc EXCEPT ![d] = "seated"]
    /\ UNCHANGED <<tree, git, flock, alloc, hwm, self, worker, row, gc, wrote, faults>>

-----------------------------------------------------------------------------
(* Resuming in the parent's seat *)

(* _resume_parent_is_terminal_and_exited *)
ParentExited(p) == row[p].state = "terminal" /\ row[p].known /\ worker[p] # "live"

(* Mutant: the parent's terminal row is taken for its exit, and its lock   *)
(* for one of ours.                                                        *)
AttachByRow(d) ==
    LET p == Parent[d]  s == seat[p] IN
    /\ pc[d] = "idle" /\ row[d].state = "queued" /\ p # None /\ Free
    /\ row[p].state = "terminal" /\ s # 0 /\ tree[s].there /\ meta[s] = p
    /\ flock' = [flock EXCEPT ![s] = {L(d)}]
    /\ occ' = [occ EXCEPT ![s] = {L(d)}]
    /\ pc' = [pc EXCEPT ![d] = "attached"]
    /\ seat' = [seat EXCEPT ![d] = s]
    /\ UNCHANGED <<tree, git, meta, alloc, hwm, tried, branch, worker, row, gc, wrote, faults>>

(* The checkout still bears the parent's name: it is attached as it is. *)
Attach(d) ==
    LET p == Parent[d]  s == seat[p] IN
    /\ pc[d] = "idle" /\ row[d].state = "queued" /\ p # None /\ Free
    /\ ParentExited(p) /\ s # 0 /\ tree[s].there
    /\ Cardinality(CapacityOccupants \ {s}) < SeatLimit
    /\ flock[s] = {} /\ occ[s] = {} /\ meta[s] = p
    /\ flock' = [flock EXCEPT ![s] = {L(d)}]
    /\ occ' = [occ EXCEPT ![s] = {L(d)}]
    /\ pc' = [pc EXCEPT ![d] = "attached"]
    /\ seat' = [seat EXCEPT ![d] = s]
    /\ UNCHANGED <<tree, git, meta, alloc, hwm, tried, branch, worker, row, gc, wrote, faults>>

(* The checkout is gone, or another dispatch that is not done took the     *)
(* seat and nobody holds it: the parent's branch is checked out in another *)
(* seat (_resume_replacement_worktree).                                    *)
Relocate(d) ==
    LET p == Parent[d]  s == seat[p] IN
    /\ pc[d] = "idle" /\ row[d].state = "queued" /\ p # None /\ Free
    /\ row[p].state = "terminal" /\ s # 0 /\ flock[s] = {}
    /\ \/ ~tree[s].there
       \/ meta[s] \notin {None, p} /\ ~TerminalOrUnresolvable(meta[s])
    /\ Cardinality(CapacityOccupants) < SeatLimit
    /\ alloc' = d
    /\ pc' = [pc EXCEPT ![d] = "choosing"]
    /\ tried' = [tried EXCEPT ![d] = {}]
    /\ branch' = [branch EXCEPT ![d] = branch[p]]
    /\ UNCHANGED <<tree, git, meta, locks, hwm, seat, worker, row, gc, wrote, faults>>

-----------------------------------------------------------------------------
(* From the seat to the worker: main of goalflight_dispatch.py *)

RecordStarting(d) ==
    /\ pc[d] = "seated"
    /\ row' = [row EXCEPT ![d].state = "starting"]
    /\ pc' = [pc EXCEPT ![d] = "starting"]
    /\ UNCHANGED <<tree, git, meta, locks, alloc, hwm, self, worker, gc, wrote, faults>>

(* _spawn_daemonized_process: the worker has the descriptors too. *)
Spawn(d) ==
    LET s == seat[d] IN
    /\ pc[d] = "starting"
    /\ worker' = [worker EXCEPT ![d] = "live"]
    /\ flock' = [flock EXCEPT ![s] = @ \cup {W(d)}]
    /\ occ' = [occ EXCEPT ![s] = IF L(d) \in @ THEN @ \cup {W(d)} ELSE @]
    /\ pc' = [pc EXCEPT ![d] = "spawned"]
    /\ UNCHANGED <<tree, git, meta, alloc, hwm, self, row, gc, wrote, faults>>

(* Mutant: LOCK_UN before the close unlocks for the worker as well. *)
DropSeatUnlocks(d) ==
    /\ pc[d] = "spawned"
    /\ flock' = [flock EXCEPT ![seat[d]] = {}]
    /\ occ' = [occ EXCEPT ![seat[d]] = {}]
    /\ pc' = [pc EXCEPT ![d] = "dropped"]
    /\ UNCHANGED <<tree, git, meta, alloc, hwm, self, worker, row, gc, wrote, faults>>

(* The launcher closes its descriptors; it never unlocks. *)
DropSeat(d) ==
    /\ pc[d] = "spawned"
    /\ Close(L(d), seat[d])
    /\ pc' = [pc EXCEPT ![d] = "dropped"]
    /\ UNCHANGED <<tree, git, meta, alloc, hwm, self, worker, row, gc, wrote, faults>>

(* The worker's identity reaches the row only now. *)
RecordRunning(d) ==
    /\ pc[d] = "dropped"
    /\ row' = [row EXCEPT ![d].state = IF @ = "terminal" THEN @ ELSE "running",
                          ![d].known = TRUE]
    /\ pc' = [pc EXCEPT ![d] = "done"]
    /\ UNCHANGED <<tree, git, meta, locks, alloc, hwm, self, worker, gc, wrote, faults>>

(* A launch that ends before its spawn says so, and gives up its seat. *)
Fail(d) ==
    /\ pc[d] \in {"idle", "seated", "starting"} /\ row[d].state # "none"
    /\ IF pc[d] = "idle" THEN UNCHANGED locks ELSE Close(L(d), seat[d])
    /\ row' = [row EXCEPT ![d].state = "terminal", ![d].prelaunch = TRUE]
    /\ pc' = [pc EXCEPT ![d] = "done"]
    /\ UNCHANGED <<tree, git, meta, alloc, hwm, self, worker, gc, wrote, faults>>

LauncherDies(d) ==
    /\ pc[d] \in Alive /\ faults < MaxFaults
    /\ IF seat[d] = 0 THEN UNCHANGED locks ELSE Close(L(d), seat[d])
    /\ alloc' = IF alloc = d THEN None ELSE alloc
    /\ pc' = [pc EXCEPT ![d] = "dead"]
    /\ faults' = faults + 1
    /\ UNCHANGED <<tree, git, meta, hwm, self, worker, row, gc, wrote>>

(* Reconcile ends the row of a dead launcher, and has no worker to name. *)
Reconcile(d) ==
    /\ pc[d] = "dead" /\ row[d].state # "terminal"
    /\ row' = [row EXCEPT ![d].state = "terminal"]
    /\ UNCHANGED <<tree, git, meta, locks, alloc, hwm, pc, self, worker, gc, wrote, faults>>

(* The watcher's verdict: the worker is gone, or has been idle too long    *)
(* and may be alive.                                                       *)
Verdict(d) ==
    /\ row[d].state = "running"
    /\ row' = [row EXCEPT ![d].state = "terminal"]
    /\ UNCHANGED <<tree, git, meta, locks, alloc, hwm, pc, self, worker, gc, wrote, faults>>

(* release_worktree_for_dispatch: a free lock that still names the         *)
(* dispatch, and a named launcher that is gone.                            *)
ReleaseWithdrawn(d) ==
    LET s == seat[d] IN
    IF s # 0 /\ tree[s].there /\ flock[s] = {} /\ meta[s] = d /\ pc[d] \in {"done", "dead"}
    THEN meta' = [meta EXCEPT ![s] = None]
    ELSE UNCHANGED meta

(* An operator withdraws a dispatch that has started. *)
Withdraw(d) ==
    /\ row[d].state \in {"starting", "running"}
    /\ row' = [row EXCEPT ![d].state = "terminal"]
    /\ ReleaseWithdrawn(d)
    /\ UNCHANGED <<tree, git, locks, alloc, hwm, pc, self, worker, gc, wrote, faults>>

(* The seven days in which a terminal dispatch may be resumed are over. *)
Age(d) ==
    /\ row[d].state = "terminal" /\ ~row[d].aged
    /\ row' = [row EXCEPT ![d].aged = TRUE]
    /\ UNCHANGED <<tree, git, meta, locks, alloc, hwm, pc, self, worker, gc, wrote, faults>>

-----------------------------------------------------------------------------
(* The worker, in the seat it was spawned in *)

Edit(d) ==
    LET s == seat[d] IN
    /\ worker[d] = "live" /\ tree[s].there /\ wrote[d] < MaxEdits[d]
    /\ wrote' = [wrote EXCEPT ![d] = @ + 1]
    /\ tree' = [tree EXCEPT ![s].dirty = @ \cup {<<d, wrote[d] + 1>>}]
    /\ UNCHANGED <<git, meta, locks, alloc, hwm, pc, self, worker, row, gc, faults>>

Commit(d) ==
    LET s == seat[d] IN
    /\ worker[d] = "live" /\ tree[s].there /\ tree[s].dirty # {}
    /\ tip' = [tip EXCEPT ![tree[s].branch] = @ \cup tree[s].dirty]
    /\ tree' = [tree EXCEPT ![s].dirty = {}]
    /\ UNCHANGED <<saved, kept, merged, meta, locks, alloc, hwm, pc, self, worker, row, gc,
                   wrote, faults>>

Exit(d) ==
    /\ worker[d] = "live"
    /\ worker' = [worker EXCEPT ![d] = "gone"]
    /\ Close(W(d), seat[d])
    /\ UNCHANGED <<tree, git, meta, alloc, hwm, pc, self, row, gc, wrote, faults>>

(* The controller merges a branch. *)
Integrate(d) ==
    /\ ~(tip[d] \subseteq merged)
    /\ merged' = merged \cup tip[d]
    /\ UNCHANGED <<tree, tip, saved, kept, meta, locks, alloc, hwm, pc, self, worker, row, gc,
                   wrote, faults>>

-----------------------------------------------------------------------------
(* Removal of checkouts: goalflight_worktree_gc.py *)

(* _record_owns_path: a live worker, a dispatch that is not terminal, or   *)
(* one that may still be resumed.                                          *)
Owns(d, s) ==
    /\ seat[d] = s /\ row[d].state \notin {"none", "queued"}
    /\ \/ row[d].known /\ worker[d] = "live"
       \/ row[d].state # "terminal"
       \/ ~row[d].aged

(* check_unowned: a row that is not terminal and names no checkout keeps   *)
(* every checkout of the project.                                          *)
Unowned(s) ==
    \A d \in Dispatches : row[d].state # "queued" /\ ~Owns(d, s)

Removable(s, held) ==
    /\ tree[s].there
    /\ tip[tree[s].branch] \subseteq merged
    /\ tree[s].dirty = {}
    /\ Unowned(s)
    /\ flock[s] \subseteq held

ScanDecides(s) ==
    /\ gc.pc = "idle" /\ Removable(s, {})
    /\ gc' = [pc |-> "decided", seat |-> s]
    /\ UNCHANGED <<tree, git, meta, locks, alloc, hwm, pc, self, worker, row, wrote, faults>>

(* apply_removals: the lock of the seat, then the pin, then the recheck. *)
TakeActionLock ==
    /\ gc.pc = "decided"
    /\ IF flock[gc.seat] = {}
       THEN /\ flock' = [flock EXCEPT ![gc.seat] = {GC}]
            /\ gc' = [gc EXCEPT !.pc = "locked"]
       ELSE gc' = [pc |-> "idle", seat |-> 0] /\ UNCHANGED flock
    /\ UNCHANGED <<tree, git, meta, occ, alloc, hwm, pc, self, worker, row, wrote, faults>>

PinHead ==
    /\ gc.pc = "locked"
    /\ kept' = IF tree[gc.seat].there THEN kept \cup tip[tree[gc.seat].branch] ELSE kept
    /\ gc' = [gc EXCEPT !.pc = "pinned"]
    /\ UNCHANGED <<tree, tip, saved, merged, meta, locks, alloc, hwm, pc, self, worker, row,
                   wrote, faults>>

(* The lock file and the occupant in it stay. *)
Remove ==
    /\ gc.pc = "pinned"
    /\ tree' = IF Removable(gc.seat, {GC}) THEN [tree EXCEPT ![gc.seat] = Absent] ELSE tree
    /\ Close(GC, gc.seat)
    /\ gc' = [pc |-> "idle", seat |-> 0]
    /\ UNCHANGED <<git, meta, alloc, hwm, pc, self, worker, row, wrote, faults>>

-----------------------------------------------------------------------------
Launcher(d) ==
    \/ Begin(d) \/ CreateNextSlot(d) \/ Unavailable(d) \/ NextCandidate(d)
    \/ \E s \in Seats : Claim(d, s) \/ PassOver(d, s)
    \/ Examine(d) \/ RefuseHolder(d) \/ SaveHead(d) \/ RefuseOverwrite(d)
    \/ QuarantineDirty(d) \/ Checkout(d) \/ CreateTree(d) \/ WriteOccupant(d)
    \/ Attach(d) \/ Relocate(d)
    \/ RecordStarting(d) \/ Spawn(d) \/ DropSeat(d) \/ RecordRunning(d)

Collector == (\E s \in Seats : ScanDecides(s)) \/ TakeActionLock \/ PinHead \/ Remove

Next ==
    \/ \E d \in Dispatches :
        \/ Submit(d) \/ Launcher(d) \/ Fail(d) \/ GitFails(d) \/ LauncherDies(d)
        \/ Edit(d) \/ Commit(d) \/ Exit(d)
        \/ Reconcile(d) \/ Verdict(d) \/ Withdraw(d) \/ Age(d) \/ Integrate(d)
    \/ Collector

Spec == Init /\ [][Next]_vars

(* A launcher that is not killed takes its next step and is not kept from  *)
(* the allocation lock for ever; reconcile and the watcher see what is     *)
(* dead; a removal that has begun goes on.  No worker has to exit.         *)
Fairness ==
    /\ \A d \in Dispatches :
        /\ WF_vars(Launcher(d))
        /\ SF_vars(Begin(d) \/ NextCandidate(d))
        /\ WF_vars(Reconcile(d) \/ (worker[d] = "gone" /\ Verdict(d)))
    /\ WF_vars(TakeActionLock \/ PinHead \/ Remove)

FairSpec == Spec /\ Fairness

-----------------------------------------------------------------------------
(* Properties *)

(* Type invariant. *)
TypeOK ==
    /\ tree \in [Seats -> [there : BOOLEAN, branch : Dispatches \cup {None},
                           dirty : SUBSET Work]]
    /\ tip \in [Dispatches -> SUBSET Work]
    /\ saved \in [Dispatches -> (SUBSET Work) \cup {None}]
    /\ kept \subseteq Work /\ merged \subseteq Work
    /\ meta \in [Seats -> Dispatches \cup {None}]
    /\ flock \in [Seats -> SUBSET Procs] /\ occ \in [Seats -> SUBSET Procs]
    /\ alloc \in Dispatches \cup {None} /\ hwm \in 0..SeatLimit
    /\ pc \in [Dispatches -> Alive \cup {"idle", "done", "dead"}]
    /\ seat \in [Dispatches -> 0..SeatLimit]
    /\ tried \in [Dispatches -> SUBSET Seats]
    /\ branch \in [Dispatches -> Dispatches]
    /\ worker \in [Dispatches -> {"unborn", "live", "gone"}]
    /\ row \in [Dispatches ->
                 [state : {"none", "queued", "starting", "running", "terminal"},
                  known : BOOLEAN, prelaunch : BOOLEAN, aged : BOOLEAN]]
    /\ gc \in [pc : {"idle", "decided", "locked", "pinned"}, seat : 0..SeatLimit]
    /\ wrote \in [Dispatches -> Nat] /\ \A d \in Dispatches : wrote[d] <= MaxEdits[d]
    /\ faults \in 0..MaxFaults

(* Two workers never write in one checkout: whatever died, was withdrawn,  *)
(* resumed or relocated in between, a seat is handed on only when the last *)
(* descriptor of its lock is closed (WorktreeSeatLease.release, flock of   *)
(* acquire_worktree_seat).                                                 *)
OneWriter ==
    \A d, e \in Dispatches :
        worker[d] = "live" /\ worker[e] = "live" /\ seat[d] = seat[e] => d = e

(* Where work can be found: in a checkout, on a branch, or in a ref that   *)
(* the pool or the collector keeps.                                        *)
Somewhere ==
    kept \cup merged
      \cup (UNION {tip[d] : d \in Dispatches})
      \cup (UNION {tree[s].dirty : s \in Seats})

(* No edit of any worker is ever lost, committed or not: a reset saves     *)
(* before it cleans, a removal takes only what is clean, a branch that is  *)
(* moved is pinned (_quarantine_dirty_worktree, _pin_existing_target_      *)
(* branch, apply_removals), wherever a launcher dies in between.           *)
NothingLost ==
    \A d \in Dispatches : \A n \in 1..wrote[d] : <<d, n>> \in Somewhere

(* While a worker lives, nobody else removes its checkout, moves it to     *)
(* another branch or cleans what it has not committed, though its row may  *)
(* say terminal and may not know the worker (check_pool_unlocked,          *)
(* _validate_holder).                                                      *)
WorkerKeepsCheckout ==
    [][\A d \in Dispatches :
         worker[d] = "live" =>
            LET s == seat[d] IN
            /\ tree'[s].there /\ tree'[s].branch = tree[s].branch
            /\ tree[s].dirty \subseteq tree'[s].dirty \cup tip'[tree[s].branch]]_vars

Waiting(d) == pc[d] = "idle" /\ row[d].state = "queued" /\ Parent[d] = None

(* A seat nobody uses and no allocation can take: its lock names nobody,   *)
(* a holder ended without proof that its worker is gone, or a saved head   *)
(* stands in the way of the next.                                          *)
Stranded(s) ==
    /\ tree[s].there /\ flock[s] = {}
    /\ \/ meta[s] = None
       \/ \E h \in {tree[s].branch, meta[s]} :
            row[h].state = "terminal" /\ ~row[h].known /\ ~row[h].prelaunch
       \/ saved[tree[s].branch] \notin {None, tip[tree[s].branch]}

(* A dispatch that waits for a seat gets on unless every seat is in use or *)
(* stranded: no dead launcher, refused reset or lost lock keeps a usable   *)
(* seat from it (_admit_dispatch_worktree's wait, reacquire_allocation_    *)
(* lock).                                                                  *)
SeatFound ==
    \A d \in Dispatches :
        Waiting(d) ~> (~Waiting(d) \/ \A s \in Seats : flock[s] # {} \/ Stranded(s))
=============================================================================
