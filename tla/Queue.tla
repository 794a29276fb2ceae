------------------------------- MODULE Queue -------------------------------
(***************************************************************************)
(* One queued dispatch between its submission and its worker:              *)
(* goalflight_dispatch.py's queue carrier, drains and recovery.            *)
(*                                                                         *)
(* The work is a file.  A drain renames the carrier <id>.json to a claim   *)
(* file, runs a launcher child and waits for it; the child records the     *)
(* ledger row and the journal attempt, marks its steps on the claim and    *)
(* spawns the worker.  A claim that comes to nothing is restored to a      *)
(* carrier, terminalized or quarantined, by the drain that owns it or, if  *)
(* that drain is gone, by the recovery every drain pass starts with.  No   *)
(* lock covers a pass: any number of drains run at once, and drains and    *)
(* children may die between any two writes.                                *)
(*                                                                         *)
(* A slot stands for one claim file, the child launched for it and the     *)
(* worker that child spawned; its number is also the launch token the      *)
(* claim minted.  A slot nothing refers to any more is used again.         *)
(* Transactions (restore_txn_id) are numbered the same way; 0 is none.     *)
(***************************************************************************)
EXTENDS Naturals, FiniteSets

CONSTANTS
    Drains,         \* drain processes, each running pass after pass
    Slots,          \* claim files, children and launch tokens
    Txns,           \* restore transaction ids
    MaxRecoveries,  \* MAX_CLAIM_RECOVERY_REQUEUES
    MaxFailures,    \* MAX_DRAIN_PRE_WORKER_FAILURES
    Linkage,        \* whether the dispatch may name tasks, may name none
    Faults,         \* which of "crash", "timeout", "refusal", "store" may happen
    MaxFaults       \* how many of them, at most

ASSUME QueueAssumption ==
    /\ 0 \notin Slots /\ 0 \notin Txns
    /\ Slots \subseteq Nat /\ Txns \subseteq Nat
    /\ IsFiniteSet(Slots) /\ IsFiniteSet(Txns)
    /\ Cardinality(Txns) > Cardinality(Slots) + 2
    /\ MaxRecoveries \in Nat /\ MaxFailures \in Nat \ {0} /\ MaxFaults \in Nat
    /\ Linkage \subseteq BOOLEAN

VARIABLES
    carrier,    \* <id>.json
    claim,      \* <id>.json.claimed-*, by slot
    row,        \* the ledger row
    att,        \* the journal attempt
    child,      \* where the launcher child of a slot is
    worker,     \* the worker a child spawned
    drain,      \* where a drain is in its pass
    truth,      \* what the task store says of the dispatch's tasks
    linked,     \* whether the dispatch names tasks
    old,        \* created_at is past the claim-stale window
    shelf,      \* where a claim that left the queue was put
    mishaps     \* faults so far

vars == <<carrier, claim, row, att, child, worker, drain, truth, linked, old, shelf,
          mishaps>>
files == <<carrier, claim, shelf>>
world == <<truth, linked, old>>
env == <<world, mishaps>>

Terminal == {"ended", "failed"}
PreWorkerStates == {"queued", "waiting_capacity", "blocked_capacity"}
NoCarrier == [st |-> "none", txn |-> 0, rc |-> 0, fails |-> 0]
NoClaim == [held |-> FALSE, tok |-> 0, started |-> FALSE, intent |-> FALSE,
            wpid |-> FALSE, seen |-> FALSE, txn |-> 0, rc |-> 0, fails |-> 0]
NoRow == [st |-> "absent", tok |-> 0, txn |-> 0, wpid |-> FALSE, rc |-> 0, fails |-> 0]
Idle == [pc |-> "idle", slot |-> 0, tok |-> 0, tried |-> "no", hold |-> FALSE]

Running == {"born", "waiting", "reserved", "marked", "starting", "intent",
            "spawned", "noted", "failing"}
Exits == {"launched", "capacity", "refused", "permanent"}

Init ==
    /\ carrier = [NoCarrier EXCEPT !.st = "queued"]
    /\ claim = [c \in Slots |-> NoClaim]
    /\ row \in {NoRow, [NoRow EXCEPT !.st = "queued"]}
    /\ att = [life |-> "NONE", tok |-> 0]
    /\ child = [c \in Slots |-> "none"]
    /\ worker = [c \in Slots |-> "none"]
    /\ drain = [d \in Drains |-> Idle]
    /\ truth = "open"
    /\ linked \in Linkage
    /\ old \in BOOLEAN
    /\ shelf = {}
    /\ mishaps = 0

Mishap(kind) == kind \in Faults /\ mishaps < MaxFaults /\ mishaps' = mishaps + 1

(***************************************************************************)
(* What the recovery reads.                                                *)
(***************************************************************************)
(* The worker keeps the tail's flock, so no reconcile transaction begins   *)
(* while one lives; a launcher holds the ledger lock from its spawn intent *)
(* to the end of the spawn call.                                           *)
LedgerFree == \A c \in Slots : child[c] # "intent"

GateFree == LedgerFree /\ \A c \in Slots : worker[c] # "live"

PreSpawn(e) == ~e.started /\ ~e.intent /\ ~e.wpid

PreWorker(e) == ~e.intent /\ ~e.wpid

IsRestorablePrelaunch(r) == r.st \in PreWorkerStates

IsCapacityRefusal(r) == r.st \in {"waiting_capacity", "blocked_capacity"}

(* The ledger row completes a claim's evidence when their tokens agree. *)
KnownWorker(c) == claim[c].wpid \/ (row.wpid /\ row.tok = claim[c].tok)

Admission(c, stale) ==
    CASE claim[c].started /\ child[c] \in Running -> "LIVE"
      [] KnownWorker(c) /\ worker[c] = "live" -> "LIVE"
      [] ~PreWorker(claim[c]) /\ ~KnownWorker(c) -> "INDETERMINATE"
      [] PreSpawn(claim[c]) /\ ~KnownWorker(c) ->
            IF stale THEN "STALE_NO_SPAWN" ELSE "NOT_STALE"
      [] OTHER -> "CONFIRMED_DEAD"

Admitted(c, stale) == Admission(c, stale) \in {"STALE_NO_SPAWN", "CONFIRMED_DEAD"}

(* A terminal row speaks for an entry through the launch token, or through *)
(* the restore transaction when a restore has stripped the token.          *)
TokenBind(tok, txn) ==
    IF tok # 0 /\ row.tok # 0 THEN IF tok = row.tok THEN "match" ELSE "mismatch"
    ELSE IF txn # 0 /\ row.txn # 0 THEN IF txn = row.txn THEN "match" ELSE "mismatch"
    ELSE "unknown"

CompletionAuthority(tok, txn) ==
    CASE row.st = "ended" /\ TokenBind(tok, txn) = "unknown" -> "deferred"
      [] row.st = "ended" /\ TokenBind(tok, txn) = "match" -> "complete"
      [] truth = "unreadable" -> "deferred"
      [] truth = "complete" -> "complete"
      [] OTHER -> "open"

ClaimRestorable(c) ==
    /\ claim[c].rc < MaxRecoveries
    /\ PreSpawn(claim[c]) \/ (PreWorker(claim[c]) /\ IsCapacityRefusal(row))

Held == {c \in Slots : claim[c].held}

HasWorkerRecord(c) == row.wpid /\ row.tok = claim[c].tok

(***************************************************************************)
(* What the recovery writes.                                               *)
(***************************************************************************)
(* The child still knows its token when the file is gone. *)
Drop(cs, c) == [cs EXCEPT ![c] = [NoClaim EXCEPT !.tok = cs[c].tok]]

FreshTxn == Txns \ ({carrier.txn, row.txn} \cup {claim[c].txn : c \in Slots})

(* _commit_restore_transaction: prepared carrier, ledger row queued (the   *)
(* commit point), carrier published, claim unlinked; a crash may cut it    *)
(* after any of the four writes.  A carrier that is already there is the   *)
(* transaction to go on with.                                              *)
RestoreBlocked(tok, txn) ==
    \/ CompletionAuthority(tok, txn) = "complete"
    \/ row.st \in Terminal /\ TokenBind(tok, txn) = "match"

RestorePossible ==
    carrier.st = "queued" =>
        carrier.txn # 0 /\ row.st = "queued" /\ row.txn = carrier.txn

RestoreTxn ==
    CASE carrier.st # "none" -> carrier.txn
      [] row.st = "queued" /\ row.txn # 0 -> row.txn
      [] OTHER -> CHOOSE t \in FreshTxn : TRUE

(* Mutant: the claim is unlinked before the carrier is published. *)
CommitRestoreUnlinkFirst(after, e, stamp, writes) ==
    /\ RestorePossible
    /\ claim' = after
    /\ carrier' = IF writes = 1 THEN carrier
                  ELSE [st |-> "queued", txn |-> RestoreTxn, rc |-> e.rc, fails |-> e.fails]
    /\ row' = IF writes <= 2 THEN row
              ELSE [row EXCEPT !.st = "queued", !.txn = RestoreTxn, !.tok = 0]
    /\ UNCHANGED <<att, shelf>>

Counted(record, n) == IF n = 0 THEN record ELSE [record EXCEPT !.fails = n]

CommitRestore(after, e, stamp, writes) ==
    LET t == RestoreTxn
        count == IF writes = 4 THEN stamp ELSE 0
        target == IF carrier.st # "none" THEN carrier
                  ELSE [st |-> IF row.st = "queued" THEN "queued" ELSE "prepared",
                        txn |-> t, rc |-> e.rc, fails |-> e.fails]
    IN
    /\ RestorePossible
    /\ carrier' = Counted(IF writes >= 3 THEN [target EXCEPT !.st = "queued"] ELSE target,
                          count)
    /\ row' = Counted(IF writes >= 2 /\ ~(row.st = "queued" /\ row.txn = t)
                      THEN [row EXCEPT !.st = "queued", !.txn = t, !.rc = target.rc,
                                       !.tok = IF row.st = "queued" THEN @ ELSE 0]
                      ELSE row, count)
    /\ claim' = IF writes = 4 THEN after ELSE claim
    /\ UNCHANGED <<att, shelf>>

(* A restore that completion blocks withdraws the carrier it was building. *)
UnlinkRestoreTarget ==
    carrier' = IF carrier.st # "none" /\ carrier.txn # 0 THEN NoCarrier ELSE carrier

(* commit_reconciled_terminal: the first terminal wins, in the journal and *)
(* in the row; the attempt is the dispatch's, whoever prepared it.         *)
CommitTerminal(tok, state) ==
    /\ att' = IF att.life = "FINAL" THEN att
              ELSE [att EXCEPT !.life = "FINAL"]
    /\ row' = IF row.st \in Terminal THEN row
              ELSE IF row.st = "absent" THEN [row EXCEPT !.st = state, !.tok = tok]
              ELSE [row EXCEPT !.st = state]

(* An unlinked claim leaves the queue only after it was seen orphaned in   *)
(* an earlier pass and its own record, if there is one, is terminal.       *)
QuarantineIfOrphan(c, stale) ==
    LET own == row.st # "absent" /\ row.tok = claim[c].tok
        eligible == IF own THEN row.st \in Terminal /\ worker[c] # "live"
                    ELSE PreSpawn(claim[c]) /\ Admission(c, stale) = "STALE_NO_SPAWN"
    IN
    IF ~eligible THEN UNCHANGED <<claim, shelf>>
    ELSE IF ~claim[c].seen
    THEN claim' = [claim EXCEPT ![c].seen = TRUE] /\ UNCHANGED shelf
    ELSE claim' = Drop(claim, c) /\ shelf' = shelf \cup {"quarantine"}

(* A claim whose work is finished elsewhere. *)
CloseCompleted(c, stale) ==
    /\ CommitTerminal(claim[c].tok, "ended")
    /\ IF linked THEN claim' = Drop(claim, c) /\ UNCHANGED shelf
       ELSE QuarantineIfOrphan(c, stale)

(***************************************************************************)
(* Recovery, the first part of a drain pass.                               *)
(***************************************************************************)
At(d, point) == drain[d].pc = point

Goto(d, point) == drain' = [drain EXCEPT ![d].pc = point]

Return(d) == drain' = [drain EXCEPT ![d] = Idle]

(* A drain cut short inside a transaction is a dead drain: its successor   *)
(* starts afresh.  Nothing else tells a dead drain from an idle one.       *)
Cut(n) == IF n = 4 THEN UNCHANGED mishaps ELSE Mishap("crash")

(* The carrier of a launch the ledger accounts for is a tombstone. *)
ClearLiveCarrier(d, c) ==
    /\ At(d, "idle") /\ c \in Held
    /\ Admission(c, old) = "LIVE"
    /\ HasWorkerRecord(c) /\ worker[c] = "live" /\ row.st \notin Terminal
    /\ claim' = Drop(claim, c)
    /\ UNCHANGED <<carrier, row, att, child, worker, drain, env, shelf>>

Recovering(d, c) ==
    /\ At(d, "idle") /\ c \in Held
    /\ Admitted(c, old) /\ GateFree

(* Cleared, quarantined, closed or left: what _reconcile_claim_transaction *)
(* decides before it thinks of restoring.                                  *)
OwnTerminalRow(c) ==
    row.st \in Terminal /\ TokenBind(claim[c].tok, claim[c].txn) = "match"

RecoverSettled(d, c) ==
    /\ Recovering(d, c) /\ OwnTerminalRow(c)
    /\ IF linked THEN claim' = Drop(claim, c) /\ UNCHANGED shelf
       ELSE QuarantineIfOrphan(c, old)
    /\ UNCHANGED <<carrier, row, att, child, worker, drain, env>>

RecoverCompleted(d, c) ==
    /\ Recovering(d, c) /\ ~OwnTerminalRow(c)
    /\ CompletionAuthority(claim[c].tok, claim[c].txn) = "complete"
    /\ CloseCompleted(c, old)
    /\ UNCHANGED <<carrier, child, worker, drain, env>>

RecoverOpen(d, c) ==
    /\ Recovering(d, c) /\ ~OwnTerminalRow(c)
    /\ CompletionAuthority(claim[c].tok, claim[c].txn) = "open"

MayRestore(c) ==
    /\ ClaimRestorable(c)
    /\ \/ linked
       \/ IsCapacityRefusal(row)
       \/ PreSpawn(claim[c]) /\ IsRestorablePrelaunch(row)

RecoverRestore(d, c) == \E n \in 1..4 :
    /\ Cut(n)
    /\ RecoverOpen(d, c) /\ MayRestore(c)
    /\ CommitRestore(Drop(claim, c), [claim[c] EXCEPT !.rc = @ + 1], 0, n)
    /\ UNCHANGED <<child, worker, drain, world>>

RecoverUnlinked(d, c) ==
    /\ RecoverOpen(d, c) /\ ~(MayRestore(c) /\ RestorePossible)
    /\ ~linked
    /\ QuarantineIfOrphan(c, old)
    /\ UNCHANGED <<carrier, row, att, child, worker, drain, env>>

(* A claim beside a published carrier is a duplicate; one that may not go  *)
(* back to the queue is closed.                                            *)
RecoverDead(d, c) ==
    /\ RecoverOpen(d, c) /\ ~(MayRestore(c) /\ RestorePossible)
    /\ linked
    /\ carrier.st # "prepared"
    /\ claim' = Drop(claim, c)
    /\ IF carrier.st = "queued" THEN UNCHANGED <<row, att>>
       ELSE CommitTerminal(claim[c].tok, "ended")
    /\ UNCHANGED <<carrier, child, worker, drain, env, shelf>>

(* _reconcile_ledger_prelaunch_orphans: a row that still promises work and *)
(* has no file gets one; a row whose worker died is closed.                *)
NoFile == carrier.st = "none" /\ Held = {}

RepublishCarrier(d) == \E n \in {2, 4} :
    LET t == CHOOSE x \in FreshTxn : TRUE IN
    /\ Cut(n)
    /\ At(d, "idle") /\ NoFile /\ GateFree /\ old
    /\ att.life # "FINAL" /\ IsRestorablePrelaunch(row) /\ ~row.wpid
    /\ CompletionAuthority(row.tok, row.txn) = "open"
    /\ carrier' = [st |-> "queued", txn |-> t, rc |-> row.rc, fails |-> row.fails]
    /\ row' = IF n = 2 THEN row
              ELSE [row EXCEPT !.st = "queued", !.tok = 0, !.txn = t]
    /\ UNCHANGED <<claim, att, child, worker, drain, world, shelf>>

CloseOrphanRow(d) ==
    /\ At(d, "idle") /\ NoFile /\ GateFree
    /\ linked /\ row.st \in {"starting", "running"} /\ row.wpid
    /\ CompletionAuthority(row.tok, row.txn) # "deferred"
    /\ CommitTerminal(row.tok, "ended")
    /\ UNCHANGED <<carrier, claim, child, worker, drain, env, shelf>>

(* _resume_restore_prepared_envelopes: finish a restore nobody owns. *)
ResumeRestore(d) == \E n \in {2, 4} :
    /\ Cut(n)
    /\ At(d, "idle") /\ carrier.st = "prepared" /\ GateFree
    /\ CompletionAuthority(0, carrier.txn) # "deferred"
    /\ IF RestoreBlocked(0, carrier.txn)
       THEN n = 4 /\ UnlinkRestoreTarget /\ UNCHANGED <<claim, row, att, shelf>>
       ELSE CommitRestore(claim, carrier, 0, n)
    /\ UNCHANGED <<child, worker, drain, world>>

(* _settle_final_for_drain: a final journal attempt cannot be launched;    *)
(* its row is made terminal and its files archived, unless one of them     *)
(* still belongs to a live process.                                        *)
Owned(c) == child[c] \in Running \/ \E d \in Drains : drain[d].slot = c

SettleFinal(d) ==
    /\ At(d, "idle") /\ att.life = "FINAL" /\ LedgerFree
    /\ carrier.st = "queued" \/ (NoFile /\ IsRestorablePrelaunch(row))
    /\ \A c \in Held : ~Owned(c)
    /\ \A c \in Slots : worker[c] # "live"
    /\ row' = IF row.st \in Terminal THEN row ELSE [row EXCEPT !.st = "ended"]
    /\ carrier' = NoCarrier
    /\ claim' = [c \in Slots |-> [NoClaim EXCEPT !.tok = claim[c].tok]]
    /\ shelf' = shelf \cup {"withdrawn"}
    /\ UNCHANGED <<att, child, worker, drain, env>>

(***************************************************************************)
(* Launching, the second part of a drain pass.                             *)
(***************************************************************************)
(* _queue_launch_token, before the queue lock: a PREPARED attempt lends    *)
(* its token, otherwise the claim will mint one.                           *)
PeekToken(d) ==
    /\ At(d, "idle") /\ carrier.st = "queued" /\ att.life # "FINAL"
    /\ drain' = [drain EXCEPT ![d] = [Idle EXCEPT !.pc = "peeked",
                    !.tok = IF att.life = "PREPARED" THEN att.tok ELSE 0]]
    /\ UNCHANGED <<files, row, att, child, worker, env>>

Unused(c) ==
    /\ ~claim[c].held /\ child[c] = "none" /\ worker[c] = "none"
    /\ c \notin {row.tok, att.tok}
    /\ \A k \in Slots : (claim[k].held \/ child[k] # "none") => claim[k].tok # c
    /\ \A d \in Drains : drain[d].slot # c /\ drain[d].tok # c

(* The rename asks only that the file is there. *)
ClaimEntry(d) ==
    /\ At(d, "peeked")
    /\ IF carrier.st = "none" THEN Return(d) /\ UNCHANGED files
       ELSE LET c == CHOOSE k \in Slots : Unused(k) IN
            /\ \E k \in Slots : Unused(k)
            /\ claim' = [claim EXCEPT ![c] =
                 [NoClaim EXCEPT !.held = TRUE, !.txn = carrier.txn,
                    !.rc = carrier.rc, !.fails = carrier.fails,
                    !.tok = IF drain[d].tok = 0 THEN c ELSE drain[d].tok]]
            /\ carrier' = NoCarrier
            /\ drain' = [drain EXCEPT ![d].pc = "claimed", ![d].slot = c]
            /\ UNCHANGED shelf
    /\ UNCHANGED <<row, att, child, worker, env>>

(* The completion gate, then the child; a blocked entry is left to the     *)
(* guard's exit.                                                           *)
LaunchChild(d) ==
    LET c == drain[d].slot IN
    /\ At(d, "claimed")
    /\ IF CompletionAuthority(claim[c].tok, claim[c].txn) = "open"
       THEN Goto(d, "launching") /\ child' = [child EXCEPT ![c] = "born"]
       ELSE Goto(d, "exiting") /\ UNCHANGED child
    /\ UNCHANGED <<files, row, att, worker, env>>

(* The drain's own cleanup: the ledger names this launch's worker. *)
ConsumeConfirmed(d, c) ==
    /\ HasWorkerRecord(c)
    /\ claim' = IF linked \/ row.st \notin Terminal THEN Drop(claim, c) ELSE claim
    /\ Return(d)
    /\ UNCHANGED shelf

GiveBack(d, tried, hold) ==
    drain' = [drain EXCEPT ![d].pc = "exiting", ![d].tried = tried, ![d].hold = hold]

(* The child has exited: consume, fail or hand over to the guard. *)
ConcludeLaunch(d) ==
    LET c == drain[d].slot
        own == claim[c].held /\ PreWorker(claim[c])
    IN
    /\ At(d, "launching") /\ child[c] \in Exits
    /\ child' = [child EXCEPT ![c] = "none"]
    /\ \/ child[c] # "capacity" /\ ConsumeConfirmed(d, c)
       \/ child[c] = "capacity" /\ GiveBack(d, "yes", FALSE) /\ UNCHANGED <<claim, shelf>>
       \/ /\ child[c] = "launched" /\ ~HasWorkerRecord(c)
          /\ GiveBack(d, "yes", TRUE) /\ UNCHANGED <<claim, shelf>>
       \/ /\ child[c] = "permanent" /\ ~HasWorkerRecord(c) /\ own
          /\ claim' = Drop(claim, c) /\ shelf' = shelf \cup {"failed"}
          /\ Return(d)
       \/ /\ child[c] \in {"refused", "permanent"} /\ ~HasWorkerRecord(c)
          /\ child[c] = "permanent" => ~own
          /\ \E tried \in {"yes", "failed"} : GiveBack(d, tried, FALSE)
          /\ UNCHANGED <<claim, shelf>>
    /\ UNCHANGED <<carrier, row, att, worker, env>>

(* subprocess.run's timeout kills the child, whatever it was doing. *)
LaunchTimeout(d) ==
    LET c == drain[d].slot IN
    /\ At(d, "launching") /\ child[c] \in Running /\ Mishap("timeout")
    /\ child' = [child EXCEPT ![c] = "none"]
    /\ IF HasWorkerRecord(c) THEN ConsumeConfirmed(d, c)
       ELSE GiveBack(d, "failed", FALSE) /\ UNCHANGED <<claim, shelf>>
    /\ UNCHANGED <<carrier, row, att, worker, world>>

(* _DrainClaimGuard.__exit__ *)
Releasable(d) ==
    LET c == drain[d].slot IN
    claim[c].held /\ ~drain[d].hold /\ PreWorker(claim[c])

ExitHeld(d) ==
    /\ At(d, "exiting") /\ ~Releasable(d)
    /\ Return(d)
    /\ UNCHANGED <<files, row, att, child, worker, env>>

(* The claim and the row both count the failed launches; the higher counts. *)
FailureCount(d) ==
    LET c == drain[d].slot IN
    IF drain[d].tried # "failed" THEN claim[c].fails
    ELSE 1 + IF claim[c].fails > row.fails THEN claim[c].fails ELSE row.fails

SpentBudget(d) == drain[d].tried = "failed" /\ FailureCount(d) >= MaxFailures

(* _persist_launch_attempt_cursor: the count that a launch leaves behind.  *)
Stamp(d) == IF drain[d].tried = "no" THEN 0 ELSE FailureCount(d)

(* _terminalize_pre_worker_launch_failure: ledger first, then the claim;   *)
(* without a row the claim alone is failed.                                *)
ExitFailed(d) ==
    LET c == drain[d].slot IN
    /\ At(d, "exiting") /\ Releasable(d) /\ SpentBudget(d) /\ LedgerFree
    /\ IF row.st = "absent" THEN UNCHANGED <<row, att>>
       ELSE CommitTerminal(claim[c].tok, "failed")
    /\ \/ Mishap("crash") /\ UNCHANGED <<claim, shelf>>
       \/ claim' = Drop(claim, c) /\ shelf' = shelf \cup {"failed"} /\ UNCHANGED mishaps
    /\ Return(d)
    /\ UNCHANGED <<carrier, child, worker, world>>

(* _restore_claim_if_incomplete *)
Exiting(d) ==
    LET c == drain[d].slot IN
    At(d, "exiting") /\ Releasable(d) /\ ~SpentBudget(d)

ExitGate(d) == Admitted(drain[d].slot, TRUE) /\ GateFree

ExitRestore(d) ==
    LET c == drain[d].slot
        e == [claim[c] EXCEPT !.fails = FailureCount(d)]
    IN \E n \in 1..4 :
    /\ Cut(n)
    /\ Exiting(d) /\ ExitGate(d)
    /\ CompletionAuthority(claim[c].tok, claim[c].txn) # "deferred"
    /\ ~RestoreBlocked(claim[c].tok, claim[c].txn)
    /\ CommitRestore(Drop(claim, c), e, Stamp(d), n)
    /\ Return(d)
    /\ UNCHANGED <<child, worker, world>>

ExitBlocked(d) ==
    LET c == drain[d].slot IN
    /\ Exiting(d) /\ ExitGate(d)
    /\ CompletionAuthority(claim[c].tok, claim[c].txn) # "deferred"
    /\ RestoreBlocked(claim[c].tok, claim[c].txn)
    /\ UnlinkRestoreTarget
    /\ IF linked THEN CloseCompleted(c, old)
       ELSE QuarantineIfOrphan(c, old) /\ UNCHANGED <<row, att>>
    /\ Return(d)
    /\ UNCHANGED <<child, worker, env>>

(* The restore waits for the completion authority: the claim stays. *)
ExitDeferred(d) ==
    LET c == drain[d].slot IN
    /\ Exiting(d) /\ ExitGate(d)
    /\ CompletionAuthority(claim[c].tok, claim[c].txn) = "deferred"
    /\ Return(d)
    /\ UNCHANGED <<files, row, att, child, worker, env>>

(* The restore does not begin, or cannot go on: the claim stays, with the  *)
(* launch counted.                                                         *)
ExitPending(d) ==
    LET c == drain[d].slot IN
    /\ Exiting(d) /\ LedgerFree
    /\ ~ExitGate(d) \/ ~RestorePossible
    /\ claim' = [claim EXCEPT ![c] = Counted(@, Stamp(d))]
    /\ row' = IF row.st = "absent" THEN row ELSE Counted(row, Stamp(d))
    /\ Return(d)
    /\ UNCHANGED <<carrier, shelf, att, child, worker, env>>

DrainCrash(d) ==
    /\ Mishap("crash") /\ ~At(d, "idle")
    /\ Return(d)
    /\ child' = [c \in Slots |->
                   IF c = drain[d].slot /\ child[c] \in Exits THEN "none" ELSE child[c]]
    /\ UNCHANGED <<files, row, att, worker, world>>

(***************************************************************************)
(* The launcher child, main --from-queue.                                  *)
(***************************************************************************)
Step(c, from, to) == child[c] = from /\ child' = [child EXCEPT ![c] = to]

(* An exit status reaches the drain that waits for it, if one still does.  *)
Exit(c, code) ==
    child' = [child EXCEPT ![c] =
                IF \E d \in Drains : drain[d].slot = c /\ At(d, "launching")
                THEN code ELSE "none"]

MayReuseId == row.st \in {"absent"} \cup Terminal \/ (row.st = "queued" /\ ~row.wpid)

(* Mutant: the row is given the journal's spelling of the state. *)
RecordJournalWord(c, state) ==
    [NoRow EXCEPT !.st = IF state = "running" THEN "RUNNING" ELSE state,
                  !.tok = claim[c].tok]

(* cmd_record writes the row anew: what a restore or an earlier launch     *)
(* left in it is gone.                                                     *)
Record(c, state) == [NoRow EXCEPT !.st = state, !.tok = claim[c].tok]

(* The journal lets one token prepare the dispatch's only attempt. *)
MayPrepare(c) == att.life = "NONE" \/ (att.life = "PREPARED" /\ att.tok = claim[c].tok)

(* The id check and the completion gate, then the attempt and the waiting  *)
(* row.                                                                    *)
RecordWaiting(c) ==
    /\ child[c] = "born" /\ LedgerFree
    /\ IF MayReuseId /\ MayPrepare(c)
          /\ CompletionAuthority(claim[c].tok, claim[c].txn) = "open"
       THEN /\ Step(c, "born", "waiting")
            /\ att' = [life |-> "PREPARED", tok |-> claim[c].tok]
            /\ row' = Record(c, "waiting_capacity")
       ELSE Exit(c, "refused") /\ UNCHANGED <<att, row>>
    /\ UNCHANGED <<files, worker, drain, env>>

(* A refusal the carrier itself is to blame for, before anything is        *)
(* recorded.                                                               *)
RefusePermanently(c) ==
    /\ Mishap("refusal") /\ child[c] = "born"
    /\ Exit(c, "permanent")
    /\ UNCHANGED <<files, row, att, worker, drain, world>>

ReserveCapacity(c) ==
    /\ Step(c, "waiting", "reserved")
    /\ UNCHANGED <<files, row, att, worker, drain, env>>

(* No slot: the attempt stays PREPARED for the next launch.  No seat: the  *)
(* row, only a projection, is removed.                                     *)
RefuseCapacity(c) ==
    /\ Mishap("refusal") /\ child[c] = "waiting" /\ LedgerFree
    /\ \/ row' = Record(c, "blocked_capacity")
          /\ Exit(c, "capacity")
       \/ row' = NoRow /\ Exit(c, "refused")
    /\ UNCHANGED <<files, att, worker, drain, world>>

OwnsClaim(c) == claim[c].held

(* _mark_queue_claim_launch_started, under the queue lock. *)
MarkLaunchStarted(c) ==
    /\ child[c] = "reserved"
    /\ IF OwnsClaim(c)
       THEN /\ Step(c, "reserved", "marked")
            /\ claim' = [claim EXCEPT ![c].started = TRUE]
       ELSE Step(c, "reserved", "failing") /\ UNCHANGED claim
    /\ UNCHANGED <<carrier, shelf, row, att, worker, drain, env>>

(* Mutant: starting an attempt that its own token has started is a retry. *)
MayStartAgain(c) == att.life \in {"PREPARED", "STARTING"} /\ att.tok = claim[c].tok

MayStart(c) == att.life = "PREPARED" /\ att.tok = claim[c].tok

(* start_attempt, then the starting row. *)
RecordStarting(c) ==
    /\ child[c] = "marked" /\ LedgerFree
    /\ IF MayStart(c)
       THEN /\ Step(c, "marked", "starting")
            /\ att' = [att EXCEPT !.life = "STARTING"]
            /\ row' = Record(c, "starting")
       ELSE Step(c, "marked", "failing") /\ UNCHANGED <<att, row>>
    /\ UNCHANGED <<files, worker, drain, env>>

MarkSpawnIntent(c) ==
    /\ child[c] = "starting" /\ LedgerFree
    /\ IF OwnsClaim(c)
       THEN /\ Step(c, "starting", "intent")
            /\ claim' = [claim EXCEPT ![c].intent = TRUE]
       ELSE Step(c, "starting", "failing") /\ UNCHANGED claim
    /\ UNCHANGED <<carrier, shelf, row, att, worker, drain, env>>

Spawn(c) ==
    /\ Step(c, "intent", "spawned")
    /\ worker' = [worker EXCEPT ![c] = "live"]
    /\ UNCHANGED <<files, row, att, drain, env>>

(* A lost claim is no reason to stop now. *)
MarkSpawned(c) ==
    /\ Step(c, "spawned", "noted")
    /\ claim' = IF OwnsClaim(c) THEN [claim EXCEPT ![c].wpid = TRUE] ELSE claim
    /\ UNCHANGED <<carrier, shelf, row, att, worker, drain, env>>

(* The worker's identity, the attempt RUNNING and the running row.  A      *)
(* closed attempt takes no worker: the launch is wound up.                 *)
RecordRunning(c) ==
    /\ child[c] = "noted" /\ LedgerFree
    /\ IF att.life = "FINAL"
       THEN /\ Step(c, "noted", "failing")
            /\ worker' = [worker EXCEPT ![c] = "dead"]
            /\ UNCHANGED <<att, row>>
       ELSE /\ Exit(c, "launched")
            /\ att' = [att EXCEPT !.life = "RUNNING"]
            /\ row' = [Record(c, "running") EXCEPT !.wpid = TRUE]
            /\ UNCHANGED worker
    /\ UNCHANGED <<files, drain, env>>

(* Anything that raises between the waiting row and the spawn. *)
LaunchError(c) ==
    /\ Mishap("refusal")
    /\ child[c] \in {"waiting", "reserved", "marked", "starting", "intent"}
    /\ Step(c, child[c], "failing")
    /\ UNCHANGED <<files, row, att, worker, drain, world>>

(* main's finally: the dispatch's attempt is closed, by its id. *)
FinishFailed(c) ==
    /\ child[c] = "failing" /\ LedgerFree
    /\ CommitTerminal(claim[c].tok, "failed")
    /\ Exit(c, "refused")
    /\ UNCHANGED <<files, worker, drain, env>>

ChildCrash(c) ==
    /\ Mishap("crash") /\ child[c] \in Running
    /\ Exit(c, "refused")
    /\ UNCHANGED <<files, row, att, worker, drain, world>>

(***************************************************************************)
(* Everything else.                                                        *)
(***************************************************************************)
WorkerExits(c) ==
    /\ worker[c] = "live"
    /\ worker' = [worker EXCEPT ![c] = "dead"]
    /\ UNCHANGED <<files, row, att, child, drain, env>>

(* Mutant: a row that no longer says "running" is nobody's to finish. *)
FinishRunningRow(c) ==
    /\ worker[c] = "dead" /\ att.life = "RUNNING" /\ row.st = "running" /\ LedgerFree
    /\ CommitTerminal(claim[c].tok, "ended")
    /\ UNCHANGED <<files, child, worker, drain, env>>

(* The watcher of a recorded worker, or reconcile_terminal_outbox once the *)
(* watcher is gone, closes the attempt and then the row, whatever the row  *)
(* has become.                                                             *)
WatcherFinishes(c) ==
    /\ worker[c] = "dead" /\ att.life = "RUNNING" /\ LedgerFree
    /\ CommitTerminal(claim[c].tok, "ended")
    /\ UNCHANGED <<files, child, worker, drain, env>>

(* reconcile_terminal_outbox abandons an attempt whose start deadline has  *)
(* passed, without looking for its launcher; the row follows, or is left   *)
(* to a later pass.                                                        *)
ExpireLaunch ==
    /\ att.life = "STARTING"
    /\ att' = [att EXCEPT !.life = "FINAL"]
    /\ \/ UNCHANGED row
       \/ /\ LedgerFree /\ row.st \notin {"absent"} \cup Terminal
          /\ row' = [row EXCEPT !.st = "ended"]
    /\ UNCHANGED <<files, child, worker, drain, env>>

(* The tasks are finished by somebody else; the store becomes unreadable   *)
(* and is mended.                                                          *)
StoreChanges ==
    /\ truth # "complete"
    /\ \/ truth' = "complete" /\ linked /\ Mishap("store")
       \/ truth' = "unreadable" /\ truth = "open" /\ Mishap("store")
       \/ truth' = "open" /\ truth = "unreadable" /\ UNCHANGED mishaps
    /\ UNCHANGED <<files, row, att, child, worker, drain, linked, old>>

GrowOld ==
    /\ ~old /\ old' = TRUE
    /\ UNCHANGED <<files, row, att, child, worker, drain, truth, linked, mishaps>>

Recover(d) ==
    \/ \E c \in Slots :
          \/ ClearLiveCarrier(d, c) \/ RecoverSettled(d, c) \/ RecoverCompleted(d, c)
          \/ RecoverRestore(d, c) \/ RecoverUnlinked(d, c) \/ RecoverDead(d, c)
    \/ RepublishCarrier(d) \/ CloseOrphanRow(d) \/ ResumeRestore(d) \/ SettleFinal(d)

Launch(d) ==
    \/ PeekToken(d) \/ ClaimEntry(d) \/ LaunchChild(d)
    \/ ConcludeLaunch(d) \/ LaunchTimeout(d)
    \/ ExitHeld(d) \/ ExitFailed(d) \/ ExitRestore(d) \/ ExitBlocked(d)
    \/ ExitDeferred(d) \/ ExitPending(d)

Child(c) ==
    \/ RecordWaiting(c) \/ ReserveCapacity(c) \/ MarkLaunchStarted(c)
    \/ RecordStarting(c) \/ MarkSpawnIntent(c) \/ Spawn(c) \/ MarkSpawned(c)
    \/ RecordRunning(c) \/ FinishFailed(c)

Next ==
    \/ \E d \in Drains : Recover(d) \/ Launch(d) \/ DrainCrash(d)
    \/ \E c \in Slots :
          \/ Child(c) \/ RefusePermanently(c) \/ RefuseCapacity(c) \/ LaunchError(c)
          \/ ChildCrash(c) \/ WorkerExits(c) \/ WatcherFinishes(c)
    \/ ExpireLaunch \/ StoreChanges \/ GrowOld

Spec == Init /\ [][Next]_vars

(* The drains keep running, and every pass recovers before it launches;    *)
(* children are running processes; time passes; a store is mended.  That   *)
(* a launch is not refused for ever is MaxFaults.                          *)
Fairness ==
    /\ \A d \in Drains : SF_vars(Recover(d)) /\ WF_vars(Launch(d))
    /\ \A c \in Slots : WF_vars(Child(c)) /\ WF_vars(WorkerExits(c))
                            /\ WF_vars(WatcherFinishes(c))
    /\ WF_vars(ExpireLaunch) /\ WF_vars(GrowOld)
    /\ WF_vars(truth = "unreadable" /\ StoreChanges)

FairSpec == Spec /\ Fairness

(***************************************************************************)
(* Properties.                                                             *)
(***************************************************************************)
(* The files, the row, the attempt and the processes are what the code     *)
(* writes them to be.                                                      *)
TypeOK ==
    /\ carrier \in [st : {"none", "queued", "prepared"}, txn : {0} \cup Txns,
                    rc : Nat, fails : Nat]
    /\ claim \in [Slots -> [held : BOOLEAN, tok : {0} \cup Slots, started : BOOLEAN,
                            intent : BOOLEAN, wpid : BOOLEAN, seen : BOOLEAN,
                            txn : {0} \cup Txns, rc : Nat, fails : Nat]]
    /\ row \in [st : {"absent", "starting", "running"} \cup PreWorkerStates \cup Terminal,
                tok : {0} \cup Slots, txn : {0} \cup Txns, wpid : BOOLEAN,
                rc : Nat, fails : Nat]
    /\ att \in [life : {"NONE", "PREPARED", "STARTING", "RUNNING", "FINAL"},
                tok : {0} \cup Slots]
    /\ child \in [Slots -> {"none"} \cup Running \cup Exits]
    /\ worker \in [Slots -> {"none", "live", "dead"}]
    /\ drain \in [Drains -> [pc : {"idle", "peeked", "claimed", "launching", "exiting"},
                             slot : {0} \cup Slots, tok : {0} \cup Slots,
                             tried : {"no", "yes", "failed"}, hold : BOOLEAN]]
    /\ truth \in {"open", "complete", "unreadable"}
    /\ linked \in BOOLEAN /\ old \in BOOLEAN
    /\ shelf \subseteq {"failed", "quarantine", "withdrawn"}
    /\ mishaps \in Nat

(* A queued dispatch gets at most one worker, however many drains claim,   *)
(* restore and claim its carrier again, whoever dies in between and        *)
(* however many children run at once: the claim files and the ledger row   *)
(* allow two children for one dispatch, the journal's attempt must not     *)
(* allow the second spawn.                                                 *)
OneWorker == \A c, k \in Slots : worker[c] # "none" /\ worker[k] # "none" => c = k

Spawned == \E c \in Slots : worker[c] # "none"

(* Work is never lost: in every state, a crash between any two writes of a *)
(* restore included, a carrier or a claim file exists, or the dispatch has *)
(* been launched, closed or put where an operator finds it.                *)
WorkKept ==
    \/ carrier.st # "none" \/ Held # {}
    \/ att.life = "FINAL" \/ shelf # {} \/ Spawned

(* An intent without a known worker is never guessed about. *)
HeldForOperator ==
    \E c \in Held : Admission(c, TRUE) = "INDETERMINATE"

(* Every queued dispatch is brought to an end: launched and closed, failed *)
(* or withdrawn, quarantined, or held for an operator because its launcher *)
(* died between the spawn intent and the worker's identity.  No order of   *)
(* drains, deaths and restores leaves it going round for ever.             *)
EventuallySettled == <>(att.life = "FINAL" \/ shelf # {} \/ HeldForOperator)
=============================================================================
