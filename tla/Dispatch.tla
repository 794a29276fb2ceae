------------------------------ MODULE Dispatch ------------------------------
(***************************************************************************)
(* The life of a dispatch, from the launcher's first ledger row to the     *)
(* last repair, over the capacity leases of module Capacity:               *)
(*                                                                         *)
(*  - the launcher (goalflight_dispatch.py main): journal attempt and      *)
(*    ledger row, capacity lease, spawn under the ledger lock, attach,     *)
(*    RUNNING, and its finally block;                                      *)
(*  - the detached watcher (goalflight_watch.py);                          *)
(*  - the repairers: ledger reconcile, drain's reconcile of abandoned      *)
(*    dispatches, withdraw and settle, release-stale;                      *)
(*  - the operator's overrides, and the processes themselves.              *)
(*                                                                         *)
(* The journal (SQLite) commits a transition first and the ledger row      *)
(* mirrors it in a later step, so every recording operation is two steps   *)
(* with anything in between.                                               *)
(***************************************************************************)
EXTENDS Capacity

VARIABLES
    att,      \* the journal's dispatch_attempts row
    watch,    \* where the watcher is
    verdict,  \* worker_still_alive as the launcher and the watcher report it
    recon,    \* dispatches a reconcile pass has committed but not projected
    side,     \* the status sidecar: missing, a capacity wait, or a worker's
    owned     \* the recorded controller lives or cannot be proven gone

vars == <<lease, due, rec, pc, proc, kin, att, watch, verdict, recon, side, owned>>

Alive == {"true", "false", "null"}

RowStates == {"absent", "waiting_capacity", "starting", "running", "terminal"}
Row == [state : RowStates, alive : Alive, wpid : BOOLEAN, wtok : BOOLEAN,
        wpgid : BOOLEAN, superseded : BOOLEAN]
NoRow == [state |-> "absent", alive |-> "null", wpid |-> FALSE,
          wtok |-> FALSE, wpgid |-> FALSE, superseded |-> FALSE]

LiveLives == {"PREPARED", "STARTING", "RUNNING"}
FinalLives == {"TERMINAL", "ABANDONED"}
Attempt == [life : {"NONE"} \cup LiveLives \cup FinalLives, alive : Alive,
            worker : BOOLEAN, tok : BOOLEAN]
NoAttempt == [life |-> "NONE", alive |-> "null", worker |-> FALSE, tok |-> FALSE]

LauncherPoints ==
    {"idle", "prepared", "waiting", "reserved", "started", "ready", "checked",
     "handoff", "spawned", "attached", "claimed", "launched", "following",
     "failing", "failing_post", "finishing", "projecting", "releasing", "gone"}
WatchPoints == {"none", "watching", "killed", "finishing", "projecting", "gone"}

Init ==
    /\ lease = [d \in Dispatches |-> NoLease]
    /\ due = [d \in Dispatches |-> {}]
    /\ rec = [d \in Dispatches |-> NoRow]
    /\ pc = [d \in Dispatches |-> "idle"]
    /\ proc = [d \in Dispatches |-> "unborn"]
    /\ kin = {}
    /\ att = [d \in Dispatches |-> NoAttempt]
    /\ watch = [d \in Dispatches |-> "none"]
    /\ verdict = [d \in Dispatches |-> [launcher |-> "null", watcher |-> "null"]]
    /\ recon = {}
    /\ side = [d \in Dispatches |-> "absent"]
    /\ owned = [d \in Dispatches |-> "owner" \in Faults]

(* The launcher holds the ledger's StateLock from its last supersession    *)
(* check to the end of the spawn call; the lock dies with the process.     *)
LedgerFree == \A d \in Dispatches : pc[d] # "handoff"

Step(d, from, to) == pc[d] = from /\ pc' = [pc EXCEPT ![d] = to]

(* commit_terminal: the first writer wins, later ones learn the winner.    *)
(* The release hook runs after the transaction, on the row as it is then.  *)
CommitTerminal(d, life, alive) ==
    /\ att' = IF att[d].life \in FinalLives THEN att
              ELSE [att EXCEPT ![d].life = life, ![d].alive = alive]
    /\ TryRelease(d, rec[d])

(* Publish a terminal row, then retry the release on that row. *)
ProjectTerminal(d, alive) ==
    LET row == [rec[d] EXCEPT !.state = "terminal", !.alive = alive] IN
    /\ LedgerFree
    /\ rec' = [rec EXCEPT ![d] = row]
    /\ TryRelease(d, row)

(* Mutant: a rewrite of the row loses the supersession marker. *)
FreshRowUnmarked(d, state) == [NoRow EXCEPT !.state = state]

(* cmd_record builds the row afresh from its arguments: of the old row only *)
(* the supersession marker (among what is modelled) survives.              *)
FreshRow(d, state) == [NoRow EXCEPT !.state = state,
                                    !.superseded = rec[d].superseded]

-----------------------------------------------------------------------------
(* The launcher *)

RecordWaitingJournal(d) ==
    /\ Step(d, "idle", "prepared")
    /\ att' = [att EXCEPT ![d].life = "PREPARED"]
    /\ UNCHANGED <<lease, due, rec, proc, kin, watch, verdict, recon, side, owned>>

RecordWaitingRow(d) ==
    /\ Step(d, "prepared", "waiting")
    /\ LedgerFree
    /\ rec' = [rec EXCEPT ![d] = FreshRow(d, "waiting_capacity")]
    /\ UNCHANGED <<lease, due, proc, kin, att, watch, verdict, recon, side, owned>>

AcquireCapacity(d) ==
    /\ Step(d, "waiting", "reserved")
    /\ CmdAcquire(d)
    /\ UNCHANGED <<rec, proc, kin, att, watch, verdict, recon, side, owned>>

(* A refused request: the first status of a launch that has to wait.  A    *)
(* launch granted at once writes none before its worker exists.            *)
WaitForCapacity(d) ==
    /\ pc[d] = "waiting" /\ side[d] = "absent"
    /\ side' = [side EXCEPT ![d] = "waiting"]
    /\ UNCHANGED <<lease, due, rec, pc, proc, kin, att, watch, verdict, recon, owned>>

(* The capacity wait runs out. *)
CapacityBlocked(d) ==
    /\ Step(d, "waiting", "failing")
    /\ side' = [side EXCEPT ![d] = "waiting"]
    /\ UNCHANGED <<lease, due, rec, proc, kin, att, watch, verdict, recon, owned>>

(* start_attempt is a compare-and-swap on PREPARED and stamps the start    *)
(* deadline; its loser raises, having spawned nothing.                     *)
RecordStartingJournal(d) ==
    /\ \/ /\ att[d].life = "PREPARED"
          /\ Step(d, "reserved", "started")
          /\ att' = [att EXCEPT ![d].life = "STARTING"]
       \/ /\ att[d].life # "PREPARED"
          /\ Step(d, "reserved", "failing")
          /\ UNCHANGED att
    /\ UNCHANGED <<lease, due, rec, proc, kin, watch, verdict, recon, side, owned>>

RecordStartingRow(d) ==
    /\ Step(d, "started", "ready")
    /\ LedgerFree
    /\ rec' = [rec EXCEPT ![d] = FreshRow(d, "starting")]
    /\ UNCHANGED <<lease, due, proc, kin, att, watch, verdict, recon, side, owned>>

(* A failure of launch preparation, or the peek at the attempt finding it  *)
(* no longer STARTING.                                                     *)
AttemptClaimingWorkerArgv(d) ==
    /\ \/ att[d].life = "STARTING" /\ Step(d, "ready", "checked")
       \/ Step(d, "ready", "failing")
    /\ UNCHANGED <<lease, due, rec, proc, kin, att, watch, verdict, recon, side, owned>>

(* Under the ledger lock: the supersession guard, then the lease's         *)
(* reserved -> spawning handoff, without which nothing is spawned.         *)
EnterSpawn(d) ==
    /\ LedgerFree
    /\ \/ /\ ~rec[d].superseded
          /\ MarkLeaseSpawning(d)
          /\ Step(d, "checked", "handoff")
       \/ /\ rec[d].superseded \/ ~Spawnable(d)
          /\ Step(d, "checked", "failing")
          /\ UNCHANGED lease
    /\ UNCHANGED <<due, rec, proc, kin, att, watch, verdict, recon, side, owned>>

(* The spawn helper returns a pid; or it fails, having created the child   *)
(* or not, and the launcher knows no pid.                                  *)
SpawnWorker(d) ==
    /\ \/ Step(d, "handoff", "spawned") /\ proc' = [proc EXCEPT ![d] = "live"]
       \/ /\ Step(d, "handoff", "failing_post")
          /\ \/ proc' = [proc EXCEPT ![d] = "live"]
             \/ UNCHANGED proc
    /\ UNCHANGED <<lease, due, rec, kin, att, watch, verdict, recon, side, owned>>

(* Can the start token of the worker process be read now? *)
TokenCapture(d) == {proc[d] = "live"} \cup Blind(FALSE)

(* Attach, and detach for a background launch; an error in both is only    *)
(* noted.  The ACP runner passes the process group, the bash launcher not. *)
AttachWorkerToLease(d) ==
    /\ Step(d, "spawned", "attached")
    /\ \/ \E tok \in TokenCapture(d), pgid \in BOOLEAN : AttachWorker(d, tok, pgid)
       \/ "blind" \in Faults /\ UNCHANGED lease
    /\ UNCHANGED <<due, rec, proc, kin, att, watch, verdict, recon, side, owned>>

(* STARTING -> RUNNING; a lost claim is noted and the launch goes on.      *)
ClaimAttemptRunning(d) ==
    /\ \/ /\ att[d].life = "STARTING"
          /\ Step(d, "attached", "claimed")
          /\ \E tok \in TokenCapture(d) :
               att' = [att EXCEPT ![d].life = "RUNNING", ![d].worker = TRUE,
                                  ![d].tok = tok]
       \/ /\ att[d].life # "STARTING"
          /\ Step(d, "attached", "launched")
          /\ UNCHANGED att
    /\ UNCHANGED <<lease, due, rec, proc, kin, watch, verdict, recon, side, owned>>

(* cmd_record re-reads the attempt, which must be RUNNING, and then writes *)
(* the row over whatever is there; a refusal leaves its status instead.    *)
RecordRunningRow(d) ==
    /\ Step(d, "claimed", "launched")
    /\ \/ /\ LedgerFree
          /\ \E tok \in TokenCapture(d) :
               rec' = [rec EXCEPT ![d] = [FreshRow(d, "running") EXCEPT
                         !.wpid = TRUE, !.wtok = tok, !.wpgid = tok]]
          /\ UNCHANGED side
       \/ /\ att[d].life # "RUNNING"
          /\ side' = [side EXCEPT ![d] = "worker"]
          /\ UNCHANGED rec
    /\ UNCHANGED <<lease, due, proc, kin, att, watch, verdict, recon, owned>>

(* The launcher's status ahead of the watcher, with the worker's identity. *)
WriteLaunchStatus(d) ==
    /\ pc[d] = "launched" /\ side[d] # "worker"
    /\ side' = [side EXCEPT ![d] = "worker"]
    /\ UNCHANGED <<lease, due, rec, pc, proc, kin, att, watch, verdict, recon, owned>>

(* The watcher starts; a background launcher exits, a foreground one       *)
(* follows it.                                                             *)
StartWatcher(d) ==
    /\ side[d] = "worker"
    /\ \/ Step(d, "launched", "gone")
       \/ Step(d, "launched", "following")
    /\ watch' = [watch EXCEPT ![d] = "watching"]
    /\ UNCHANGED <<lease, due, rec, proc, kin, att, verdict, recon, side, owned>>

(* The foreground launcher reads the watcher's last status.  It leaves     *)
(* everything open when interrupted or when a stopped watcher left a live  *)
(* worker.                                                                 *)
EndFollowing(d) ==
    /\ watch[d] = "gone"
    /\ \/ /\ proc[d] # "live"
          /\ Step(d, "following", "finishing")
          /\ verdict' = [verdict EXCEPT ![d].launcher = "false"]
       \/ /\ proc[d] \in {"live", "reused"} \/ verdict[d].watcher = "true"
          /\ Step(d, "following", "finishing")
          /\ verdict' = [verdict EXCEPT ![d].launcher = "true"]
       \/ /\ proc[d] \in {"live", "reused"}
          /\ Step(d, "following", "gone")
          /\ UNCHANGED verdict
    /\ UNCHANGED <<lease, due, rec, proc, kin, att, watch, recon, side, owned>>

(* SIGTERM or SIGINT before the spawn: the guard surrenders the lease and  *)
(* the finally block follows.                                              *)
SignalBeforeSpawn(d) ==
    /\ \E p \in {"reserved", "started", "ready", "checked"} : Step(d, p, "failing")
    /\ ReleaseOwned(d)
    /\ UNCHANGED <<due, rec, proc, kin, att, watch, verdict, recon, side, owned>>

(* The finally block when no spawn was attempted: launcher-owned proof.    *)
FinallyNotSpawned(d) ==
    /\ Step(d, "failing", "finishing")
    /\ MarkLeaseSpawnFailed(d)
    /\ verdict' = [verdict EXCEPT ![d].launcher = "false"]
    /\ UNCHANGED <<due, rec, proc, kin, att, watch, recon, side, owned>>

(* A refused worktree seat also deletes the mirror row, and skips the      *)
(* terminal commit.                                                        *)
FinallyDiscardRow(d) ==
    /\ Step(d, "failing", "releasing")
    /\ LedgerFree
    /\ rec' = [rec EXCEPT ![d] = NoRow]
    /\ MarkLeaseSpawnFailed(d)
    /\ verdict' = [verdict EXCEPT ![d].launcher = "false"]
    /\ UNCHANGED <<due, proc, kin, att, watch, recon, side, owned>>

(* Mutant: a spawn that returned no pid is taken for one that failed. *)
FinallyAmbiguousMarked(d) ==
    /\ Step(d, "failing_post", "finishing")
    /\ MarkLeaseSpawnFailed(d)
    /\ verdict' = [verdict EXCEPT ![d].launcher = "null"]
    /\ UNCHANGED <<due, rec, proc, kin, att, watch, recon, side, owned>>

(* A spawn that returned no pid proves nothing about the worker. *)
FinallyAmbiguous(d) ==
    /\ Step(d, "failing_post", "finishing")
    /\ verdict' = [verdict EXCEPT ![d].launcher = "null"]
    /\ UNCHANGED <<lease, due, rec, proc, kin, att, watch, recon, side, owned>>

(* An exception with the pid in hand: before the attachment (the queue     *)
(* claim cannot be marked) or when the watcher cannot be started.  pid_alive *)
(* takes an unreadable probe for a live worker.                            *)
FinallySpawned(d) ==
    /\ \E p \in {"spawned", "launched"} : Step(d, p, "finishing")
    /\ \E a \in PidProbe(d) :
         verdict' = [verdict EXCEPT ![d].launcher =
                       IF a = "absent" THEN "false" ELSE "true"]
    /\ UNCHANGED <<lease, due, rec, proc, kin, att, watch, recon, side, owned>>

(* cmd_finish, first half; it needs a row. *)
LauncherCommit(d) ==
    /\ \/ /\ rec[d].state # "absent"
          /\ Step(d, "finishing", "projecting")
          /\ CommitTerminal(d, "TERMINAL", verdict[d].launcher)
       \/ /\ rec[d].state = "absent"
          /\ Step(d, "finishing", "releasing")
          /\ UNCHANGED <<att, lease>>
    /\ UNCHANGED <<due, rec, proc, kin, watch, verdict, recon, side, owned>>

LauncherProject(d) ==
    /\ Step(d, "projecting", "releasing")
    /\ ProjectTerminal(d, verdict[d].launcher)
    /\ UNCHANGED <<due, proc, kin, att, watch, verdict, recon, side, owned>>

(* The claimant surrenders its lease only with the worker reported dead.   *)
LauncherRelease(d) ==
    /\ Step(d, "releasing", "gone")
    /\ IF verdict[d].launcher = "false" THEN ReleaseOwned(d) ELSE UNCHANGED lease
    /\ verdict' = [verdict EXCEPT ![d].launcher = "null"]
    /\ UNCHANGED <<due, rec, proc, kin, att, watch, recon, side, owned>>

(* Killed inside the spawn call, it may leave a child behind. *)
LauncherCrash(d) ==
    /\ "crash" \in Faults
    /\ pc[d] \notin {"idle", "gone"}
    /\ pc' = [pc EXCEPT ![d] = "gone"]
    /\ \/ UNCHANGED proc
       \/ pc[d] = "handoff" /\ proc' = [proc EXCEPT ![d] = "live"]
    /\ UNCHANGED <<lease, due, rec, kin, att, watch, verdict, recon, side, owned>>

-----------------------------------------------------------------------------
(* The watcher *)

WatchStep(d, from, to) == watch[d] = from /\ watch' = [watch EXCEPT ![d] = to]

(* Terminal by observation: the worker is dead, or a marker or an idle     *)
(* timeout ends the dispatch around a live worker.                         *)
WatchConclude(d) ==
    /\ WatchStep(d, "watching", "finishing")
    /\ verdict' = [verdict EXCEPT ![d].watcher =
                     IF proc[d] = "live" THEN "true" ELSE "false"]
    /\ UNCHANGED <<lease, due, rec, pc, proc, kin, att, recon, side, owned>>

(* The watcher is told to stop around a live worker: nothing is closed. *)
WatchStopped(d) ==
    /\ WatchStep(d, "watching", "gone")
    /\ proc[d] = "live"
    /\ UNCHANGED <<lease, due, rec, pc, proc, kin, att, verdict, recon, side, owned>>

(* terminate_indeterminate_worker, confirmed: the verified group is gone.  *)
TerminateIndeterminateWorker(d) ==
    /\ WatchStep(d, "watching", "killed")
    /\ \/ proc[d] = "live"
       \/ proc[d] = "gone" /\ d \notin kin
    /\ proc' = [proc EXCEPT ![d] = "gone"]
    /\ kin' = kin \ {d}
    /\ UNCHANGED <<lease, due, rec, pc, att, verdict, recon, side, owned>>

ReleaseIndeterminateCapacity(d) ==
    /\ WatchStep(d, "killed", "finishing")
    /\ TryRelease(d, rec[d])
    /\ verdict' = [verdict EXCEPT ![d].watcher = "false"]
    /\ UNCHANGED <<due, rec, pc, proc, kin, att, recon, side, owned>>

(* Not confirmed: another generation under the pid, an unreadable identity, *)
(* a leaderless group or one that survives SIGKILL.  The slot is kept.     *)
RetainIndeterminateWorker(d) ==
    /\ WatchStep(d, "watching", "finishing")
    /\ proc[d] # "gone" \/ d \in kin \/ "blind" \in Faults
    /\ IF rec[d].state = "absent" THEN UNCHANGED <<lease, due>>
                                  ELSE RetainIndeterminate(d)
    /\ verdict' = [verdict EXCEPT ![d].watcher = "true"]
    /\ UNCHANGED <<rec, pc, proc, kin, att, recon, side, owned>>

(* Mutant: the row is published without the journal. *)
WatchCommitSkipped(d) ==
    /\ WatchStep(d, "finishing", "projecting")
    /\ UNCHANGED <<lease, due, rec, pc, proc, kin, att, verdict, recon, side, owned>>

(* With no row the journal alone is told. *)
WatchCommit(d) ==
    /\ IF rec[d].state = "absent" THEN WatchStep(d, "finishing", "gone")
                                  ELSE WatchStep(d, "finishing", "projecting")
    /\ CommitTerminal(d, "TERMINAL", verdict[d].watcher)
    /\ UNCHANGED <<due, rec, pc, proc, kin, verdict, recon, side, owned>>

WatchProject(d) ==
    /\ WatchStep(d, "projecting", "gone")
    /\ ProjectTerminal(d, verdict[d].watcher)
    /\ UNCHANGED <<due, pc, proc, kin, att, verdict, recon, side, owned>>

WatchCrash(d) ==
    /\ "crash" \in Faults
    /\ \E p \in WatchPoints \ {"none", "gone"} : WatchStep(d, p, "gone")
    /\ UNCHANGED <<lease, due, rec, pc, proc, kin, att, verdict, recon, side, owned>>

-----------------------------------------------------------------------------
(* The repairers.  Each may run in any process, at any time.               *)

(* reconcile_terminal_outbox, one record.  A launch whose start deadline   *)
(* passed is abandoned without looking for its worker.                     *)
ReconcileExpired(d) ==
    /\ att[d].life = "STARTING" /\ "start" \in due[d]
    /\ CommitTerminal(d, "ABANDONED", "false")
    /\ recon' = recon \cup {d}
    /\ UNCHANGED <<due, rec, pc, proc, kin, watch, verdict, side, owned>>

(* A RUNNING attempt's worker is copied onto an open row that lacks it. *)
ReconcileHydrate(d) ==
    /\ att[d].life = "RUNNING" /\ att[d].worker
    /\ ~rec[d].wpid /\ rec[d].state \notin {"absent", "terminal"}
    /\ LedgerFree
    /\ rec' = [rec EXCEPT ![d].state = "running", ![d].wpid = TRUE,
                          ![d].wtok = att[d].tok, ![d].wpgid = att[d].tok]
    /\ UNCHANGED <<lease, due, pc, proc, kin, att, watch, verdict, recon, side, owned>>

(* classify: with no worker_pid on the row the claimant's death stands in. *)
ClassifiedDead(d) ==
    /\ rec[d].state \in {"starting", "running"}
    /\ IF rec[d].wpid THEN "absent" \in PidProbe(d) ELSE LauncherGone(d)

ReconcileDead(d) ==
    /\ ClassifiedDead(d)
    /\ CommitTerminal(d, "TERMINAL", "false")
    /\ recon' = recon \cup {d}
    /\ UNCHANGED <<due, rec, pc, proc, kin, watch, verdict, side, owned>>

ReconcileProject(d) ==
    /\ d \in recon
    /\ ProjectTerminal(d, "false")
    /\ recon' = recon \ {d}
    /\ UNCHANGED <<due, pc, proc, kin, att, watch, verdict, side, owned>>

ReconcileCrash(d) ==
    /\ "repair_crash" \in Faults
    /\ d \in recon
    /\ recon' = recon \ {d}
    /\ UNCHANGED <<lease, due, rec, pc, proc, kin, att, watch, verdict, side, owned>>

(* _queue_claim_identity_status = "dead" for a recorded worker. *)
RecordedWorkerDead(d, tok) ==
    proc[d] # "live" /\ (proc[d] = "reused" => tok)

(* An open row whose claimant is dead and which holds no lease. *)
Abandonable(d) ==
    /\ rec[d].state \in {"waiting_capacity", "starting", "running"}
    /\ lease[d].state # "active"
    /\ LauncherGone(d)

(* What every pass over abandoned dispatches asks, under the capacity and  *)
(* the ledger lock: each recorded process (row, status sidecar, claimant)  *)
(* dead and no active lease.  A journal winner's own observation is        *)
(* mirrored.                                                               *)
CloseAbandoned(d) ==
    /\ LedgerFree
    /\ Abandonable(d)
    /\ rec[d].wpid => RecordedWorkerDead(d, rec[d].wtok)
    /\ side[d] = "worker" => RecordedWorkerDead(d, TRUE)
    /\ CommitTerminal(d, "TERMINAL", "false")
    /\ rec' = [rec EXCEPT ![d].state = "terminal",
                 ![d].alive = IF att[d].life \in FinalLives THEN att[d].alive
                              ELSE "false"]
    /\ UNCHANGED <<due, pc, proc, kin, watch, verdict, recon, side, owned>>

(* Mutant: a dispatch that dies while it waits for capacity is forgotten.  *)
ReconcileAbandonedStarted(d) ==
    /\ rec[d].state # "waiting_capacity" /\ side[d] # "absent" /\ ~owned[d]
    /\ CloseAbandoned(d)

(* The drain's pass: a status sidecar that cannot be read and a controller *)
(* that is alive, unrecorded or unreadable each hold the row.              *)
ReconcileAbandoned(d) ==
    /\ side[d] # "absent" /\ ~owned[d]
    /\ CloseAbandoned(d)

(* A terminal marker in the tail of a recorded, dead worker outweighs both. *)
ReconcileAbandonedMarked(d) ==
    /\ rec[d].wpid \/ side[d] = "worker"
    /\ CloseAbandoned(d)

(* _withdraw_liveness_preflight on the row, its sidecar and the journal: an *)
(* identity that is recorded must be complete and dead; a started attempt  *)
(* needs one.                                                              *)
WithdrawPreflight(d) ==
    /\ rec[d].wpid => rec[d].wtok /\ RecordedWorkerDead(d, TRUE)
    /\ att[d].worker => att[d].tok /\ RecordedWorkerDead(d, TRUE)
    /\ rec[d].state # "absent" => side[d] # "absent"
    /\ side[d] = "worker" => RecordedWorkerDead(d, TRUE)
    /\ att[d].life \in {"STARTING", "RUNNING"} => rec[d].wpid /\ att[d].worker

(* withdraw commits and mirrors under the ledger lock; settle mirrors an   *)
(* attempt that is already final.                                          *)
Withdraw(d) ==
    /\ "retire" \in Faults
    /\ LedgerFree
    /\ att[d].life # "NONE"
    /\ WithdrawPreflight(d)
    /\ att' = IF att[d].life \in FinalLives THEN att
              ELSE [att EXCEPT ![d].life = "TERMINAL"]
    /\ rec' = [rec EXCEPT ![d].state = "terminal", ![d].alive = "false"]
    /\ TryRelease(d, [rec[d] EXCEPT !.state = "terminal", !.alive = "false"])
    /\ UNCHANGED <<due, pc, proc, kin, watch, verdict, recon, side, owned>>

(* A replacement dispatch marks the row it supersedes. *)
Supersede(d) ==
    /\ "retire" \in Faults
    /\ LedgerFree
    /\ rec[d].state # "absent" /\ ~rec[d].superseded
    /\ rec' = [rec EXCEPT ![d].superseded = TRUE]
    /\ UNCHANGED <<lease, due, pc, proc, kin, att, watch, verdict, recon, side, owned>>

ReleaseStale(keep) ==
    /\ CmdReleaseStale(keep)
    /\ UNCHANGED <<due, rec, pc, proc, kin, att, watch, verdict, recon, side, owned>>

(* A machine waking from sleep extends the leases' expiry. *)
ExtendExpiry(d) ==
    /\ ExtendActiveLeaseExpiry(d)
    /\ UNCHANGED <<lease, rec, pc, proc, kin, att, watch, verdict, recon, side, owned>>

OperatorRelease(d) ==
    /\ "override" \in Faults
    /\ ReleaseOperatorConfirmed(d) \/ ReleaseUnknownClaimant(d)
    /\ UNCHANGED <<due, rec, pc, proc, kin, att, watch, verdict, recon, side, owned>>

-----------------------------------------------------------------------------
(* The environment: processes and time *)

WorkerExit(d) ==
    /\ proc[d] = "live"
    /\ proc' = [proc EXCEPT ![d] = "gone"]
    /\ \/ UNCHANGED kin
       \/ "kin" \in Faults /\ kin' = kin \cup {d}
    /\ UNCHANGED <<lease, due, rec, pc, att, watch, verdict, recon, side, owned>>

KinExit(d) ==
    /\ d \in kin
    /\ kin' = kin \ {d}
    /\ UNCHANGED <<lease, due, rec, pc, proc, att, watch, verdict, recon, side, owned>>

(* A pid is not reused while a process group carries its number. *)
PidReuse(d) ==
    /\ "reuse" \in Faults
    /\ proc[d] = "gone" /\ d \notin kin
    /\ proc' = [proc EXCEPT ![d] = "reused"]
    /\ UNCHANGED <<lease, due, rec, pc, kin, att, watch, verdict, recon, side, owned>>

(* The controller's session ends, or one under its label starts.  Nothing  *)
(* reads it before the row is otherwise abandonable.                       *)
ControllerChange(d) ==
    /\ "owner" \in Faults
    /\ Abandonable(d)
    /\ owned' = [owned EXCEPT ![d] = ~@]
    /\ UNCHANGED <<lease, due, rec, pc, proc, kin, att, watch, verdict, recon, side>>

ReuseExit(d) ==
    /\ proc[d] = "reused"
    /\ proc' = [proc EXCEPT ![d] = "gone"]
    /\ UNCHANGED <<lease, due, rec, pc, kin, att, watch, verdict, recon, side, owned>>

(* The start deadline and the longer lease clocks are set no earlier than  *)
(* the reservation and last no less.  A lease's clocks are read only while *)
(* it is active, so they pass only then.                                   *)
MayElapse(d, c) ==
    CASE c = "reservation" -> d \in Active
      [] c \in {"ttl", "retention"} -> d \in Active /\ "reservation" \in due[d]
      [] c = "start" -> /\ (d \in Active => "reservation" \in due[d])
                        /\ att[d].life = "STARTING"
      [] c = "day" -> lease[d].state = "terminal"

Elapse(d, c) ==
    /\ c \notin due[d]
    /\ MayElapse(d, c)
    /\ due' = [due EXCEPT ![d] = @ \cup {c}]
    /\ UNCHANGED <<lease, rec, pc, proc, kin, att, watch, verdict, recon, side, owned>>

-----------------------------------------------------------------------------
LauncherStep(d) ==
    \/ RecordWaitingJournal(d) \/ RecordWaitingRow(d)
    \/ AcquireCapacity(d) \/ WaitForCapacity(d) \/ CapacityBlocked(d)
    \/ RecordStartingJournal(d) \/ RecordStartingRow(d)
    \/ AttemptClaimingWorkerArgv(d) \/ EnterSpawn(d) \/ SpawnWorker(d)
    \/ AttachWorkerToLease(d) \/ ClaimAttemptRunning(d) \/ RecordRunningRow(d)
    \/ WriteLaunchStatus(d) \/ StartWatcher(d) \/ EndFollowing(d)
    \/ SignalBeforeSpawn(d) \/ FinallyNotSpawned(d) \/ FinallyDiscardRow(d)
    \/ FinallyAmbiguous(d) \/ FinallySpawned(d) \/ LauncherCommit(d) \/ LauncherProject(d)
    \/ LauncherRelease(d)

WatcherStep(d) ==
    \/ WatchConclude(d) \/ WatchStopped(d)
    \/ TerminateIndeterminateWorker(d) \/ ReleaseIndeterminateCapacity(d)
    \/ RetainIndeterminateWorker(d)
    \/ WatchCommit(d) \/ WatchProject(d)

ReconcileStep(d) ==
    \/ ReconcileExpired(d) \/ ReconcileHydrate(d) \/ ReconcileDead(d)
    \/ ReconcileProject(d)

AbandonedStep(d) == ReconcileAbandoned(d) \/ ReconcileAbandonedMarked(d)

OperatorStep(d) == Withdraw(d) \/ Supersede(d) \/ OperatorRelease(d)

EnvironmentStep(d) ==
    \/ LauncherCrash(d) \/ WatchCrash(d) \/ ReconcileCrash(d)
    \/ WorkerExit(d) \/ KinExit(d) \/ PidReuse(d) \/ ReuseExit(d)
    \/ ControllerChange(d)
    \/ ExtendExpiry(d)
    \/ \E c \in Deadlines : Elapse(d, c)

Next ==
    \/ \E d \in Dispatches :
         \/ LauncherStep(d) \/ WatcherStep(d) \/ ReconcileStep(d)
         \/ AbandonedStep(d) \/ OperatorStep(d) \/ EnvironmentStep(d)
    \/ \E keep \in BOOLEAN : ReleaseStale(keep)

Spec == Init /\ [][Next]_vars

(* A process that is not killed keeps running; reconcile and drain passes  *)
(* recur and are not killed for ever at the same point; time passes.       *)
(* Nothing obliges a worker to exit or to leave a marker, a controller to  *)
(* go, or an operator to act.                                              *)
Fairness ==
    /\ \A d \in Dispatches :
         /\ WF_vars(LauncherStep(d))
         /\ WF_vars(WatcherStep(d))
         /\ WF_vars(ReconcileExpired(d))
         /\ WF_vars(ReconcileDead(d))
         /\ SF_vars(ReconcileProject(d))
         /\ WF_vars(ReconcileAbandoned(d))
         /\ \A c \in Deadlines : WF_vars(Elapse(d, c))
    /\ WF_vars(ReleaseStale(TRUE))

FairSpec == Spec /\ Fairness

-----------------------------------------------------------------------------
(* Properties *)

(* Every variable has its type. *)
TypeOK ==
    /\ lease \in [Dispatches -> Lease]
    /\ due \in [Dispatches -> SUBSET Clocks]
    /\ rec \in [Dispatches -> Row]
    /\ pc \in [Dispatches -> LauncherPoints]
    /\ proc \in [Dispatches -> ProcStates]
    /\ kin \subseteq Dispatches
    /\ att \in [Dispatches -> Attempt]
    /\ watch \in [Dispatches -> WatchPoints]
    /\ verdict \in [Dispatches -> [launcher : Alive, watcher : Alive]]
    /\ recon \subseteq Dispatches
    /\ side \in [Dispatches -> {"absent", "waiting", "worker"}]
    /\ owned \in [Dispatches -> BOOLEAN]

(* Admission never grants beyond the cap: the leases that no watcher has   *)
(* forced back to active as indeterminate stay within MaxTotal             *)
(* (cmd_acquire, whatever it prunes or reclaims on the way).               *)
WithinCap ==
    Cardinality({d \in Active : ~lease[d].retained}) <= MaxTotal

(* The ledger row mirrors the journal and never leads it: a row is         *)
(* terminal only when the journal attempt is final, whichever of launcher, *)
(* watcher, reconcile, drain or withdraw wrote it.                         *)
MirrorNeverLeads ==
    \A d \in Dispatches :
        rec[d].state = "terminal" => att[d].life \in FinalLives

(* A dispatch superseded before its worker exists never gets a worker:     *)
(* the guard, the spawn and the marker are ordered by the ledger lock, and *)
(* every later rewrite of the row keeps the marker, except the one of a    *)
(* launcher on its way out (_redispatch_spawn_guard, cmd_record).          *)
SupersededNeverSpawns ==
    \A d \in Dispatches :
        [](rec[d].superseded /\ proc[d] = "unborn" => [](proc[d] = "unborn"))

(* A worker exists, or the helper that creates it is running. *)
WorkerMayLive(d) == proc[d] = "live" \/ pc[d] = "handoff"

(* The one way in which the code frees the slot of a worker that may be    *)
(* alive: no store has its identity, a terminal row says that it is not    *)
(* alive, and the reservation deadline has passed.                         *)
TerminalRowOverridesWorker(d) ==
    /\ ~lease[d].wpid /\ ~rec[d].wpid
    /\ rec'[d].state = "terminal" /\ rec'[d].alive = "false"
    /\ "reservation" \in due[d]

(* Whatever fails, stalls, cannot be probed or is reused, the slot of a    *)
(* worker that may be alive is given up only by an operator's override or  *)
(* on a terminal row written over an unattached worker.                    *)
LiveWorkerKeepsSlot ==
    [][\A d \in Dispatches :
         (/\ WorkerMayLive(d) /\ lease[d].state = "active"
          /\ lease'[d].state # "active")
         => lease'[d].operator \/ TerminalRowOverridesWorker(d)]_vars

(* The descendants of a dead worker keep its slot while its process group  *)
(* is recorded on the lease (attached_worker_group_holds_capacity), except *)
(* when its own launcher surrenders the lease, an operator does, or the    *)
(* group could not be probed until its retention window closed.            *)
DescendantsKeepSlot ==
    [][\A d \in kin :
         (/\ lease[d].state = "active" /\ lease[d].wpgid
          /\ lease'[d].state # "active")
         => \/ lease'[d].operator
            \/ pc[d] = "releasing"
            \/ "blind" \in Faults /\ ~RetentionOpen(d)]_vars

(* goalflight_capacity.py:2107, "it must not make a live or unprobeable    *)
(* worker reclaimable", and goalflight_dispatch.py:25730, "reconciliation  *)
(* must retain the lease rather than release a live child that the helper  *)
(* may already have created": no slot of a live worker is freed but by an  *)
(* operator.                                                               *)
LiveChildNeverReleased ==
    [][\A d \in Dispatches :
         (/\ proc[d] = "live" /\ lease[d].state = "active"
          /\ lease'[d].state # "active")
         => lease'[d].operator]_vars

(* Nobody is left who could end the dispatch by itself: launcher and       *)
(* watcher are gone and the worker with its descendants too.               *)
Orphaned(d) ==
    /\ LauncherGone(d) /\ watch[d] \in {"none", "gone"}
    /\ proc[d] \in {"unborn", "gone"} /\ d \notin kin

(* The launcher could not say that there is no worker, and no store has    *)
(* its identity: "An attempted spawn with no returned PID is unknown and   *)
(* must leak" (goalflight_dispatch.py:25739).                              *)
Unaccounted(d) ==
    /\ rec[d].state = "terminal" /\ rec[d].alive # "false"
    /\ ~lease[d].wpid /\ ~rec[d].wpid

(* Wherever launcher and watcher were killed, the slot of an orphaned      *)
(* dispatch is reclaimed, unless its launcher left it unaccounted for.     *)
SlotReclaimed ==
    \A d \in Dispatches :
        Orphaned(d) /\ lease[d].state = "active"
            ~> lease[d].state # "active" \/ Unaccounted(d)

(* The code holds a dispatch that died before its worker: no status was    *)
(* ever written ("stays ineligible for reconciliation for good",           *)
(* goalflight_dispatch.py:13466), or its controller may come back for it.  *)
(* The start deadline ends the one whose attempt is STARTING.              *)
HeldWaiting(d) ==
    /\ rec[d].state = "waiting_capacity" /\ att[d].life # "STARTING"
    /\ side[d] = "absent" \/ owned[d]

(* Wherever its processes were killed, an orphaned dispatch that has a row *)
(* ends with a final attempt and a terminal row, unless it is held again   *)
(* and again: once a controller stays away from a dispatch whose status is *)
(* there, it is settled.                                                   *)
DispatchSettles ==
    \A d \in Dispatches :
        Orphaned(d) /\ rec[d].state # "absent"
            ~> \/ att[d].life \in FinalLives /\ rec[d].state = "terminal"
               \/ HeldWaiting(d)
=============================================================================
