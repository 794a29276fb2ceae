------------------------------ MODULE Capacity ------------------------------
(***************************************************************************)
(* The machine-global lease file, capacity.json, and every operation       *)
(* scripts/goalflight_capacity.py performs on it under its StateLock.      *)
(*                                                                         *)
(* One dispatch owns at most one lease, so a lease is named by its         *)
(* dispatch.  What an operation may conclude about a process is the set of *)
(* verdicts the code can reach: a probe tells the truth or, when the       *)
(* environment is "blind", tells nothing (None in the code).  An operator  *)
(* whose code returns a boolean computed from probes therefore returns a   *)
(* subset of BOOLEAN here, and an action picks one of its elements.        *)
(*                                                                         *)
(* Which lane, account and memory budget a request meets is the subject of *)
(* module Admission; here admission compares the number of active leases   *)
(* with MaxTotal.                                                          *)
(***************************************************************************)
EXTENDS Naturals, FiniteSets

CONSTANTS
    Dispatches,   \* dispatch ids
    MaxTotal,     \* the machine's operating cap on active leases
    Deadlines,    \* the deadlines that may pass
    Faults        \* the faults and interventions that are switched on

(* "crash":  a launcher or watcher is killed between two of its steps.     *)
(* "repair_crash": a reconciling process is killed between two steps.      *)
(* "blind":  a pid, process-group or start-token probe answers nothing.    *)
(* "reuse":  the pid of a dead worker is given to an unrelated process.    *)
(* "kin":    descendants of a worker outlive it in its process group.      *)
(* "override": an operator releases a lease by hand.                       *)
(* "retire": an operator withdraws a dispatch or supersedes it by another. *)
(* "owner":  a dispatch has a controller, whose sessions come and go.      *)
FaultKinds == {"crash", "repair_crash", "blind", "reuse", "kin", "override",
               "retire", "owner"}

(* reservation: reservation_deadline_at (reserved_at + 300s); start: the   *)
(* journal's start_deadline_at; ttl: expires_at; retention: the 7200s      *)
(* indeterminate window; day: 24h since the lease became terminal.         *)
Clocks == {"reservation", "start", "ttl", "retention", "day"}

ASSUME DispatchesAssumption == IsFiniteSet(Dispatches)
ASSUME MaxTotalAssumption == MaxTotal \in Nat \ {0}
ASSUME DeadlinesAssumption == Deadlines \subseteq Clocks
ASSUME FaultsAssumption == Faults \subseteq FaultKinds

VARIABLES
    lease,  \* capacity.json: the lease of each dispatch
    due,    \* deadlines of each dispatch's lease and attempt that have passed
    rec,    \* the ledger row of each dispatch, runs.d/<id>.json
    pc,     \* where the launcher (the lease's claimant) of each dispatch is
    proc,   \* what runs under the worker pid of each dispatch
    kin     \* dispatches whose worker left live descendants in its group

LeaseStates == {"absent", "active", "terminal"}
LaunchStates == {"reserved", "spawning", "spawn_failed", "attached"}

(* wpid, wtok, wpgid: worker_pid, worker_identity.start_token, worker_pgid  *)
(* are recorded.  retained: reason is INDETERMINATE_LIVE_REASON.  operator: *)
(* a person released it (operator_confirmed or --include-unknown-claimant). *)
Lease == [state : LeaseStates, launch : LaunchStates, wpid : BOOLEAN,
          wtok : BOOLEAN, wpgid : BOOLEAN, retained : BOOLEAN,
          operator : BOOLEAN]

NoLease == [state |-> "absent", launch |-> "reserved", wpid |-> FALSE,
            wtok |-> FALSE, wpgid |-> FALSE, retained |-> FALSE,
            operator |-> FALSE]

ProcStates == {"unborn", "live", "gone", "reused"}

Active == {d \in Dispatches : lease[d].state = "active"}

-----------------------------------------------------------------------------
(* Probes *)

Blind(x) == IF "blind" \in Faults THEN {x} ELSE {}

(* goalflight_compat.pid_liveness on the recorded worker pid. *)
PidProbe(d) ==
    {IF proc[d] \in {"live", "reused"} THEN "alive" ELSE "absent"}
      \cup Blind("unknown")

(* Does the process now under the pid carry the recorded start token?      *)
GenerationMatches(d, tok) ==
    IF tok THEN {IF proc[d] = "live" THEN "same" ELSE "other"} \cup Blind("none")
           ELSE {"none"}

(* killpg(pgid, 0); a process that took over the pid may lead a new group. *)
GroupProbe(d) ==
    {IF proc[d] = "live" \/ d \in kin THEN "alive" ELSE "absent"}
      \cup (IF proc[d] = "reused" THEN {"alive"} ELSE {})
      \cup Blind("unknown")

RetentionOpen(d) == "retention" \notin due[d]

(* The worker fields of a lease or of a ledger row, and those of the lease *)
(* completed by a row r.                                                   *)
View(x) == [pid |-> x.wpid, tok |-> x.wtok, pgid |-> x.wpgid]
WorkerLeaseView(d, r) == [pid |-> lease[d].wpid \/ r.wpid,
                          tok |-> lease[d].wtok \/ r.wtok,
                          pgid |-> lease[d].wpgid \/ r.wpgid]

(* Dead needs an absent pid or another start token; anything less than a   *)
(* matching token is unknown.                                              *)
Verdict(p, m) ==
    CASE p = "absent"  -> "dead"
      [] p = "unknown" -> "unknown"
      [] p = "alive"   -> CASE m = "other" -> "dead"
                            [] m = "same"  -> "live"
                            [] m = "none"  -> "unknown"

WorkerIdentityLiveness(d, w) ==
    IF ~w.pid THEN {"unknown"}
    ELSE {Verdict(p, m) : p \in PidProbe(d), m \in GenerationMatches(d, w.tok)}

PidHoldsCapacity(d, w) ==
    {CASE p = "alive"   -> m # "other"
       [] p = "absent"  -> FALSE
       [] p = "unknown" -> RetentionOpen(d) :
       p \in PidProbe(d), m \in GenerationMatches(d, w.tok)}

(* Mutant: the group of a dead leader is not looked at. *)
GroupOfDeadLeaderIgnored(d, w) == PidHoldsCapacity(d, w)

(* Another generation under the pid takes the group's number with it; else *)
(* the group decides, or, when it is absent, the pid.                      *)
GroupVerdict(d, p, m, g, h) ==
    IF p = "alive" /\ m = "other" THEN FALSE
    ELSE CASE g = "alive"   -> TRUE
           [] g = "unknown" -> RetentionOpen(d)
           [] g = "absent"  -> h

AttachedWorkerGroupHoldsCapacity(d, w) ==
    IF ~w.pgid THEN {FALSE}
    ELSE {GroupVerdict(d, p, m, g, h) :
            p \in PidProbe(d), m \in GenerationMatches(d, w.tok),
            g \in GroupProbe(d), h \in PidHoldsCapacity(d, w)}

RetainedLiveScopeHoldsCapacity(d) ==
    IF ~lease[d].retained THEN {FALSE}
    ELSE {CASE g = "alive" -> TRUE
            [] g = "absent" -> FALSE
            [] g = "unknown" -> RetentionOpen(d) : g \in GroupProbe(d)}

(* What the worker identity proves: dead, and nothing of its scope held.   *)
WorkerGone(d, w) ==
    LET live == WorkerIdentityLiveness(d, w)
        group == AttachedWorkerGroupHoldsCapacity(d, w)
    IN {b \in BOOLEAN : \E l \in live, g \in group : b <=> l = "dead" /\ ~g}

-----------------------------------------------------------------------------
(* Which leases may be taken back *)

(* Mutant: a lease left in spawning is never taken back. *)
SpawningNeverGone(d, r) ==
    IF WorkerLeaseView(d, r).pid
    THEN {g /\ ~h : g \in WorkerGone(d, WorkerLeaseView(d, r)),
                    h \in RetainedLiveScopeHoldsCapacity(d)}
    ELSE {\/ lease[d].launch = "spawn_failed"
          \/ /\ r.state = "terminal" /\ r.alive = "false"
             /\ lease[d].launch = "reserved"}

(* Without a worker identity only a launcher-proven non-launch, or a       *)
(* terminal ledger row saying that no worker is alive, frees the slot; a   *)
(* spawning lease must moreover have outlived its reservation.             *)
TerminalWorkerGone(d, r) ==
    LET w == WorkerLeaseView(d, r)
        gone == WorkerGone(d, w)
        retained == RetainedLiveScopeHoldsCapacity(d) IN
    IF ~w.pid
    THEN {b \in BOOLEAN :
            b <=> \/ lease[d].launch = "spawn_failed"
                  \/ /\ r.state = "terminal"
                     /\ r.alive = "false"
                     /\ \/ lease[d].launch = "reserved"
                        \/ /\ lease[d].launch = "spawning"
                           /\ "reservation" \in due[d]}
    ELSE {b \in BOOLEAN : \E g \in gone, h \in retained : b <=> g /\ ~h}

LauncherGone(d) == pc[d] = "gone"

PrelaunchClaimantDead(d) == {LauncherGone(d)} \cup Blind(FALSE)

ReclaimablePrelaunchLease(d) ==
    IF /\ lease[d].launch = "reserved" /\ ~lease[d].wpid
       /\ rec[d].state = "waiting_capacity" /\ ~rec[d].wpid
    THEN PrelaunchClaimantDead(d)
    ELSE {FALSE}

(* stale_active_leases, for one active lease. *)
Stale(d) ==
    LET w == WorkerLeaseView(d, rec[d])
        retained == RetainedLiveScopeHoldsCapacity(d)
        prelaunch == ReclaimablePrelaunchLease(d)
        terminal == TerminalWorkerGone(d, rec[d])
        gone == WorkerGone(d, w)
    IN {b \in BOOLEAN :
          \E h \in retained, p \in prelaunch, t \in terminal, g \in gone :
             b <=> /\ ~h
                   /\ \/ p
                      \/ rec[d].state = "terminal" /\ t
                      \/ w.pid /\ g
                      \/ ~w.pid /\ lease[d].launch = "spawn_failed"}

(* The ways a pass over all active leases can classify them. *)
StaleSets ==
    {S \in SUBSET Active : \A d \in Active : (d \in S) \in Stale(d)}

(* _lease_pids_dead reads the lease alone, never the ledger row. *)
LeasePidsDead(d) ==
    LET gone == WorkerGone(d, View(lease[d]))
        retained == RetainedLiveScopeHoldsCapacity(d)
    IN {b \in BOOLEAN : \E g \in gone, h \in retained :
                           b <=> lease[d].wpid /\ g /\ ~h}

(* The ways prune_state can expire leases past their TTL. *)
ExpiredSets ==
    {S \in SUBSET Active :
        \A d \in Active : (d \in S) \in IF "ttl" \in due[d]
                                        THEN LeasePidsDead(d) ELSE {FALSE}}

(* prune_state also drops leases terminal for more than a day. *)
Forgotten == {d \in Dispatches : /\ lease[d].state = "terminal"
                                 /\ "day" \in due[d]}

Ended(l) == [l EXCEPT !.state = "terminal"]

Dropped(l) == [l EXCEPT !.state = "absent"]

Pruned(E) ==
    [d \in Dispatches |-> IF d \in E THEN Ended(lease[d])
                          ELSE IF d \in Forgotten THEN Dropped(lease[d])
                          ELSE lease[d]]

-----------------------------------------------------------------------------
(* The operations.  Each defines lease' (and due' where clocks restart).   *)

(* Mutant: a grant without a launch state. *)
NewLeaseUnlaunched == [NoLease EXCEPT !.state = "active", !.launch = "none"]

NewLease == [NoLease EXCEPT !.state = "active"]

(* Mutant: one lease too many. *)
CmdAcquireOffByOne(d) ==
    \E E \in ExpiredSets, S \in StaleSets :
        LET kept == Active \ E
            left == IF Cardinality(kept) >= MaxTotal THEN kept \ S ELSE kept
        IN /\ Cardinality(left) <= MaxTotal
           /\ lease' = [Pruned(Active \ left) EXCEPT ![d] = NewLease]
           /\ due' = [due EXCEPT ![d] = {}]

(* cmd_acquire: prune, reclaim stale holders when full, then grant.  A     *)
(* refusal saves nothing, not even the pruned view.                        *)
CmdAcquire(d) ==
    \E E \in ExpiredSets, S \in StaleSets :
        LET kept == Active \ E
            left == IF Cardinality(kept) >= MaxTotal THEN kept \ S ELSE kept
        IN /\ Cardinality(left) < MaxTotal
           /\ lease' = [Pruned(Active \ left) EXCEPT ![d] = NewLease]
           /\ due' = [due EXCEPT ![d] = {}]

(* mark_lease_spawning refuses (False) any other lease, and then nothing is *)
(* spawned.                                                                *)
Spawnable(d) == /\ lease[d].state = "active"
                /\ lease[d].launch \in {"reserved", "spawning"}

MarkLeaseSpawning(d) ==
    /\ Spawnable(d)
    /\ lease' = [lease EXCEPT ![d].launch = "spawning"]

(* A refused mark (False in the code) leaves the file alone. *)
MarkLeaseSpawnFailed(d) ==
    lease' = IF /\ lease[d].state = "active"
                /\ ~lease[d].wpid
                /\ lease[d].launch \in {"spawning", "reserved"}
             THEN [lease EXCEPT ![d].launch = "spawn_failed"]
             ELSE lease

(* record_attached_worker and detach_lease_to_worker write the identity on *)
(* any lease still in the file, whatever its state.                        *)
AttachWorker(d, tok, pgid) ==
    lease' = IF lease[d].state = "absent" THEN lease
             ELSE [lease EXCEPT ![d].wpid = TRUE, ![d].wtok = tok,
                                ![d].wpgid = @ \/ pgid,
                                ![d].launch = "attached"]

(* retain_indeterminate_live_lease makes any lease still in the file       *)
(* active again and restarts its retention window.                         *)
RetainIndeterminate(d) ==
    IF lease[d].state = "absent" THEN UNCHANGED <<lease, due>>
    ELSE /\ lease' = [lease EXCEPT ![d].state = "active", ![d].retained = TRUE]
         /\ due' = [due EXCEPT ![d] = @ \ {"retention"}]

(* cmd_release --keep by the lease's own worker or claimant. *)
ReleaseOwned(d) ==
    lease' = IF lease[d].state = "active"
             THEN [lease EXCEPT ![d] = Ended(@)] ELSE lease

(* cmd_release --keep by anyone else, and release_terminal_dispatch: the   *)
(* slot is freed only when the worker is proven gone, on the evidence of   *)
(* the lease and the ledger row r.                                         *)
ReleaseIfGone(d, r) ==
    \E gone \in TerminalWorkerGone(d, r) :
        lease' = IF lease[d].state = "active" /\ gone
                 THEN [lease EXCEPT ![d] = Ended(@)] ELSE lease

(* Callers that retry the release after publishing a terminal row do so    *)
(* outside the ledger lock and swallow its errors: it may be deferred, and *)
(* a later pass then takes the lease.                                      *)
TryRelease(d, r) == ReleaseIfGone(d, r) \/ lease' = lease

(* cmd_release_stale: prune, reclaim, save.  keep retains the rows.        *)
CmdReleaseStale(keep) ==
    \E E \in ExpiredSets, S \in StaleSets :
        lease' = [d \in Dispatches |->
                    IF d \in S \ E
                    THEN IF keep \/ TRUE \in ReclaimablePrelaunchLease(d)
                         THEN Ended(lease[d]) ELSE Dropped(lease[d])
                    ELSE Pruned(E)[d]]

(* --include-unknown-claimant also takes pre-attach leases whose claimant  *)
(* cannot be probed.                                                       *)
UnknownClaimant(d) ==
    /\ d \in Active /\ ~lease[d].wpid
    /\ "blind" \in Faults

ReleaseUnknownClaimant(d) ==
    /\ UnknownClaimant(d)
    /\ lease' = [lease EXCEPT ![d] = [Ended(@) EXCEPT !.operator = TRUE]]

(* cmd_release --operator-confirmed is refused unless liveness is unknown. *)
ReleaseOperatorConfirmed(d) ==
    /\ d \in Active
    /\ "unknown" \in WorkerIdentityLiveness(d, WorkerLeaseView(d, rec[d]))
    /\ lease' = [lease EXCEPT ![d] = [Ended(@) EXCEPT !.operator = TRUE]]

(* extend_active_lease_expiry, after a detected system sleep. *)
ExtendActiveLeaseExpiry(d) ==
    /\ d \in Active
    /\ "ttl" \in due[d]
    /\ due' = [due EXCEPT ![d] = @ \ {"ttl"}]
=============================================================================
