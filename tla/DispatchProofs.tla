--------------------------- MODULE DispatchProofs ---------------------------
(***************************************************************************)
(* Proofs about module Dispatch, for every set of dispatches, every cap    *)
(* and every combination of faults and deadlines.                          *)
(***************************************************************************)
EXTENDS Dispatch, FiniteSetTheorems, TLAPS

-----------------------------------------------------------------------------
(* What the operations on capacity.json do to the type of the lease map.   *)

(* A lease that ends or is dropped is still a lease. *)
LEMMA EndedDropped ==
    ASSUME NEW l \in Lease
    PROVE  /\ Ended(l) \in Lease
           /\ Dropped(l) \in Lease
           /\ Ended(l).state = "terminal"
           /\ Dropped(l).state = "absent"
  BY DEF Ended, Dropped, Lease, LeaseStates

(* Pruning yields leases. *)
LEMMA PrunedType ==
    ASSUME lease \in [Dispatches -> Lease], NEW E
    PROVE  Pruned(E) \in [Dispatches -> Lease]
  BY EndedDropped DEF Pruned

(* Releasing writes leases. *)
LEMMA ReleaseType ==
    ASSUME lease \in [Dispatches -> Lease], NEW d \in Dispatches
    PROVE  /\ ReleaseOwned(d) => lease' \in [Dispatches -> Lease]
           /\ \A r : ReleaseIfGone(d, r) => lease' \in [Dispatches -> Lease]
           /\ \A r : TryRelease(d, r) => lease' \in [Dispatches -> Lease]
  BY EndedDropped DEF ReleaseOwned, ReleaseIfGone, TryRelease

(* cmd_acquire writes leases and restarts the clocks of the one it grants. *)
LEMMA AcquireType ==
    ASSUME lease \in [Dispatches -> Lease], due \in [Dispatches -> SUBSET Clocks],
           NEW d \in Dispatches
    PROVE  CmdAcquire(d) => /\ lease' \in [Dispatches -> Lease]
                            /\ due' \in [Dispatches -> SUBSET Clocks]
  <1>1. NewLease \in Lease
    BY DEF NewLease, NoLease, Lease, LeaseStates, LaunchStates
  <1> QED BY <1>1, PrunedType DEF CmdAcquire

(* cmd_release_stale writes leases. *)
LEMMA StaleType ==
    ASSUME lease \in [Dispatches -> Lease], NEW keep, CmdReleaseStale(keep)
    PROVE  lease' \in [Dispatches -> Lease]
  BY PrunedType, EndedDropped DEF CmdReleaseStale

(* The launcher's writes to its lease. *)
LEMMA LaunchType ==
    ASSUME lease \in [Dispatches -> Lease], NEW d \in Dispatches
    PROVE  /\ MarkLeaseSpawning(d) => lease' \in [Dispatches -> Lease]
           /\ MarkLeaseSpawnFailed(d) => lease' \in [Dispatches -> Lease]
           /\ \A tok, pgid \in BOOLEAN :
                AttachWorker(d, tok, pgid) => lease' \in [Dispatches -> Lease]
  <1>1. \A x \in LaunchStates : [lease[d] EXCEPT !.launch = x] \in Lease
    BY DEF Lease
  <1>2. \A x \in LaunchStates :
          [lease EXCEPT ![d].launch = x] \in [Dispatches -> Lease]
    BY <1>1
  <1>3. MarkLeaseSpawning(d) => lease' \in [Dispatches -> Lease]
    BY <1>2 DEF MarkLeaseSpawning, LaunchStates
  <1>4. MarkLeaseSpawnFailed(d) => lease' \in [Dispatches -> Lease]
    BY <1>2 DEF MarkLeaseSpawnFailed, LaunchStates
  <1>5. ASSUME NEW tok \in BOOLEAN, NEW pgid \in BOOLEAN, AttachWorker(d, tok, pgid)
        PROVE  lease' \in [Dispatches -> Lease]
    <2>1. [lease[d] EXCEPT !.wpid = TRUE, !.wtok = tok, !.wpgid = @ \/ pgid,
                           !.launch = "attached"] \in Lease
      BY DEF Lease, LaunchStates
    <2> QED BY <1>5, <2>1 DEF AttachWorker
  <1> QED BY <1>3, <1>4, <1>5

(* Retaining and overriding write leases. *)
LEMMA OverrideType ==
    ASSUME lease \in [Dispatches -> Lease], due \in [Dispatches -> SUBSET Clocks],
           NEW d \in Dispatches
    PROVE  /\ RetainIndeterminate(d) => /\ lease' \in [Dispatches -> Lease]
                                        /\ due' \in [Dispatches -> SUBSET Clocks]
           /\ ReleaseOperatorConfirmed(d) => lease' \in [Dispatches -> Lease]
           /\ ReleaseUnknownClaimant(d) => lease' \in [Dispatches -> Lease]
  <1>1. [lease[d] EXCEPT !.state = "active", !.retained = TRUE] \in Lease
    BY DEF Lease, LeaseStates
  <1>2. [Ended(lease[d]) EXCEPT !.operator = TRUE] \in Lease
    <2>1. Ended(lease[d]) \in Lease
      BY EndedDropped
    <2> QED BY <2>1 DEF Lease
  <1>3. [lease EXCEPT ![d].state = "active", ![d].retained = TRUE]
          \in [Dispatches -> Lease]
    BY <1>1
  <1>4. RetainIndeterminate(d) => /\ lease' \in [Dispatches -> Lease]
                                  /\ due' \in [Dispatches -> SUBSET Clocks]
    BY <1>3 DEF RetainIndeterminate
  <1> QED BY <1>2, <1>4 DEF ReleaseOperatorConfirmed, ReleaseUnknownClaimant

(* The journal's compare-and-swap steps write attempts. *)
LEMMA AttemptType ==
    ASSUME NEW a \in Attempt
    PROVE  /\ \A x \in LiveLives \cup FinalLives : [a EXCEPT !.life = x] \in Attempt
           /\ \A tok \in BOOLEAN :
                [a EXCEPT !.life = "RUNNING", !.worker = TRUE, !.tok = tok] \in Attempt
  BY DEF Attempt, LiveLives

(* A fresh row is a row. *)
LEMMA RowType ==
    ASSUME rec \in [Dispatches -> Row], NEW d \in Dispatches,
           NEW s \in RowStates
    PROVE  FreshRow(d, s) \in Row
  BY DEF FreshRow, NoRow, Row, Alive

(* A row that is made terminal, superseded or given its worker is a row. *)
LEMMA RowUpdates ==
    ASSUME NEW r \in Row
    PROVE  /\ \A a \in Alive : [r EXCEPT !.state = "terminal", !.alive = a] \in Row
           /\ [r EXCEPT !.superseded = TRUE] \in Row
           /\ \A tok \in BOOLEAN :
                [r EXCEPT !.wpid = TRUE, !.wtok = tok, !.wpgid = tok] \in Row
  <1>1. \A a \in Alive : [r EXCEPT !.state = "terminal", !.alive = a] \in Row
    BY DEF Row, RowStates
  <1>2. [r EXCEPT !.superseded = TRUE] \in Row
    BY DEF Row
  <1>3. \A tok \in BOOLEAN : [r EXCEPT !.wpid = TRUE, !.wtok = tok, !.wpgid = tok] \in Row
    BY DEF Row
  <1> QED BY <1>1, <1>2, <1>3

(* The steps of commit and projection that several actors share. *)
LEMMA TerminalType ==
    ASSUME TypeOK, NEW d \in Dispatches, NEW a \in Alive, NEW l \in FinalLives
    PROVE  /\ CommitTerminal(d, l, a) =>
                /\ att' \in [Dispatches -> Attempt]
                /\ lease' \in [Dispatches -> Lease]
           /\ ProjectTerminal(d, a) =>
                /\ rec' \in [Dispatches -> Row]
                /\ lease' \in [Dispatches -> Lease]
  <1>1. ASSUME CommitTerminal(d, l, a)
        PROVE  att' \in [Dispatches -> Attempt] /\ lease' \in [Dispatches -> Lease]
    <2>1. att' \in [Dispatches -> Attempt]
      <3>1. [att[d] EXCEPT !.life = l, !.alive = a] \in Attempt
        BY ZenonT(40) DEF TypeOK, Attempt
      <3> QED BY <1>1, <3>1 DEF CommitTerminal, TypeOK
    <2>2. lease' \in [Dispatches -> Lease]
      BY <1>1, ReleaseType DEF CommitTerminal, TypeOK
    <2> QED BY <2>1, <2>2
  <1>2. ASSUME ProjectTerminal(d, a)
        PROVE  rec' \in [Dispatches -> Row] /\ lease' \in [Dispatches -> Lease]
    <2>0. rec[d] \in Row
      BY DEF TypeOK
    <2>1. [rec[d] EXCEPT !.state = "terminal", !.alive = a] \in Row
      BY <2>0, RowUpdates
    <2> QED BY <1>2, <2>1, ReleaseType DEF ProjectTerminal, TypeOK
  <1> QED BY <1>1, <1>2

-----------------------------------------------------------------------------
(* Type correctness, one lemma per actor *)

(* The launcher's steps keep every variable's type. *)
LEMMA LauncherType ==
    ASSUME TypeOK, NEW d \in Dispatches, LauncherStep(d)
    PROVE  TypeOK'
  <1>1. CASE RecordWaitingJournal(d)
    BY <1>1, ZenonT(40)
    DEF RecordWaitingJournal, Step, TypeOK, LauncherPoints, Attempt, LiveLives
  <1>2. CASE RecordWaitingRow(d)
    BY <1>2, RowType
    DEF RecordWaitingRow, Step, TypeOK, LauncherPoints, RowStates
  <1>3. CASE AcquireCapacity(d)
    BY <1>3, AcquireType
    DEF AcquireCapacity, Step, TypeOK, LauncherPoints
  <1>4. CASE CapacityBlocked(d)
    BY <1>4
    DEF CapacityBlocked, Step, TypeOK, LauncherPoints
  <1>5. CASE RecordStartingJournal(d)
    <2>1. att' \in [Dispatches -> Attempt]
      <3>1. att \in [Dispatches -> Attempt]
        BY DEF TypeOK
      <3>2. att' = att \/ att' = [att EXCEPT ![d].life = "STARTING"]
        BY <1>5 DEF RecordStartingJournal
      <3>3. [att[d] EXCEPT !.life = "STARTING"] \in Attempt
        BY <3>1, AttemptType DEF LiveLives
      <3> QED BY <3>1, <3>2, <3>3
    <2> QED BY <1>5, <2>1 DEF RecordStartingJournal, Step, TypeOK, LauncherPoints
  <1>6. CASE RecordStartingRow(d)
    BY <1>6, RowType
    DEF RecordStartingRow, Step, TypeOK, LauncherPoints, RowStates
  <1>7. CASE AttemptClaimingWorkerArgv(d)
    BY <1>7
    DEF AttemptClaimingWorkerArgv, Step, TypeOK, LauncherPoints
  <1>8. CASE EnterSpawn(d)
    BY <1>8, LaunchType DEF EnterSpawn, Step, TypeOK, LauncherPoints
  <1>9. CASE SpawnWorker(d)
    BY <1>9
    DEF SpawnWorker, Step, TypeOK, LauncherPoints, ProcStates
  <1>10. CASE AttachWorkerToLease(d)
    <2>1. TokenCapture(d) \subseteq BOOLEAN
      BY DEF TokenCapture, Blind
    <2> QED BY <1>10, <2>1, LaunchType
            DEF AttachWorkerToLease, Step, TypeOK, LauncherPoints
  <1>11. CASE ClaimAttemptRunning(d)
    <2>1. TokenCapture(d) \subseteq BOOLEAN
      BY DEF TokenCapture, Blind
    <2>2. att' \in [Dispatches -> Attempt]
      <3>1. att \in [Dispatches -> Attempt]
        BY DEF TypeOK
      <3>2. \A tok \in BOOLEAN : [att[d] EXCEPT !.life = "RUNNING",
                                   !.worker = TRUE, !.tok = tok] \in Attempt
        BY <3>1, AttemptType
      <3>3. CASE att[d].life = "STARTING"
        <4>1. PICK tok \in TokenCapture(d) :
                att' = [att EXCEPT ![d].life = "RUNNING", ![d].worker = TRUE,
                                   ![d].tok = tok]
          BY <1>11, <3>3 DEF ClaimAttemptRunning
        <4>2. [att[d] EXCEPT !.life = "RUNNING", !.worker = TRUE, !.tok = tok]
                \in Attempt
          BY <2>1, <3>2
        <4> QED BY <3>1, <4>1, <4>2
      <3>4. CASE att[d].life # "STARTING"
        BY <1>11, <3>1, <3>4 DEF ClaimAttemptRunning
      <3> QED BY <3>3, <3>4
    <2> QED BY <1>11, <2>2 DEF ClaimAttemptRunning, Step, TypeOK, LauncherPoints
  <1>12. CASE RecordRunningRow(d)
    <2>1. TokenCapture(d) \subseteq BOOLEAN
      BY DEF TokenCapture, Blind
    <2>2. FreshRow(d, "running") \in Row
      BY RowType DEF RowStates, TypeOK
    <2>3. \A tok \in BOOLEAN :
            [FreshRow(d, "running") EXCEPT !.wpid = TRUE, !.wtok = tok, !.wpgid = tok]
              \in Row
      BY <2>2, RowUpdates
    <2>4. rec' \in [Dispatches -> Row]
      <3>1. rec \in [Dispatches -> Row]
        BY DEF TypeOK
      <3>2. CASE \E tok \in TokenCapture(d) :
                rec' = [rec EXCEPT ![d] = [FreshRow(d, "running") EXCEPT
                          !.wpid = TRUE, !.wtok = tok, !.wpgid = tok]]
        <4>1. PICK r \in Row : rec' = [rec EXCEPT ![d] = r]
          BY <2>1, <2>3, <3>2
        <4> QED BY <3>1, <4>1
      <3>3. CASE rec' = rec
        BY <3>1, <3>3
      <3> QED BY <1>12, <3>2, <3>3 DEF RecordRunningRow
    <2> QED BY <1>12, <2>4 DEF RecordRunningRow, Step, TypeOK, LauncherPoints
  <1>13. CASE StartWatcher(d)
    BY <1>13
    DEF StartWatcher, Step, TypeOK, LauncherPoints, WatchPoints
  <1>14. CASE EndFollowing(d)
    BY <1>14, SMTT(90)
    DEF EndFollowing, Step, TypeOK, LauncherPoints, Alive
  <1>15. CASE SignalBeforeSpawn(d)
    BY <1>15, ReleaseType
    DEF SignalBeforeSpawn, Step, TypeOK, LauncherPoints
  <1>16. CASE FinallyNotSpawned(d)
    BY <1>16, LaunchType DEF FinallyNotSpawned, Step, TypeOK, LauncherPoints, Alive
  <1>17. CASE FinallyDiscardRow(d)
    <2>1. NoRow \in Row
      BY DEF NoRow, Row, RowStates, Alive
    <2> QED BY <1>17, <2>1, LaunchType
            DEF FinallyDiscardRow, Step, TypeOK, LauncherPoints, Alive
  <1>18. CASE FinallyAmbiguous(d)
    BY <1>18
    DEF FinallyAmbiguous, Step, TypeOK, LauncherPoints, Alive
  <1>19. CASE LauncherCommit(d)
    BY <1>19, TerminalType
    DEF LauncherCommit, Step, TypeOK, LauncherPoints, FinalLives
  <1>20. CASE LauncherProject(d)
    <2>1. verdict[d].launcher \in Alive
      BY DEF TypeOK
    <2>2. rec' \in [Dispatches -> Row] /\ lease' \in [Dispatches -> Lease]
      BY <1>20, <2>1, TerminalType DEF LauncherProject, FinalLives
    <2> QED BY <1>20, <2>2 DEF LauncherProject, Step, TypeOK, LauncherPoints
  <1>21. CASE LauncherRelease(d)
    BY <1>21, ReleaseType
    DEF LauncherRelease, Step, TypeOK, LauncherPoints, Alive
  <1>22. CASE FinallySpawned(d)
    BY <1>22
    DEF FinallySpawned, Step, TypeOK, LauncherPoints, Alive
  <1>23. CASE WaitForCapacity(d)
    BY <1>23
    DEF WaitForCapacity, Step, TypeOK, LauncherPoints
  <1>24. CASE WriteLaunchStatus(d)
    BY <1>24
    DEF WriteLaunchStatus, Step, TypeOK, LauncherPoints
  <1> QED BY <1>1, <1>2, <1>3, <1>4, <1>5, <1>6, <1>7, <1>8, <1>9, <1>10, <1>11, <1>12, <1>13, <1>14, <1>15, <1>16, <1>17, <1>18, <1>19, <1>20, <1>21, <1>22, <1>23, <1>24 DEF LauncherStep


(* The watcher's steps keep every variable's type. *)
LEMMA WatcherType ==
    ASSUME TypeOK, NEW d \in Dispatches, WatcherStep(d)
    PROVE  TypeOK'
  <1>1. CASE WatchConclude(d)
    BY <1>1 DEF WatchConclude, TypeOK, WatchStep, WatchPoints, Alive
  <1>2. CASE WatchStopped(d)
    BY <1>2 DEF WatchStopped, TypeOK, WatchStep, WatchPoints
  <1>3. CASE TerminateIndeterminateWorker(d)
    BY <1>3 DEF TerminateIndeterminateWorker, TypeOK, WatchStep, WatchPoints, ProcStates
  <1>4. CASE ReleaseIndeterminateCapacity(d)
    BY <1>4, ReleaseType DEF ReleaseIndeterminateCapacity, TypeOK, WatchStep, WatchPoints, Alive
  <1>5. CASE RetainIndeterminateWorker(d)
    BY <1>5, OverrideType DEF RetainIndeterminateWorker, TypeOK, WatchStep, WatchPoints, Alive
  <1>6. CASE WatchCommit(d)
    <2>1. verdict[d].watcher \in Alive
      BY DEF TypeOK, Alive
    <2>2. att' \in [Dispatches -> Attempt] /\ lease' \in [Dispatches -> Lease]
      BY <1>6, <2>1, TerminalType DEF WatchCommit, FinalLives
    <2> QED BY <1>6, <2>2 DEF WatchCommit, TypeOK, WatchStep, WatchPoints
  <1>7. CASE WatchProject(d)
    <2>1. verdict[d].watcher \in Alive
      BY DEF TypeOK, Alive
    <2>2. rec' \in [Dispatches -> Row] /\ lease' \in [Dispatches -> Lease]
      BY <1>7, <2>1, TerminalType DEF WatchProject, FinalLives
    <2> QED BY <1>7, <2>2 DEF WatchProject, TypeOK, WatchStep, WatchPoints
  <1> QED BY <1>1, <1>2, <1>3, <1>4, <1>5, <1>6, <1>7 DEF WatcherStep

(* Reconcile's steps keep every variable's type. *)
LEMMA ReconcileType ==
    ASSUME TypeOK, NEW d \in Dispatches, ReconcileStep(d)
    PROVE  TypeOK'
  <1>1. CASE ReconcileExpired(d)
    <2>1. "false" \in Alive
      BY DEF TypeOK, Alive
    <2>2. att' \in [Dispatches -> Attempt] /\ lease' \in [Dispatches -> Lease]
      BY <1>1, <2>1, TerminalType DEF ReconcileExpired, FinalLives
    <2> QED BY <1>1, <2>2 DEF ReconcileExpired, TypeOK
  <1>2. CASE ReconcileHydrate(d)
    <2>1. [rec[d] EXCEPT !.state = "running", !.wpid = TRUE,
                         !.wtok = att[d].tok, !.wpgid = att[d].tok] \in Row
      <3>1. rec[d] \in Row /\ att[d].tok \in BOOLEAN
        BY DEF TypeOK, Attempt
      <3> QED BY <3>1 DEF Row, RowStates
    <2>2. rec' \in [Dispatches -> Row]
      BY <1>2, <2>1 DEF ReconcileHydrate, TypeOK
    <2> QED BY <1>2, <2>2 DEF ReconcileHydrate, TypeOK
  <1>3. CASE ReconcileDead(d)
    <2>1. "false" \in Alive
      BY DEF TypeOK, Alive
    <2>2. att' \in [Dispatches -> Attempt] /\ lease' \in [Dispatches -> Lease]
      BY <1>3, <2>1, TerminalType DEF ReconcileDead, FinalLives
    <2> QED BY <1>3, <2>2 DEF ReconcileDead, TypeOK
  <1>4. CASE ReconcileProject(d)
    <2>1. "false" \in Alive
      BY DEF TypeOK, Alive
    <2>2. rec' \in [Dispatches -> Row] /\ lease' \in [Dispatches -> Lease]
      BY <1>4, <2>1, TerminalType DEF ReconcileProject, FinalLives
    <2> QED BY <1>4, <2>2 DEF ReconcileProject, TypeOK
  <1> QED BY <1>1, <1>2, <1>3, <1>4 DEF ReconcileStep

(* The operator's steps keep every variable's type. *)
LEMMA OperatorType ==
    ASSUME TypeOK, NEW d \in Dispatches, OperatorStep(d)
    PROVE  TypeOK'
  <1>1. CASE Withdraw(d)
    <2>1. [rec[d] EXCEPT !.state = "terminal", !.alive = "false"] \in Row
      <3>1. rec[d] \in Row
        BY DEF TypeOK
      <3>2. "false" \in Alive
        BY DEF Alive
      <3> QED BY <3>1, <3>2, RowUpdates
    <2>2. rec' \in [Dispatches -> Row]
      BY <1>1, <2>1 DEF Withdraw, TypeOK
    <2>3. lease' \in [Dispatches -> Lease]
      BY <1>1, ReleaseType DEF Withdraw, TypeOK
    <2>4. att' \in [Dispatches -> Attempt]
      <3>1. [att[d] EXCEPT !.life = "TERMINAL"] \in Attempt
        BY AttemptType DEF TypeOK, FinalLives
      <3> QED BY <1>1, <3>1 DEF Withdraw, TypeOK
    <2> QED BY <1>1, <2>2, <2>3, <2>4 DEF Withdraw, TypeOK
  <1>2. CASE Supersede(d)
    <2>0. rec[d] \in Row
      BY DEF TypeOK
    <2>1. [rec[d] EXCEPT !.superseded = TRUE] \in Row
      BY <2>0, RowUpdates
    <2>2. rec' \in [Dispatches -> Row]
      BY <1>2, <2>1 DEF Supersede, TypeOK
    <2> QED BY <1>2, <2>2 DEF Supersede, TypeOK
  <1>3. CASE OperatorRelease(d)
    BY <1>3, OverrideType DEF OperatorRelease, TypeOK
  <1> QED BY <1>1, <1>2, <1>3 DEF OperatorStep

(* Faults, processes and time keep every variable's type. *)
LEMMA EnvironmentType ==
    ASSUME TypeOK, NEW d \in Dispatches, EnvironmentStep(d)
    PROVE  TypeOK'
  <1>1. CASE LauncherCrash(d)
    BY <1>1 DEF LauncherCrash, TypeOK, LauncherPoints, ProcStates
  <1>2. CASE WatchCrash(d)
    BY <1>2 DEF WatchCrash, TypeOK, WatchStep, WatchPoints
  <1>3. CASE ReconcileCrash(d)
    BY <1>3 DEF ReconcileCrash, TypeOK
  <1>4. CASE WorkerExit(d)
    BY <1>4 DEF WorkerExit, TypeOK, ProcStates
  <1>5. CASE KinExit(d)
    BY <1>5 DEF KinExit, TypeOK
  <1>6. CASE PidReuse(d)
    BY <1>6 DEF PidReuse, TypeOK, ProcStates
  <1>7. CASE ReuseExit(d)
    BY <1>7 DEF ReuseExit, TypeOK, ProcStates
  <1>8. CASE ExtendExpiry(d)
    BY <1>8 DEF ExtendExpiry, TypeOK, ExtendActiveLeaseExpiry
  <1>9. CASE \E c \in Deadlines : Elapse(d, c)
    BY <1>9, DeadlinesAssumption DEF Elapse, TypeOK
  <1>10. CASE ControllerChange(d)
    BY <1>10 DEF ControllerChange, TypeOK, ProcStates
  <1> QED BY <1>1, <1>2, <1>3, <1>4, <1>5, <1>6, <1>7, <1>8, <1>9, <1>10 DEF EnvironmentStep

(* Either pass over abandoned dispatches closes one. *)
LEMMA AbandonedCloses ==
    ASSUME NEW d \in Dispatches, AbandonedStep(d)
    PROVE  CloseAbandoned(d)
  BY DEF AbandonedStep, ReconcileAbandoned, ReconcileAbandonedMarked

(* The drain's pass over abandoned dispatches keeps every variable's type. *)
LEMMA AbandonedType ==
    ASSUME TypeOK, NEW d \in Dispatches, CloseAbandoned(d)
    PROVE  TypeOK'
  <1>1. att' \in [Dispatches -> Attempt] /\ lease' \in [Dispatches -> Lease]
    BY TerminalType DEF CloseAbandoned, Abandonable, FinalLives, Alive
  <1>2. att[d].alive \in Alive
    BY DEF TypeOK, Attempt
  <1>3. \A a \in Alive : [rec[d] EXCEPT !.state = "terminal", !.alive = a] \in Row
    <2>1. rec[d] \in Row
      BY DEF TypeOK
    <2> QED BY <2>1, RowUpdates
  <1>4. rec' \in [Dispatches -> Row]
    BY <1>2, <1>3 DEF CloseAbandoned, Abandonable, TypeOK, Alive
  <1> QED BY <1>1, <1>4 DEF CloseAbandoned, Abandonable, TypeOK

(* Every variable keeps its type, whatever the launcher, the watcher, the  *)
(* repairers and the environment do (capacity.json, the ledger row and the *)
(* journal attempt are always well formed).                                *)
THEOREM TypeCorrect == Spec => []TypeOK
  <1>1. Init => TypeOK
    BY DEF Init, TypeOK, NoLease, Lease, LeaseStates, LaunchStates, NoRow, Row,
           RowStates, Alive, NoAttempt, Attempt, LiveLives, FinalLives,
           LauncherPoints, WatchPoints, ProcStates
  <1>2. TypeOK /\ [Next]_vars => TypeOK'
    <2> SUFFICES ASSUME TypeOK, [Next]_vars PROVE TypeOK'
      OBVIOUS
    <2>1. ASSUME NEW keep \in BOOLEAN, ReleaseStale(keep) PROVE TypeOK'
      <3>1. lease' \in [Dispatches -> Lease]
        BY <2>1, StaleType DEF ReleaseStale, TypeOK
      <3> QED BY <2>1, <3>1 DEF ReleaseStale, TypeOK
    <2>2. CASE UNCHANGED vars
      BY <2>2 DEF vars, TypeOK
    <2> QED BY <2>1, <2>2, LauncherType, WatcherType, ReconcileType, OperatorType,
               EnvironmentType, AbandonedType, AbandonedCloses DEF Next
  <1> QED BY <1>1, <1>2, PTL DEF Spec

-----------------------------------------------------------------------------
(* Inductive invariants *)

(* Whoever is about to project a terminal row has committed it, and an     *)
(* attempt is prepared before anybody can know of it.                      *)
MirrorInv ==
    \A d \in Dispatches :
        /\ \/ att[d].life \in FinalLives
           \/ /\ rec[d].state # "terminal"
              /\ pc[d] # "projecting"
              /\ watch[d] # "projecting"
              /\ d \notin recon
        /\ pc[d] = "idle" =>
             att[d].life = "NONE" /\ rec[d].state = "absent" /\ watch[d] = "none"

(* The spawn call is never inside a superseded dispatch. *)
SpawnInv ==
    \A d \in Dispatches : pc[d] = "handoff" => ~rec[d].superseded

BeforeSpawn == {"idle", "prepared", "waiting", "reserved", "started", "ready",
                "checked", "handoff", "failing"}
AfterSpawn == {"spawned", "attached", "claimed", "launched", "following"}

(* The launcher's position, the worker and what is recorded of it agree;   *)
(* a lease whose worker may live has left the reserved state for good; and *)
(* a launcher that reports its worker dead has no live worker.             *)
SlotInv ==
    \A d \in Dispatches :
        /\ pc[d] \in BeforeSpawn => proc[d] = "unborn"
        /\ pc[d] \in AfterSpawn => proc[d] # "unborn"
        /\ proc[d] = "unborn" =>
             ~lease[d].wpid /\ ~rec[d].wpid /\ ~att[d].worker /\ watch[d] = "none"
        /\ WorkerMayLive(d) => lease[d].launch \in {"spawning", "attached"}
        /\ (/\ pc[d] \in {"finishing", "projecting", "releasing"}
            /\ verdict[d].launcher = "false") => proc[d] # "live"

(* Every step keeps the commit ahead of the projection. *)
LEMMA MirrorStep ==
    ASSUME TypeOK, MirrorInv, [Next]_vars
    PROVE  MirrorInv'
  <1>1. ASSUME NEW d \in Dispatches, LauncherStep(d) PROVE MirrorInv'
    <2>1. CASE RecordWaitingJournal(d)
      BY <2>1 DEF RecordWaitingJournal, Step, TypeOK, MirrorInv, FinalLives
    <2>2. CASE RecordWaitingRow(d)
      BY <2>2 DEF RecordWaitingRow, Step, TypeOK, MirrorInv, FreshRow, NoRow
    <2>3. CASE AcquireCapacity(d)
      BY <2>3 DEF AcquireCapacity, Step, TypeOK, MirrorInv
    <2>4. CASE CapacityBlocked(d)
      BY <2>4 DEF CapacityBlocked, Step, TypeOK, MirrorInv
    <2>5. CASE RecordStartingJournal(d)
      BY <2>5 DEF RecordStartingJournal, Step, TypeOK, MirrorInv, FinalLives
    <2>6. CASE RecordStartingRow(d)
      BY <2>6 DEF RecordStartingRow, Step, TypeOK, MirrorInv, FreshRow, NoRow
    <2>7. CASE AttemptClaimingWorkerArgv(d)
      BY <2>7 DEF AttemptClaimingWorkerArgv, Step, TypeOK, MirrorInv
    <2>8. CASE EnterSpawn(d)
      BY <2>8 DEF EnterSpawn, Step, TypeOK, MirrorInv
    <2>9. CASE SpawnWorker(d)
      BY <2>9 DEF SpawnWorker, Step, TypeOK, MirrorInv
    <2>10. CASE AttachWorkerToLease(d)
      BY <2>10 DEF AttachWorkerToLease, Step, TypeOK, MirrorInv
    <2>11. CASE ClaimAttemptRunning(d)
      BY <2>11 DEF ClaimAttemptRunning, Step, TypeOK, MirrorInv, FinalLives
    <2>12. CASE RecordRunningRow(d)
      <3>1. rec'[d].state # "terminal" \/ UNCHANGED rec
        BY <2>12, ZenonT(40) DEF RecordRunningRow, TypeOK, FreshRow, NoRow
      <3>2. \A e \in Dispatches : e # d => rec'[e] = rec[e]
        BY <2>12 DEF RecordRunningRow, TypeOK
      <3>3. /\ pc[d] = "claimed" /\ pc' = [pc EXCEPT ![d] = "launched"]
            /\ UNCHANGED <<att, watch, recon>>
        BY <2>12 DEF RecordRunningRow, Step
      <3> QED BY <3>1, <3>2, <3>3 DEF TypeOK, MirrorInv
    <2>13. CASE StartWatcher(d)
      BY <2>13 DEF StartWatcher, Step, TypeOK, MirrorInv
    <2>14. CASE EndFollowing(d)
      BY <2>14 DEF EndFollowing, Step, TypeOK, MirrorInv
    <2>15. CASE SignalBeforeSpawn(d)
      BY <2>15 DEF SignalBeforeSpawn, Step, TypeOK, MirrorInv
    <2>16. CASE FinallyNotSpawned(d)
      BY <2>16 DEF FinallyNotSpawned, Step, TypeOK, MirrorInv
    <2>17. CASE FinallyDiscardRow(d)
      BY <2>17 DEF FinallyDiscardRow, Step, TypeOK, MirrorInv, NoRow
    <2>18. CASE FinallyAmbiguous(d)
      BY <2>18 DEF FinallyAmbiguous, Step, TypeOK, MirrorInv
    <2>19. CASE LauncherCommit(d)
      <3>1. CASE rec[d].state = "absent"
        BY <2>19, <3>1 DEF LauncherCommit, Step, TypeOK, MirrorInv
      <3>2. CASE rec[d].state # "absent"
        <4>1. att'[d].life \in FinalLives
          <5>1. CommitTerminal(d, "TERMINAL", verdict[d].launcher)
            BY <2>19, <3>2 DEF LauncherCommit
          <5> QED BY <5>1 DEF CommitTerminal, TypeOK, FinalLives
        <4>2. \A e \in Dispatches \ {d} : att'[e] = att[e] /\ pc'[e] = pc[e]
          BY <2>19 DEF LauncherCommit, CommitTerminal, Step, TypeOK
        <4> QED BY <2>19, <4>1, <4>2 DEF LauncherCommit, Step, TypeOK, MirrorInv
      <3> QED BY <3>1, <3>2
    <2>20. CASE LauncherProject(d)
      BY <2>20 DEF LauncherProject, Step, TypeOK, MirrorInv, ProjectTerminal, FinalLives
    <2>21. CASE LauncherRelease(d)
      BY <2>21 DEF LauncherRelease, Step, TypeOK, MirrorInv
    <2>22. CASE FinallySpawned(d)
      BY <2>22 DEF FinallySpawned, Step, TypeOK, MirrorInv
    <2>23. CASE WaitForCapacity(d)
      BY <2>23 DEF WaitForCapacity, Step, TypeOK, MirrorInv
    <2>24. CASE WriteLaunchStatus(d)
      BY <2>24 DEF WriteLaunchStatus, Step, TypeOK, MirrorInv
    <2> QED BY <1>1, <2>1, <2>2, <2>3, <2>4, <2>5, <2>6, <2>7, <2>8, <2>9, <2>10, <2>11, <2>12, <2>13, <2>14, <2>15, <2>16, <2>17, <2>18, <2>19, <2>20, <2>21, <2>22, <2>23, <2>24 DEF LauncherStep
  <1>2. ASSUME NEW d \in Dispatches, WatcherStep(d) PROVE MirrorInv'
    <2>1. CASE WatchConclude(d)
      BY <2>1 DEF WatchConclude, WatchStep, TypeOK, MirrorInv
    <2>2. CASE WatchStopped(d)
      BY <2>2 DEF WatchStopped, WatchStep, TypeOK, MirrorInv
    <2>3. CASE TerminateIndeterminateWorker(d)
      BY <2>3 DEF TerminateIndeterminateWorker, WatchStep, TypeOK, MirrorInv
    <2>4. CASE ReleaseIndeterminateCapacity(d)
      BY <2>4 DEF ReleaseIndeterminateCapacity, WatchStep, TypeOK, MirrorInv
    <2>5. CASE RetainIndeterminateWorker(d)
      BY <2>5 DEF RetainIndeterminateWorker, WatchStep, TypeOK, MirrorInv
    <2>6. CASE WatchCommit(d)
      BY <2>6 DEF WatchCommit, WatchStep, TypeOK, MirrorInv, CommitTerminal, FinalLives
    <2>7. CASE WatchProject(d)
      BY <2>7 DEF WatchProject, WatchStep, TypeOK, MirrorInv, ProjectTerminal, FinalLives
    <2> QED BY <1>2, <2>1, <2>2, <2>3, <2>4, <2>5, <2>6, <2>7 DEF WatcherStep
  <1>3. ASSUME NEW d \in Dispatches, ReconcileStep(d) PROVE MirrorInv'
    <2>1. CASE ReconcileExpired(d)
      BY <2>1 DEF ReconcileExpired, TypeOK, MirrorInv, CommitTerminal, FinalLives
    <2>2. CASE ReconcileHydrate(d)
      BY <2>2 DEF ReconcileHydrate, TypeOK, MirrorInv
    <2>3. CASE ReconcileDead(d)
      BY <2>3 DEF ReconcileDead, TypeOK, MirrorInv, CommitTerminal, FinalLives, ClassifiedDead
    <2>4. CASE ReconcileProject(d)
      BY <2>4 DEF ReconcileProject, TypeOK, MirrorInv, ProjectTerminal, FinalLives
    <2> QED BY <1>3, <2>1, <2>2, <2>3, <2>4 DEF ReconcileStep
  <1>4. ASSUME NEW d \in Dispatches, OperatorStep(d) PROVE MirrorInv'
    <2>1. CASE Withdraw(d)
      BY <2>1 DEF Withdraw, TypeOK, MirrorInv, FinalLives
    <2>2. CASE Supersede(d)
      BY <2>2 DEF Supersede, TypeOK, MirrorInv
    <2>3. CASE OperatorRelease(d)
      BY <2>3 DEF OperatorRelease, TypeOK, MirrorInv
    <2> QED BY <1>4, <2>1, <2>2, <2>3 DEF OperatorStep
  <1>5. ASSUME NEW d \in Dispatches, EnvironmentStep(d) PROVE MirrorInv'
    <2>1. CASE LauncherCrash(d)
      BY <2>1 DEF LauncherCrash, TypeOK, MirrorInv
    <2>2. CASE WatchCrash(d)
      BY <2>2 DEF WatchCrash, WatchStep, TypeOK, MirrorInv
    <2>3. CASE ReconcileCrash(d)
      BY <2>3 DEF ReconcileCrash, TypeOK, MirrorInv
    <2>4. CASE WorkerExit(d)
      BY <2>4 DEF WorkerExit, TypeOK, MirrorInv
    <2>5. CASE KinExit(d)
      BY <2>5 DEF KinExit, TypeOK, MirrorInv
    <2>6. CASE PidReuse(d)
      BY <2>6 DEF PidReuse, TypeOK, MirrorInv
    <2>7. CASE ReuseExit(d)
      BY <2>7 DEF ReuseExit, TypeOK, MirrorInv
    <2>8. CASE ExtendExpiry(d)
      BY <2>8 DEF ExtendExpiry, TypeOK, MirrorInv
    <2>9. CASE \E c \in Deadlines : Elapse(d, c)
      BY <2>9 DEF Elapse, TypeOK, MirrorInv
    <2>10. CASE ControllerChange(d)
      BY <2>10 DEF ControllerChange, TypeOK, MirrorInv
    <2> QED BY <1>5, <2>1, <2>2, <2>3, <2>4, <2>5, <2>6, <2>7, <2>8, <2>9, <2>10 DEF EnvironmentStep
  <1>6. ASSUME NEW d \in Dispatches, CloseAbandoned(d) PROVE MirrorInv'
    BY <1>6 DEF CloseAbandoned, Abandonable, TypeOK, MirrorInv, CommitTerminal, FinalLives, LauncherGone
  <1>7. ASSUME NEW keep \in BOOLEAN, ReleaseStale(keep) PROVE MirrorInv'
    BY <1>7 DEF ReleaseStale, TypeOK, MirrorInv
  <1>8. CASE UNCHANGED vars
    BY <1>8 DEF vars, TypeOK, MirrorInv
  <1> QED BY <1>1, <1>2, <1>3, <1>4, <1>5, <1>6, <1>7, <1>8, AbandonedCloses DEF Next

(* The ledger row is terminal only when the journal attempt is final: no   *)
(* interleaving of launcher, watcher, reconcile, drain and withdraw lets   *)
(* the mirror run ahead of the journal.                                    *)
THEOREM MirrorSafe == Spec => []MirrorNeverLeads
  <1>1. Init => MirrorInv
    BY DEF Init, MirrorInv, NoAttempt, NoRow, FinalLives
  <1>2. MirrorInv => MirrorNeverLeads
    BY DEF MirrorInv, MirrorNeverLeads
  <1>3. TypeOK /\ MirrorInv /\ [Next]_vars => MirrorInv'
    BY MirrorStep
  <1> QED BY <1>1, <1>2, <1>3, TypeCorrect, PTL DEF Spec

(* The ledger lock keeps supersession out of the spawn call. *)
LEMMA SpawnStep ==
    ASSUME TypeOK, SpawnInv, [Next]_vars
    PROVE  SpawnInv'
  <1>1. ASSUME NEW d \in Dispatches, LauncherStep(d) PROVE SpawnInv'
    <2>1. CASE RecordWaitingJournal(d)
      BY <2>1 DEF RecordWaitingJournal, Step, TypeOK, SpawnInv
    <2>2. CASE RecordWaitingRow(d)
      BY <2>2 DEF RecordWaitingRow, Step, TypeOK, SpawnInv, FreshRow, NoRow
    <2>3. CASE AcquireCapacity(d)
      BY <2>3 DEF AcquireCapacity, Step, TypeOK, SpawnInv
    <2>4. CASE CapacityBlocked(d)
      BY <2>4 DEF CapacityBlocked, Step, TypeOK, SpawnInv
    <2>5. CASE RecordStartingJournal(d)
      BY <2>5 DEF RecordStartingJournal, Step, TypeOK, SpawnInv
    <2>6. CASE RecordStartingRow(d)
      BY <2>6 DEF RecordStartingRow, Step, TypeOK, SpawnInv, FreshRow, NoRow
    <2>7. CASE AttemptClaimingWorkerArgv(d)
      BY <2>7 DEF AttemptClaimingWorkerArgv, Step, TypeOK, SpawnInv
    <2>8. CASE EnterSpawn(d)
      BY <2>8 DEF EnterSpawn, Step, TypeOK, SpawnInv
    <2>9. CASE SpawnWorker(d)
      BY <2>9 DEF SpawnWorker, Step, TypeOK, SpawnInv
    <2>10. CASE AttachWorkerToLease(d)
      BY <2>10 DEF AttachWorkerToLease, Step, TypeOK, SpawnInv
    <2>11. CASE ClaimAttemptRunning(d)
      BY <2>11 DEF ClaimAttemptRunning, Step, TypeOK, SpawnInv
    <2>12. CASE RecordRunningRow(d)
      BY <2>12 DEF RecordRunningRow, Step, TypeOK, SpawnInv, FreshRow, NoRow
    <2>13. CASE StartWatcher(d)
      BY <2>13 DEF StartWatcher, Step, TypeOK, SpawnInv
    <2>14. CASE EndFollowing(d)
      BY <2>14 DEF EndFollowing, Step, TypeOK, SpawnInv
    <2>15. CASE SignalBeforeSpawn(d)
      BY <2>15 DEF SignalBeforeSpawn, Step, TypeOK, SpawnInv
    <2>16. CASE FinallyNotSpawned(d)
      BY <2>16 DEF FinallyNotSpawned, Step, TypeOK, SpawnInv
    <2>17. CASE FinallyDiscardRow(d)
      BY <2>17 DEF FinallyDiscardRow, Step, TypeOK, SpawnInv, NoRow
    <2>18. CASE FinallyAmbiguous(d)
      BY <2>18 DEF FinallyAmbiguous, Step, TypeOK, SpawnInv
    <2>19. CASE LauncherCommit(d)
      BY <2>19 DEF LauncherCommit, Step, TypeOK, SpawnInv
    <2>20. CASE LauncherProject(d)
      BY <2>20 DEF LauncherProject, Step, TypeOK, SpawnInv, ProjectTerminal, LedgerFree
    <2>21. CASE LauncherRelease(d)
      BY <2>21 DEF LauncherRelease, Step, TypeOK, SpawnInv
    <2>22. CASE FinallySpawned(d)
      BY <2>22 DEF FinallySpawned, Step, TypeOK, SpawnInv
    <2>23. CASE WaitForCapacity(d)
      BY <2>23 DEF WaitForCapacity, Step, TypeOK, SpawnInv
    <2>24. CASE WriteLaunchStatus(d)
      BY <2>24 DEF WriteLaunchStatus, Step, TypeOK, SpawnInv
    <2> QED BY <1>1, <2>1, <2>2, <2>3, <2>4, <2>5, <2>6, <2>7, <2>8, <2>9, <2>10, <2>11, <2>12, <2>13, <2>14, <2>15, <2>16, <2>17, <2>18, <2>19, <2>20, <2>21, <2>22, <2>23, <2>24 DEF LauncherStep
  <1>2. ASSUME NEW d \in Dispatches, WatcherStep(d) PROVE SpawnInv'
    <2>1. CASE WatchConclude(d)
      BY <2>1 DEF WatchConclude, WatchStep, TypeOK, SpawnInv
    <2>2. CASE WatchStopped(d)
      BY <2>2 DEF WatchStopped, WatchStep, TypeOK, SpawnInv
    <2>3. CASE TerminateIndeterminateWorker(d)
      BY <2>3 DEF TerminateIndeterminateWorker, WatchStep, TypeOK, SpawnInv
    <2>4. CASE ReleaseIndeterminateCapacity(d)
      BY <2>4 DEF ReleaseIndeterminateCapacity, WatchStep, TypeOK, SpawnInv
    <2>5. CASE RetainIndeterminateWorker(d)
      BY <2>5 DEF RetainIndeterminateWorker, WatchStep, TypeOK, SpawnInv
    <2>6. CASE WatchCommit(d)
      BY <2>6 DEF WatchCommit, WatchStep, TypeOK, SpawnInv
    <2>7. CASE WatchProject(d)
      BY <2>7 DEF WatchProject, WatchStep, TypeOK, SpawnInv, ProjectTerminal, LedgerFree
    <2> QED BY <1>2, <2>1, <2>2, <2>3, <2>4, <2>5, <2>6, <2>7 DEF WatcherStep
  <1>3. ASSUME NEW d \in Dispatches, ReconcileStep(d) PROVE SpawnInv'
    <2>1. CASE ReconcileExpired(d)
      BY <2>1 DEF ReconcileExpired, TypeOK, SpawnInv
    <2>2. CASE ReconcileHydrate(d)
      BY <2>2 DEF ReconcileHydrate, TypeOK, SpawnInv, LedgerFree
    <2>3. CASE ReconcileDead(d)
      BY <2>3 DEF ReconcileDead, TypeOK, SpawnInv
    <2>4. CASE ReconcileProject(d)
      BY <2>4 DEF ReconcileProject, TypeOK, SpawnInv, ProjectTerminal, LedgerFree
    <2> QED BY <1>3, <2>1, <2>2, <2>3, <2>4 DEF ReconcileStep
  <1>4. ASSUME NEW d \in Dispatches, OperatorStep(d) PROVE SpawnInv'
    <2>1. CASE Withdraw(d)
      BY <2>1 DEF Withdraw, TypeOK, SpawnInv, LedgerFree
    <2>2. CASE Supersede(d)
      BY <2>2 DEF Supersede, TypeOK, SpawnInv, LedgerFree
    <2>3. CASE OperatorRelease(d)
      BY <2>3 DEF OperatorRelease, TypeOK, SpawnInv
    <2> QED BY <1>4, <2>1, <2>2, <2>3 DEF OperatorStep
  <1>5. ASSUME NEW d \in Dispatches, EnvironmentStep(d) PROVE SpawnInv'
    <2>1. CASE LauncherCrash(d)
      BY <2>1 DEF LauncherCrash, TypeOK, SpawnInv
    <2>2. CASE WatchCrash(d)
      BY <2>2 DEF WatchCrash, WatchStep, TypeOK, SpawnInv
    <2>3. CASE ReconcileCrash(d)
      BY <2>3 DEF ReconcileCrash, TypeOK, SpawnInv
    <2>4. CASE WorkerExit(d)
      BY <2>4 DEF WorkerExit, TypeOK, SpawnInv
    <2>5. CASE KinExit(d)
      BY <2>5 DEF KinExit, TypeOK, SpawnInv
    <2>6. CASE PidReuse(d)
      BY <2>6 DEF PidReuse, TypeOK, SpawnInv
    <2>7. CASE ReuseExit(d)
      BY <2>7 DEF ReuseExit, TypeOK, SpawnInv
    <2>8. CASE ExtendExpiry(d)
      BY <2>8 DEF ExtendExpiry, TypeOK, SpawnInv
    <2>9. CASE \E c \in Deadlines : Elapse(d, c)
      BY <2>9 DEF Elapse, TypeOK, SpawnInv
    <2>10. CASE ControllerChange(d)
      BY <2>10 DEF ControllerChange, TypeOK, SpawnInv
    <2> QED BY <1>5, <2>1, <2>2, <2>3, <2>4, <2>5, <2>6, <2>7, <2>8, <2>9, <2>10 DEF EnvironmentStep
  <1>6. ASSUME NEW d \in Dispatches, CloseAbandoned(d) PROVE SpawnInv'
    BY <1>6 DEF CloseAbandoned, Abandonable, TypeOK, SpawnInv, LedgerFree
  <1>7. ASSUME NEW keep \in BOOLEAN, ReleaseStale(keep) PROVE SpawnInv'
    BY <1>7 DEF ReleaseStale, TypeOK, SpawnInv
  <1>8. CASE UNCHANGED vars
    BY <1>8 DEF vars, TypeOK, SpawnInv
  <1> QED BY <1>1, <1>2, <1>3, <1>4, <1>5, <1>6, <1>7, <1>8, AbandonedCloses DEF Next

(* No worker, and none to come: the row is marked, or the launcher is on   *)
(* its way out.                                                            *)
Barred(d) ==
    /\ proc[d] = "unborn" /\ pc[d] # "handoff"
    /\ rec[d].superseded \/ pc[d] \in {"releasing", "gone"}

(* A barred dispatch stays barred. *)
LEMMA BarredStep ==
    ASSUME TypeOK, NEW e \in Dispatches, Barred(e), [Next]_vars
    PROVE  Barred(e)'
  <1>1. ASSUME NEW d \in Dispatches, LauncherStep(d) PROVE Barred(e)'
    <2>1. CASE RecordWaitingJournal(d)
      BY <2>1 DEF RecordWaitingJournal, Step, TypeOK, Barred
    <2>2. CASE RecordWaitingRow(d)
      BY <2>2 DEF RecordWaitingRow, Step, TypeOK, Barred, FreshRow, NoRow, Row
    <2>3. CASE AcquireCapacity(d)
      BY <2>3 DEF AcquireCapacity, Step, TypeOK, Barred
    <2>4. CASE CapacityBlocked(d)
      BY <2>4 DEF CapacityBlocked, Step, TypeOK, Barred
    <2>5. CASE RecordStartingJournal(d)
      BY <2>5 DEF RecordStartingJournal, Step, TypeOK, Barred
    <2>6. CASE RecordStartingRow(d)
      BY <2>6 DEF RecordStartingRow, Step, TypeOK, Barred, FreshRow, NoRow, Row
    <2>7. CASE AttemptClaimingWorkerArgv(d)
      BY <2>7 DEF AttemptClaimingWorkerArgv, Step, TypeOK, Barred
    <2>8. CASE EnterSpawn(d)
      BY <2>8 DEF EnterSpawn, Step, TypeOK, Barred
    <2>9. CASE SpawnWorker(d)
      BY <2>9 DEF SpawnWorker, Step, TypeOK, Barred
    <2>10. CASE AttachWorkerToLease(d)
      BY <2>10 DEF AttachWorkerToLease, Step, TypeOK, Barred
    <2>11. CASE ClaimAttemptRunning(d)
      BY <2>11 DEF ClaimAttemptRunning, Step, TypeOK, Barred
    <2>12. CASE RecordRunningRow(d)
      <3>1. rec'[d].superseded <=> rec[d].superseded
        <4>1. \A tok : [FreshRow(d, "running") EXCEPT !.wpid = TRUE, !.wtok = tok,
                          !.wpgid = tok].superseded = rec[d].superseded
          BY DEF FreshRow, NoRow
        <4>2. CASE rec' = rec
          BY <4>2
        <4>3. CASE \E tok \in TokenCapture(d) :
                     rec' = [rec EXCEPT ![d] = [FreshRow(d, "running") EXCEPT
                               !.wpid = TRUE, !.wtok = tok, !.wpgid = tok]]
          <5>1. \E tok : rec'[d] = [FreshRow(d, "running") EXCEPT !.wpid = TRUE,
                                      !.wtok = tok, !.wpgid = tok]
            BY <4>3 DEF TypeOK
          <5> QED BY <4>1, <5>1
        <4> QED BY <2>12, <4>2, <4>3 DEF RecordRunningRow
      <3>2. \A c \in Dispatches \ {d} : rec'[c] = rec[c]
        BY <2>12 DEF RecordRunningRow, TypeOK
      <3> QED BY <2>12, <3>1, <3>2 DEF RecordRunningRow, Step, TypeOK, Barred
    <2>13. CASE StartWatcher(d)
      BY <2>13 DEF StartWatcher, Step, TypeOK, Barred
    <2>14. CASE EndFollowing(d)
      BY <2>14 DEF EndFollowing, Step, TypeOK, Barred
    <2>15. CASE SignalBeforeSpawn(d)
      BY <2>15 DEF SignalBeforeSpawn, Step, TypeOK, Barred
    <2>16. CASE FinallyNotSpawned(d)
      BY <2>16 DEF FinallyNotSpawned, Step, TypeOK, Barred
    <2>17. CASE FinallyDiscardRow(d)
      BY <2>17 DEF FinallyDiscardRow, Step, TypeOK, Barred, NoRow
    <2>18. CASE FinallyAmbiguous(d)
      BY <2>18 DEF FinallyAmbiguous, Step, TypeOK, Barred
    <2>19. CASE LauncherCommit(d)
      BY <2>19 DEF LauncherCommit, Step, TypeOK, Barred
    <2>20. CASE LauncherProject(d)
      BY <2>20 DEF LauncherProject, Step, TypeOK, Barred, ProjectTerminal, Row
    <2>21. CASE LauncherRelease(d)
      BY <2>21 DEF LauncherRelease, Step, TypeOK, Barred
    <2>22. CASE FinallySpawned(d)
      BY <2>22 DEF FinallySpawned, Step, TypeOK, Barred
    <2>23. CASE WaitForCapacity(d)
      BY <2>23 DEF WaitForCapacity, Step, TypeOK, Barred
    <2>24. CASE WriteLaunchStatus(d)
      BY <2>24 DEF WriteLaunchStatus, Step, TypeOK, Barred
    <2> QED BY <1>1, <2>1, <2>2, <2>3, <2>4, <2>5, <2>6, <2>7, <2>8, <2>9, <2>10, <2>11, <2>12, <2>13, <2>14, <2>15, <2>16, <2>17, <2>18, <2>19, <2>20, <2>21, <2>22, <2>23, <2>24 DEF LauncherStep
  <1>2. ASSUME NEW d \in Dispatches, WatcherStep(d) PROVE Barred(e)'
    <2>1. CASE WatchConclude(d)
      BY <2>1 DEF WatchConclude, WatchStep, TypeOK, Barred
    <2>2. CASE WatchStopped(d)
      BY <2>2 DEF WatchStopped, WatchStep, TypeOK, Barred
    <2>3. CASE TerminateIndeterminateWorker(d)
      BY <2>3 DEF TerminateIndeterminateWorker, WatchStep, TypeOK, Barred
    <2>4. CASE ReleaseIndeterminateCapacity(d)
      BY <2>4 DEF ReleaseIndeterminateCapacity, WatchStep, TypeOK, Barred
    <2>5. CASE RetainIndeterminateWorker(d)
      BY <2>5 DEF RetainIndeterminateWorker, WatchStep, TypeOK, Barred
    <2>6. CASE WatchCommit(d)
      BY <2>6 DEF WatchCommit, WatchStep, TypeOK, Barred
    <2>7. CASE WatchProject(d)
      BY <2>7 DEF WatchProject, WatchStep, TypeOK, Barred, ProjectTerminal, Row
    <2> QED BY <1>2, <2>1, <2>2, <2>3, <2>4, <2>5, <2>6, <2>7 DEF WatcherStep
  <1>3. ASSUME NEW d \in Dispatches, ReconcileStep(d) PROVE Barred(e)'
    <2>1. CASE ReconcileExpired(d)
      BY <2>1 DEF ReconcileExpired, TypeOK, Barred
    <2>2. CASE ReconcileHydrate(d)
      BY <2>2 DEF ReconcileHydrate, TypeOK, Barred, Row
    <2>3. CASE ReconcileDead(d)
      BY <2>3 DEF ReconcileDead, TypeOK, Barred
    <2>4. CASE ReconcileProject(d)
      BY <2>4 DEF ReconcileProject, TypeOK, Barred, ProjectTerminal, Row
    <2> QED BY <1>3, <2>1, <2>2, <2>3, <2>4 DEF ReconcileStep
  <1>4. ASSUME NEW d \in Dispatches, OperatorStep(d) PROVE Barred(e)'
    <2>1. CASE Withdraw(d)
      BY <2>1 DEF Withdraw, TypeOK, Barred, Row
    <2>2. CASE Supersede(d)
      BY <2>2 DEF Supersede, TypeOK, Barred, Row
    <2>3. CASE OperatorRelease(d)
      BY <2>3 DEF OperatorRelease, TypeOK, Barred
    <2> QED BY <1>4, <2>1, <2>2, <2>3 DEF OperatorStep
  <1>5. ASSUME NEW d \in Dispatches, EnvironmentStep(d) PROVE Barred(e)'
    <2>1. CASE LauncherCrash(d)
      BY <2>1 DEF LauncherCrash, TypeOK, Barred
    <2>2. CASE WatchCrash(d)
      BY <2>2 DEF WatchCrash, WatchStep, TypeOK, Barred
    <2>3. CASE ReconcileCrash(d)
      BY <2>3 DEF ReconcileCrash, TypeOK, Barred
    <2>4. CASE WorkerExit(d)
      BY <2>4 DEF WorkerExit, TypeOK, Barred
    <2>5. CASE KinExit(d)
      BY <2>5 DEF KinExit, TypeOK, Barred
    <2>6. CASE PidReuse(d)
      BY <2>6 DEF PidReuse, TypeOK, Barred
    <2>7. CASE ReuseExit(d)
      BY <2>7 DEF ReuseExit, TypeOK, Barred
    <2>8. CASE ExtendExpiry(d)
      BY <2>8 DEF ExtendExpiry, TypeOK, Barred
    <2>9. CASE \E c \in Deadlines : Elapse(d, c)
      BY <2>9 DEF Elapse, TypeOK, Barred
    <2>10. CASE ControllerChange(d)
      BY <2>10 DEF ControllerChange, TypeOK, Barred
    <2> QED BY <1>5, <2>1, <2>2, <2>3, <2>4, <2>5, <2>6, <2>7, <2>8, <2>9, <2>10 DEF EnvironmentStep
  <1>6. ASSUME NEW d \in Dispatches, CloseAbandoned(d) PROVE Barred(e)'
    BY <1>6 DEF CloseAbandoned, Abandonable, TypeOK, Barred, Row
  <1>7. ASSUME NEW keep \in BOOLEAN, ReleaseStale(keep) PROVE Barred(e)'
    BY <1>7 DEF ReleaseStale, TypeOK, Barred
  <1>8. CASE UNCHANGED vars
    BY <1>8 DEF vars, TypeOK, Barred
  <1> QED BY <1>1, <1>2, <1>3, <1>4, <1>5, <1>6, <1>7, <1>8, AbandonedCloses DEF Next

(* A dispatch that is superseded before its worker exists never gets one:  *)
(* _redispatch_spawn_guard under the ledger lock, together with rewrites   *)
(* of the row that keep the marker, is enough for every interleaving and   *)
(* every crash.                                                            *)
THEOREM SupersessionSafe == Spec => SupersededNeverSpawns
  <1>1. Init => SpawnInv
    BY DEF Init, SpawnInv
  <1>2. TypeOK /\ SpawnInv /\ [Next]_vars => SpawnInv'
    BY SpawnStep
  <1>3. ASSUME NEW d \in Dispatches
        PROVE  Spec => [](rec[d].superseded /\ proc[d] = "unborn"
                            => [](proc[d] = "unborn"))
    <2>1. SpawnInv /\ rec[d].superseded /\ proc[d] = "unborn" => Barred(d)
      BY DEF SpawnInv, Barred
    <2>2. Barred(d) /\ TypeOK /\ [Next]_vars => Barred(d)'
      BY BarredStep
    <2>3. Barred(d) => proc[d] = "unborn"
      BY DEF Barred
    <2> QED BY <1>1, <1>2, <2>1, <2>2, <2>3, TypeCorrect, PTL DEF Spec
  <1> QED BY <1>3 DEF SupersededNeverSpawns

-----------------------------------------------------------------------------
(* The operating cap *)

Unretained == {d \in Active : ~lease[d].retained}

(* A release frees a slot or changes nothing. *)
LEMMA ReleaseShrinks ==
    ASSUME lease \in [Dispatches -> Lease], NEW d \in Dispatches
    PROVE  /\ ReleaseOwned(d) => Unretained' \subseteq Unretained
           /\ \A r : TryRelease(d, r) => Unretained' \subseteq Unretained
  BY EndedDropped
  DEF ReleaseOwned, ReleaseIfGone, TryRelease, Unretained, Active, Lease, Ended

(* Neither does the launcher add a slot once it has its own. *)
LEMMA LaunchShrinks ==
    ASSUME lease \in [Dispatches -> Lease], NEW d \in Dispatches
    PROVE  /\ MarkLeaseSpawning(d) => Unretained' \subseteq Unretained
           /\ MarkLeaseSpawnFailed(d) => Unretained' \subseteq Unretained
           /\ \A tok, pgid : AttachWorker(d, tok, pgid) => Unretained' \subseteq Unretained
  <1>1. MarkLeaseSpawning(d) => Unretained' \subseteq Unretained
    BY DEF MarkLeaseSpawning, Unretained, Active, Lease
  <1>2. MarkLeaseSpawnFailed(d) => Unretained' \subseteq Unretained
    BY DEF MarkLeaseSpawnFailed, Unretained, Active, Lease
  <1>3. ASSUME NEW tok, NEW pgid, AttachWorker(d, tok, pgid)
        PROVE  Unretained' \subseteq Unretained
    <2>1. \A e \in Dispatches : /\ lease'[e].state = lease[e].state
                                /\ lease'[e].retained = lease[e].retained
      BY <1>3 DEF AttachWorker, Lease
    <2> QED BY <2>1 DEF Unretained, Active
  <1> QED BY <1>1, <1>2, <1>3

(* A retained lease may come back, but as a retained one. *)
LEMMA OverrideShrinks ==
    ASSUME lease \in [Dispatches -> Lease], NEW d \in Dispatches
    PROVE  /\ RetainIndeterminate(d) => Unretained' \subseteq Unretained
           /\ ReleaseOperatorConfirmed(d) => Unretained' \subseteq Unretained
           /\ ReleaseUnknownClaimant(d) => Unretained' \subseteq Unretained
  <1>1. RetainIndeterminate(d) => Unretained' \subseteq Unretained
    BY DEF RetainIndeterminate, Unretained, Active, Lease
  <1>2. ReleaseOperatorConfirmed(d) => Unretained' \subseteq Unretained
    BY DEF ReleaseOperatorConfirmed, Ended, Unretained, Active, Lease
  <1>3. ReleaseUnknownClaimant(d) => Unretained' \subseteq Unretained
    BY DEF ReleaseUnknownClaimant, Ended, Unretained, Active, Lease
  <1> QED BY <1>1, <1>2, <1>3

(* A stale pass only takes slots back. *)
LEMMA StaleShrinks ==
    ASSUME lease \in [Dispatches -> Lease], NEW keep, CmdReleaseStale(keep)
    PROVE  Unretained' \subseteq Unretained
  <1>1. ASSUME NEW d \in Dispatches, lease'[d].state = "active"
        PROVE  lease'[d] = lease[d]
    BY <1>1, EndedDropped DEF CmdReleaseStale, Pruned
  <1> QED BY <1>1 DEF Unretained, Active

GrowsByAcquire ==
    \/ Unretained' \subseteq Unretained
    \/ \E d \in Dispatches : AcquireCapacity(d)

(* Only cmd_acquire adds a slot that no watcher forced back. *)
LEMMA GrowsStep ==
    ASSUME TypeOK, [Next]_vars
    PROVE  GrowsByAcquire
  <1>1. ASSUME NEW d \in Dispatches, LauncherStep(d) PROVE GrowsByAcquire
    <2>1. CASE RecordWaitingJournal(d)
      BY <2>1 DEF RecordWaitingJournal, Step, TypeOK, GrowsByAcquire, Unretained, Active
    <2>2. CASE RecordWaitingRow(d)
      BY <2>2 DEF RecordWaitingRow, Step, TypeOK, GrowsByAcquire, Unretained, Active
    <2>3. CASE AcquireCapacity(d)
      BY <2>3 DEF AcquireCapacity, Step, TypeOK, GrowsByAcquire, Unretained, Active
    <2>4. CASE CapacityBlocked(d)
      BY <2>4 DEF CapacityBlocked, Step, TypeOK, GrowsByAcquire, Unretained, Active
    <2>5. CASE RecordStartingJournal(d)
      BY <2>5 DEF RecordStartingJournal, Step, TypeOK, GrowsByAcquire, Unretained, Active
    <2>6. CASE RecordStartingRow(d)
      BY <2>6 DEF RecordStartingRow, Step, TypeOK, GrowsByAcquire, Unretained, Active
    <2>7. CASE AttemptClaimingWorkerArgv(d)
      BY <2>7 DEF AttemptClaimingWorkerArgv, Step, TypeOK, GrowsByAcquire, Unretained, Active
    <2>8. CASE EnterSpawn(d)
      BY <2>8, LaunchShrinks DEF EnterSpawn, Step, TypeOK, GrowsByAcquire, Unretained, Active
    <2>9. CASE SpawnWorker(d)
      BY <2>9 DEF SpawnWorker, Step, TypeOK, GrowsByAcquire, Unretained, Active
    <2>10. CASE AttachWorkerToLease(d)
      BY <2>10, LaunchShrinks DEF AttachWorkerToLease, Step, TypeOK, GrowsByAcquire, Unretained, Active
    <2>11. CASE ClaimAttemptRunning(d)
      BY <2>11 DEF ClaimAttemptRunning, Step, TypeOK, GrowsByAcquire, Unretained, Active
    <2>12. CASE RecordRunningRow(d)
      BY <2>12 DEF RecordRunningRow, Step, TypeOK, GrowsByAcquire, Unretained, Active
    <2>13. CASE StartWatcher(d)
      BY <2>13 DEF StartWatcher, Step, TypeOK, GrowsByAcquire, Unretained, Active
    <2>14. CASE EndFollowing(d)
      BY <2>14 DEF EndFollowing, Step, TypeOK, GrowsByAcquire, Unretained, Active
    <2>15. CASE SignalBeforeSpawn(d)
      BY <2>15, ReleaseShrinks DEF SignalBeforeSpawn, Step, TypeOK, GrowsByAcquire, Unretained, Active
    <2>16. CASE FinallyNotSpawned(d)
      BY <2>16, LaunchShrinks DEF FinallyNotSpawned, Step, TypeOK, GrowsByAcquire, Unretained, Active
    <2>17. CASE FinallyDiscardRow(d)
      BY <2>17, LaunchShrinks DEF FinallyDiscardRow, Step, TypeOK, GrowsByAcquire, Unretained, Active
    <2>18. CASE FinallyAmbiguous(d)
      BY <2>18 DEF FinallyAmbiguous, Step, TypeOK, GrowsByAcquire, Unretained, Active
    <2>19. CASE LauncherCommit(d)
      BY <2>19, ReleaseShrinks DEF LauncherCommit, Step, TypeOK, GrowsByAcquire, Unretained, Active, CommitTerminal
    <2>20. CASE LauncherProject(d)
      BY <2>20, ReleaseShrinks DEF LauncherProject, Step, TypeOK, GrowsByAcquire, Unretained, Active, ProjectTerminal
    <2>21. CASE LauncherRelease(d)
      BY <2>21, ReleaseShrinks DEF LauncherRelease, Step, TypeOK, GrowsByAcquire, Unretained, Active
    <2>22. CASE FinallySpawned(d)
      BY <2>22 DEF FinallySpawned, Step, TypeOK, GrowsByAcquire, Unretained, Active
    <2>23. CASE WaitForCapacity(d)
      BY <2>23 DEF WaitForCapacity, Step, TypeOK, GrowsByAcquire, Unretained, Active
    <2>24. CASE WriteLaunchStatus(d)
      BY <2>24 DEF WriteLaunchStatus, Step, TypeOK, GrowsByAcquire, Unretained, Active
    <2> QED BY <1>1, <2>1, <2>2, <2>3, <2>4, <2>5, <2>6, <2>7, <2>8, <2>9, <2>10, <2>11, <2>12, <2>13, <2>14, <2>15, <2>16, <2>17, <2>18, <2>19, <2>20, <2>21, <2>22, <2>23, <2>24 DEF LauncherStep
  <1>2. ASSUME NEW d \in Dispatches, WatcherStep(d) PROVE GrowsByAcquire
    <2>1. CASE WatchConclude(d)
      BY <2>1 DEF WatchConclude, WatchStep, TypeOK, GrowsByAcquire, Unretained, Active
    <2>2. CASE WatchStopped(d)
      BY <2>2 DEF WatchStopped, WatchStep, TypeOK, GrowsByAcquire, Unretained, Active
    <2>3. CASE TerminateIndeterminateWorker(d)
      BY <2>3 DEF TerminateIndeterminateWorker, WatchStep, TypeOK, GrowsByAcquire, Unretained, Active
    <2>4. CASE ReleaseIndeterminateCapacity(d)
      BY <2>4, ReleaseShrinks DEF ReleaseIndeterminateCapacity, WatchStep, TypeOK, GrowsByAcquire, Unretained, Active
    <2>5. CASE RetainIndeterminateWorker(d)
      BY <2>5, OverrideShrinks DEF RetainIndeterminateWorker, WatchStep, TypeOK, GrowsByAcquire, Unretained, Active
    <2>6. CASE WatchCommit(d)
      BY <2>6, ReleaseShrinks DEF WatchCommit, WatchStep, TypeOK, GrowsByAcquire, Unretained, Active, CommitTerminal
    <2>7. CASE WatchProject(d)
      BY <2>7, ReleaseShrinks DEF WatchProject, WatchStep, TypeOK, GrowsByAcquire, Unretained, Active, ProjectTerminal
    <2> QED BY <1>2, <2>1, <2>2, <2>3, <2>4, <2>5, <2>6, <2>7 DEF WatcherStep
  <1>3. ASSUME NEW d \in Dispatches, ReconcileStep(d) PROVE GrowsByAcquire
    <2>1. CASE ReconcileExpired(d)
      BY <2>1, ReleaseShrinks DEF ReconcileExpired, TypeOK, GrowsByAcquire, Unretained, Active, CommitTerminal
    <2>2. CASE ReconcileHydrate(d)
      BY <2>2 DEF ReconcileHydrate, TypeOK, GrowsByAcquire, Unretained, Active
    <2>3. CASE ReconcileDead(d)
      BY <2>3, ReleaseShrinks DEF ReconcileDead, TypeOK, GrowsByAcquire, Unretained, Active, CommitTerminal
    <2>4. CASE ReconcileProject(d)
      BY <2>4, ReleaseShrinks DEF ReconcileProject, TypeOK, GrowsByAcquire, Unretained, Active, ProjectTerminal
    <2> QED BY <1>3, <2>1, <2>2, <2>3, <2>4 DEF ReconcileStep
  <1>4. ASSUME NEW d \in Dispatches, OperatorStep(d) PROVE GrowsByAcquire
    <2>1. CASE Withdraw(d)
      BY <2>1, ReleaseShrinks DEF Withdraw, TypeOK, GrowsByAcquire, Unretained, Active
    <2>2. CASE Supersede(d)
      BY <2>2 DEF Supersede, TypeOK, GrowsByAcquire, Unretained, Active
    <2>3. CASE OperatorRelease(d)
      BY <2>3, OverrideShrinks DEF OperatorRelease, TypeOK, GrowsByAcquire, Unretained, Active
    <2> QED BY <1>4, <2>1, <2>2, <2>3 DEF OperatorStep
  <1>5. ASSUME NEW d \in Dispatches, EnvironmentStep(d) PROVE GrowsByAcquire
    <2>1. CASE LauncherCrash(d)
      BY <2>1 DEF LauncherCrash, TypeOK, GrowsByAcquire, Unretained, Active
    <2>2. CASE WatchCrash(d)
      BY <2>2 DEF WatchCrash, WatchStep, TypeOK, GrowsByAcquire, Unretained, Active
    <2>3. CASE ReconcileCrash(d)
      BY <2>3 DEF ReconcileCrash, TypeOK, GrowsByAcquire, Unretained, Active
    <2>4. CASE WorkerExit(d)
      BY <2>4 DEF WorkerExit, TypeOK, GrowsByAcquire, Unretained, Active
    <2>5. CASE KinExit(d)
      BY <2>5 DEF KinExit, TypeOK, GrowsByAcquire, Unretained, Active
    <2>6. CASE PidReuse(d)
      BY <2>6 DEF PidReuse, TypeOK, GrowsByAcquire, Unretained, Active
    <2>7. CASE ReuseExit(d)
      BY <2>7 DEF ReuseExit, TypeOK, GrowsByAcquire, Unretained, Active
    <2>8. CASE ExtendExpiry(d)
      BY <2>8 DEF ExtendExpiry, TypeOK, GrowsByAcquire, Unretained, Active
    <2>9. CASE \E c \in Deadlines : Elapse(d, c)
      BY <2>9 DEF Elapse, TypeOK, GrowsByAcquire, Unretained, Active
    <2>10. CASE ControllerChange(d)
      BY <2>10 DEF ControllerChange, TypeOK, GrowsByAcquire, Unretained, Active
    <2> QED BY <1>5, <2>1, <2>2, <2>3, <2>4, <2>5, <2>6, <2>7, <2>8, <2>9, <2>10 DEF EnvironmentStep
  <1>6. ASSUME NEW d \in Dispatches, CloseAbandoned(d) PROVE GrowsByAcquire
    BY <1>6, ReleaseShrinks DEF CloseAbandoned, Abandonable, TypeOK, GrowsByAcquire, Unretained, Active, CommitTerminal
  <1>7. ASSUME NEW keep \in BOOLEAN, ReleaseStale(keep) PROVE GrowsByAcquire
    BY <1>7, StaleShrinks DEF ReleaseStale, TypeOK, GrowsByAcquire, Unretained, Active
  <1>8. CASE UNCHANGED vars
    BY <1>8 DEF vars, TypeOK, GrowsByAcquire, Unretained, Active
  <1> QED BY <1>1, <1>2, <1>3, <1>4, <1>5, <1>6, <1>7, <1>8, AbandonedCloses DEF Next

(* cmd_acquire grants only below the cap. *)
LEMMA AcquireWithinCap ==
    ASSUME lease \in [Dispatches -> Lease], NEW d \in Dispatches, CmdAcquire(d)
    PROVE  WithinCap'
  <1>1. PICK left \in SUBSET Active :
          /\ Cardinality(left) < MaxTotal
          /\ lease' = [Pruned(Active \ left) EXCEPT ![d] = NewLease]
    BY DEF CmdAcquire
  <1>2. IsFiniteSet(left) /\ Cardinality(left) \in Nat
    <2>1. left \subseteq Dispatches
      BY DEF Active
    <2> QED BY <2>1, FS_Subset, FS_CardinalityType, DispatchesAssumption
  <1>3. Unretained' \subseteq left \cup {d}
    <2> SUFFICES ASSUME NEW e \in Dispatches, e # d, lease'[e].state = "active"
                 PROVE  e \in left
      BY DEF Unretained, Active
    <2>1. lease'[e] = Pruned(Active \ left)[e]
      BY <1>1, PrunedType
    <2> QED BY <2>1, EndedDropped DEF Pruned, Active
  <1>4. /\ IsFiniteSet(left \cup {d})
        /\ Cardinality(left \cup {d}) <= Cardinality(left) + 1
        /\ Cardinality(left \cup {d}) \in Nat
    BY <1>2, FS_AddElement, FS_CardinalityType
  <1>5. Cardinality(Unretained') <= Cardinality(left \cup {d})
        /\ Cardinality(Unretained') \in Nat
    BY <1>3, <1>4, FS_Subset, FS_CardinalityType
  <1> QED BY <1>1, <1>2, <1>4, <1>5, MaxTotalAssumption DEF WithinCap, Unretained

(* Every step keeps the cap. *)
LEMMA CapStep ==
    ASSUME TypeOK, WithinCap, [Next]_vars
    PROVE  WithinCap'
  <1>1. CASE Unretained' \subseteq Unretained
    <2>1. IsFiniteSet(Unretained)
      <3>1. Unretained \subseteq Dispatches
        BY DEF Unretained, Active
      <3> QED BY <3>1, FS_Subset, DispatchesAssumption
    <2>2. /\ Cardinality(Unretained') <= Cardinality(Unretained)
          /\ Cardinality(Unretained') \in Nat
          /\ Cardinality(Unretained) \in Nat
      BY <1>1, <2>1, FS_Subset, FS_CardinalityType
    <2> QED BY <2>2, MaxTotalAssumption DEF WithinCap, Unretained
  <1>2. CASE \E d \in Dispatches : AcquireCapacity(d)
    BY <1>2, AcquireWithinCap DEF AcquireCapacity, TypeOK
  <1> QED BY <1>1, <1>2, GrowsStep DEF GrowsByAcquire

(* The operating cap holds in every reachable state for the leases that no *)
(* watcher forced back to active: cmd_acquire counts correctly whatever it *)
(* prunes or reclaims, and no other operation adds a slot.                 *)
THEOREM CapRespected == Spec => []WithinCap
  <1>1. Init => WithinCap
    <2> SUFFICES ASSUME Init PROVE WithinCap
      OBVIOUS
    <2>1. Unretained = {}
      BY DEF Init, Unretained, Active, NoLease
    <2> QED BY <2>1, FS_EmptySet, MaxTotalAssumption DEF WithinCap, Unretained
  <1>2. TypeOK /\ WithinCap /\ [Next]_vars => WithinCap'
    BY CapStep
  <1> QED BY <1>1, <1>2, TypeCorrect, PTL DEF Spec

-----------------------------------------------------------------------------
(* The slot of a worker that may live *)

SameWorker ==
    \A e \in Dispatches : /\ lease'[e].launch = lease[e].launch
                          /\ lease'[e].wpid = lease[e].wpid

(* Ending or dropping a lease leaves what it says of the worker. *)
LEMMA EndedKeepsWorker ==
    ASSUME NEW l \in Lease
    PROVE  /\ Ended(l).launch = l.launch /\ Ended(l).wpid = l.wpid
           /\ Dropped(l).launch = l.launch /\ Dropped(l).wpid = l.wpid
  BY DEF Ended, Dropped, Lease

(* Releasing leaves what the leases say of the workers. *)
LEMMA ReleaseKeepsWorker ==
    ASSUME lease \in [Dispatches -> Lease], NEW d \in Dispatches
    PROVE  /\ ReleaseOwned(d) => SameWorker
           /\ \A r : TryRelease(d, r) => SameWorker
  BY EndedKeepsWorker DEF ReleaseOwned, ReleaseIfGone, TryRelease, SameWorker

(* So do retention and the operator's overrides. *)
LEMMA OverrideKeepsWorker ==
    ASSUME lease \in [Dispatches -> Lease], NEW d \in Dispatches
    PROVE  /\ RetainIndeterminate(d) => SameWorker
           /\ ReleaseOperatorConfirmed(d) => SameWorker
           /\ ReleaseUnknownClaimant(d) => SameWorker
  <1>1. RetainIndeterminate(d) => SameWorker
    BY DEF RetainIndeterminate, SameWorker, Lease
  <1>2. /\ [Ended(lease[d]) EXCEPT !.operator = TRUE].launch = lease[d].launch
        /\ [Ended(lease[d]) EXCEPT !.operator = TRUE].wpid = lease[d].wpid
    BY DEF Ended, Lease
  <1> QED BY <1>1, <1>2
          DEF ReleaseOperatorConfirmed, ReleaseUnknownClaimant, SameWorker

(* So does a stale pass. *)
LEMMA StaleKeepsWorker ==
    ASSUME lease \in [Dispatches -> Lease], NEW keep, CmdReleaseStale(keep)
    PROVE  SameWorker
  BY EndedKeepsWorker DEF CmdReleaseStale, Pruned, SameWorker

(* cmd_acquire starts its own lease afresh and leaves the others. *)
LEMMA AcquireKeepsWorker ==
    ASSUME lease \in [Dispatches -> Lease], NEW d \in Dispatches, CmdAcquire(d)
    PROVE  /\ lease'[d] = NewLease
           /\ \A e \in Dispatches \ {d} : /\ lease'[e].launch = lease[e].launch
                                          /\ lease'[e].wpid = lease[e].wpid
  <1>1. PICK x : lease' = [Pruned(x) EXCEPT ![d] = NewLease]
    BY DEF CmdAcquire
  <1>2. \A e \in Dispatches : /\ Pruned(x)[e].launch = lease[e].launch
                              /\ Pruned(x)[e].wpid = lease[e].wpid
    BY EndedKeepsWorker DEF Pruned
  <1> QED BY <1>1, <1>2, PrunedType

(* Every step keeps launcher, worker, records and lease in agreement. *)
LEMMA SlotStep ==
    ASSUME TypeOK, SlotInv, [Next]_vars
    PROVE  SlotInv'
  <1>1. ASSUME NEW d \in Dispatches, LauncherStep(d) PROVE SlotInv'
    <2>1. CASE RecordWaitingJournal(d)
      BY <2>1 DEF RecordWaitingJournal, Step, TypeOK, SlotInv, WorkerMayLive, BeforeSpawn, AfterSpawn
    <2>2. CASE RecordWaitingRow(d)
      BY <2>2 DEF RecordWaitingRow, Step, TypeOK, SlotInv, WorkerMayLive, BeforeSpawn, AfterSpawn, FreshRow, NoRow
    <2>3. CASE AcquireCapacity(d)
      BY <2>3, AcquireKeepsWorker, SMTT(60) DEF AcquireCapacity, Step, TypeOK, SlotInv, WorkerMayLive, BeforeSpawn, AfterSpawn, NewLease, NoLease
    <2>4. CASE CapacityBlocked(d)
      BY <2>4 DEF CapacityBlocked, Step, TypeOK, SlotInv, WorkerMayLive, BeforeSpawn, AfterSpawn
    <2>5. CASE RecordStartingJournal(d)
      <3>1. \A e \in Dispatches : att'[e].worker = att[e].worker
        BY <2>5 DEF RecordStartingJournal, TypeOK, Attempt
      <3>2. \E q \in {"started", "failing"} : Step(d, "reserved", q)
        BY <2>5 DEF RecordStartingJournal
      <3>3. UNCHANGED <<lease, rec, proc, watch, verdict>>
        BY <2>5 DEF RecordStartingJournal
      <3> QED BY <3>1, <3>2, <3>3 DEF Step, TypeOK, SlotInv, WorkerMayLive, BeforeSpawn, AfterSpawn
    <2>6. CASE RecordStartingRow(d)
      BY <2>6 DEF RecordStartingRow, Step, TypeOK, SlotInv, WorkerMayLive, BeforeSpawn, AfterSpawn, FreshRow, NoRow
    <2>7. CASE AttemptClaimingWorkerArgv(d)
      BY <2>7 DEF AttemptClaimingWorkerArgv, Step, TypeOK, SlotInv, WorkerMayLive, BeforeSpawn, AfterSpawn
    <2>8. CASE EnterSpawn(d)
      <3>1. CASE Step(d, "checked", "failing") /\ lease' = lease
        BY <2>8, <3>1 DEF EnterSpawn, Step, TypeOK, SlotInv, WorkerMayLive, BeforeSpawn, AfterSpawn
      <3>2. CASE Step(d, "checked", "handoff") /\ MarkLeaseSpawning(d)
        <4>1. /\ lease'[d].launch = "spawning"
              /\ \A e \in Dispatches : lease'[e].wpid = lease[e].wpid
              /\ \A e \in Dispatches \ {d} : lease'[e].launch = lease[e].launch
          BY <3>2 DEF MarkLeaseSpawning, TypeOK, Lease
        <4>2. pc[d] = "checked" /\ pc' = [pc EXCEPT ![d] = "handoff"]
          BY <3>2 DEF Step
        <4>3. UNCHANGED <<rec, proc, att, watch, verdict>>
          BY <2>8 DEF EnterSpawn
        <4> QED BY <4>1, <4>2, <4>3, SMTT(40) DEF TypeOK, SlotInv, WorkerMayLive, BeforeSpawn, AfterSpawn
      <3> QED BY <2>8, <3>1, <3>2 DEF EnterSpawn
    <2>9. CASE SpawnWorker(d)
      BY <2>9 DEF SpawnWorker, Step, TypeOK, SlotInv, WorkerMayLive, BeforeSpawn, AfterSpawn
    <2>10. CASE AttachWorkerToLease(d)
      <3>1. \A e \in Dispatches \ {d} : lease'[e] = lease[e]
        BY <2>10 DEF AttachWorkerToLease, AttachWorker, TypeOK
      <3>2. lease'[d].launch \in {lease[d].launch, "attached"}
        <4>1. CASE lease' = lease
          BY <4>1
        <4>2. CASE \E tok, pgid \in BOOLEAN :
                     lease' = [lease EXCEPT ![d].wpid = TRUE, ![d].wtok = tok,
                                            ![d].wpgid = @ \/ pgid,
                                            ![d].launch = "attached"]
          BY <4>2 DEF TypeOK, Lease
        <4>3. TokenCapture(d) \subseteq BOOLEAN
          BY DEF TokenCapture, Blind
        <4> QED BY <2>10, <4>1, <4>2, <4>3 DEF AttachWorkerToLease, AttachWorker
      <3> QED BY <2>10, <3>1, <3>2 DEF AttachWorkerToLease, Step, TypeOK, SlotInv, WorkerMayLive, BeforeSpawn, AfterSpawn
    <2>11. CASE ClaimAttemptRunning(d)
      BY <2>11, SMTT(60) DEF ClaimAttemptRunning, Step, TypeOK, SlotInv, WorkerMayLive, BeforeSpawn, AfterSpawn
    <2>12. CASE RecordRunningRow(d)
      <3>1. \A e \in Dispatches \ {d} : rec'[e] = rec[e]
        BY <2>12 DEF RecordRunningRow, TypeOK
      <3>2. pc[d] = "claimed" /\ pc' = [pc EXCEPT ![d] = "launched"]
        BY <2>12 DEF RecordRunningRow, Step
      <3>3. UNCHANGED <<lease, proc, att, watch, verdict>>
        BY <2>12 DEF RecordRunningRow
      <3> QED BY <3>1, <3>2, <3>3, SMTT(40) DEF TypeOK, SlotInv, WorkerMayLive, BeforeSpawn, AfterSpawn
    <2>13. CASE StartWatcher(d)
      BY <2>13 DEF StartWatcher, Step, TypeOK, SlotInv, WorkerMayLive, BeforeSpawn, AfterSpawn
    <2>14. CASE EndFollowing(d)
      BY <2>14 DEF EndFollowing, Step, TypeOK, SlotInv, WorkerMayLive, BeforeSpawn, AfterSpawn
    <2>15. CASE SignalBeforeSpawn(d)
      BY <2>15, ReleaseKeepsWorker DEF SignalBeforeSpawn, Step, TypeOK, SlotInv, WorkerMayLive, BeforeSpawn, AfterSpawn, SameWorker
    <2>16. CASE FinallyNotSpawned(d)
      BY <2>16 DEF FinallyNotSpawned, Step, TypeOK, SlotInv, WorkerMayLive, BeforeSpawn, AfterSpawn, MarkLeaseSpawnFailed, Lease
    <2>17. CASE FinallyDiscardRow(d)
      BY <2>17 DEF FinallyDiscardRow, Step, TypeOK, SlotInv, WorkerMayLive, BeforeSpawn, AfterSpawn, NoRow, MarkLeaseSpawnFailed, Lease
    <2>18. CASE FinallyAmbiguous(d)
      BY <2>18 DEF FinallyAmbiguous, Step, TypeOK, SlotInv, WorkerMayLive, BeforeSpawn, AfterSpawn
    <2>19. CASE LauncherCommit(d)
      <3>1. \A e \in Dispatches : att'[e].worker = att[e].worker
        BY <2>19, SMTT(40) DEF LauncherCommit, CommitTerminal, TypeOK, Attempt
      <3>2. SameWorker
        <4>1. CASE rec[d].state = "absent"
          BY <2>19, <4>1 DEF LauncherCommit, SameWorker
        <4>2. CASE rec[d].state # "absent"
          BY <2>19, <4>2, ReleaseKeepsWorker DEF LauncherCommit, CommitTerminal, TypeOK
        <4> QED BY <4>1, <4>2
      <3>3. \E q \in {"projecting", "releasing"} : Step(d, "finishing", q)
        BY <2>19 DEF LauncherCommit
      <3>4. UNCHANGED <<rec, proc, watch, verdict>>
        BY <2>19 DEF LauncherCommit
      <3> QED BY <3>1, <3>2, <3>3, <3>4, SMTT(40) DEF SameWorker, Step, TypeOK, SlotInv, WorkerMayLive, BeforeSpawn, AfterSpawn
    <2>20. CASE LauncherProject(d)
      BY <2>20, ReleaseKeepsWorker DEF LauncherProject, Step, TypeOK, SlotInv, WorkerMayLive, BeforeSpawn, AfterSpawn, SameWorker, ProjectTerminal
    <2>21. CASE LauncherRelease(d)
      BY <2>21, ReleaseKeepsWorker DEF LauncherRelease, Step, TypeOK, SlotInv, WorkerMayLive, BeforeSpawn, AfterSpawn, SameWorker
    <2>22. CASE FinallySpawned(d)
      BY <2>22 DEF FinallySpawned, Step, TypeOK, SlotInv, WorkerMayLive, BeforeSpawn, AfterSpawn, PidProbe, Blind
    <2>23. CASE WaitForCapacity(d)
      BY <2>23 DEF WaitForCapacity, Step, TypeOK, SlotInv, WorkerMayLive, BeforeSpawn, AfterSpawn
    <2>24. CASE WriteLaunchStatus(d)
      BY <2>24 DEF WriteLaunchStatus, Step, TypeOK, SlotInv, WorkerMayLive, BeforeSpawn, AfterSpawn
    <2> QED BY <1>1, <2>1, <2>2, <2>3, <2>4, <2>5, <2>6, <2>7, <2>8, <2>9, <2>10, <2>11, <2>12, <2>13, <2>14, <2>15, <2>16, <2>17, <2>18, <2>19, <2>20, <2>21, <2>22, <2>23, <2>24 DEF LauncherStep
  <1>2. ASSUME NEW d \in Dispatches, WatcherStep(d) PROVE SlotInv'
    <2>1. CASE WatchConclude(d)
      BY <2>1 DEF WatchConclude, WatchStep, TypeOK, SlotInv, WorkerMayLive, BeforeSpawn, AfterSpawn
    <2>2. CASE WatchStopped(d)
      BY <2>2 DEF WatchStopped, WatchStep, TypeOK, SlotInv, WorkerMayLive, BeforeSpawn, AfterSpawn
    <2>3. CASE TerminateIndeterminateWorker(d)
      BY <2>3 DEF TerminateIndeterminateWorker, WatchStep, TypeOK, SlotInv, WorkerMayLive, BeforeSpawn, AfterSpawn
    <2>4. CASE ReleaseIndeterminateCapacity(d)
      BY <2>4, ReleaseKeepsWorker, SMTT(40) DEF ReleaseIndeterminateCapacity, WatchStep, TypeOK, SlotInv, WorkerMayLive, BeforeSpawn, AfterSpawn, SameWorker
    <2>5. CASE RetainIndeterminateWorker(d)
      BY <2>5, OverrideKeepsWorker DEF RetainIndeterminateWorker, WatchStep, TypeOK, SlotInv, WorkerMayLive, BeforeSpawn, AfterSpawn, SameWorker
    <2>6. CASE WatchCommit(d)
      BY <2>6, ReleaseKeepsWorker, SMTT(40) DEF WatchCommit, WatchStep, TypeOK, SlotInv, WorkerMayLive, BeforeSpawn, AfterSpawn, SameWorker, CommitTerminal
    <2>7. CASE WatchProject(d)
      BY <2>7, ReleaseKeepsWorker DEF WatchProject, WatchStep, TypeOK, SlotInv, WorkerMayLive, BeforeSpawn, AfterSpawn, SameWorker, ProjectTerminal
    <2> QED BY <1>2, <2>1, <2>2, <2>3, <2>4, <2>5, <2>6, <2>7 DEF WatcherStep
  <1>3. ASSUME NEW d \in Dispatches, ReconcileStep(d) PROVE SlotInv'
    <2>1. CASE ReconcileExpired(d)
      BY <2>1, ReleaseKeepsWorker DEF ReconcileExpired, TypeOK, SlotInv, WorkerMayLive, BeforeSpawn, AfterSpawn, SameWorker, CommitTerminal
    <2>2. CASE ReconcileHydrate(d)
      BY <2>2 DEF ReconcileHydrate, TypeOK, SlotInv, WorkerMayLive, BeforeSpawn, AfterSpawn
    <2>3. CASE ReconcileDead(d)
      BY <2>3, ReleaseKeepsWorker, SMTT(60) DEF ReconcileDead, TypeOK, SlotInv, WorkerMayLive, BeforeSpawn, AfterSpawn, SameWorker, CommitTerminal
    <2>4. CASE ReconcileProject(d)
      BY <2>4, ReleaseKeepsWorker DEF ReconcileProject, TypeOK, SlotInv, WorkerMayLive, BeforeSpawn, AfterSpawn, SameWorker, ProjectTerminal
    <2> QED BY <1>3, <2>1, <2>2, <2>3, <2>4 DEF ReconcileStep
  <1>4. ASSUME NEW d \in Dispatches, OperatorStep(d) PROVE SlotInv'
    <2>1. CASE Withdraw(d)
      BY <2>1, ReleaseKeepsWorker DEF Withdraw, TypeOK, SlotInv, WorkerMayLive, BeforeSpawn, AfterSpawn, SameWorker
    <2>2. CASE Supersede(d)
      BY <2>2 DEF Supersede, TypeOK, SlotInv, WorkerMayLive, BeforeSpawn, AfterSpawn
    <2>3. CASE OperatorRelease(d)
      BY <2>3, OverrideKeepsWorker DEF OperatorRelease, TypeOK, SlotInv, WorkerMayLive, BeforeSpawn, AfterSpawn, SameWorker
    <2> QED BY <1>4, <2>1, <2>2, <2>3 DEF OperatorStep
  <1>5. ASSUME NEW d \in Dispatches, EnvironmentStep(d) PROVE SlotInv'
    <2>1. CASE LauncherCrash(d)
      BY <2>1 DEF LauncherCrash, TypeOK, SlotInv, WorkerMayLive, BeforeSpawn, AfterSpawn
    <2>2. CASE WatchCrash(d)
      BY <2>2 DEF WatchCrash, WatchStep, TypeOK, SlotInv, WorkerMayLive, BeforeSpawn, AfterSpawn
    <2>3. CASE ReconcileCrash(d)
      BY <2>3 DEF ReconcileCrash, TypeOK, SlotInv, WorkerMayLive, BeforeSpawn, AfterSpawn
    <2>4. CASE WorkerExit(d)
      BY <2>4 DEF WorkerExit, TypeOK, SlotInv, WorkerMayLive, BeforeSpawn, AfterSpawn
    <2>5. CASE KinExit(d)
      BY <2>5 DEF KinExit, TypeOK, SlotInv, WorkerMayLive, BeforeSpawn, AfterSpawn
    <2>6. CASE PidReuse(d)
      BY <2>6 DEF PidReuse, TypeOK, SlotInv, WorkerMayLive, BeforeSpawn, AfterSpawn
    <2>7. CASE ReuseExit(d)
      BY <2>7 DEF ReuseExit, TypeOK, SlotInv, WorkerMayLive, BeforeSpawn, AfterSpawn
    <2>8. CASE ExtendExpiry(d)
      BY <2>8 DEF ExtendExpiry, TypeOK, SlotInv, WorkerMayLive, BeforeSpawn, AfterSpawn
    <2>9. CASE \E c \in Deadlines : Elapse(d, c)
      BY <2>9 DEF Elapse, TypeOK, SlotInv, WorkerMayLive, BeforeSpawn, AfterSpawn
    <2>10. CASE ControllerChange(d)
      BY <2>10 DEF ControllerChange, TypeOK, SlotInv, WorkerMayLive, BeforeSpawn, AfterSpawn
    <2> QED BY <1>5, <2>1, <2>2, <2>3, <2>4, <2>5, <2>6, <2>7, <2>8, <2>9, <2>10 DEF EnvironmentStep
  <1>6. ASSUME NEW d \in Dispatches, CloseAbandoned(d) PROVE SlotInv'
    BY <1>6, ReleaseKeepsWorker, SMTT(40) DEF CloseAbandoned, Abandonable, TypeOK, SlotInv, WorkerMayLive, BeforeSpawn, AfterSpawn, SameWorker, CommitTerminal
  <1>7. ASSUME NEW keep \in BOOLEAN, ReleaseStale(keep) PROVE SlotInv'
    BY <1>7, StaleKeepsWorker DEF ReleaseStale, TypeOK, SlotInv, WorkerMayLive, BeforeSpawn, AfterSpawn, SameWorker
  <1>8. CASE UNCHANGED vars
    BY <1>8 DEF vars, TypeOK, SlotInv, WorkerMayLive, BeforeSpawn, AfterSpawn
  <1> QED BY <1>1, <1>2, <1>3, <1>4, <1>5, <1>6, <1>7, <1>8, AbandonedCloses DEF Next

Worker == [pid : BOOLEAN, tok : BOOLEAN, pgid : BOOLEAN]

(* The evidence on which the slot of a worker that may live is given up. *)
Overridden(d, r) ==
    /\ ~lease[d].wpid /\ ~r.wpid
    /\ r.state = "terminal" /\ r.alive = "false"
    /\ "reservation" \in due[d]

(* No probe proves a live worker dead: its pid is alive or unreadable, and *)
(* its start token matches or is unreadable.                               *)
LEMMA LiveNotDead ==
    ASSUME NEW d \in Dispatches, NEW w \in Worker, w.pid => proc[d] = "live"
    PROVE  "dead" \notin WorkerIdentityLiveness(d, w)
  <1>1. CASE ~w.pid
    BY <1>1 DEF WorkerIdentityLiveness
  <1>2. CASE w.pid
    <2>1. PidProbe(d) \subseteq {"alive", "unknown"}
      BY <1>2 DEF PidProbe, Blind
    <2>2. GenerationMatches(d, w.tok) \subseteq {"same", "none"}
      BY <1>2 DEF GenerationMatches, Blind
    <2>3. \A p \in {"alive", "unknown"}, m \in {"same", "none"} : Verdict(p, m) # "dead"
      BY DEF Verdict
    <2> QED BY <1>2, <2>1, <2>2, <2>3 DEF WorkerIdentityLiveness
  <1> QED BY <1>1, <1>2

(* So neither is a live worker ever proven gone. *)
LEMMA LiveNotGone ==
    ASSUME NEW d \in Dispatches, NEW w \in Worker, w.pid => proc[d] = "live"
    PROVE  TRUE \notin WorkerGone(d, w)
  BY LiveNotDead DEF WorkerGone

(* A worker that may live runs, or nobody has recorded it yet. *)
LEMMA LiveOrUnrecorded ==
    ASSUME TypeOK, SlotInv, NEW d \in Dispatches, WorkerMayLive(d)
    PROVE  proc[d] = "live" \/ (~lease[d].wpid /\ ~rec[d].wpid)
  BY DEF TypeOK, SlotInv, WorkerMayLive, BeforeSpawn

(* _terminal_worker_gone frees the slot of a worker that may live only on  *)
(* a terminal row, and only when nobody recorded the worker.               *)
LEMMA TerminalGoneOverrides ==
    ASSUME TypeOK, SlotInv, NEW d \in Dispatches, WorkerMayLive(d),
           NEW r \in Row, r.wpid = rec[d].wpid,
           TRUE \in TerminalWorkerGone(d, r)
    PROVE  Overridden(d, r)
  <1>1. lease[d] \in Lease /\ lease[d].launch \in {"spawning", "attached"}
    BY DEF TypeOK, SlotInv
  <1>2. WorkerLeaseView(d, r) \in Worker
    BY <1>1 DEF WorkerLeaseView, Worker, Lease, Row
  <1>3. WorkerLeaseView(d, r).pid => proc[d] = "live"
    BY LiveOrUnrecorded DEF WorkerLeaseView
  <1>4. CASE WorkerLeaseView(d, r).pid
    BY <1>2, <1>3, <1>4, LiveNotGone DEF TerminalWorkerGone
  <1>5. CASE ~WorkerLeaseView(d, r).pid
    <2>1. ~lease[d].wpid /\ ~r.wpid
      BY <1>5 DEF WorkerLeaseView
    <2> QED BY <1>1, <1>5, <2>1 DEF TerminalWorkerGone, Overridden
  <1> QED BY <1>4, <1>5

(* stale_active_leases does no more. *)
LEMMA StaleOverrides ==
    ASSUME TypeOK, SlotInv, NEW d \in Dispatches, WorkerMayLive(d),
           TRUE \in Stale(d)
    PROVE  Overridden(d, rec[d])
  <1>1. lease[d] \in Lease /\ rec[d] \in Row
        /\ lease[d].launch \in {"spawning", "attached"}
    BY DEF TypeOK, SlotInv
  <1>2. WorkerLeaseView(d, rec[d]) \in Worker
    BY <1>1 DEF WorkerLeaseView, Worker, Lease, Row
  <1>3. WorkerLeaseView(d, rec[d]).pid => proc[d] = "live"
    BY LiveOrUnrecorded DEF WorkerLeaseView
  <1>4. TRUE \notin WorkerGone(d, WorkerLeaseView(d, rec[d]))
    BY <1>2, <1>3, LiveNotGone
  <1>5. ReclaimablePrelaunchLease(d) = {FALSE}
    BY <1>1 DEF ReclaimablePrelaunchLease
  <1>6. WorkerGone(d, WorkerLeaseView(d, rec[d])) \subseteq {FALSE}
    BY <1>4 DEF WorkerGone
  <1>7. TRUE \in TerminalWorkerGone(d, rec[d])
    BY <1>1, <1>5, <1>6 DEF Stale
  <1> QED BY <1>1, <1>7, TerminalGoneOverrides

(* An expired lease of a worker that may live is not pruned. *)
LEMMA NotExpired ==
    ASSUME TypeOK, SlotInv, NEW d \in Dispatches, WorkerMayLive(d)
    PROVE  TRUE \notin LeasePidsDead(d)
  <1>1. View(lease[d]) \in Worker
    BY DEF TypeOK, View, Worker, Lease
  <1>2. View(lease[d]).pid => proc[d] = "live"
    BY LiveOrUnrecorded DEF View
  <1> QED BY <1>1, <1>2, LiveNotGone DEF LeasePidsDead

-----------------------------------------------------------------------------
(* What a step that ends an active lease rests on *)

(* The release hook ended it on the row as it then is. *)
ProvenGone(d) ==
    \E r \in Row : /\ r = rec'[d] /\ r.wpid = rec[d].wpid
                   /\ TRUE \in TerminalWorkerGone(d, r)

(* Its own launcher gave it back. *)
Surrendered(d) ==
    \/ pc[d] \in {"reserved", "started", "ready", "checked"}
    \/ pc[d] = "releasing" /\ verdict[d].launcher = "false"

(* A lease ends by an operator's hand, on proof that the worker is gone,   *)
(* in a pass that found it stale or expired, or by its own launcher.       *)
Evidenced ==
    \A d \in Dispatches :
        lease[d].state = "active" /\ lease'[d].state # "active"
        => \/ lease'[d].operator
           \/ ProvenGone(d)
           \/ TRUE \in Stale(d) /\ rec' = rec
           \/ TRUE \in LeasePidsDead(d)
           \/ Surrendered(d)

(* A row made terminal is a row, of the same worker. *)
LEMMA TerminalRow ==
    ASSUME TypeOK, NEW d \in Dispatches, NEW a \in Alive
    PROVE  /\ [rec[d] EXCEPT !.state = "terminal", !.alive = a] \in Row
           /\ [rec[d] EXCEPT !.state = "terminal", !.alive = a].wpid = rec[d].wpid
  <1>1. rec[d] \in Row /\ "terminal" \in RowStates
    BY DEF TypeOK, RowStates
  <1> QED BY <1>1 DEF Row

(* The release hooks end a lease on proof. *)
LEMMA TryReleaseEvidenced ==
    ASSUME TypeOK, NEW d \in Dispatches, NEW r \in Row,
           r.wpid = rec[d].wpid, r = rec'[d], TryRelease(d, r)
    PROVE  Evidenced
  <1>1. SUFFICES ASSUME NEW e \in Dispatches,
                        lease[e].state = "active", lease'[e].state # "active"
                 PROVE  ProvenGone(e)
    BY DEF Evidenced
  <1>2. e = d /\ TRUE \in TerminalWorkerGone(d, r)
    BY <1>1 DEF TryRelease, ReleaseIfGone, TypeOK
  <1> QED BY <1>2 DEF ProvenGone

(* A claimant surrenders its own lease. *)
LEMMA ReleaseOwnedEvidenced ==
    ASSUME TypeOK, NEW d \in Dispatches, Surrendered(d), ReleaseOwned(d)
    PROVE  Evidenced
  BY DEF TypeOK, ReleaseOwned, Evidenced

(* The pruning and reclaiming passes take what is expired or stale. *)
LEMMA PassesTake ==
    ASSUME NEW E \in ExpiredSets, NEW S \in StaleSets, NEW e \in E \cup S
    PROVE  TRUE \in Stale(e) \/ TRUE \in LeasePidsDead(e)
  <1>1. e \in Active
    BY DEF ExpiredSets, StaleSets
  <1>2. CASE e \in E
    <2>1. (e \in E) \in LeasePidsDead(e)
      BY <1>1, <1>2 DEF ExpiredSets
    <2> QED BY <1>2, <2>1
  <1>3. CASE e \in S
    <2>1. (e \in S) \in Stale(e)
      BY <1>1, <1>3 DEF StaleSets
    <2> QED BY <1>3, <2>1
  <1> QED BY <1>2, <1>3

(* cmd_acquire, which prunes and reclaims on the way. *)
LEMMA AcquireEvidenced ==
    ASSUME TypeOK, NEW d \in Dispatches, CmdAcquire(d), rec' = rec
    PROVE  Evidenced
  <1>1. SUFFICES ASSUME NEW e \in Dispatches,
                        lease[e].state = "active", lease'[e].state # "active"
                 PROVE  TRUE \in Stale(e) \/ TRUE \in LeasePidsDead(e)
    BY DEF Evidenced
  <1>2. PICK E \in ExpiredSets, S \in StaleSets, left \in SUBSET Active :
             /\ Active \ left \subseteq E \cup S
             /\ lease' = [Pruned(Active \ left) EXCEPT ![d] = NewLease]
    BY DEF CmdAcquire
  <1>3. Pruned(Active \ left) \in [Dispatches -> Lease]
    BY PrunedType DEF TypeOK
  <1>4. e # d
    BY <1>1, <1>2, <1>3 DEF NewLease, NoLease
  <1>5. lease'[e] = Pruned(Active \ left)[e]
    BY <1>2, <1>3, <1>4
  <1>6. e \in E \cup S
    BY <1>1, <1>2, <1>5 DEF Pruned, Forgotten, Active
  <1> QED BY <1>6, PassesTake

(* cmd_release_stale. *)
LEMMA ReleaseStaleEvidenced ==
    ASSUME NEW keep, CmdReleaseStale(keep), rec' = rec
    PROVE  Evidenced
  <1>1. SUFFICES ASSUME NEW e \in Dispatches,
                        lease[e].state = "active", lease'[e].state # "active"
                 PROVE  TRUE \in Stale(e) \/ TRUE \in LeasePidsDead(e)
    BY DEF Evidenced
  <1>2. PICK E \in ExpiredSets, S \in StaleSets :
             e \notin S \ E => lease'[e] = Pruned(E)[e]
    BY DEF CmdReleaseStale
  <1>3. e \in E \cup S
    BY <1>1, <1>2 DEF Pruned, Forgotten
  <1> QED BY <1>3, PassesTake

(* The launcher's marks and the attachment leave the lease's state alone,  *)
(* retention makes it active, and the overrides are signed.                *)
LEMMA WritesEvidenced ==
    ASSUME TypeOK, NEW d \in Dispatches
    PROVE  /\ MarkLeaseSpawning(d) => Evidenced
           /\ MarkLeaseSpawnFailed(d) => Evidenced
           /\ \A tok, pgid \in BOOLEAN : AttachWorker(d, tok, pgid) => Evidenced
           /\ RetainIndeterminate(d) => Evidenced
           /\ ReleaseOperatorConfirmed(d) => Evidenced
           /\ ReleaseUnknownClaimant(d) => Evidenced
  <1>1. \A l \in Lease : \A x \in LaunchStates :
          [l EXCEPT !.launch = x].state = l.state
    BY DEF Lease
  <1>2. MarkLeaseSpawning(d) => Evidenced
    BY <1>1 DEF TypeOK, MarkLeaseSpawning, Evidenced, Lease
  <1>3. MarkLeaseSpawnFailed(d) => Evidenced
    BY <1>1 DEF TypeOK, MarkLeaseSpawnFailed, Evidenced, Lease
  <1>4. ASSUME NEW tok \in BOOLEAN, NEW pgid \in BOOLEAN, AttachWorker(d, tok, pgid)
        PROVE  Evidenced
    <2>1. CASE lease' = lease
      BY <2>1 DEF Evidenced
    <2>2. CASE lease' = [lease EXCEPT ![d].wpid = TRUE, ![d].wtok = tok,
                                      ![d].wpgid = @ \/ pgid,
                                      ![d].launch = "attached"]
      <3>1. \A e \in Dispatches : lease'[e].state = lease[e].state
        BY <2>2 DEF TypeOK, Lease
      <3> QED BY <3>1 DEF Evidenced
    <2> QED BY <1>4, <2>1, <2>2 DEF AttachWorker
  <1>5. RetainIndeterminate(d) => Evidenced
    <2>1. CASE UNCHANGED lease
      BY <2>1 DEF Evidenced
    <2>2. CASE lease' = [lease EXCEPT ![d].state = "active", ![d].retained = TRUE]
      <3>1. /\ lease'[d].state = "active"
            /\ \A e \in Dispatches \ {d} : lease'[e] = lease[e]
        BY <2>2 DEF TypeOK, Lease
      <3> QED BY <3>1 DEF Evidenced
    <2> QED BY <2>1, <2>2 DEF RetainIndeterminate
  <1>6. ASSUME lease' = [lease EXCEPT ![d] = [Ended(@) EXCEPT !.operator = TRUE]]
        PROVE  Evidenced
    <2>1. Ended(lease[d]) \in Lease
      BY EndedDropped DEF TypeOK
    <2>2. lease'[d].operator /\ \A e \in Dispatches \ {d} : lease'[e] = lease[e]
      BY <1>6, <2>1 DEF TypeOK, Lease
    <2> QED BY <2>2 DEF Evidenced
  <1> QED BY <1>2, <1>3, <1>4, <1>5, <1>6 DEF ReleaseOperatorConfirmed, ReleaseUnknownClaimant

(* Every step that ends a lease has such a ground. *)
LEMMA EvidencedStep ==
    ASSUME TypeOK, [Next]_vars
    PROVE  Evidenced
  <1>1. ASSUME NEW d \in Dispatches, LauncherStep(d) PROVE Evidenced
    <2>1. CASE RecordWaitingJournal(d)
      BY <2>1 DEF RecordWaitingJournal, Evidenced
    <2>2. CASE RecordWaitingRow(d)
      BY <2>2 DEF RecordWaitingRow, Evidenced
    <2>3. CASE AcquireCapacity(d)
      BY <2>3, AcquireEvidenced DEF AcquireCapacity
    <2>4. CASE CapacityBlocked(d)
      BY <2>4 DEF CapacityBlocked, Evidenced
    <2>5. CASE RecordStartingJournal(d)
      BY <2>5 DEF RecordStartingJournal, Evidenced
    <2>6. CASE RecordStartingRow(d)
      BY <2>6 DEF RecordStartingRow, Evidenced
    <2>7. CASE AttemptClaimingWorkerArgv(d)
      BY <2>7 DEF AttemptClaimingWorkerArgv, Evidenced
    <2>8. CASE EnterSpawn(d)
      BY <2>8, WritesEvidenced DEF EnterSpawn, Evidenced
    <2>9. CASE SpawnWorker(d)
      BY <2>9 DEF SpawnWorker, Evidenced
    <2>10. CASE AttachWorkerToLease(d)
      <3>1. TokenCapture(d) \subseteq BOOLEAN
        BY DEF TokenCapture, Blind
      <3>2. CASE UNCHANGED lease
        BY <3>2 DEF Evidenced
      <3>3. CASE \E tok \in TokenCapture(d), pgid \in BOOLEAN : AttachWorker(d, tok, pgid)
        BY <3>1, <3>3, WritesEvidenced
      <3> QED BY <2>10, <3>2, <3>3 DEF AttachWorkerToLease
    <2>11. CASE ClaimAttemptRunning(d)
      BY <2>11 DEF ClaimAttemptRunning, Evidenced
    <2>12. CASE RecordRunningRow(d)
      BY <2>12 DEF RecordRunningRow, Evidenced
    <2>13. CASE StartWatcher(d)
      BY <2>13 DEF StartWatcher, Evidenced
    <2>14. CASE EndFollowing(d)
      BY <2>14 DEF EndFollowing, Evidenced
    <2>15. CASE SignalBeforeSpawn(d)
      <3>1. Surrendered(d)
        BY <2>15 DEF SignalBeforeSpawn, Step, Surrendered
      <3> QED BY <2>15, <3>1, ReleaseOwnedEvidenced DEF SignalBeforeSpawn
    <2>16. CASE FinallyNotSpawned(d)
      BY <2>16, WritesEvidenced DEF FinallyNotSpawned
    <2>17. CASE FinallyDiscardRow(d)
      BY <2>17, WritesEvidenced DEF FinallyDiscardRow
    <2>18. CASE FinallyAmbiguous(d)
      BY <2>18 DEF FinallyAmbiguous, Evidenced
    <2>19. CASE LauncherCommit(d)
      <3>1. CASE rec[d].state = "absent"
        BY <2>19, <3>1 DEF LauncherCommit, Evidenced
      <3>2. CASE rec[d].state # "absent"
        <4>1. rec[d] \in Row /\ rec' = rec /\ TryRelease(d, rec[d])
          BY <2>19, <3>2 DEF LauncherCommit, CommitTerminal, TypeOK
        <4> QED BY <4>1, TryReleaseEvidenced
      <3> QED BY <3>1, <3>2
    <2>20. CASE LauncherProject(d)
      <3>1. verdict[d].launcher \in Alive
        BY DEF TypeOK, Alive
      <3>2. /\ rec'[d] = [rec[d] EXCEPT !.state = "terminal", !.alive = verdict[d].launcher]
            /\ TryRelease(d, [rec[d] EXCEPT !.state = "terminal", !.alive = verdict[d].launcher])
        BY <2>20 DEF LauncherProject, ProjectTerminal, TypeOK
      <3> QED BY <3>1, <3>2, TerminalRow, TryReleaseEvidenced
    <2>21. CASE LauncherRelease(d)
      <3>1. CASE verdict[d].launcher = "false"
        <4>1. Surrendered(d)
          BY <2>21, <3>1 DEF LauncherRelease, Step, Surrendered
        <4> QED BY <2>21, <3>1, <4>1, ReleaseOwnedEvidenced DEF LauncherRelease
      <3>2. CASE verdict[d].launcher # "false"
        BY <2>21, <3>2 DEF LauncherRelease, Evidenced
      <3> QED BY <3>1, <3>2
    <2>22. CASE FinallySpawned(d)
      BY <2>22 DEF FinallySpawned, Evidenced
    <2>23. CASE WaitForCapacity(d)
      BY <2>23 DEF WaitForCapacity, Evidenced
    <2>24. CASE WriteLaunchStatus(d)
      BY <2>24 DEF WriteLaunchStatus, Evidenced
    <2> QED BY <1>1, <2>1, <2>2, <2>3, <2>4, <2>5, <2>6, <2>7, <2>8, <2>9, <2>10, <2>11, <2>12, <2>13, <2>14, <2>15, <2>16, <2>17, <2>18, <2>19, <2>20, <2>21, <2>22, <2>23, <2>24 DEF LauncherStep
  <1>2. ASSUME NEW d \in Dispatches, WatcherStep(d) PROVE Evidenced
    <2>1. CASE WatchConclude(d)
      BY <2>1 DEF WatchConclude, Evidenced
    <2>2. CASE WatchStopped(d)
      BY <2>2 DEF WatchStopped, Evidenced
    <2>3. CASE TerminateIndeterminateWorker(d)
      BY <2>3 DEF TerminateIndeterminateWorker, Evidenced
    <2>4. CASE ReleaseIndeterminateCapacity(d)
      <3>1. rec[d] \in Row /\ rec' = rec /\ TryRelease(d, rec[d])
        BY <2>4 DEF ReleaseIndeterminateCapacity, CommitTerminal, TypeOK
      <3> QED BY <3>1, TryReleaseEvidenced
    <2>5. CASE RetainIndeterminateWorker(d)
      BY <2>5, WritesEvidenced DEF RetainIndeterminateWorker, Evidenced
    <2>6. CASE WatchCommit(d)
      <3>1. rec[d] \in Row /\ rec' = rec /\ TryRelease(d, rec[d])
        BY <2>6 DEF WatchCommit, CommitTerminal, TypeOK
      <3> QED BY <3>1, TryReleaseEvidenced
    <2>7. CASE WatchProject(d)
      <3>1. verdict[d].watcher \in Alive
        BY DEF TypeOK, Alive
      <3>2. /\ rec'[d] = [rec[d] EXCEPT !.state = "terminal", !.alive = verdict[d].watcher]
            /\ TryRelease(d, [rec[d] EXCEPT !.state = "terminal", !.alive = verdict[d].watcher])
        BY <2>7 DEF WatchProject, ProjectTerminal, TypeOK
      <3> QED BY <3>1, <3>2, TerminalRow, TryReleaseEvidenced
    <2> QED BY <1>2, <2>1, <2>2, <2>3, <2>4, <2>5, <2>6, <2>7 DEF WatcherStep
  <1>3. ASSUME NEW d \in Dispatches, ReconcileStep(d) PROVE Evidenced
    <2>1. CASE ReconcileExpired(d)
      <3>1. rec[d] \in Row /\ rec' = rec /\ TryRelease(d, rec[d])
        BY <2>1 DEF ReconcileExpired, CommitTerminal, TypeOK
      <3> QED BY <3>1, TryReleaseEvidenced
    <2>2. CASE ReconcileHydrate(d)
      BY <2>2 DEF ReconcileHydrate, Evidenced
    <2>3. CASE ReconcileDead(d)
      <3>1. rec[d] \in Row /\ rec' = rec /\ TryRelease(d, rec[d])
        BY <2>3 DEF ReconcileDead, CommitTerminal, TypeOK
      <3> QED BY <3>1, TryReleaseEvidenced
    <2>4. CASE ReconcileProject(d)
      <3>1. "false" \in Alive
        BY DEF TypeOK, Alive
      <3>2. /\ rec'[d] = [rec[d] EXCEPT !.state = "terminal", !.alive = "false"]
            /\ TryRelease(d, [rec[d] EXCEPT !.state = "terminal", !.alive = "false"])
        BY <2>4 DEF ReconcileProject, ProjectTerminal, TypeOK
      <3> QED BY <3>1, <3>2, TerminalRow, TryReleaseEvidenced
    <2> QED BY <1>3, <2>1, <2>2, <2>3, <2>4 DEF ReconcileStep
  <1>4. ASSUME NEW d \in Dispatches, OperatorStep(d) PROVE Evidenced
    <2>1. CASE Withdraw(d)
      <3>1. "false" \in Alive
        BY DEF TypeOK, Alive
      <3>2. /\ rec'[d] = [rec[d] EXCEPT !.state = "terminal", !.alive = "false"]
            /\ TryRelease(d, [rec[d] EXCEPT !.state = "terminal", !.alive = "false"])
        BY <2>1 DEF Withdraw, ProjectTerminal, TypeOK
      <3> QED BY <3>1, <3>2, TerminalRow, TryReleaseEvidenced
    <2>2. CASE Supersede(d)
      BY <2>2 DEF Supersede, Evidenced
    <2>3. CASE OperatorRelease(d)
      BY <2>3, WritesEvidenced DEF OperatorRelease
    <2> QED BY <1>4, <2>1, <2>2, <2>3 DEF OperatorStep
  <1>5. ASSUME NEW d \in Dispatches, EnvironmentStep(d) PROVE Evidenced
    <2>1. CASE LauncherCrash(d)
      BY <2>1 DEF LauncherCrash, Evidenced
    <2>2. CASE WatchCrash(d)
      BY <2>2 DEF WatchCrash, Evidenced
    <2>3. CASE ReconcileCrash(d)
      BY <2>3 DEF ReconcileCrash, Evidenced
    <2>4. CASE WorkerExit(d)
      BY <2>4 DEF WorkerExit, Evidenced
    <2>5. CASE KinExit(d)
      BY <2>5 DEF KinExit, Evidenced
    <2>6. CASE PidReuse(d)
      BY <2>6 DEF PidReuse, Evidenced
    <2>7. CASE ReuseExit(d)
      BY <2>7 DEF ReuseExit, Evidenced
    <2>8. CASE ExtendExpiry(d)
      BY <2>8 DEF ExtendExpiry, Evidenced
    <2>9. CASE \E c \in Deadlines : Elapse(d, c)
      BY <2>9 DEF Elapse, Evidenced
    <2>10. CASE ControllerChange(d)
      BY <2>10 DEF ControllerChange, Evidenced
    <2> QED BY <1>5, <2>1, <2>2, <2>3, <2>4, <2>5, <2>6, <2>7, <2>8, <2>9, <2>10 DEF EnvironmentStep
  <1>6. ASSUME NEW d \in Dispatches, CloseAbandoned(d) PROVE Evidenced
    <2>1. lease' = lease
      BY <1>6 DEF CloseAbandoned, Abandonable, CommitTerminal, TryRelease, ReleaseIfGone
    <2> QED BY <2>1 DEF Evidenced
  <1>7. ASSUME NEW keep \in BOOLEAN, ReleaseStale(keep) PROVE Evidenced
    BY <1>7, ReleaseStaleEvidenced DEF ReleaseStale
  <1>8. CASE UNCHANGED vars
    BY <1>8 DEF vars, Evidenced
  <1> QED BY <1>1, <1>2, <1>3, <1>4, <1>5, <1>6, <1>7, <1>8, AbandonedCloses DEF Next

-----------------------------------------------------------------------------
(* The slot of a worker that may live, again *)

(* A claimant that surrenders its lease has no worker. *)
LEMMA LiveNotSurrendered ==
    ASSUME SlotInv, NEW d \in Dispatches, Surrendered(d)
    PROVE  ~WorkerMayLive(d)
  BY DEF Surrendered, SlotInv, BeforeSpawn, WorkerMayLive

(* No ground but an operator's, or a terminal row that overrides it, ends  *)
(* the lease of a worker that may live.                                    *)
LEMMA SlotKeptStep ==
    ASSUME TypeOK, SlotInv, Evidenced, NEW d \in Dispatches,
           WorkerMayLive(d), lease[d].state = "active", lease'[d].state # "active"
    PROVE  lease'[d].operator \/ TerminalRowOverridesWorker(d)
  <1>1. CASE ProvenGone(d)
    <2>1. PICK r \in Row : /\ r = rec'[d] /\ r.wpid = rec[d].wpid
                           /\ TRUE \in TerminalWorkerGone(d, r)
      BY <1>1 DEF ProvenGone
    <2>2. Overridden(d, r)
      BY <2>1, TerminalGoneOverrides
    <2> QED BY <2>1, <2>2 DEF Overridden, TerminalRowOverridesWorker
  <1>2. CASE TRUE \in Stale(d) /\ rec' = rec
    BY <1>2, StaleOverrides DEF Overridden, TerminalRowOverridesWorker
  <1> QED BY <1>1, <1>2, NotExpired, LiveNotSurrendered DEF Evidenced

(* The slot of a worker that may be alive is given up only by an operator  *)
(* or on a terminal row written over an unattached worker, whatever fails, *)
(* stalls, cannot be probed or is reused.  The invariant says where the    *)
(* launcher can be while a worker exists, so that a claimant surrendering  *)
(* its lease has none, and that such a lease is not merely reserved.       *)
THEOREM SlotSafe == Spec => LiveWorkerKeepsSlot
  <1>1. Init => SlotInv
    BY DEF Init, SlotInv, WorkerMayLive, BeforeSpawn, AfterSpawn, NoLease, NoRow,
           NoAttempt
  <1>2. TypeOK /\ SlotInv /\ [Next]_vars => SlotInv'
    BY SlotStep
  <1>3. TypeOK /\ SlotInv /\ [Next]_vars =>
          [\A d \in Dispatches :
             (/\ WorkerMayLive(d) /\ lease[d].state = "active"
              /\ lease'[d].state # "active")
             => lease'[d].operator \/ TerminalRowOverridesWorker(d)]_vars
    BY EvidencedStep, SlotKeptStep
  <1> QED BY <1>1, <1>2, <1>3, TypeCorrect, PTL DEF Spec, LiveWorkerKeepsSlot

-----------------------------------------------------------------------------
(* The slot of a dead worker with live descendants *)

(* A lease that names a process group names its leader. *)
GroupRecorded == \A d \in Dispatches : lease[d].wpgid => lease[d].wpid

(* Descendants outlive only a worker that ran and is gone, and its pid is  *)
(* nobody else's while they live.                                          *)
KinOfDead == \A d \in kin : proc[d] = "gone"

KinInv == GroupRecorded /\ KinOfDead

(* The operations on capacity.json record a group only with its leader. *)
LEMMA OperationsRecordGroup ==
    ASSUME TypeOK, GroupRecorded, NEW d \in Dispatches
    PROVE  /\ CmdAcquire(d) => GroupRecorded'
           /\ \A keep : CmdReleaseStale(keep) => GroupRecorded'
           /\ \A r : TryRelease(d, r) => GroupRecorded'
           /\ ReleaseOwned(d) => GroupRecorded'
           /\ MarkLeaseSpawning(d) => GroupRecorded'
           /\ MarkLeaseSpawnFailed(d) => GroupRecorded'
           /\ \A tok, pgid \in BOOLEAN : AttachWorker(d, tok, pgid) => GroupRecorded'
           /\ RetainIndeterminate(d) => GroupRecorded'
           /\ ReleaseOperatorConfirmed(d) \/ ReleaseUnknownClaimant(d) => GroupRecorded'
  <1>1. \A l \in Lease : /\ Ended(l).wpid = l.wpid /\ Ended(l).wpgid = l.wpgid
                         /\ Dropped(l).wpid = l.wpid /\ Dropped(l).wpgid = l.wpgid
    BY DEF Ended, Dropped, Lease
  <1>2. \A E : \A e \in Dispatches : Pruned(E)[e].wpgid => Pruned(E)[e].wpid
    BY <1>1 DEF TypeOK, GroupRecorded, Pruned
  <1>3. CmdAcquire(d) => GroupRecorded'
    <2> SUFFICES ASSUME CmdAcquire(d) PROVE GroupRecorded'
      OBVIOUS
    <2>1. PICK E : lease' = [Pruned(E) EXCEPT ![d] = NewLease]
      BY DEF CmdAcquire
    <2>2. Pruned(E) \in [Dispatches -> Lease]
      BY PrunedType DEF TypeOK
    <2>3. ~NewLease.wpgid
      BY DEF NewLease, NoLease
    <2> QED BY <1>2, <2>1, <2>2, <2>3 DEF GroupRecorded
  <1>4. ASSUME NEW keep, CmdReleaseStale(keep) PROVE GroupRecorded'
    <2>1. PICK E : \A e \in Dispatches :
                     lease'[e] \in {Ended(lease[e]), Dropped(lease[e]), Pruned(E)[e]}
      BY <1>4 DEF CmdReleaseStale
    <2>2. \A e \in Dispatches : lease'[e].wpgid => lease'[e].wpid
      BY <1>1, <1>2, <2>1 DEF TypeOK, GroupRecorded
    <2> QED BY <2>2 DEF GroupRecorded
  <1>5. ReleaseOwned(d) => GroupRecorded'
    BY <1>1 DEF TypeOK, GroupRecorded, ReleaseOwned
  <1>6. \A r : TryRelease(d, r) => GroupRecorded'
    BY <1>1 DEF TypeOK, GroupRecorded, TryRelease, ReleaseIfGone
  <1>7. /\ MarkLeaseSpawning(d) => GroupRecorded'
        /\ MarkLeaseSpawnFailed(d) => GroupRecorded'
    <2>1. \A x : /\ [lease[d] EXCEPT !.launch = x].wpid = lease[d].wpid
                 /\ [lease[d] EXCEPT !.launch = x].wpgid = lease[d].wpgid
      BY DEF TypeOK, Lease
    <2>2. \A x : lease' = [lease EXCEPT ![d].launch = x] => GroupRecorded'
      BY <2>1 DEF TypeOK, GroupRecorded
    <2> QED BY <2>2 DEF GroupRecorded, MarkLeaseSpawning, MarkLeaseSpawnFailed
  <1>8. \A tok, pgid \in BOOLEAN : AttachWorker(d, tok, pgid) => GroupRecorded'
    BY DEF TypeOK, Lease, GroupRecorded, AttachWorker
  <1>9. RetainIndeterminate(d) => GroupRecorded'
    <2>1. LET l == [lease[d] EXCEPT !.state = "active", !.retained = TRUE]
          IN  l.wpid = lease[d].wpid /\ l.wpgid = lease[d].wpgid
      BY DEF TypeOK, Lease
    <2> QED BY <2>1 DEF TypeOK, GroupRecorded, RetainIndeterminate
  <1>10. /\ [Ended(lease[d]) EXCEPT !.operator = TRUE].wpid = lease[d].wpid
         /\ [Ended(lease[d]) EXCEPT !.operator = TRUE].wpgid = lease[d].wpgid
    BY DEF TypeOK, Lease, Ended
  <1>11. ReleaseOperatorConfirmed(d) \/ ReleaseUnknownClaimant(d) => GroupRecorded'
    BY <1>10 DEF TypeOK, GroupRecorded, ReleaseOperatorConfirmed, ReleaseUnknownClaimant
  <1> QED BY <1>3, <1>4, <1>5, <1>6, <1>7, <1>8, <1>9, <1>11

(* Every step keeps it. *)
LEMMA KinStep ==
    ASSUME TypeOK, SlotInv, KinInv, [Next]_vars
    PROVE  KinInv'
  <1> USE DEF KinInv
  <1>1. ASSUME NEW d \in Dispatches, LauncherStep(d) PROVE KinInv'
    <2>1. CASE RecordWaitingJournal(d)
      BY <2>1 DEF RecordWaitingJournal, GroupRecorded, KinOfDead
    <2>2. CASE RecordWaitingRow(d)
      BY <2>2 DEF RecordWaitingRow, GroupRecorded, KinOfDead
    <2>3. CASE AcquireCapacity(d)
      BY <2>3, OperationsRecordGroup DEF AcquireCapacity, GroupRecorded, KinOfDead
    <2>4. CASE CapacityBlocked(d)
      BY <2>4 DEF CapacityBlocked, GroupRecorded, KinOfDead
    <2>5. CASE RecordStartingJournal(d)
      BY <2>5 DEF RecordStartingJournal, GroupRecorded, KinOfDead
    <2>6. CASE RecordStartingRow(d)
      BY <2>6 DEF RecordStartingRow, GroupRecorded, KinOfDead
    <2>7. CASE AttemptClaimingWorkerArgv(d)
      BY <2>7 DEF AttemptClaimingWorkerArgv, GroupRecorded, KinOfDead
    <2>8. CASE EnterSpawn(d)
      BY <2>8, OperationsRecordGroup DEF EnterSpawn, GroupRecorded, KinOfDead
    <2>9. CASE SpawnWorker(d)
      BY <2>9 DEF SpawnWorker, GroupRecorded, KinOfDead, SlotInv, TypeOK, Step, BeforeSpawn
    <2>10. CASE AttachWorkerToLease(d)
      <3>1. TokenCapture(d) \subseteq BOOLEAN
        BY DEF TokenCapture, Blind
      <3> QED BY <2>10, <3>1, OperationsRecordGroup DEF AttachWorkerToLease, GroupRecorded, KinOfDead
    <2>11. CASE ClaimAttemptRunning(d)
      BY <2>11 DEF ClaimAttemptRunning, GroupRecorded, KinOfDead
    <2>12. CASE RecordRunningRow(d)
      BY <2>12 DEF RecordRunningRow, GroupRecorded, KinOfDead
    <2>13. CASE StartWatcher(d)
      BY <2>13 DEF StartWatcher, GroupRecorded, KinOfDead
    <2>14. CASE EndFollowing(d)
      BY <2>14 DEF EndFollowing, GroupRecorded, KinOfDead
    <2>15. CASE SignalBeforeSpawn(d)
      BY <2>15, OperationsRecordGroup DEF SignalBeforeSpawn, GroupRecorded, KinOfDead
    <2>16. CASE FinallyNotSpawned(d)
      BY <2>16, OperationsRecordGroup DEF FinallyNotSpawned, GroupRecorded, KinOfDead
    <2>17. CASE FinallyDiscardRow(d)
      BY <2>17, OperationsRecordGroup DEF FinallyDiscardRow, GroupRecorded, KinOfDead
    <2>18. CASE FinallyAmbiguous(d)
      BY <2>18 DEF FinallyAmbiguous, GroupRecorded, KinOfDead
    <2>19. CASE LauncherCommit(d)
      BY <2>19, OperationsRecordGroup DEF LauncherCommit, GroupRecorded, KinOfDead, CommitTerminal
    <2>20. CASE LauncherProject(d)
      BY <2>20, OperationsRecordGroup DEF LauncherProject, GroupRecorded, KinOfDead, ProjectTerminal
    <2>21. CASE LauncherRelease(d)
      BY <2>21, OperationsRecordGroup DEF LauncherRelease, GroupRecorded, KinOfDead
    <2>22. CASE FinallySpawned(d)
      BY <2>22 DEF FinallySpawned, GroupRecorded, KinOfDead
    <2>23. CASE WaitForCapacity(d)
      BY <2>23 DEF WaitForCapacity, GroupRecorded, KinOfDead
    <2>24. CASE WriteLaunchStatus(d)
      BY <2>24 DEF WriteLaunchStatus, GroupRecorded, KinOfDead
    <2> QED BY <1>1, <2>1, <2>2, <2>3, <2>4, <2>5, <2>6, <2>7, <2>8, <2>9, <2>10, <2>11, <2>12, <2>13, <2>14, <2>15, <2>16, <2>17, <2>18, <2>19, <2>20, <2>21, <2>22, <2>23, <2>24 DEF LauncherStep
  <1>2. ASSUME NEW d \in Dispatches, WatcherStep(d) PROVE KinInv'
    <2>1. CASE WatchConclude(d)
      BY <2>1 DEF WatchConclude, GroupRecorded, KinOfDead
    <2>2. CASE WatchStopped(d)
      BY <2>2 DEF WatchStopped, GroupRecorded, KinOfDead
    <2>3. CASE TerminateIndeterminateWorker(d)
      BY <2>3 DEF TerminateIndeterminateWorker, GroupRecorded, KinOfDead, TypeOK
    <2>4. CASE ReleaseIndeterminateCapacity(d)
      BY <2>4, OperationsRecordGroup DEF ReleaseIndeterminateCapacity, GroupRecorded, KinOfDead
    <2>5. CASE RetainIndeterminateWorker(d)
      BY <2>5, OperationsRecordGroup DEF RetainIndeterminateWorker, GroupRecorded, KinOfDead
    <2>6. CASE WatchCommit(d)
      BY <2>6, OperationsRecordGroup DEF WatchCommit, GroupRecorded, KinOfDead, CommitTerminal
    <2>7. CASE WatchProject(d)
      BY <2>7, OperationsRecordGroup DEF WatchProject, GroupRecorded, KinOfDead, ProjectTerminal
    <2> QED BY <1>2, <2>1, <2>2, <2>3, <2>4, <2>5, <2>6, <2>7 DEF WatcherStep
  <1>3. ASSUME NEW d \in Dispatches, ReconcileStep(d) PROVE KinInv'
    <2>1. CASE ReconcileExpired(d)
      BY <2>1, OperationsRecordGroup DEF ReconcileExpired, GroupRecorded, KinOfDead, CommitTerminal
    <2>2. CASE ReconcileHydrate(d)
      BY <2>2 DEF ReconcileHydrate, GroupRecorded, KinOfDead
    <2>3. CASE ReconcileDead(d)
      BY <2>3, OperationsRecordGroup DEF ReconcileDead, GroupRecorded, KinOfDead, CommitTerminal
    <2>4. CASE ReconcileProject(d)
      BY <2>4, OperationsRecordGroup DEF ReconcileProject, GroupRecorded, KinOfDead, ProjectTerminal
    <2> QED BY <1>3, <2>1, <2>2, <2>3, <2>4 DEF ReconcileStep
  <1>4. ASSUME NEW d \in Dispatches, OperatorStep(d) PROVE KinInv'
    <2>1. CASE Withdraw(d)
      BY <2>1, OperationsRecordGroup DEF Withdraw, GroupRecorded, KinOfDead
    <2>2. CASE Supersede(d)
      BY <2>2 DEF Supersede, GroupRecorded, KinOfDead
    <2>3. CASE OperatorRelease(d)
      BY <2>3, OperationsRecordGroup DEF OperatorRelease, GroupRecorded, KinOfDead
    <2> QED BY <1>4, <2>1, <2>2, <2>3 DEF OperatorStep
  <1>5. ASSUME NEW d \in Dispatches, EnvironmentStep(d) PROVE KinInv'
    <2>1. CASE LauncherCrash(d)
      BY <2>1 DEF LauncherCrash, GroupRecorded, KinOfDead, SlotInv, TypeOK, BeforeSpawn
    <2>2. CASE WatchCrash(d)
      BY <2>2 DEF WatchCrash, GroupRecorded, KinOfDead
    <2>3. CASE ReconcileCrash(d)
      BY <2>3 DEF ReconcileCrash, GroupRecorded, KinOfDead
    <2>4. CASE WorkerExit(d)
      BY <2>4 DEF WorkerExit, GroupRecorded, KinOfDead, TypeOK
    <2>5. CASE KinExit(d)
      BY <2>5 DEF KinExit, GroupRecorded, KinOfDead, TypeOK
    <2>6. CASE PidReuse(d)
      BY <2>6 DEF PidReuse, GroupRecorded, KinOfDead, TypeOK
    <2>7. CASE ReuseExit(d)
      BY <2>7 DEF ReuseExit, GroupRecorded, KinOfDead, TypeOK
    <2>8. CASE ExtendExpiry(d)
      BY <2>8 DEF ExtendExpiry, GroupRecorded, KinOfDead
    <2>9. CASE \E c \in Deadlines : Elapse(d, c)
      BY <2>9 DEF Elapse, GroupRecorded, KinOfDead
    <2>10. CASE ControllerChange(d)
      BY <2>10 DEF ControllerChange, GroupRecorded, KinOfDead, TypeOK
    <2> QED BY <1>5, <2>1, <2>2, <2>3, <2>4, <2>5, <2>6, <2>7, <2>8, <2>9, <2>10 DEF EnvironmentStep
  <1>6. ASSUME NEW d \in Dispatches, CloseAbandoned(d) PROVE KinInv'
    BY <1>6, OperationsRecordGroup DEF CloseAbandoned, Abandonable, CommitTerminal, KinOfDead
  <1>7. ASSUME NEW keep \in BOOLEAN, ReleaseStale(keep) PROVE KinInv'
    <2>1. GroupRecorded'
      <3>1. CASE Dispatches = {}
        BY <3>1 DEF GroupRecorded
      <3>2. CASE Dispatches # {}
        BY <1>7, <3>2, OperationsRecordGroup DEF ReleaseStale
      <3> QED BY <3>1, <3>2
    <2> QED BY <1>7, <2>1 DEF ReleaseStale, KinOfDead
  <1>8. CASE UNCHANGED vars
    BY <1>8 DEF vars, GroupRecorded, KinOfDead
  <1> QED BY <1>1, <1>2, <1>3, <1>4, <1>5, <1>6, <1>7, <1>8, AbandonedCloses DEF Next

(* Descendants whose group is recorded hold the slot as long as the group  *)
(* can be probed or its retention window is open.                          *)
KinHolds(d) ==
    /\ d \in kin /\ lease[d].wpgid
    /\ "blind" \notin Faults \/ RetentionOpen(d)

(* Their leader is not found alive, and they are, or cannot be probed. *)
LEMMA KinProbes ==
    ASSUME KinOfDead, NEW d \in kin
    PROVE  /\ PidProbe(d) \subseteq {"absent", "unknown"}
           /\ GroupProbe(d) \subseteq {"alive"} \cup Blind("unknown")
  BY DEF KinOfDead, PidProbe, GroupProbe, Blind

(* No evidence that includes their group proves the worker's scope gone. *)
LEMMA KinNotGone ==
    ASSUME KinOfDead, NEW d, KinHolds(d), NEW w \in Worker, w.pgid
    PROVE  TRUE \notin WorkerGone(d, w)
  <1>1. ASSUME NEW b \in AttachedWorkerGroupHoldsCapacity(d, w) PROVE b
    <2>1. PICK p \in PidProbe(d), m \in GenerationMatches(d, w.tok),
               g \in GroupProbe(d), h \in PidHoldsCapacity(d, w) :
             b = GroupVerdict(d, p, m, g, h)
      BY DEF AttachedWorkerGroupHoldsCapacity
    <2>2. /\ p \in {"absent", "unknown"}
          /\ g = "alive" \/ (g = "unknown" /\ RetentionOpen(d))
      BY KinProbes DEF KinHolds, Blind
    <2> QED BY <2>1, <2>2 DEF GroupVerdict
  <1> QED BY <1>1 DEF WorkerGone

(* So neither a release, nor a stale pass, nor an expiry takes their slot. *)
LEMMA KinNotTaken ==
    ASSUME TypeOK, KinInv, NEW d \in Dispatches, KinHolds(d)
    PROVE  /\ \A r \in Row : TRUE \notin TerminalWorkerGone(d, r)
           /\ TRUE \notin Stale(d)
           /\ TRUE \notin LeasePidsDead(d)
  <1>1. lease[d] \in Lease /\ rec[d] \in Row /\ lease[d].wpid /\ lease[d].wpgid
    BY DEF TypeOK, KinInv, GroupRecorded, KinHolds
  <1>2. ASSUME NEW r \in Row
        PROVE  /\ WorkerLeaseView(d, r).pid
               /\ TRUE \notin WorkerGone(d, WorkerLeaseView(d, r))
    <2>1. /\ WorkerLeaseView(d, r) \in Worker
          /\ WorkerLeaseView(d, r).pid /\ WorkerLeaseView(d, r).pgid
      BY <1>1 DEF WorkerLeaseView, Worker, Lease, Row
    <2> QED BY <2>1, KinNotGone DEF KinInv
  <1>3. TRUE \notin WorkerGone(d, View(lease[d]))
    <2>1. View(lease[d]) \in Worker /\ View(lease[d]).pgid
      BY <1>1 DEF View, Worker, Lease
    <2> QED BY <2>1, KinNotGone DEF KinInv
  <1>4. \A r \in Row : TRUE \notin TerminalWorkerGone(d, r)
    BY <1>2 DEF TerminalWorkerGone
  <1>5. ReclaimablePrelaunchLease(d) = {FALSE}
    BY <1>1 DEF ReclaimablePrelaunchLease
  <1>6. TRUE \notin Stale(d)
    BY <1>1, <1>2, <1>4, <1>5 DEF Stale
  <1> QED BY <1>3, <1>4, <1>6 DEF LeasePidsDead

(* Only a person, or the launcher on its last step, ends such a lease. *)
LEMMA KinKeptStep ==
    ASSUME TypeOK, SlotInv, KinInv, Evidenced, NEW d \in kin, lease[d].wpgid,
           lease[d].state = "active", lease'[d].state # "active"
    PROVE  \/ lease'[d].operator
           \/ pc[d] = "releasing"
           \/ "blind" \in Faults /\ ~RetentionOpen(d)
  <1>1. d \in Dispatches /\ proc[d] = "gone"
    BY DEF TypeOK, KinInv, KinOfDead
  <1>2. SUFFICES ASSUME KinHolds(d)
                 PROVE  lease'[d].operator \/ pc[d] = "releasing"
    BY DEF KinHolds
  <1>3. ~ProvenGone(d) /\ TRUE \notin Stale(d) /\ TRUE \notin LeasePidsDead(d)
    BY <1>1, <1>2, KinNotTaken DEF ProvenGone
  <1>4. Surrendered(d) => pc[d] = "releasing"
    BY <1>1 DEF Surrendered, SlotInv, BeforeSpawn
  <1> QED BY <1>1, <1>3, <1>4 DEF Evidenced

(* The slot of a dead worker whose descendants live in its recorded group  *)
(* is given up only by an operator, by the worker's own launcher, or when  *)
(* the group could not be probed until its retention window closed.        *)
THEOREM DescendantsSafe == Spec => DescendantsKeepSlot
  <1>1. Init => SlotInv /\ KinInv
    BY DEF Init, SlotInv, WorkerMayLive, BeforeSpawn, AfterSpawn, NoLease, NoRow,
           NoAttempt, KinInv, GroupRecorded, KinOfDead
  <1>2. TypeOK /\ SlotInv /\ KinInv /\ [Next]_vars => SlotInv' /\ KinInv'
    BY SlotStep, KinStep
  <1>3. TypeOK /\ SlotInv /\ KinInv /\ [Next]_vars =>
          [\A d \in kin :
             (/\ lease[d].state = "active" /\ lease[d].wpgid
              /\ lease'[d].state # "active")
             => \/ lease'[d].operator
                \/ pc[d] = "releasing"
                \/ "blind" \in Faults /\ ~RetentionOpen(d)]_vars
    BY EvidencedStep, KinKeptStep
  <1> QED BY <1>1, <1>2, <1>3, TypeCorrect, PTL DEF Spec, DescendantsKeepSlot
=============================================================================
