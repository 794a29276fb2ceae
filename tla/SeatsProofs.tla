---------------------------- MODULE SeatsProofs ----------------------------
(***************************************************************************)
(* Proofs about module Seats, for every set of dispatches, every relation  *)
(* of resumes, every number of seats, edits and faults.                    *)
(***************************************************************************)
EXTENDS Seats, TLAPS

(* The stages of a launcher that owns its seat's lock, those in which the  *)
(* checkout is there and its own, and those a worker may live in.          *)
Holding == {"claimed", "examined", "headed", "quarantined", "fresh", "created",
            "attached", "seated", "starting", "spawned"}
Bound == {"fresh", "created", "attached", "seated", "starting", "spawned"}
Launched == {"spawned", "dropped", "done", "dead"}

(* What TypeOK says of a row and of a checkout. *)
RowStates == {"none", "queued", "starting", "running", "terminal"}
Rows == [state : RowStates, known : BOOLEAN, prelaunch : BOOLEAN, aged : BOOLEAN]
Checkouts == [there : BOOLEAN, branch : Dispatches \cup {None}, dirty : SUBSET Work]

(* A launcher between its claim and the end of its part holds the lock of  *)
(* the seat it works on; a refused one still knows which seat it was.      *)
Holders ==
    \A d \in Dispatches :
        /\ pc[d] \in Holding => seat[d] \in Seats /\ L(d) \in flock[seat[d]]
        /\ pc[d] = "refused" => seat[d] \in Seats

(* A live worker has the descriptor it inherited.                          *)
Workers ==
    \A d \in Dispatches :
        worker[d] = "live" =>
            /\ seat[d] \in Seats /\ W(d) \in flock[seat[d]]
            /\ pc[d] \in Launched

(* All who share a lock belong to one dispatch, or are the collector.      *)
OneHolder == \A s \in Seats : \A x, y \in flock[s] : x[2] = y[2]

(* A checkout is on a dispatch's branch; one that is gone holds nothing.   *)
Trees ==
    \A s \in Seats :
        /\ tree[s].there => tree[s].branch \in Dispatches
        /\ ~tree[s].there => tree[s].dirty = {}

(* The checkout of a launcher past its reset, and of a live worker, is     *)
(* there.                                                                  *)
Stands ==
    \A d \in Dispatches :
        worker[d] = "live" \/ pc[d] \in Bound => tree[seat[d]].there

(* What a launcher is about to clean has been kept.                        *)
Kept ==
    \A d \in Dispatches : pc[d] = "quarantined" => tree[seat[d]].dirty \subseteq kept

(* A removal under way is of a seat. *)
Target == gc.pc # "idle" => gc.seat \in Seats

SeatInv ==
    /\ TypeOK /\ Holders /\ Workers /\ OneHolder /\ Trees /\ Stands /\ Kept /\ Target

-----------------------------------------------------------------------------
(* Processes have different names, which say whose they are.               *)
LEMMA ProcNames ==
    /\ \A d, e \in Dispatches :
         /\ L(d) # W(e) /\ L(d) # GC /\ W(d) # GC
         /\ L(d) = L(e) => d = e
         /\ W(d) = W(e) => d = e
         /\ L(d) \in Procs /\ W(d) \in Procs
         /\ L(d)[2] = d /\ W(d)[2] = d
    /\ GC \in Procs /\ GC[2] = None /\ None \notin Dispatches
  BY SeatsAssumption DEF L, W, GC, Procs

(* A seat with an owner has no other: nobody who holds a lock, alive or as *)
(* a launcher, shares its seat with another dispatch.                      *)
LEMMA SeatAlone ==
    ASSUME SeatInv, NEW d \in Dispatches, NEW e \in Dispatches,
           seat[d] = seat[e],
           pc[d] \in Holding \/ worker[d] = "live",
           pc[e] \in Holding \/ worker[e] = "live"
    PROVE  d = e
  <1>1. seat[d] \in Seats
    BY DEF SeatInv, Holders, Workers
  <1>2. (L(d) \in flock[seat[d]] \/ W(d) \in flock[seat[d]])
        /\ (L(e) \in flock[seat[d]] \/ W(e) \in flock[seat[d]])
    BY DEF SeatInv, Holders, Workers
  <1> QED
    BY <1>1, <1>2, ProcNames DEF SeatInv, OneHolder

-----------------------------------------------------------------------------
(* Types.  One lemma per group of actions, one step per action.            *)

(* Closing a descriptor keeps the locks well typed. *)
LEMMA CloseType ==
    ASSUME TypeOK, NEW p, NEW s, Close(p, s)
    PROVE  flock' \in [Seats -> SUBSET Procs] /\ occ' \in [Seats -> SUBSET Procs]
BY DEF TypeOK, Close

(* A row whose state moves on, or which learns something, is a row. *)
LEMMA RowTypes ==
    ASSUME TypeOK, NEW d \in Dispatches, NEW x \in RowStates
    PROVE  /\ [row EXCEPT ![d].state = x] \in [Dispatches -> Rows]
           /\ [row EXCEPT ![d].state = x, ![d].known = TRUE] \in [Dispatches -> Rows]
           /\ [row EXCEPT ![d].state = x, ![d].prelaunch = TRUE] \in [Dispatches -> Rows]
           /\ [row EXCEPT ![d].aged = TRUE] \in [Dispatches -> Rows]
<1>1. row \in [Dispatches -> Rows] /\ row[d] \in Rows
  BY DEF TypeOK, Rows, RowStates
<1>2. /\ [row[d] EXCEPT !.state = x] \in Rows
      /\ [row[d] EXCEPT !.state = x, !.known = TRUE] \in Rows
      /\ [row[d] EXCEPT !.state = x, !.prelaunch = TRUE] \in Rows
      /\ [row[d] EXCEPT !.aged = TRUE] \in Rows
  BY <1>1 DEF Rows
<1> QED
  BY <1>1, <1>2

(* A checkout that is replaced, edited or committed is a checkout. *)
LEMMA TreeTypes ==
    ASSUME TypeOK, NEW s, NEW w \in SUBSET Work
    PROVE  [tree EXCEPT ![s].dirty = w] \in [Seats -> Checkouts]
<1>1. tree \in [Seats -> Checkouts]
  BY DEF TypeOK, Checkouts
<1>2. \A c \in Checkouts : [c EXCEPT !.dirty = w] \in Checkouts
  BY DEF Checkouts
<1> QED
  BY <1>1, <1>2

(* So does taking a lock. *)
LEMMA TakeType ==
    ASSUME TypeOK, NEW d \in Dispatches, NEW s
    PROVE  /\ [flock EXCEPT ![s] = {L(d)}] \in [Seats -> SUBSET Procs]
           /\ [occ EXCEPT ![s] = {L(d)}] \in [Seats -> SUBSET Procs]
<1>1. {L(d)} \in SUBSET Procs
  BY ProcNames
<1>2. flock \in [Seats -> SUBSET Procs] /\ occ \in [Seats -> SUBSET Procs]
  BY DEF TypeOK
<1> QED
  BY <1>1, <1>2

(* What a step that moves a row may change besides. *)
LEMMA RowStep ==
    ASSUME TypeOK, row' \in [Dispatches -> Rows],
           pc' \in [Dispatches -> Alive \cup {"idle", "done", "dead"}],
           meta' \in [Seats -> Dispatches \cup {None}],
           flock' \in [Seats -> SUBSET Procs], occ' \in [Seats -> SUBSET Procs],
           UNCHANGED <<tree, git, alloc, hwm, self, worker, gc, wrote, faults>>
    PROVE  TypeOK'
<1>1. /\ tree' = tree /\ tip' = tip /\ saved' = saved /\ kept' = kept
      /\ merged' = merged /\ alloc' = alloc /\ hwm' = hwm /\ seat' = seat
      /\ tried' = tried /\ branch' = branch /\ worker' = worker /\ gc' = gc
      /\ wrote' = wrote /\ faults' = faults
  BY DEF git, self
<1> QED
  BY <1>1 DEF TypeOK, Rows, RowStates

(* The actions that move a row keep the types. *)
LEMMA TypeRows ==
    ASSUME TypeOK, NEW d \in Dispatches,
           \/ Submit(d) \/ RecordStarting(d) \/ RecordRunning(d) \/ Fail(d)
           \/ Reconcile(d) \/ Verdict(d) \/ Withdraw(d) \/ Age(d)
    PROVE  TypeOK'
<1>1. /\ pc \in [Dispatches -> Alive \cup {"idle", "done", "dead"}]
      /\ meta \in [Seats -> Dispatches \cup {None}]
      /\ flock \in [Seats -> SUBSET Procs] /\ occ \in [Seats -> SUBSET Procs]
  BY DEF TypeOK
<1>2. row' \in [Dispatches -> Rows]
  <2>1. /\ [row EXCEPT ![d].state = "queued"] \in [Dispatches -> Rows]
        /\ [row EXCEPT ![d].state = "starting"] \in [Dispatches -> Rows]
        /\ [row EXCEPT ![d].state = "terminal"] \in [Dispatches -> Rows]
        /\ [row EXCEPT ![d].state = "terminal", ![d].prelaunch = TRUE]
             \in [Dispatches -> Rows]
        /\ [row EXCEPT ![d].aged = TRUE] \in [Dispatches -> Rows]
    BY RowTypes DEF RowStates
  <2>2. CASE RecordRunning(d)
    <3>1. \A x \in RowStates :
            [row EXCEPT ![d].state = x, ![d].known = TRUE] \in [Dispatches -> Rows]
      BY RowTypes
    <3>2. (IF row[d].state = "terminal" THEN row[d].state ELSE "running") \in RowStates
      BY DEF RowStates
    <3>3. row' = [row EXCEPT ![d].state = IF row[d].state = "terminal" THEN row[d].state
                                          ELSE "running",
                             ![d].known = TRUE]
      BY <2>2 DEF RecordRunning
    <3> QED
      BY <3>1, <3>2, <3>3
  <2> QED
    BY <2>1, <2>2 DEF Submit, RecordStarting, Fail, Reconcile, Verdict, Withdraw, Age
<1>3. pc' \in [Dispatches -> Alive \cup {"idle", "done", "dead"}]
  BY <1>1 DEF Submit, RecordStarting, RecordRunning, Fail, Reconcile, Verdict, Withdraw,
              Age, Alive
<1>4. meta' \in [Seats -> Dispatches \cup {None}]
  BY <1>1 DEF Submit, RecordStarting, RecordRunning, Fail, Reconcile, Verdict, Withdraw,
              Age, ReleaseWithdrawn
<1>5. flock' \in [Seats -> SUBSET Procs] /\ occ' \in [Seats -> SUBSET Procs]
  <2>1. CASE Fail(d)
    BY <1>1, <2>1, CloseType DEF Fail, locks
  <2> QED
    BY <1>1, <2>1 DEF Submit, RecordStarting, RecordRunning, Reconcile, Verdict, Withdraw,
              Age, locks
<1>6. UNCHANGED <<tree, git, alloc, hwm, self, worker, gc, wrote, faults>>
  BY DEF Submit, RecordStarting, RecordRunning, Fail, Reconcile, Verdict, Withdraw, Age
<1> QED
  BY <1>2, <1>3, <1>4, <1>5, <1>6, RowStep

(* The worker inherits the descriptors. *)
LEMMA TypeSpawn ==
    ASSUME TypeOK, NEW d \in Dispatches, Spawn(d)
    PROVE  TypeOK'
<1>1. /\ flock \in [Seats -> SUBSET Procs] /\ occ \in [Seats -> SUBSET Procs]
      /\ W(d) \in Procs
  BY ProcNames DEF TypeOK
<1>2. /\ flock' = [flock EXCEPT ![seat[d]] = flock[seat[d]] \cup {W(d)}]
      /\ occ' = [occ EXCEPT ![seat[d]] = IF L(d) \in occ[seat[d]]
                                        THEN occ[seat[d]] \cup {W(d)} ELSE occ[seat[d]]]
  BY DEF Spawn
<1>3. flock' \in [Seats -> SUBSET Procs]
  BY <1>1, <1>2
<1>4. occ' \in [Seats -> SUBSET Procs]
  BY <1>1, <1>2
<1>5. /\ pc' \in [Dispatches -> Alive \cup {"idle", "done", "dead"}]
      /\ worker' \in [Dispatches -> {"unborn", "live", "gone"}]
  BY DEF TypeOK, Spawn, Alive
<1>6. UNCHANGED <<tree, tip, saved, kept, merged, meta, alloc, hwm, seat, tried, branch,
                  row, gc, wrote, faults>>
  BY DEF Spawn, git, self
<1> QED
  BY <1>3, <1>4, <1>5, <1>6 DEF TypeOK

(* Choosing a seat keeps the types. *)
LEMMA TypeChoosing ==
    ASSUME SeatInv, NEW d \in Dispatches, NEW s \in Seats,
           \/ Submit(d) \/ Begin(d) \/ Claim(d, s) \/ PassOver(d, s)
           \/ CreateNextSlot(d) \/ Unavailable(d) \/ NextCandidate(d)
    PROVE  TypeOK'
<1> USE SeatsAssumption DEF TypeOK, git, locks, self, Alive, Seats
<1>1. TypeOK
  BY DEF SeatInv
<1>2. CASE Submit(d)
  BY <1>1, <1>2, TypeRows
<1>3. CASE Begin(d)
  BY <1>1, <1>3 DEF Begin
<1>4. CASE Claim(d, s)
  BY <1>1, <1>4, TakeType DEF Claim
<1>5. CASE PassOver(d, s)
  BY <1>1, <1>5 DEF PassOver
<1>6. CASE CreateNextSlot(d)
  BY <1>1, <1>6 DEF CreateNextSlot
<1>7. CASE Unavailable(d)
  BY <1>1, <1>7 DEF Unavailable
<1>8. CASE NextCandidate(d)
  BY <1>1, <1>8 DEF NextCandidate, SeatInv, Holders
<1> QED
  BY <1>2, <1>3, <1>4, <1>5, <1>6, <1>7, <1>8

(* Writing the occupant down keeps the types. *)
LEMMA TypeOccupant ==
    ASSUME TypeOK, NEW d \in Dispatches, WriteOccupant(d)
    PROVE  TypeOK'
<1>1. {L(d)} \in SUBSET Procs /\ occ \in [Seats -> SUBSET Procs]
  BY ProcNames DEF TypeOK
<1>2. occ' = [occ EXCEPT ![seat[d]] = IF pc[d] = "fresh" THEN {} ELSE {L(d)}]
  BY DEF WriteOccupant
<1>3. occ' \in [Seats -> SUBSET Procs]
  BY <1>1, <1>2
<1>4. /\ pc' \in [Dispatches -> Alive \cup {"idle", "done", "dead"}]
      /\ meta' \in [Seats -> Dispatches \cup {None}]
  BY DEF TypeOK, WriteOccupant, Alive
<1>5. UNCHANGED <<tree, tip, saved, kept, merged, flock, alloc, hwm, seat, tried, branch,
                  worker, row, gc, wrote, faults>>
  BY DEF WriteOccupant, git, self
<1> QED
  BY <1>3, <1>4, <1>5 DEF TypeOK

(* So does preparing it, *)
LEMMA TypePreparing ==
    ASSUME SeatInv, NEW d \in Dispatches,
           \/ Examine(d) \/ RefuseHolder(d) \/ SaveHead(d) \/ RefuseOverwrite(d)
           \/ QuarantineDirty(d) \/ GitFails(d) \/ Checkout(d) \/ CreateTree(d)
           \/ WriteOccupant(d)
    PROVE  TypeOK'
<1> USE SeatsAssumption DEF TypeOK, git, locks, self, Alive
<1>1. TypeOK
  BY DEF SeatInv
<1>2. CASE Examine(d)
  <2>1. occ' \in [Seats -> SUBSET Procs]
    BY <1>1, <1>2, TakeType DEF Examine
  <2> QED
    BY <1>1, <1>2, <2>1 DEF Examine
<1>3. CASE RefuseHolder(d)
  BY <1>1, <1>3, CloseType DEF RefuseHolder, Refuse
<1>4. CASE SaveHead(d)
  BY <1>1, <1>4 DEF SaveHead
<1>5. CASE RefuseOverwrite(d)
  BY <1>1, <1>5, CloseType DEF RefuseOverwrite, Refuse
<1>6. CASE QuarantineDirty(d)
  <2>1. seat[d] \in Seats
    BY <1>6 DEF SeatInv, Holders, QuarantineDirty, Holding
  <2> QED
    BY <1>1, <1>6, <2>1 DEF QuarantineDirty
<1>7. CASE GitFails(d)
  BY <1>1, <1>7, CloseType DEF GitFails, Refuse
<1>8. ASSUME ForcedCheckout(d)
      PROVE  /\ kept' \subseteq Work /\ tip' \in [Dispatches -> SUBSET Work]
             /\ tree' \in [Seats -> [there : BOOLEAN, branch : Dispatches \cup {None},
                                     dirty : SUBSET Work]]
  BY <1>1, <1>8 DEF ForcedCheckout, Base
<1>9. CASE Checkout(d)
  BY <1>1, <1>8, <1>9 DEF Checkout
<1>10. CASE CreateTree(d)
  BY <1>1, <1>8, <1>10 DEF CreateTree
<1>11. CASE WriteOccupant(d)
  BY <1>1, <1>11, TypeOccupant
<1> QED
  BY <1>2, <1>3, <1>4, <1>5, <1>6, <1>7, <1>9, <1>10, <1>11

(* binding a worker to it, *)
LEMMA TypeLaunching ==
    ASSUME SeatInv, NEW d \in Dispatches,
           \/ Attach(d) \/ Relocate(d) \/ RecordStarting(d) \/ Spawn(d)
           \/ DropSeat(d) \/ RecordRunning(d) \/ Fail(d) \/ LauncherDies(d)
    PROVE  TypeOK'
<1> USE SeatsAssumption DEF TypeOK, git, locks, self, Alive
<1>1. TypeOK
  BY DEF SeatInv
<1>2. CASE Attach(d)
  <2>1. seat[Parent[d]] \in 0..SeatLimit
    BY <1>1, <1>2 DEF Attach
  <2>2. flock' \in [Seats -> SUBSET Procs] /\ occ' \in [Seats -> SUBSET Procs]
    BY <1>1, <1>2, TakeType DEF Attach
  <2> QED
    BY <1>1, <1>2, <2>1, <2>2 DEF Attach
<1>3. CASE Relocate(d)
  BY <1>1, <1>3 DEF Relocate
<1>4. CASE RecordStarting(d)
  BY <1>1, <1>4, TypeRows
<1>5. CASE Spawn(d)
  BY <1>1, <1>5, TypeSpawn
<1>6. CASE DropSeat(d)
  BY <1>1, <1>6, CloseType DEF DropSeat
<1>7. CASE RecordRunning(d)
  BY <1>1, <1>7, TypeRows
<1>8. CASE Fail(d)
  BY <1>1, <1>8, TypeRows
<1>9. CASE LauncherDies(d)
  BY <1>1, <1>9, CloseType DEF LauncherDies
<1> QED
  BY <1>2, <1>3, <1>4, <1>5, <1>6, <1>7, <1>8, <1>9

(* what workers, watchers and operators do, *)
LEMMA TypeWorking ==
    ASSUME SeatInv, NEW d \in Dispatches,
           \/ Edit(d) \/ Commit(d) \/ Exit(d)
           \/ Reconcile(d) \/ Verdict(d) \/ Withdraw(d) \/ Age(d) \/ Integrate(d)
    PROVE  TypeOK'
<1> USE SeatsAssumption DEF TypeOK, git, locks, self
<1>1. TypeOK
  BY DEF SeatInv
<1>2. CASE Edit(d)
  <2>1. <<d, wrote[d] + 1>> \in Work
    BY <1>1, <1>2 DEF Edit, Work
  <2>2. tree' \in [Seats -> Checkouts]
    <3>1. seat[d] \in Seats
      BY <1>2 DEF Edit, SeatInv, Workers
    <3>2. tree[seat[d]].dirty \cup {<<d, wrote[d] + 1>>} \in SUBSET Work
      BY <1>1, <2>1, <3>1
    <3> QED
      BY <1>1, <1>2, <3>2, TreeTypes DEF Edit
  <2>3. wrote' \in [Dispatches -> Nat] /\ \A e \in Dispatches : wrote'[e] <= MaxEdits[e]
    BY <1>1, <1>2 DEF Edit
  <2> QED
    BY <1>1, <1>2, <2>2, <2>3 DEF Edit, Checkouts
<1>3. CASE Commit(d)
  <2>1. tree' \in [Seats -> Checkouts]
    BY <1>1, <1>3, TreeTypes DEF Commit
  <2>2. tip' \in [Dispatches -> SUBSET Work]
    <3>1. seat[d] \in Seats
      BY <1>3 DEF Commit, SeatInv, Workers
    <3> QED
      BY <1>1, <1>3, <3>1 DEF Commit
  <2> QED
    BY <1>1, <1>3, <2>1, <2>2 DEF Commit, Checkouts
<1>4. CASE Exit(d)
  BY <1>1, <1>4, CloseType DEF Exit
<1>5. CASE Reconcile(d)
  BY <1>1, <1>5, TypeRows
<1>6. CASE Verdict(d)
  BY <1>1, <1>6, TypeRows
<1>7. CASE Withdraw(d)
  BY <1>1, <1>7, TypeRows
<1>8. CASE Age(d)
  BY <1>1, <1>8, TypeRows
<1>9. CASE Integrate(d)
  BY <1>1, <1>9 DEF Integrate
<1> QED
  BY <1>2, <1>3, <1>4, <1>5, <1>6, <1>7, <1>8, <1>9

(* and what the collector does. *)
LEMMA TypeCollecting ==
    ASSUME SeatInv, Collector
    PROVE  TypeOK'
<1> USE SeatsAssumption DEF TypeOK, git, locks, self
<1>1. TypeOK
  BY DEF SeatInv
<1>2. ASSUME NEW s \in Seats, ScanDecides(s) PROVE TypeOK'
  BY <1>1, <1>2 DEF ScanDecides, Seats
<1>3. CASE TakeActionLock
  <2>1. flock' \in [Seats -> SUBSET Procs]
    <3>1. [flock EXCEPT ![gc.seat] = {GC}] \in [Seats -> SUBSET Procs]
      <4>1. {GC} \in SUBSET Procs
        BY ProcNames
      <4> QED
        BY <1>1, <4>1
    <3> QED
      BY <1>1, <1>3, <3>1 DEF TakeActionLock
  <2>2. gc' \in [pc : {"idle", "decided", "locked", "pinned"}, seat : 0..SeatLimit]
    <3>1. 0 \in 0..SeatLimit
      OBVIOUS
    <3>2. [gc EXCEPT !.pc = "locked"]
            \in [pc : {"idle", "decided", "locked", "pinned"}, seat : 0..SeatLimit]
      BY <1>1
    <3> QED
      BY <1>3, <3>1, <3>2 DEF TakeActionLock
  <2> QED
    BY <1>1, <1>3, <2>1, <2>2 DEF TakeActionLock
<1>4. CASE PinHead
  <2>1. gc.seat \in Seats
    BY <1>4 DEF PinHead, SeatInv, Target
  <2>2. tree[gc.seat].there => tip[tree[gc.seat].branch] \subseteq Work
    BY <1>1, <2>1 DEF SeatInv, Trees
  <2> QED
    BY <1>1, <1>4, <2>2 DEF PinHead
<1>5. CASE Remove
  <2>1. tree' \in [Seats -> [there : BOOLEAN, branch : Dispatches \cup {None},
                             dirty : SUBSET Work]]
    BY <1>1, <1>5 DEF Remove, Absent
  <2> QED
    BY <1>1, <1>5, <2>1, CloseType DEF Remove
<1> QED
  BY <1>2, <1>3, <1>4, <1>5 DEF Collector

-----------------------------------------------------------------------------
(* How a step may change what the invariant speaks of.  Each of the next   *)
(* four lemmas covers all steps of one shape.                              *)

(* Nobody moves: the ledger, the lock files' text or the branches change.  *)
LEMMA Quiet ==
    ASSUME SeatInv, TypeOK',
           UNCHANGED <<tree, flock, pc, seat, worker>>, kept \subseteq kept', Target'
    PROVE  SeatInv'
BY DEF SeatInv, Holders, Workers, OneHolder, Trees, Stands, Kept

(* A launcher goes on to a stage that needs no more than it has.           *)
LEMMA Advance ==
    ASSUME SeatInv, TypeOK', NEW d \in Dispatches, NEW to,
           pc' = [pc EXCEPT ![d] = to],
           UNCHANGED <<tree, flock, seat, worker, gc>>, kept \subseteq kept',
           to # "refused", to \in Holding => pc[d] \in Holding,
           to \in Bound => pc[d] \in Bound, worker[d] = "live" => to \in Launched,
           to = "quarantined" => tree[seat[d]].dirty \subseteq kept'
    PROVE  SeatInv'
<1>1. \A e \in Dispatches : pc'[e] = IF e = d THEN to ELSE pc[e]
  BY DEF SeatInv, TypeOK
<1>2. Holders' /\ Workers'
  BY <1>1 DEF SeatInv, Holders, Workers
<1>3. OneHolder' /\ Trees' /\ Target'
  BY DEF SeatInv, OneHolder, Trees, Target
<1>4. Stands' /\ Kept'
  BY <1>1 DEF SeatInv, Stands, Kept
<1> QED
  BY <1>2, <1>3, <1>4 DEF SeatInv

(* A launcher closes its descriptors and is no holder any more.            *)
LEMMA Closing ==
    ASSUME SeatInv, TypeOK', NEW d \in Dispatches, NEW to,
           pc' = [pc EXCEPT ![d] = to], Close(L(d), seat[d]),
           UNCHANGED <<tree, kept, seat, worker, gc>>,
           to \notin Holding, to = "refused" => seat[d] \in Seats,
           worker[d] = "live" => to \in Launched
    PROVE  SeatInv'
<1>1. \A e \in Dispatches : pc'[e] = IF e = d THEN to ELSE pc[e]
  BY DEF SeatInv, TypeOK
<1>2. \A s \in Seats : flock'[s] \subseteq flock[s] /\ flock[s] \ {L(d)} \subseteq flock'[s]
  BY DEF SeatInv, TypeOK, Close
<1>3. Holders'
  BY <1>1, <1>2, ProcNames DEF SeatInv, Holders
<1>4. Workers'
  BY <1>1, <1>2, ProcNames DEF SeatInv, Workers
<1>5. OneHolder' /\ Trees' /\ Target'
  BY <1>2 DEF SeatInv, OneHolder, Trees, Target
<1>6. Stands' /\ Kept'
  BY <1>1 DEF SeatInv, Stands, Kept, Bound, Holding
<1> QED
  BY <1>3, <1>4, <1>5, <1>6 DEF SeatInv

(* A launcher takes the free lock of a seat.                               *)
LEMMA Taking ==
    ASSUME SeatInv, TypeOK', NEW d \in Dispatches, NEW s \in Seats, NEW to,
           flock[s] = {}, flock' = [flock EXCEPT ![s] = {L(d)}],
           pc' = [pc EXCEPT ![d] = to], seat' = [seat EXCEPT ![d] = s],
           UNCHANGED <<tree, kept, worker, gc>>,
           pc[d] \notin Launched, to = "claimed" \/ (to = "attached" /\ tree[s].there)
    PROVE  SeatInv'
<1>1. \A e \in Dispatches : /\ pc'[e] = IF e = d THEN to ELSE pc[e]
                            /\ seat'[e] = IF e = d THEN s ELSE seat[e]
  BY DEF SeatInv, TypeOK
<1>2. \A x \in Seats : flock'[x] = IF x = s THEN {L(d)} ELSE flock[x]
  BY DEF SeatInv, TypeOK
<1>3. worker[d] # "live"
  BY DEF SeatInv, Workers
<1>4. Holders'
  BY <1>1, <1>2 DEF SeatInv, Holders
<1>5. Workers'
  BY <1>1, <1>2, <1>3 DEF SeatInv, Workers
<1>6. OneHolder' /\ Trees' /\ Target'
  BY <1>2 DEF SeatInv, OneHolder, Trees, Target
<1>7. Stands' /\ Kept'
  BY <1>1, <1>3 DEF SeatInv, Stands, Kept, Bound
<1> QED
  BY <1>4, <1>5, <1>6, <1>7 DEF SeatInv

(* A launcher puts its branch in the seat it holds.                        *)
LEMMA CheckingOut ==
    ASSUME SeatInv, TypeOK', NEW d \in Dispatches, NEW to, ForcedCheckout(d),
           pc[d] \in Holding, to \in Bound, pc[d] \notin Launched,
           pc' = [pc EXCEPT ![d] = to], UNCHANGED <<flock, seat, worker, gc>>
    PROVE  SeatInv'
<1>1. \A e \in Dispatches : pc'[e] = IF e = d THEN to ELSE pc[e]
  BY DEF SeatInv, TypeOK
<1>2. \A s \in Seats : tree'[s] = IF s = seat[d] THEN [there |-> TRUE, branch |-> branch[d],
                                                       dirty |-> {}] ELSE tree[s]
  BY DEF ForcedCheckout, SeatInv, TypeOK
<1>3. kept \subseteq kept' /\ branch[d] \in Dispatches
  BY DEF ForcedCheckout, SeatInv, TypeOK
<1>4. worker[d] # "live" /\ to # "refused" /\ to \in Holding /\ to # "quarantined"
  BY DEF SeatInv, Workers, Bound, Holding
<1>5. Holders' /\ Workers'
  BY <1>1, <1>4 DEF SeatInv, Holders, Workers
<1>6. OneHolder' /\ Trees' /\ Target'
  BY <1>2, <1>3 DEF SeatInv, OneHolder, Trees, Target
<1>7. Stands'
  <2>1. \A e \in Dispatches : worker[e] = "live" \/ pc'[e] \in Bound => seat[e] \in Seats
    BY <1>1 DEF SeatInv, Holders, Workers, Bound, Holding
  <2> QED
    BY <1>1, <1>2, <1>4, <2>1 DEF SeatInv, Stands
<1>8. Kept'
  <2>1. \A e \in Dispatches : pc'[e] = "quarantined" => pc[e] = "quarantined" /\ seat[e] \in Seats
    BY <1>1, <1>4 DEF SeatInv, Holders, Holding
  <2> QED
    BY <1>2, <1>3, <2>1 DEF SeatInv, Kept
<1> QED
  BY <1>5, <1>6, <1>7, <1>8 DEF SeatInv

-----------------------------------------------------------------------------
(* Every action is one of these, but for the spawn, the worker's own steps *)
(* and the collector's.                                                    *)

(* A launcher that looks for a seat. *)
LEMMA InvChoosing ==
    ASSUME SeatInv, NEW d \in Dispatches, NEW s \in Seats,
           \/ Submit(d) \/ Begin(d) \/ Claim(d, s) \/ PassOver(d, s)
           \/ CreateNextSlot(d) \/ Unavailable(d) \/ NextCandidate(d)
    PROVE  SeatInv'
<1>1. TypeOK'
  BY TypeChoosing
<1>2. CASE Submit(d) \/ PassOver(d, s) \/ CreateNextSlot(d)
  BY <1>1, <1>2, Quiet DEF Submit, PassOver, CreateNextSlot, SeatInv, Target, locks, git, self
<1>3. worker[d] = "live" => pc[d] \notin {"idle", "choosing", "refused"}
  BY DEF SeatInv, Workers, Launched
<1>4. CASE Begin(d) \/ NextCandidate(d)
  BY <1>1, <1>3, <1>4, Advance
     DEF Begin, NextCandidate, Holding, Bound, git, locks, self
<1>5. CASE Unavailable(d)
  BY <1>1, <1>3, <1>5, Advance DEF Unavailable, Holding, Bound, git, locks, self
<1>6. CASE Claim(d, s)
  BY <1>1, <1>6, Taking DEF Claim, Launched, git
<1> QED
  BY <1>2, <1>4, <1>5, <1>6

(* A launcher that prepares the seat it has claimed. *)
LEMMA InvPreparing ==
    ASSUME SeatInv, NEW d \in Dispatches,
           \/ Examine(d) \/ RefuseHolder(d) \/ SaveHead(d) \/ RefuseOverwrite(d)
           \/ QuarantineDirty(d) \/ GitFails(d) \/ Checkout(d) \/ CreateTree(d)
           \/ WriteOccupant(d)
    PROVE  SeatInv'
<1> USE DEF git, locks, self
<1>1. TypeOK'
  BY TypePreparing
<1>2. pc[d] \in {"claimed", "examined", "headed", "quarantined", "fresh", "created", "attached"}
  BY DEF Examine, RefuseHolder, SaveHead, RefuseOverwrite, QuarantineDirty, GitFails,
         Checkout, CreateTree, WriteOccupant
<1>3. pc[d] \in Holding /\ pc[d] \notin Launched /\ worker[d] # "live" /\ seat[d] \in Seats
  BY <1>2 DEF SeatInv, Holders, Workers, Holding, Launched
<1>4. CASE Examine(d) \/ SaveHead(d)
  BY <1>1, <1>3, <1>4, Advance DEF Examine, SaveHead, Holding, Bound
<1>5. CASE QuarantineDirty(d)
  BY <1>1, <1>3, <1>5, Advance DEF QuarantineDirty, Holding, Bound
<1>6. CASE WriteOccupant(d)
  BY <1>1, <1>3, <1>6, Advance DEF WriteOccupant, Holding, Bound
<1>7. CASE RefuseHolder(d) \/ RefuseOverwrite(d) \/ GitFails(d)
  <2>1. Refuse(d)
    BY <1>7 DEF RefuseHolder, RefuseOverwrite, GitFails
  <2> QED
    BY <1>1, <1>3, <2>1, Closing DEF Refuse, Holding
<1>8. CASE Checkout(d) \/ CreateTree(d)
  BY <1>1, <1>3, <1>8, CheckingOut DEF Checkout, CreateTree, Bound
<1> QED
  BY <1>4, <1>5, <1>6, <1>7, <1>8

(* The worker inherits the lock its launcher holds. *)
LEMMA InvSpawn ==
    ASSUME SeatInv, NEW d \in Dispatches, Spawn(d)
    PROVE  SeatInv'
<1>1. TypeOK'
  BY TypeLaunching
<1>2. seat[d] \in Seats /\ L(d) \in flock[seat[d]]
  BY DEF Spawn, SeatInv, Holders, Holding
<1>3. \A e \in Dispatches : /\ pc'[e] = IF e = d THEN "spawned" ELSE pc[e]
                            /\ worker'[e] = IF e = d THEN "live" ELSE worker[e]
  BY DEF Spawn, SeatInv, TypeOK
<1>4. \A s \in Seats : flock'[s] = IF s = seat[d] THEN flock[s] \cup {W(d)} ELSE flock[s]
  BY DEF Spawn, SeatInv, TypeOK
<1>5. UNCHANGED <<tree, kept, seat, gc>>
  BY DEF Spawn, git, self
<1>6. Holders' /\ Workers'
  BY <1>2, <1>3, <1>4, <1>5 DEF SeatInv, Holders, Workers, Launched
<1>7. OneHolder'
  <2>1. W(d)[2] = d /\ L(d)[2] = d
    BY ProcNames
  <2>2. \A x \in flock[seat[d]] : x[2] = d
    BY <1>2, <2>1 DEF SeatInv, OneHolder
  <2>3. \A x \in flock'[seat[d]] : x[2] = d
    BY <1>2, <1>4, <2>1, <2>2
  <2> QED
    BY <1>2, <1>4, <2>3 DEF SeatInv, OneHolder
<1>8. Trees' /\ Target'
  BY <1>5 DEF SeatInv, Trees, Target
<1>9. Stands' /\ Kept'
  BY <1>3, <1>5 DEF Spawn, SeatInv, Stands, Kept, Bound
<1> QED
  BY <1>1, <1>6, <1>7, <1>8, <1>9 DEF SeatInv

(* A launcher that resumes in a seat, launches, fails or dies. *)
LEMMA InvLaunching ==
    ASSUME SeatInv, NEW d \in Dispatches,
           \/ Attach(d) \/ Relocate(d) \/ RecordStarting(d) \/ Spawn(d)
           \/ DropSeat(d) \/ RecordRunning(d) \/ Fail(d) \/ LauncherDies(d)
    PROVE  SeatInv'
<1> USE DEF git, locks, self
<1>1. TypeOK'
  BY TypeLaunching
<1>2. worker[d] = "live" => pc[d] \in Launched
  BY DEF SeatInv, Workers
<1>3. CASE Attach(d)
  <2>1. seat[Parent[d]] \in Seats
    <3>1. Parent[d] \in Dispatches /\ seat[Parent[d]] # 0
      BY <1>3, SeatsAssumption DEF Attach
    <3>2. seat[Parent[d]] \in 0..SeatLimit
      BY <3>1 DEF SeatInv, TypeOK
    <3> QED
      BY <3>1, <3>2, SeatsAssumption DEF Seats
  <2> QED
    BY <1>1, <1>3, <2>1, Taking DEF Attach, Launched
<1>4. CASE Relocate(d)
  BY <1>1, <1>2, <1>4, Advance DEF Relocate, Holding, Bound, Launched
<1>5. CASE RecordStarting(d)
  BY <1>1, <1>2, <1>5, Advance DEF RecordStarting, Holding, Bound, Launched
<1>6. CASE Spawn(d)
  BY <1>6, InvSpawn
<1>7. CASE DropSeat(d)
  BY <1>1, <1>7, Closing DEF DropSeat, Holding, Launched
<1>8. CASE RecordRunning(d)
  BY <1>1, <1>8, Advance DEF RecordRunning, Holding, Bound, Launched
<1>9. CASE Fail(d)
  <2>1. CASE pc[d] = "idle"
    BY <1>1, <1>2, <1>9, <2>1, Advance DEF Fail, Holding, Bound, Launched
  <2>2. CASE pc[d] # "idle"
    BY <1>1, <1>2, <1>9, <2>2, Closing DEF Fail, Holding, Launched
  <2> QED
    BY <2>1, <2>2
<1>10. CASE LauncherDies(d)
  <2>1. CASE seat[d] = 0
    BY <1>1, <1>10, <2>1, Advance DEF LauncherDies, Holding, Bound, Launched
  <2>2. CASE seat[d] # 0
    BY <1>1, <1>10, <2>2, Closing DEF LauncherDies, Holding, Launched
  <2> QED
    BY <2>1, <2>2
<1> QED
  BY <1>3, <1>4, <1>5, <1>6, <1>7, <1>8, <1>9, <1>10

(* A worker edits in its own checkout; its exit closes only its descriptor. *)
LEMMA InvWorking ==
    ASSUME SeatInv, NEW d \in Dispatches,
           \/ Edit(d) \/ Commit(d) \/ Exit(d)
           \/ Reconcile(d) \/ Verdict(d) \/ Withdraw(d) \/ Age(d) \/ Integrate(d)
    PROVE  SeatInv'
<1> USE DEF git, locks, self
<1>1. TypeOK'
  BY TypeWorking
<1>2. CASE Reconcile(d) \/ Verdict(d) \/ Withdraw(d) \/ Age(d) \/ Integrate(d)
  BY <1>1, <1>2, Quiet
     DEF Reconcile, Verdict, Withdraw, Age, Integrate, SeatInv, Target
<1>3. CASE Edit(d) \/ Commit(d)
  <2>1. worker[d] = "live" /\ seat[d] \in Seats /\ tree[seat[d]].there
    BY <1>3 DEF Edit, Commit, SeatInv, Workers
  <2>2. \A s \in Seats : /\ tree'[s].there = tree[s].there
                         /\ tree'[s].branch = tree[s].branch
                         /\ s # seat[d] => tree'[s] = tree[s]
    <3>1. tree \in [Seats -> Checkouts]
      BY DEF SeatInv, TypeOK, Checkouts
    <3>2. \E w : tree' = [tree EXCEPT ![seat[d]].dirty = w]
      BY <1>3 DEF Edit, Commit
    <3> QED
      BY <3>1, <3>2 DEF Checkouts
  <2>3. UNCHANGED <<pc, flock, seat, worker, gc, kept>>
    BY <1>3 DEF Edit, Commit
  <2>4. \A e \in Dispatches : pc[e] = "quarantined" => seat[e] \in Seats /\ seat[e] # seat[d]
    <3> SUFFICES ASSUME NEW e \in Dispatches, pc[e] = "quarantined", seat[e] = seat[d]
                 PROVE  FALSE
      BY DEF SeatInv, Holders, Holding
    <3>1. e = d
      BY <2>1, SeatAlone DEF Holding
    <3> QED
      BY <2>1, <3>1 DEF SeatInv, Workers, Launched
  <2>5. Holders' /\ Workers' /\ OneHolder' /\ Target'
    BY <2>3 DEF SeatInv, Holders, Workers, OneHolder, Target
  <2>6. Trees'
    BY <2>1, <2>2 DEF SeatInv, Trees
  <2>7. Stands'
    <3>1. \A e \in Dispatches : worker[e] = "live" \/ pc[e] \in Bound => seat[e] \in Seats
      BY DEF SeatInv, Holders, Workers, Bound, Holding
    <3> QED
      BY <2>2, <2>3, <3>1 DEF SeatInv, Stands
  <2>8. Kept'
    BY <2>2, <2>3, <2>4 DEF SeatInv, Kept
  <2> QED
    BY <1>1, <2>5, <2>6, <2>7, <2>8 DEF SeatInv
<1>4. CASE Exit(d)
  <2>1. \A e \in Dispatches : worker'[e] = IF e = d THEN "gone" ELSE worker[e]
    BY <1>4 DEF Exit, SeatInv, TypeOK
  <2>2. \A s \in Seats : flock'[s] \subseteq flock[s] /\ flock[s] \ {W(d)} \subseteq flock'[s]
    BY <1>4 DEF Exit, Close, SeatInv, TypeOK
  <2>3. UNCHANGED <<tree, kept, pc, seat, gc>>
    BY <1>4 DEF Exit
  <2>4. Holders'
    BY <2>2, <2>3, ProcNames DEF SeatInv, Holders
  <2>5. Workers'
    BY <2>1, <2>2, <2>3, ProcNames DEF SeatInv, Workers
  <2>6. OneHolder' /\ Trees' /\ Target'
    BY <2>2, <2>3 DEF SeatInv, OneHolder, Trees, Target
  <2>7. Stands' /\ Kept'
    BY <2>1, <2>3 DEF SeatInv, Stands, Kept
  <2> QED
    BY <1>1, <2>4, <2>5, <2>6, <2>7 DEF SeatInv
<1> QED
  BY <1>2, <1>3, <1>4

(* A collector that holds the lock removes nothing of anybody's.           *)
LEMMA InvCollecting ==
    ASSUME SeatInv, Collector
    PROVE  SeatInv'
<1> USE DEF git, locks, self
<1>1. TypeOK'
  BY TypeCollecting
<1>2. ASSUME NEW s \in Seats, ScanDecides(s) PROVE SeatInv'
  BY <1>1, <1>2, Quiet DEF ScanDecides, Target
<1>3. CASE TakeActionLock
  <2>1. gc.seat \in Seats
    BY <1>3 DEF TakeActionLock, SeatInv, Target
  <2>2. Target'
    BY <1>3, <2>1 DEF TakeActionLock, SeatInv, TypeOK, Target
  <2>3. CASE flock[gc.seat] # {}
    BY <1>1, <1>3, <2>2, <2>3, Quiet DEF TakeActionLock
  <2>4. CASE flock[gc.seat] = {}
    <3>1. \A s \in Seats : flock'[s] = IF s = gc.seat THEN {GC} ELSE flock[s]
      BY <1>3, <2>4 DEF TakeActionLock, SeatInv, TypeOK
    <3>2. UNCHANGED <<tree, kept, pc, seat, worker>>
      BY <1>3 DEF TakeActionLock
    <3>3. Holders' /\ Workers'
      BY <2>4, <3>1, <3>2 DEF SeatInv, Holders, Workers
    <3>4. OneHolder' /\ Trees' /\ Stands' /\ Kept'
      BY <3>1, <3>2 DEF SeatInv, OneHolder, Trees, Stands, Kept
    <3> QED
      BY <1>1, <2>2, <3>3, <3>4 DEF SeatInv
  <2> QED
    BY <2>3, <2>4
<1>4. CASE PinHead
  <2>1. Target' /\ kept \subseteq kept'
    BY <1>4 DEF PinHead, SeatInv, TypeOK, Target
  <2> QED
    BY <1>1, <1>4, <2>1, Quiet DEF PinHead
<1>5. CASE Remove
  <2>1. gc.seat \in Seats
    BY <1>5 DEF Remove, SeatInv, Target
  <2>2. \A s \in Seats : flock'[s] \subseteq flock[s] /\ flock[s] \ {GC} \subseteq flock'[s]
    BY <1>5 DEF Remove, Close, SeatInv, TypeOK
  <2>3. UNCHANGED <<kept, pc, seat, worker>>
    BY <1>5 DEF Remove
  <2>4. Holders'
    BY <2>2, <2>3, ProcNames DEF SeatInv, Holders
  <2>5. Workers'
    BY <2>2, <2>3, ProcNames DEF SeatInv, Workers
  <2>6. OneHolder'
    BY <2>2 DEF SeatInv, OneHolder
  <2>7. \A s \in Seats : tree'[s] = tree[s]
                         \/ (tree'[s] = Absent /\ flock[s] \subseteq {GC})
    BY <1>5, <2>1 DEF Remove, Removable, SeatInv, TypeOK
  <2>8. Trees'
    BY <2>7 DEF SeatInv, Trees, Absent
  <2>9. \A e \in Dispatches : worker[e] = "live" \/ pc[e] \in Holding =>
            seat[e] \in Seats /\ tree'[seat[e]] = tree[seat[e]]
    BY <2>7, ProcNames DEF SeatInv, Holders, Workers
  <2>10. Stands' /\ Kept'
    BY <2>3, <2>9 DEF SeatInv, Stands, Kept, Bound, Holding
  <2>11. Target'
    BY <1>5 DEF Remove, Target
  <2> QED
    BY <1>1, <2>4, <2>5, <2>6, <2>8, <2>10, <2>11 DEF SeatInv
<1> QED
  BY <1>2, <1>3, <1>4, <1>5 DEF Collector

(* The invariant holds at the start, *)
LEMMA SeatInvInit == Init => SeatInv
<1> SUFFICES ASSUME Init PROVE SeatInv
  OBVIOUS
<1>1. TypeOK
  BY SeatsAssumption DEF Init, TypeOK, Absent, Alive, Seats
<1>2. Holders /\ Workers /\ OneHolder /\ Trees /\ Stands /\ Kept /\ Target
  BY DEF Init, Holders, Workers, OneHolder, Trees, Stands, Kept, Target, Absent,
         Holding, Bound
<1> QED
  BY <1>1, <1>2 DEF SeatInv

(* and every step keeps it. *)
LEMMA SeatInvNext == SeatInv /\ [Next]_vars => SeatInv'
<1> SUFFICES ASSUME SeatInv, [Next]_vars PROVE SeatInv'
  OBVIOUS
<1>1. ASSUME NEW d \in Dispatches, Launcher(d) PROVE SeatInv'
  <2>1. 1 \in Seats
    BY SeatsAssumption DEF Seats
  <2>2. ASSUME NEW s \in Seats, Claim(d, s) \/ PassOver(d, s) PROVE SeatInv'
    BY <2>2, InvChoosing
  <2>3. CASE Begin(d) \/ CreateNextSlot(d) \/ Unavailable(d) \/ NextCandidate(d)
    BY <2>1, <2>3, InvChoosing
  <2>4. CASE \/ Examine(d) \/ RefuseHolder(d) \/ SaveHead(d) \/ RefuseOverwrite(d)
             \/ QuarantineDirty(d) \/ Checkout(d) \/ CreateTree(d) \/ WriteOccupant(d)
    BY <2>4, InvPreparing
  <2>5. CASE \/ Attach(d) \/ Relocate(d)
             \/ RecordStarting(d) \/ Spawn(d) \/ DropSeat(d) \/ RecordRunning(d)
    BY <2>5, InvLaunching
  <2> QED
    BY <1>1, <2>2, <2>3, <2>4, <2>5 DEF Launcher
<1>2. ASSUME NEW d \in Dispatches, Submit(d) PROVE SeatInv'
  <2>1. 1 \in Seats
    BY SeatsAssumption DEF Seats
  <2> QED
    BY <1>2, <2>1, InvChoosing
<1>3. ASSUME NEW d \in Dispatches, Fail(d) \/ LauncherDies(d) PROVE SeatInv'
  BY <1>3, InvLaunching
<1>4. ASSUME NEW d \in Dispatches, GitFails(d) PROVE SeatInv'
  BY <1>4, InvPreparing
<1>5. ASSUME NEW d \in Dispatches,
             \/ Edit(d) \/ Commit(d) \/ Exit(d)
             \/ Reconcile(d) \/ Verdict(d) \/ Withdraw(d) \/ Age(d) \/ Integrate(d)
      PROVE  SeatInv'
  BY <1>5, InvWorking
<1>6. CASE Collector
  BY <1>6, InvCollecting
<1>7. CASE UNCHANGED vars
  <2>1. TypeOK'
    BY <1>7 DEF SeatInv, TypeOK, vars
  <2> QED
    BY <1>7, <2>1, Quiet DEF vars, SeatInv, Target
<1> QED
  BY <1>1, <1>2, <1>3, <1>4, <1>5, <1>6, <1>7 DEF Next

-----------------------------------------------------------------------------
(* Nothing is lost: a step leaves every edit somewhere.                    *)

Safe(w) ==
    \/ w \in kept \/ w \in merged
    \/ \E d \in Dispatches : w \in tip[d]
    \/ \E s \in Seats : w \in tree[s].dirty

(* Safe says where an edit can be found. *)
LEMMA SafeIsSomewhere == \A w : (w \in Somewhere <=> Safe(w)) /\ (w \in Somewhere <=> Safe(w))'
BY DEF Safe, Somewhere

(* A forced checkout pins what it takes from the branch and cleans a seat  *)
(* that holds nothing, or nothing that is not kept.                        *)
LEMMA CheckoutKeeps ==
    ASSUME SeatInv, NEW d \in Dispatches, Checkout(d) \/ CreateTree(d), NEW w, Safe(w)
    PROVE  Safe(w)'
<1>1. seat[d] \in Seats /\ tree[seat[d]].dirty \subseteq kept
  BY DEF Checkout, CreateTree, SeatInv, Holders, Holding, Kept, Trees
<1>2. /\ kept' = kept \cup (tip[branch[d]] \ Base(d))
      /\ branch[d] \in Dispatches /\ merged' = merged
  BY DEF Checkout, CreateTree, ForcedCheckout, SeatInv, TypeOK
<1>3. \A e \in Dispatches : tip'[e] = IF e = branch[d] THEN Base(d) ELSE tip[e]
  BY DEF Checkout, CreateTree, ForcedCheckout, SeatInv, TypeOK
<1>4. \A s \in Seats : s # seat[d] => tree'[s] = tree[s]
  BY DEF Checkout, CreateTree, ForcedCheckout, SeatInv, TypeOK
<1>5. CASE w \in kept \/ w \in merged
  BY <1>2, <1>5 DEF Safe
<1>6. ASSUME NEW e \in Dispatches, w \in tip[e] PROVE Safe(w)'
  BY <1>2, <1>3, <1>6 DEF Safe
<1>7. ASSUME NEW s \in Seats, w \in tree[s].dirty PROVE Safe(w)'
  BY <1>1, <1>2, <1>4, <1>7 DEF Safe
<1> QED
  BY <1>5, <1>6, <1>7 DEF Safe

(* A commit moves what a checkout holds to its branch. *)
LEMMA CommitKeeps ==
    ASSUME SeatInv, NEW d \in Dispatches, Commit(d), NEW w, Safe(w)
    PROVE  Safe(w)'
<1>1. /\ seat[d] \in Seats /\ tree[seat[d]].branch \in Dispatches
      /\ kept' = kept /\ merged' = merged
  BY DEF Commit, SeatInv, Workers, Trees
<1>2. /\ \A e \in Dispatches : tip[e] \subseteq tip'[e]
      /\ tree[seat[d]].dirty \subseteq tip'[tree[seat[d]].branch]
  BY <1>1 DEF Commit, SeatInv, TypeOK
<1>3. \A s \in Seats : s # seat[d] => tree'[s] = tree[s]
  BY DEF Commit, SeatInv, TypeOK
<1>4. CASE w \in kept \/ w \in merged
  BY <1>1, <1>4 DEF Safe
<1>5. ASSUME NEW e \in Dispatches, w \in tip[e] PROVE Safe(w)'
  BY <1>2, <1>5 DEF Safe
<1>6. ASSUME NEW s \in Seats, w \in tree[s].dirty PROVE Safe(w)'
  BY <1>1, <1>2, <1>3, <1>6 DEF Safe
<1> QED
  BY <1>4, <1>5, <1>6 DEF Safe

(* An edit adds to a checkout and to nothing else. *)
LEMMA EditKeeps ==
    ASSUME SeatInv, NEW d \in Dispatches, Edit(d)
    PROVE  \A w : Safe(w) \/ w = <<d, wrote[d] + 1>> => Safe(w)'
<1>1. seat[d] \in Seats /\ UNCHANGED <<kept, merged, tip>>
  BY DEF Edit, SeatInv, Workers, git
<1>2. \A s \in Seats : tree[s].dirty \subseteq tree'[s].dirty
  <2>1. tree \in [Seats -> Checkouts]
    BY DEF SeatInv, TypeOK, Checkouts
  <2> QED
    BY <1>1, <2>1 DEF Edit, Checkouts
<1>3. <<d, wrote[d] + 1>> \in tree'[seat[d]].dirty
  <2>1. tree \in [Seats -> Checkouts]
    BY DEF SeatInv, TypeOK, Checkouts
  <2> QED
    BY <1>1, <2>1 DEF Edit, Checkouts
<1> QED
  BY <1>1, <1>2, <1>3 DEF Safe

(* A removal takes a checkout with nothing uncommitted in it. *)
LEMMA RemoveKeeps ==
    ASSUME SeatInv, Remove, NEW w, Safe(w)
    PROVE  Safe(w)'
<1>1. gc.seat \in Seats /\ UNCHANGED <<kept, merged, tip>>
  BY DEF Remove, SeatInv, Target, git
<1>2. \A s \in Seats : tree'[s] = tree[s] \/ tree[s].dirty = {}
  BY <1>1 DEF Remove, Removable, SeatInv, TypeOK
<1> QED
  BY <1>1, <1>2 DEF Safe

(* Everything else only adds. *)
LEMMA GrowingKeeps ==
    ASSUME kept \subseteq kept', merged \subseteq merged', UNCHANGED <<tip, tree>>
    PROVE  \A w : Safe(w) => Safe(w)'
BY DEF Safe

(* So no step loses an edit. *)
LEMMA LostNext == SeatInv /\ NothingLost /\ [Next]_vars => NothingLost'
<1> SUFFICES ASSUME SeatInv, NothingLost, [Next]_vars PROVE NothingLost'
  OBVIOUS
<1> USE DEF git, locks, self
<1>1. ASSUME UNCHANGED wrote, \A w : Safe(w) => Safe(w)'
      PROVE  NothingLost'
  <2>1. \A w : w \in Somewhere => w \in Somewhere'
    BY <1>1, SafeIsSomewhere
  <2> QED
    BY <1>1, <2>1 DEF NothingLost
<1>2. ASSUME NEW d \in Dispatches, Checkout(d) \/ CreateTree(d) PROVE NothingLost'
  BY <1>1, <1>2, CheckoutKeeps DEF Checkout, CreateTree
<1>3. ASSUME NEW d \in Dispatches, Commit(d) PROVE NothingLost'
  BY <1>1, <1>3, CommitKeeps DEF Commit
<1>4. CASE Remove
  BY <1>1, <1>4, RemoveKeeps DEF Remove
<1>5. ASSUME NEW d \in Dispatches, Edit(d) PROVE NothingLost'
  <2>1. \A w : w \in Somewhere' <=> Safe(w)'
    BY SafeIsSomewhere
  <2>2. \A e \in Dispatches : wrote'[e] = IF e = d THEN wrote[e] + 1 ELSE wrote[e]
    BY <1>5 DEF Edit, SeatInv, TypeOK
  <2>3. \A e \in Dispatches : wrote[e] \in Nat
    BY DEF SeatInv, TypeOK
  <2> SUFFICES ASSUME NEW e \in Dispatches, NEW n \in 1..wrote'[e]
               PROVE  <<e, n>> \in Somewhere'
    BY DEF NothingLost
  <2>4. CASE n \in 1..wrote[e]
    BY <1>5, <2>1, <2>4, EditKeeps, SafeIsSomewhere DEF NothingLost
  <2>5. CASE n \notin 1..wrote[e]
    <3>1. e = d /\ n = wrote[d] + 1
      BY <2>2, <2>3, <2>5
    <3> QED
      BY <1>5, <2>1, <3>1, EditKeeps
  <2> QED
    BY <2>4, <2>5
<1>6. ASSUME kept \subseteq kept', merged \subseteq merged', UNCHANGED <<tip, tree, wrote>>
      PROVE  NothingLost'
  BY <1>1, <1>6, GrowingKeeps
<1>7. ASSUME NEW d \in Dispatches, Launcher(d) PROVE NothingLost'
  <2>1. ASSUME NEW s \in Seats, Claim(d, s) \/ PassOver(d, s) PROVE NothingLost'
    BY <1>6, <2>1 DEF Claim, PassOver
  <2>2. CASE Begin(d) \/ CreateNextSlot(d) \/ Unavailable(d) \/ NextCandidate(d)
    BY <1>6, <2>2 DEF Begin, CreateNextSlot, Unavailable, NextCandidate
  <2>3. CASE Examine(d) \/ RefuseHolder(d) \/ SaveHead(d) \/ RefuseOverwrite(d)
    BY <1>6, <2>3 DEF Examine, RefuseHolder, SaveHead, RefuseOverwrite, Refuse
  <2>4. CASE QuarantineDirty(d) \/ WriteOccupant(d) \/ Attach(d) \/ Relocate(d)
    BY <1>6, <2>4 DEF QuarantineDirty, WriteOccupant, Attach, Relocate
  <2>5. CASE RecordStarting(d) \/ Spawn(d) \/ DropSeat(d) \/ RecordRunning(d)
    BY <1>6, <2>5 DEF RecordStarting, Spawn, DropSeat, RecordRunning
  <2> QED
    BY <1>2, <1>7, <2>1, <2>2, <2>3, <2>4, <2>5 DEF Launcher
<1>8. ASSUME NEW d \in Dispatches,
             Submit(d) \/ Fail(d) \/ GitFails(d) \/ LauncherDies(d)
      PROVE  NothingLost'
  BY <1>6, <1>8 DEF Submit, Fail, GitFails, Refuse, LauncherDies
<1>9. ASSUME NEW d \in Dispatches,
             \/ Exit(d) \/ Reconcile(d) \/ Verdict(d) \/ Withdraw(d) \/ Age(d)
             \/ Integrate(d)
      PROVE  NothingLost'
  BY <1>6, <1>9 DEF Exit, Reconcile, Verdict, Withdraw, Age, Integrate
<1>10. CASE (\E s \in Seats : ScanDecides(s)) \/ TakeActionLock \/ PinHead
  BY <1>6, <1>10 DEF ScanDecides, TakeActionLock, PinHead
<1>11. CASE UNCHANGED vars
  BY <1>6, <1>11 DEF vars
<1> QED
  BY <1>3, <1>4, <1>5, <1>7, <1>8, <1>9, <1>10, <1>11 DEF Next, Collector

(* Whoever changes a checkout that a worker lives in is that worker.       *)
LEMMA CheckoutKept ==
    ASSUME SeatInv, [Next]_vars, NEW d \in Dispatches, worker[d] = "live"
    PROVE  LET s == seat[d] IN
           /\ tree'[s].there /\ tree'[s].branch = tree[s].branch
           /\ tree[s].dirty \subseteq tree'[s].dirty \cup tip'[tree[s].branch]
<1> DEFINE s == seat[d]
           Goal == /\ tree'[s].there /\ tree'[s].branch = tree[s].branch
                   /\ tree[s].dirty \subseteq tree'[s].dirty \cup tip'[tree[s].branch]
<1> SUFFICES Goal
  OBVIOUS
<1> USE DEF git, locks, self
<1>1. s \in Seats /\ tree[s].there /\ W(d) \in flock[s] /\ pc[d] \in Launched
  BY DEF SeatInv, Workers, Stands
<1>2. ASSUME tree'[s] = tree[s] PROVE Goal
  BY <1>1, <1>2
<1>3. ASSUME NEW e \in Dispatches, Checkout(e) \/ CreateTree(e) PROVE Goal
  <2>1. pc[e] \in Holding /\ pc[e] \notin Launched
    BY <1>3 DEF Checkout, CreateTree, Holding, Launched
  <2>2. seat[e] # s
    BY <1>1, <2>1, SeatAlone
  <2>3. tree'[s] = tree[s]
    BY <1>1, <1>3, <2>2 DEF Checkout, CreateTree, ForcedCheckout, SeatInv, TypeOK
  <2> QED
    BY <1>2, <2>3
<1>4. ASSUME NEW e \in Dispatches, Edit(e) PROVE Goal
  <2>1. tree \in [Seats -> Checkouts]
    BY DEF SeatInv, TypeOK, Checkouts
  <2> QED
    BY <1>1, <1>4, <2>1 DEF Edit, Checkouts
<1>5. ASSUME NEW e \in Dispatches, Commit(e) PROVE Goal
  <2>1. tree \in [Seats -> Checkouts] /\ tip \in [Dispatches -> SUBSET Work]
    BY DEF SeatInv, TypeOK, Checkouts
  <2>2. tree[s].branch \in Dispatches
    BY <1>1 DEF SeatInv, Trees
  <2>3. CASE seat[e] = s
    BY <1>1, <1>5, <2>1, <2>2, <2>3 DEF Commit, Checkouts
  <2>4. CASE seat[e] # s
    BY <1>1, <1>2, <1>5, <2>1, <2>4 DEF Commit
  <2> QED
    BY <2>3, <2>4
<1>6. CASE Remove
  <2>1. ~Removable(s, {GC})
    BY <1>1, ProcNames DEF Removable
  <2>2. tree'[s] = tree[s]
    BY <1>1, <1>6, <2>1 DEF Remove, SeatInv, TypeOK
  <2> QED
    BY <1>2, <2>2
<1>7. ASSUME NEW e \in Dispatches, Launcher(e) PROVE Goal
  <2>1. ASSUME NEW x \in Seats, Claim(e, x) \/ PassOver(e, x) PROVE Goal
    BY <1>2, <2>1 DEF Claim, PassOver
  <2>2. CASE Begin(e) \/ CreateNextSlot(e) \/ Unavailable(e) \/ NextCandidate(e)
    BY <1>2, <2>2 DEF Begin, CreateNextSlot, Unavailable, NextCandidate
  <2>3. CASE Examine(e) \/ RefuseHolder(e) \/ SaveHead(e) \/ RefuseOverwrite(e)
    BY <1>2, <2>3 DEF Examine, RefuseHolder, SaveHead, RefuseOverwrite, Refuse
  <2>4. CASE QuarantineDirty(e) \/ WriteOccupant(e) \/ Attach(e) \/ Relocate(e)
    BY <1>2, <2>4 DEF QuarantineDirty, WriteOccupant, Attach, Relocate
  <2>5. CASE RecordStarting(e) \/ Spawn(e) \/ DropSeat(e) \/ RecordRunning(e)
    BY <1>2, <2>5 DEF RecordStarting, Spawn, DropSeat, RecordRunning
  <2> QED
    BY <1>3, <1>7, <2>1, <2>2, <2>3, <2>4, <2>5 DEF Launcher
<1>8. ASSUME NEW e \in Dispatches,
             Submit(e) \/ Fail(e) \/ GitFails(e) \/ LauncherDies(e)
      PROVE  Goal
  BY <1>2, <1>8 DEF Submit, Fail, GitFails, Refuse, LauncherDies
<1>9. ASSUME NEW e \in Dispatches,
             \/ Exit(e) \/ Reconcile(e) \/ Verdict(e) \/ Withdraw(e) \/ Age(e)
             \/ Integrate(e)
      PROVE  Goal
  BY <1>2, <1>9 DEF Exit, Reconcile, Verdict, Withdraw, Age, Integrate
<1>10. CASE (\E x \in Seats : ScanDecides(x)) \/ TakeActionLock \/ PinHead
  BY <1>2, <1>10 DEF ScanDecides, TakeActionLock, PinHead
<1>11. CASE UNCHANGED vars
  BY <1>2, <1>11 DEF vars
<1> QED
  BY <1>4, <1>5, <1>6, <1>7, <1>8, <1>9, <1>10, <1>11 DEF Next, Collector

-----------------------------------------------------------------------------
(* The invariant holds in every reachable state. *)
THEOREM SeatInvariant == Spec => []SeatInv
<1>1. Init => SeatInv
  BY SeatInvInit
<1>2. SeatInv /\ [Next]_vars => SeatInv'
  BY SeatInvNext
<1> QED
  BY <1>1, <1>2, PTL DEF Spec

(* Locks, checkouts, rows and launchers are always well typed. *)
THEOREM TypeCorrect == Spec => []TypeOK
<1>1. SeatInv => TypeOK
  BY DEF SeatInv
<1> QED
  BY <1>1, SeatInvariant, PTL

(* A seat's flock keeps two workers from ever writing in one checkout, for *)
(* any number of seats, dispatches, resumes and killed launchers.          *)
THEOREM OneWriterAlways == Spec => []OneWriter
<1>1. SeatInv => OneWriter
  BY SeatAlone DEF OneWriter
<1> QED
  BY <1>1, SeatInvariant, PTL

(* No edit, committed or not, is lost by a reset, a relocation, a failed   *)
(* git step, a removal or a death.                                         *)
THEOREM NothingLostAlways == Spec => []NothingLost
<1>1. Init => NothingLost
  BY DEF Init, NothingLost
<1>2. SeatInv /\ NothingLost /\ [Next]_vars => NothingLost'
  BY LostNext
<1> QED
  BY <1>1, <1>2, SeatInvariant, PTL DEF Spec

(* While a worker lives, only it changes its checkout. *)
THEOREM CheckoutKeptAlways == Spec => WorkerKeepsCheckout
<1>1. SeatInv /\ [Next]_vars =>
        [\A d \in Dispatches :
           worker[d] = "live" =>
              LET s == seat[d] IN
              /\ tree'[s].there /\ tree'[s].branch = tree[s].branch
              /\ tree[s].dirty \subseteq tree'[s].dirty \cup tip'[tree[s].branch]]_vars
  BY CheckoutKept
<1> QED
  BY <1>1, SeatInvariant, PTL DEF Spec, WorkerKeepsCheckout

=============================================================================
