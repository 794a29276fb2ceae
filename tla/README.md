# Goal-flight: a verification project

Goal-flight runs coding agents ("workers") as background processes for a
controller. A *dispatch* is one such launch. This directory holds TLA+ models of
seven parts of `src/scripts/`:

- whether a worker runs, who may declare it finished, and when its place in the
  machine's budget is given to another (`Dispatch` over `Capacity`);
- how a queued dispatch reaches a launcher once, and only once, although drains
  and launchers die (`Queue`);
- which checkout a worker writes in, and who may reset or remove it (`Seats`);
- how the news that a worker has ended reaches a controller (`Mail`), and how mail
  wakes a controller that is not looking (`Wake`);
- how a running worker asks its controller and gets an answer (`SteerWait`, which
  implements `Questions`);
- how many workers a machine, an account and a priority lane may have
  (`Admission`).

TLC checks the models on small instances; TLAPS proves their safety properties
for every instance. What is left to TLC alone is liveness.

## 1. Inventory of the system

| Component | Where | State it keeps | Operations | What is hard |
|---|---|---|---|---|
| Capacity leases | `goalflight_capacity.py` | `capacity.json`: one lease per dispatch, cooldowns | acquire, mark spawning / spawn-failed, attach, detach, retain, release, release-stale, prune, extend | every decision rests on process probes that may be stale or empty; several processes take leases back |
| Process probes | `goalflight_compat.py`, `goalflight_ledger.py` | none | pid, group and start-token probes | pid reuse, unreadable identity, surviving descendants |
| Dispatch launcher | `goalflight_dispatch.py: main` | its own position; worker pid in memory | record, acquire, spawn, attach, claim, start watcher, follow, finally | may be killed between any two writes, also inside the spawn call |
| Ledger | `goalflight_ledger.py` | `runs.d/<id>.json` rows under a file lock | record, finish, reconcile | mirrors the journal in a second step |
| Journal | `goalflight_journal.py` | SQLite: attempts, outbox, tasks, questions, cursors | prepare, start, running, commit terminal | first terminal wins; losers still act |
| Watcher | `goalflight_watch.py`, `goalflight_liveness.py` | `status.json`, tail offsets | observe, conclude, stop, terminate, retain | races launcher, reconcile and the worker's exit |
| Abandoned reconcile, withdraw, settle | `goalflight_dispatch.py` | none of their own | close a dispatch on evidence of death | decide from several stores at once |
| Queue and drain | `goalflight_dispatch.py` | carrier files and claims | enqueue, claim, launch, recover | duplicate launch or lost carrier after a crash |
| Terminal outbox and mail | `goalflight_journal.py`, `goalflight_messages.py` | outbox rows, message files | project, acknowledge, replay | delivery exactly once across processes |
| Wake listeners, supervisor, controllers | `goalflight_wake.py`, `goalflight_wake_supervise.py`, `goalflight_controllers.py` | cursors, leases, generations | arm, fire, respawn | lost wake-ups, two listeners |
| Worktree seat pool | `goalflight_worktree_pool.py`, `goalflight_worktree_gc.py` | seat locks, quarantine refs | allocate, inherit, release, collect | locks inherited over exec |
| Steer mailbox | `goalflight_steer_mailbox.py`, `goalflight_dispatch.py: _cmd_steer` | `<dispatch>.steer.jsonl`, receipts sidecar, markers in the tail | steer, reply, wait, cleanup helpers | reply races deadline; killed between output and its record |
| ACP runner, gate, permits | `goalflight_acp_run.py`, `goalflight_acp_permits.py`, `goalflight_startup_gate.py` | permit files, sessions | start, stream, finalize | cleanup after partial start |
| Admission arithmetic | `goalflight_capacity.py`, `goalflight_rate_pressure.py` | cooldowns, pressure windows | cap per lane, pool, account, RSS | boundaries |
| Task store | `goalflight_task.py` | tasks in the journal | add, claim, finish, release | claim against dispatch end |
| Fleet | `goalflight_fleet_*.py` | remote records, billing | ferry, reconcile | duplicated and delayed results |
| Remote CI | `goalflight_remote_ci.py`, `goalflight_remote_ci_node.py` | queue of requests, lock tokens on the nodes, receipts | submit, run a pair, cancel, clean up | a lost connection while the other machine runs on |
| Views and set-up | status, doctor, console, usage, setup | none | render | I/O only |

How they interact: the launcher writes a journal attempt, then a ledger row, then
takes a lease; under the ledger lock it checks that nobody has superseded it,
moves the lease to `spawning` and spawns; then it attaches the worker to the
lease, claims RUNNING in the journal, mirrors that on the row, and starts the
watcher. Launcher, watcher, `reconcile`, `drain` and `withdraw` may each end the
attempt: they commit to the journal, project the verdict onto the row and ask the
lease file to release the slot. No transaction spans two stores.

What makes each part correct: a slot is not given up while its worker may live;
it does come back when the worker is dead; the number of leases stays within the
cap; the row never runs ahead of the journal; a superseded dispatch does not
start; a dispatch whose processes were killed is eventually settled, unless the code
holds it for somebody who may come back.

A worker that needs its controller runs `steer --wait`: it appends an arm to its
mailbox file, publishes the question and polls the file until a typed reply to
this arm appears or its deadline passes. The reply is printed, then its receipt
line; two detached helpers then record a receipt and an end row. A controller
replies by another short command that validates and appends under the file's
lock. Every one of these processes may be killed at any point, and the next
`steer --wait` must find out from the file and the receipts where the last one
stopped. It is correct when a wait has one outcome, everybody who was told of it
was told the same, and an admitted answer reaches the worker before the worker
can ask again.

## 2. Modules

| Module | Models | Role |
|---|---|---|
| `Capacity` | `goalflight_capacity.py` on one lease per dispatch | state of the lease file, probes, reclaim rules, one operator per operation |
| `Dispatch` | launcher, ledger, journal attempt, watcher, repairers, operator, processes, time | composes them over `Capacity`; specification, fairness, properties |
| `Queue` | queue carriers, claims, launch tokens, launcher children, restore transactions, recovery in `goalflight_dispatch.py` | drains, children, worker and task store around one queued dispatch |
| `Seats` | `goalflight_worktree_pool.py`, the seat binding of `goalflight_dispatch.py`, `goalflight_worktree_gc.py` | launchers, workers, removal pass and git over a pool of checkouts |
| `Mail` | terminal outbox, delivery rows, leases and cursors of `goalflight_journal.py`; `post_message` and projection of `goalflight_messages.py` | projectors, senders and controllers over one stream |
| `Wake` | `goalflight_wake.py`, `listen`, `follow` and `supervise` of `goalflight_messages.py`, `goalflight_wake_supervise.py` | doorbells, stream, supervisor and controller around one cursor |
| `Admission` | the arithmetic of `goalflight_capacity.py`, with `goalflight_agent_limits.py`, `goalflight_rate_pressure.py`, `goalflight_quota_stuck.py` | ceilings, accounts, lanes, pressure and the launch budget over a bag of leases |
| `Questions` | - | abstract specification: what a worker that asks may rely on |
| `SteerWait` | `goalflight_steer_mailbox.py`, the `--wait` part of `_cmd_steer` | waiting commands, controller, helpers and time over one mailbox; implements `Questions` |
| `MCDispatch`, `MCQueue`, `MCSeats`, `MCMail`, `MCWake`, `MCAdmission`, `MCSteerWait` | - | instances for TLC |
| `DispatchProofs`, `QueueProofs`, `SeatsProofs`, `MailProofs`, `WakeProofs`, `AdmissionProofs`, `SteerWaitProofs` | - | theorems checked by TLAPS |

The modules meet where their programs do, and each states what it takes from the
others. `Queue` sees of the launcher what `Dispatch` details: its journal attempt
and its row, the steps between which it may die, and a capacity refusal as an
outcome. `Seats` takes from both that a dispatch is launched once. `Mail` begins
where `Dispatch` commits a terminal attempt, and `Wake` where a row of `Mail` becomes
visible to a controller. `Admission` decides what `Capacity` counts as one number.

### Dispatch

State and code. `lease[d]` is the entry of `capacity.json` (`state`,
`launch_state`, which worker fields are recorded, the retention reason, whether a
person released it). `due[d]` holds the deadlines that have passed: reservation
(300 s after the grant), the journal's start deadline, the lease's TTL, the 7200 s
retention window, a day since the lease ended. `rec[d]` is the ledger row,
`att[d]` the journal's `dispatch_attempts` row, `pc[d]` and `watch[d]` the
positions of launcher and watcher, `verdict[d]` the `worker_still_alive` each is
about to report, `recon` the dispatches for which a reconcile pass has committed
and not yet projected, `proc[d]` what runs under the worker's pid (nothing yet,
the worker, nothing any more, an unrelated process) and `kin` the dispatches
whose worker left live descendants in its group. `side[d]` is the `status.json`
sidecar (absent, written by a capacity wait, or telling of a worker) and `owned[d]`
says that the recorded controller is alive, is not recorded or cannot be read.

Every action is one critical section or one write of the code. A recording
operation that commits to the journal and then writes the row is two actions.
Operations on `capacity.json` run under its lock and are one action each; the
release hooks that callers run outside their own lock and whose errors they
swallow ("terminal capacity cleanup deferred") may or may not happen
(`TryRelease`). The ledger lock is modelled where it matters: while a launcher is
inside the spawn call (`pc = "handoff"`) nobody else can write a row
(`LedgerFree`).

Probes. The code's probes answer yes, no or nothing. In the model an operator
that rests on a probe returns the *set* of booleans the code could compute, and
the action picks one. With fault `"blind"` a probe may answer nothing; with
`"reuse"` the pid may belong to somebody else, whose group may exist too.

Faults are a parameter (`Faults`), so that each run switches on what its question
needs; the theorems hold for every subset.

The drain's repairer of abandoned dispatches settles fewer orphans than one might
expect. A missing or unreadable status vetoes a row for good, and so does a
controller that lives or cannot be proven gone; a launch that is granted its slot at
once writes no status before its worker exists. What outweighs both vetoes is a
terminal marker in the tail of a recorded, dead worker (`ReconcileAbandonedMarked`).
A dispatch whose launcher dies while it waits may therefore stay open for ever
(`HeldWaiting`); once it is STARTING, its start deadline ends it.

Abstractions (the first leaves out control as well, the others are of data):
- the sidecar is evidence of a worker and a veto of the repairers (`side`); the
  terminal verdicts that reconcile may take from it, a progress time that is too
  recent to be stale, output evidence of a result and a status write that fails are
  left out;
- one count against one cap stands for admission; lanes, accounts, memory and
  cooldowns are the subject of `Admission`;
- legacy and remote leases, unreadable or corrupt files, archives, the beacon of a
  controller (`owned` is what follows from it), output growth, queue carriers (and the relaunch of a dispatch whose
  queue entry was refused capacity), and withdraw's stale-spawn-intent path are
  left out;
- a lease's clocks pass only while something can read them.

Bounds: none inside the two modules. The state is finite by itself once
`Dispatches` is.

### Queue

The work is a file. `carrier` is `<id>.json` (absent, published or prepared by an
unfinished restore), `claim[c]` a claim file with its launch token and the marks
the launcher left on it, `row` and `att` the ledger row and the journal attempt,
`child[c]` the position of the launcher a claim was given to, `worker[c]` the
process it spawned, `drain[d]` the position and local variables of a drain pass,
`truth` what the task store answers, `shelf` where a claim that left the queue was
put. A slot `c` stands for a claim, its child and its token together; a slot that
nothing refers to is used again.

A drain pass recovers first (one action per decision of
`_reconcile_claim_transaction` and of the ledger-orphan and prepared-carrier
passes) and then launches: token read, rename, completion gate, child, conclusion,
guard exit. The token is read before the queue lock and used after the rename, as
in the code. A restore is four durable writes; an action that performs one chooses
how many of them happen before its process dies (`Cut`).

`_launch_age_timestamp_s` dates a claim by its entry's `created_at`, so that
another drain may find a claim stale while its launcher runs, restore it and claim
it again. Two launchers then run for one dispatch. `OneWorker` holds all the same,
because the journal starts an attempt once (`MayStart`).

Left out: scheduling order, backoff times, per-project skips, remote nodes, the
operator's requeue of a terminal claim. Bounds: `MaxRecoveries` and `MaxFailures`
are the code's own budgets, `MaxFaults` bounds the mishaps, `Slots` and `Txns` are
as many as can be in use at once.

### Seats

A seat is a checkout (`tree[s]`: present or not, its branch, what is uncommitted),
a lock file (`flock[s]`: the processes that hold its open file description;
`meta[s]`: the occupant named in it) and a path lock (`occ[s]`). Git is `tip`
(branches), `saved` and `kept` (the refs the pool and the collector write) and
`merged` (the integration branch). Work is counted in edits, so that a property
can ask where every one of them is.

`flock` is a set because the lock belongs to the open file description: the worker
shares it by inheritance, the launcher closes its copy after the spawn, and the
seat is free when the last copy is closed, by exit or death. The allocation lock
is held while a candidate is tried and dropped before the claimed seat is
prepared. Preparation is one action per durable step of `_prepare_claimed_seat`:
path lock and holder check, saved head, quarantine of what is uncommitted, forced
checkout, occupant. A launcher may die between any two (`LauncherDies`) and a git
step may fail (`GitFails`).

A dispatch may resume another (`Parent`): in its seat if the seat still names it,
else on its branch in another seat. The collector decides, takes the seat's lock,
pins the head, looks again and removes.

Two behaviours of the code shape `SeatFound`. A withdrawal clears the occupant, and
a checkout without a readable occupant counts as occupied, so the seat is out of
use (`Stranded`) until somebody removes it. A queued row has no checkout of its own
and keeps the collector from every checkout of the project.

Left out: relaunch under the same id, read-only shared seats, sparse checkouts,
legacy rings and lock registration, LFS and submodule refusals, clean-up of a
failed first bind. Bounds: `MaxEdits` per worker and `MaxFaults`.

### Mail

One stream. `outbox[e]` is the terminal event's projection state, `carrier` the
message file of the dispatch as a sequence of events, `rows` the delivery rows by
rowid (recipient or wildcard, position, visible, withdrawn), `lease` and `cursor`
the controllers' leases and positions, `proj[p]`, `poster` and `relay[l]` the
positions of a projector, of the sender that holds the carrier lock and of a
controller's drain. A plain drain prints what it peeked and then moves the cursor; a
drain that was asked for JSON (`JsonReaders`) moves the cursor first and prints when
the move is committed (`PrintDrained`). Either may be killed in between (`Abandon`). `shown` and `read` record what was printed and what a cursor
was moved over.

Each journal call is one transaction and one action. No lock spans a projection:
append, choice of recipients, assignment, marking, reconciliation and
confirmation of several projectors interleave with each other and with controllers
that register, drain, expire and retire. `Retire` moves unread mail to the
wildcard, `Advance` takes wildcard mail over, and both are what a projector may
find when it comes to mark its rows.

Left out: bookmarks set by hand, sender-given positions, replacement and withdrawal
of mail, the webhook outbox, listener coverage, attention items. Bounds: `MaxTries`
is the code's, `MaxLeases` bounds the generations of a lease, `MaxFaults` the
deaths and refusals of projectors.

Four behaviours are worth knowing. A row is withdrawn for good: neither
`record_delivery_event` nor `mark_delivery_projected` revives it, so a second visit
of a projector cannot repair what the first one withdrew (`blind`). A terminal
event is appended at its position before it is assigned, so later mail may be read
first and the row end below the reader's cursor: it is not withdrawn, but this reader
does not see it; `TerminalKept` speaks of rows, not of readers. A sender that dies between assignment and append leaves a row on a
position the next event will take, which then cannot be assigned to that recipient
(`Spoilt`). A JSON drain killed after its move has passed mail it never printed:
`PassedOnlyShown` excepts what such a drain still holds (`Owed`) and nothing else.

### Wake

`mail` is the set of visible rows, each a stream and a position, and `cursor` the
position the controller has consumed of each stream; visible rows above it are unread
(`Pending`). Rows become visible in any order (`Post`): a terminal event has its
position long before `mark_delivery_projected` shows its row, and that call looks at
no other row. `version` is the
journal's `cursor_version`, `rewinds` its `rewind_version`, `lease` whether the
generation is live. `stamp` is the one ring a cursor version gets, `report` the
pending-report file (phase, boundary, owner), `bell[b]` and `follow` the positions
and local variables of the doorbells and of the stream (`bell[b].late` is a history: the rows that became
unread after the snapshot the doorbell reports), `look` the doorbells that
have not peeked since the journal changed, `sup` the supervisor with what it
remembers to have forwarded, `pipe` what its children printed and it has not yet
passed on, `heard` what reached the controller and has not been put back.

A doorbell peeks, arms a report or polls, claims the ring of the version it read
and prints, in steps of its own, and any other process may act between two of them:
the controller advances or puts its cursor back (`SetCursor`), another doorbell
takes a report over from a dead owner (`ArmTakesOver`), the stream releases a stamp
it finds (`FollowRelease`), the supervisor dies with what is in its pipe
(`SupervisorKilled`). The peek and the claim are two actions, as in the code, and
the claim is refused when the version on the stamp is already the one it brings.

Four behaviours are worth knowing.
- A doorbell killed between its claim and its print leaves a stamp that nobody
  answers for: the others stay silent until the version changes or a new stream
  starts. The action is in the model (mishap `"ringing"`); `StampAnswered` and
  `EveryMailHeard` do not hold with it, and the run leaves it out.
- A row that becomes unread under the boundary of a report whose owner lives, and
  after the owner's snapshot, is suppressed by the doorbells although nobody saw it.
  It may be a row put back by a rewind or one made visible below newer mail.
  `NothingHidden` excepts these rows (`late`) and no others.
- Such a row is left to the stream. A doorbell that rings for newer mail before the
  stream's claim, or between its release of the stamp and its claim, takes the one
  ring of that version without the row, which waits for the next version
  (`LeftBehind`). `EveryMailHeard` fails without this exception, by a late row and no
  rewind.
- The stream of a new supervisor that finds the generation lock of a slow incumbent
  still held exits, and its slot is stopped (`sup.stopped`).

Left out: watchdog and death announcements, tolerance of a busy journal, the slot
cap, quiet and self-authored mail, carrier errors, manual polling, back-off times,
coverage records. Bounds: `MaxMail`, `MaxRewinds`, `MaxMishaps`. Versions are only
compared for equality, so the model takes the next one from a set with one more
member than there are holders.

### Admission

`machine` is the profile (RAM, configured total), `leases` a bag of leases with
account, weight, memory and standing, `ended` the terminal rows of spawned leases that
are still in the file, `cooling` the cooldowns. Weights are whole
numbers of `1/Slot` of a slot. The operators follow `cmd_acquire` in its order:
ceilings (`RawCeiling`, `Tier`, `OperatingCap`), account cap, pressure
(`Adaptive`), lanes (`LaneTotal`, `LaneAgentCap`), the three refusals (`Full`), and
the reclaiming that happens only when a request would be refused (`Considered`).
`AccountRemaining` and `BudgetRefuses` are what the launcher asks before it picks
an account. What the ledger says of rejections (`Pressures`) is an input of each
request: it changes with every record and no operation here writes it.

Behaviours the properties are worded around:
- the bulk lane's reserve has a floor of one, so on a machine with a cap of three
  or less bulk may take the last slot, against the comment at
  `goalflight_capacity.py:87`;
- an entry that touches a label and was counted more often than the provider's hard
  stop is read first and hides it (`Hidden`);
- an account whose configured cap is no larger than the recommended one counts as
  not under pressure, and a critical request may borrow there;
- a failover (`Rebind`) consults no cap;
- `retain_indeterminate_live_lease` makes the lease it names active again, whatever
  its state and without a look at cap or memory. On an active lease that is stale it
  is `Retain`; on one that was released, pruned or reclaimed it is `Reactivate`, and
  memory and count may then exceed the RSS budget and the RAM ceiling. `RamHeld` and
  `WithinCeiling` say that no other operation takes them past these, or further past
  them. A terminal row leaves the file after a day (`Forget`);
- `launch_slot_budget` falls back to another default than `cmd_acquire`, and does
  not reclaim, so it may say an account is full that `cmd_acquire` would clear
  (`BudgetNeverShort` holds when nothing is left to reclaim).

Left out: counting of pressure from records, several pools at once, the
resident-memory governor, `--max-total` and `--agent-cap` (launchers pass neither).
Bounds: `MaxLeases` leases, active or ended, `MaxCooled` of them while a cooldown is
in force, and one cooldown at a time.

### SteerWait

`mail` is the mailbox file, a sequence of rows (arm, reply, end, untyped steer)
whose position is the code's `seq`; an arm's position also stands for its uuid.
`receipts` is the sidecar, `marked` the replies whose `STEER-REPLY` line was
printed, `delivered` those whose text was, `waiter[p]` the position and the local
variables of a waiting command, `helpers` the cleanup processes on their way.
`expired`, `deadlined` and `told` record which deadlines have passed, which waits
were reported as settled by theirs, and what a controller was told of a message.

Each read and each validated append holds the carrier lock and is one action;
everything between two of them is open to the other processes. A lock that is not
had in time is the action of the code's `TimeoutError` branch (`GiveUp`, the last
disjunct of `FailWait` and of `DeadlineResult`). The first read of a wait, the
read that decides whether the prior wait is stale, the append that closes it and
the append that arms the new one are four actions, as in the code, and the
receipts used by all of them are those of the beginning. Markers in the tail can
be lost (the watcher reads a bounded tail), so a wait sees any subset of them; an
unreadable sidecar counts as empty (`"blind"`).

Left out: corrupt and quarantined mailboxes, the message carrier through which
`post_controller_steer` passes before the mailbox view is written, the suspension
of the watcher's idle clock during a wait, the ACP runner's reading of steers.
Text, sender and the `late` flag of a reply are data without a property.

Bounds: `MaxWaits` on arms and `MaxSteers` on untyped steers, in the guards of
`ArmWait` and `SendSteer`. The proofs hold for every value of both.

## 3. What the runs check

| Run | Instance | Checks | Result |
|---|---|---|---|
| `dispatch_safety` | 1 dispatch; crashes, blind probes, pid reuse, descendants, operator, withdrawal, supersession; reservation and TTL | `TypeOK`, `MirrorNeverLeads`, `SupersededNeverSpawns`, `LiveWorkerKeepsSlot`, `DescendantsKeepSlot` | holds (0.80 million) |
| `repair` | 1 dispatch; crashes, controller comes and goes; fair repair | `SlotReclaimed`, `DispatchSettles` | holds (86 thousand states) |
| `cap` | 2 dispatches, cap 1; no faults; background launches | `WithinCap` | holds (1.23 million) |
| `live_child_released` | 1 dispatch; crashes | `LiveChildNeverReleased` | violated |
| `steer_races` | 2 waiting commands, 2 arms, confirmations; crashes | `OneOutcome`, `DeadlineIsFinal`, `QuestionsKept` | holds (0.34 million) |
| `steer_live` | 1 command, 1 arm, 2 messages sent any number of times, 1 untyped steer; crashes, blind probes; fair | `TypeOK`, `ToldTruth`, `ReplyReaches`, `WaitCloses` | holds |
| `queue` | 2 drains, 3 slots; linked or not; 1 fault of any kind; fair | `TypeOK`, `OneWorker`, `WorkKept`, `EventuallySettled` | holds (0.26 million) |
| `seats` | 1 seat, 2 dispatches and a resume, 1 edit each but one; 1 death or failed git step; fair | `TypeOK`, `OneWriter`, `NothingLost`, `WorkerKeepsCheckout`, `SeatFound` | holds (0.19 million) |
| `mail` | 1 terminal event, 1 post, 2 controllers with a lease each (one may drain as JSON), 1 projector; 1 fault; fair | `TypeOK`, `OnePosition`, `TerminalKept`, `PassedOnlyShown`, `Settled` | holds (1.09 million) |
| `terminal_withdrawn` | 1 terminal event, 2 controllers, 2 projectors; no faults | `ProjectedHasRow` | violated |
| `wake` | 2 doorbells, 1 stream; 1 row with 1 rewind or 1 mishap, or 3 rows, one of them late; fair | `TypeOK`, `NothingHidden`, `StampAnswered`, `EveryMailHeard` | holds (0.58 million) |
| `admission` | 4 machines around the tiers, 2 labels, 2 accounts, 3 requests, 6 pressures, 3 leases active or ended | `TypeOK`, `RamHeld`, `WithinCeiling`, `LanesOrdered`, `StopHolds`, `BudgetNeverShort` | holds (17 thousand) |

One dispatch is enough for every question but the cap: dispatches share only the
ledger lock and the admission count, and neither appears in the other properties
except that another launcher's spawn call may delay a writer. The cap needs a
second contender and no faults: expiry, stale reclaim and pruning on the way in
are what it is about. Its constraint drops foreground launchers, launchers that
fail around a live worker, waits that leave a status and half-done reconcile passes;
the theorem
`CapRespected` needs none of these restrictions.

For the mailbox, two commands and two arms are what a race needs: one that has
armed and one that settles what the first left, then a second arm that must not
come too early. At most one cleanup helper is on its way in the runs
(`OneHelper`); the theorems need no such restriction.

For the queue, two drains are what it takes for one to recover under the other, and
three slots are a claim, its successor and the child of a claim that is gone. One
fault of any kind: with two deaths the recovery budget of one is spent and the
dispatch rests as a claim beyond its bound. That a restore of a cut restore loses
nothing takes two deaths; it is proved (`WorkKeptAlways`) and not run.

For the seats, one seat is the hardest pool: everybody wants the same checkout. Two
dispatches and a resume give each step of a reset somebody whose work is at stake
and somebody else who wants the seat; with more seats the same contention is spread.

For the mail, two controllers are what "owner", "roster" and "wildcard" need to
differ, and a post beside the terminal event is what can stand in its way. Two
projectors are in `terminal_withdrawn`, where they fail.

For the admission, the machines lie on both sides of the boundaries: RAM unknown, a
configured total above a RAM ceiling of two, the two sides of the 8 GB tier. Three
leases, active or ended, are one past the smaller caps and enough for a lease to come
back over a full machine; the larger ones are proved.

For the wake, two doorbells are one that rings and one that stands behind it or takes
its report over; the stream is the third voice. The constraint `OneOrLate` joins two
regimes. Over one row, a rewind and a mishap each bring their own races and are not
combined (`OneTrouble`), and a supervisor's children do not outlive it except for the
stream, whose lock is what a successor meets. Over three rows (`LateMail`), row 2 is
reported by one doorbell, row 1 becomes visible below the claim or the report and row
3 behind both, with nothing read, put back or killed and the owner alive: behaviours
in which the owner itself rings and exits are cut off, and what `EveryMailHeard` says
of late mail it says of that regime. The theorems need no such restriction.

Deadlock is not checked: a dispatch ends, a worker may ask no more, and the system
may then rest.

Fairness of `repair`. A process that is not killed takes its next step; the
reconcile and drain passes recur (timers and every later command run them), and
are not killed for ever between commit and projection (strong fairness on the
projection); time passes. Nothing obliges a worker to exit or to leave a marker in its
tail, a controller to go away or an operator to act, so that
`ReconcileAbandonedMarked` has no fairness and `ReconcileAbandoned` is owed only while
its vetoes stay away. `Orphaned` says that launcher, watcher, worker and descendants are gone.
`DispatchSettles` excepts the dispatch that died waiting with no status, or with a
controller that may come back for it (`HeldWaiting`): the code keeps it open on
purpose ("stays ineligible for reconciliation for good"). `SlotReclaimed` excepts a slot whose launcher ended with "worker unknown" or
"worker alive" before any store had its identity (`Unaccounted`): the code says
that such a spawn "is unknown and must leak".

Fairness of `steer_live`. A command that is not killed takes its next step, and
the worker asks again (weak fairness). Kills, or a lock that is not had, do not
strike at the same point for ever (strong fairness on the four steps that bring a
wait to its reply or its end). Time passes. Nothing obliges a controller to reply
or a helper to succeed. `WaitCloses` excepts a worker that has unacknowledged
steers: they answer every later need before the wait is looked at.

Fairness of `queue`. Drains keep running and every pass begins with recovery,
which is not preempted for ever (strong fairness on `Recover`); a launcher child
that is not killed takes its next step, a worker exits, a watcher finishes, time
passes and an unreadable task store is mended. That a launch is not refused for
ever is `MaxFaults`. `EventuallySettled` admits one state of rest: a launcher that
died between the spawn intent and the worker's identity leaves a claim nobody
guesses about (`HeldForOperator`).

Fairness of `seats`. A launcher that is not killed takes its next step and is not
kept from the allocation lock for ever; reconcile and the watcher end the row of
what is gone; a removal that has begun goes on. No worker is obliged to exit, no
collector to begin.

Fairness of `mail`. A projector of some process always comes and ends what it has
begun, as does a sender. No controller is obliged to register or to read.

Fairness of `wake`. Doorbells, stream and supervisor that run take their next step:
each loops on a timer. The supervisor arms an empty slot again and passes on what is
in its pipe. Nobody is obliged to post, to read or to start a supervisor.

Two runs show the code doing what its own comments exclude.

`live_child_released`. A launcher killed inside the spawn call leaves a child whose pid nobody has
recorded. `reconcile_terminal_outbox` classifies the `starting` row by the dead
claimant (`identity_matches` falls back from `worker_pid` to `claimant_pid`) and
closes the attempt as `worker_dead` with `worker_still_alive` false. That row is
then the proof on which `_terminal_worker_gone` frees the `spawning` lease, once
300 s have passed since the grant, while the child runs. `LiveWorkerKeepsSlot`
states exactly this exception (`TerminalRowOverridesWorker`) and that there is no
other.

`terminal_withdrawn`. Any process that ends a dispatch projects every pending row
of the outbox, and no lock keeps two of them apart. One chooses the wildcard, a
controller registers, the other chooses that controller; each reconciles by
withdrawing the row of the other and marks the outbox projected. The event then has
no row left, against "Ensure a carrier-projected terminal has a visible delivery
row" (`goalflight_journal.py:6532`). `TerminalKept` says that, with one projector at
work, this happens only to events reconciled when none of their rows was live.

A third was met while `SteerWait` was written and is not kept as a run: when the
receipt of a reply is known but its end row is missing, `settle_stale_prior_wait`
refuses to close the wait whatever the receipts say, and the next question is
answered with the old reply.

## 4. What is proved

Every safety property of every passing run is also a theorem of the specification,
for all values of the constants that satisfy the named assumptions (one theorem of
`Wake` has a hypothesis of its own, given there). An invariant is
proved from an inductive one, stated in the proof module as a conjunction of named
parts; the proof that a step keeps it has one case per action.

### Dispatch

For every finite set of dispatches, every cap, every set of deadlines and every
combination of faults (`DispatchProofs`):

- `TypeCorrect`: `Spec => []TypeOK`.
- `MirrorSafe`: `Spec => []MirrorNeverLeads`. The row alone does not carry the
  argument: `MirrorInv` adds that whoever stands between commit and projection
  (launcher or watcher at `projecting`, a dispatch in `recon`) has a final
  attempt, and that an untouched dispatch has none of this.
- `SupersessionSafe`: `Spec => SupersededNeverSpawns`. `SpawnInv` says that no
  superseded dispatch is inside the spawn call, which the ledger lock guarantees;
  `Barred` (no worker, not inside the call, and marked or on the way out) is
  stable under every step.
- `CapRespected`: `Spec => []WithinCap`. Only `cmd_acquire` adds an unretained
  active lease, and it adds one to fewer than `MaxTotal`; every other operation
  shrinks the set (`GrowsStep`, `AcquireWithinCap`).
- `SlotSafe`: `Spec => LiveWorkerKeepsSlot`. `SlotInv` relates the launcher's
  position, the existence of the worker and what is recorded of it, says that the
  lease of a worker that may live has left `reserved`, and that a launcher
  reporting its worker dead has no live worker. From it: no probe proves a live
  worker gone (`LiveNotGone`), the reclaim passes and release hooks spare it
  unless its terminal row overrides it (`TerminalGoneOverrides`,
  `StaleOverrides`, `NotExpired`), and a claimant surrendering its lease has
  none (`LiveNotSurrendered`).
- `DescendantsSafe`: `Spec => DescendantsKeepSlot`. `KinInv` says that a lease which
  records a process group records its leader, and that descendants outlive only a
  worker that is gone and whose pid nobody has. From it: no evidence that includes
  the group proves the worker's scope gone while the group can be probed or its
  retention window is open (`KinNotGone`, `KinNotTaken`).

The last two share one lemma about the whole next-state relation, `EvidencedStep`:
whatever ends an active lease is an operator, a proof that the worker is gone, a
pass that found the lease stale or expired, or the lease's own launcher. What the
probes can and cannot prove is then a question about a state.

Assumptions: the four named `ASSUME`s of `Capacity` (finite dispatches, a positive
cap, known deadlines and faults), all evaluated by TLC in the runs.

### SteerWait

For every set of waiting commands, kinds of question and messages, for every bound
and every combination of faults (`SteerWaitProofs`):

- `WaitTypeCorrect`, `OneOutcomeHolds`, `ToldTruthHolds`, `DeadlineIsFinalHolds`:
  the invariants of the runs.
- `QuestionsRefined`: `Spec => QuestionsKept`, that is, `SteerWait` implements
  `Questions` under the mapping of instance `Asks`.

All follow from one inductive invariant, `WaitInv`. Its parts: rows refer to arms,
and an end row that says "reply" to the delivered reply it names (`RowsInv`);
receipts and markers are of deliveries only (`DeliveryInv`), which is why a wait
may trust them; what waiters and helpers hold points to such rows (`WaiterInv`,
`HelperInv`); every arm but the newest is given up or its reply delivered
(`SerialInv`); a reported deadline has its end row (`DeadlineInv`); a refusal had a
lasting reason (`ToldInv`). The mailbox changes in six ways only (`MailStep`,
`StepMail`), and what is true of its rows is shown once for each of them. The
assumptions are the four of `SteerWait`: natural bounds, known kinds and faults,
and message ids that name one message.

### Queue

For any number of drains, claims and faults (`QueueProofs`): `TypeCorrect`,
`OneWorkerAlways`, `WorkKeptAlways`, from `QueueInv`. A dispatch gets one worker
because its journal attempt is started once and only the child that started it
spawns (`StartedOnce`); drains, claims and tokens have no part in the argument. Its
work is kept because a file gives way only to another one or to something final:
the journal, the shelf or a spawned worker (`RowInv`, `PreparedInv`). The run has
one fault; the theorem covers any number, cut restores of cut restores included.
The assumption is that claim slots and transactions do not run out.

### Seats

For every set of dispatches, every relation of resumes, every number of seats, edits
and faults (`SeatsProofs`): `TypeCorrect`, `OneWriterAlways`, `NothingLostAlways`,
`CheckoutKeptAlways`, from `SeatInv`. Its parts: a launcher between its claim and
the end of its part holds the seat's lock, a live worker the descriptor it
inherited, and one owner at a time has either (`Holders`, `Workers`, `OneHolder`);
the checkout of a live worker, or of a launcher past its reset, is there, and one
that is gone holds nothing (`Trees`, `Stands`); what is uncommitted has been quarantined before the forced checkout
(`Kept`).

### Mail

For any number of controllers, projectors, events, lease generations and faults
(`MailProofs`): `TypeCorrect`, `OnePositionAlways`, `TerminalKeptAlways`,
`PassedOnlyShownAlways`, from `MailInv`. Events are appended once, under the carrier
lock (`CarrierInv`); rows keep their event and position, which is the event's place
in the carrier or the one it is about to get (`RowsInv`); what a retirement, a
reconciliation or an advance withdraws leaves a live twin, a spoilt position or a
blind mark, or was read (`KeptInv`); what a plain relay saw it has printed (`SnapInv`),
and what a JSON relay passes it holds.
`mail` has one projector because with two `ProjectedHasRow` fails; `TerminalKept`
names that case and is proved for any number.

### Wake

For any number of streams, doorbells, rows, rewinds and mishaps (`WakeProofs`):

- `TypeCorrect` and `NothingHiddenAlways`, with every mishap and rows that become
  visible in any order, from `ShownInv`. `ToldInv` follows a report from its snapshot to
  its mark: the snapshot is of all that is unread, a claim is told from the snapshot,
  a report about to be marked has been printed, and what became unread since is late.
  The supervisor passes over only what was heard since the last rewind it knows of
  (`MemoryInv`). That the next version is held by nobody is a pigeonhole argument
  (`BumpedIs`).
- `StampAnsweredAlways`, for `"ringing" \notin Mishaps`, from `WakeInv`: the owner of
  the current version's stamp had read all that is unread (`BellRows`,
  `FollowRows`), so whoever holds the ring is about to print it. The hypothesis
  excludes the one death after which the property is false (section 2, Wake); every
  other mishap is admitted.

### Admission

For any machine, caps, requests and pressures (`AdmissionProofs`): `TypeCorrect`,
`RamHeldAlways`, `WithinCeilingAlways`, `LanesOrderedAlways`, `StopHoldsAlways`,
`BudgetNeverShortAlways`. `AdmissionInv` is small (types and finitely many leases).
`RamHeld` and `WithinCeiling` are action properties: every step but a reactivation
leaves what the leases hold beyond budget and ceiling no larger (`SoundStep`). The work
is in the arithmetic: monotonicity of the caps under
pressure and lane, and what one lease more or less does to a sum. Sums over a bag
are recursive functions on the subsets of its domain; facts about them are proved by
taking a smallest subset on which they fail (`Smallest`, with the well-founded
ordering of the library), which needs no induction theorem with an operator
parameter. `ShippedAssumption` (no label above its pool, vendor's account default no
lower than the pool's cap) is used by `BudgetNeverShort` alone: a machine-local
override may break it.

### Only model-checked

Liveness, which needs fairness and is out of the prover's reach: `SlotReclaimed`,
`DispatchSettles`, `EventuallySettled`, `SeatFound`, `Settled`, `EveryMailHeard`,
`ReplyReaches`, `WaitCloses`. They are shown for the instances of section 3.

## 5. Plan

1. Done: `Capacity`, `Dispatch`, `Questions`, `SteerWait`, `Queue`, `Seats`, `Mail`,
   `Wake`, `Admission`, their runs, and the theorems above.
2. Composition: the launcher of `Queue` refined to that of `Dispatch`; the commit of
   `Dispatch` joined to the outbox of `Mail`; a visible row of `Mail` to the cursor
   of `Wake`.
3. The watcher's idle clock during a wait, composed with `SteerWait`; the task store.

## 6. Not modelled

- Task store, fleet billing and ferry, review jobs: separate programs over the same
  stores, with no part in the properties above beyond the answers they give (`truth`
  in `Queue`).
- ACP runner, startup gate and permits: the ACP launch path uses the lease operations
  of `Capacity`; its protocol client is not modelled.
- Remote CI: a queue and a runner of its own, on other machines.
- Status, doctor, search, console, usage, setup, hosts and templates: they read state
  and render it, or run once.

The implementation has about 158 thousand lines, half of them in those programs, in
rendering and in command-line plumbing. The models cover the state machines that
several processes share.
