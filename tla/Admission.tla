------------------------------ MODULE Admission ------------------------------
(***************************************************************************)
(* The arithmetic of capacity admission (goalflight_capacity.py): how many *)
(* workers a machine of a given RAM may run, what an account of a vendor   *)
(* may hold, what the three priority lanes reserve or borrow, how provider *)
(* pressure walks a cap back or stops it, and the read-only budget the     *)
(* launcher consults before it picks an account.  Every operation runs     *)
(* under StateLock and is one step; Capacity and Dispatch model who calls  *)
(* them and when.  One vendor pool is modelled: the rest of the machine is *)
(* seen through the shared machine cap and RAM budget.                     *)
(*                                                                         *)
(* Weights are whole numbers of 1/Slot of a slot, so that a model of       *)
(* fractional weight needs no reals.                                       *)
(***************************************************************************)
EXTENDS Integers, Sequences, FiniteSets, FiniteSetsExt, Bags

CONSTANTS
    Machines,          \* [ram, override]: detected MB (0: unknown), configured total (0: none)
    Reserve,           \* DEFAULT_RESERVE_MB
    Worst,             \* DEFAULT_WORST_WORKER_MB
    HardCap,           \* DEFAULT_HARD_CAP
    Agents, Pool,      \* labels that share one pool, and the pool's own label
    AgentCaps,         \* DEFAULT_AGENT_CAPS of the labels
    AccountDefault,    \* DEFAULT_ACCOUNT_CAPS of the pool
    Accounts, Default, \* account names, and the name "default"
    Configured,        \* ACCOUNT_CAPS of the pool: a function on some accounts
    Slot,              \* weight of one slot
    Requests,          \* what launchers ask for: [agent, acct, weight, mem]
    Pressures,         \* what the ledger may say of recent rejections
    MaxLeases,         \* bound on the leases of the state file
    MaxCooled          \* the same bound while a cooldown is in force

Positive == Nat \ {0}

ASSUME MachineAssumption ==
    /\ \A m \in Machines : m.ram \in Nat /\ m.override \in Nat
    /\ Reserve \in Nat /\ Worst \in Positive /\ HardCap \in Positive
    /\ Slot \in Positive /\ MaxLeases \in Nat /\ MaxCooled \in Nat

ASSUME CapsAssumption ==
    /\ Pool \in Agents /\ Default \in Accounts
    /\ AgentCaps \in [Agents -> Positive]
    /\ AccountDefault \in Positive
    /\ DOMAIN Configured \subseteq Accounts
    /\ \A a \in DOMAIN Configured : Configured[a] \in Positive

(* The shipped numbers: the labels of a pool carry the pool's own cap or   *)
(* less, and the vendor's account default is no lower than the pool's cap. *)
(* A machine-local override may break this; only BudgetNeverShort needs it.*)
ASSUME ShippedAssumption ==
    /\ AccountDefault >= AgentCaps[Pool]
    /\ \A a \in Agents : AgentCaps[a] <= AgentCaps[Pool]

ASSUME RequestAssumption ==
    \A r \in Requests :
        r.agent \in Agents /\ r.acct \in Accounts /\ r.weight \in Positive /\ r.mem \in Positive

VARIABLES
    machine,   \* the machine's profile, fixed
    leases,    \* bag of active leases [acct, weight, mem, st]
    ended,     \* bag of the spawned leases that are terminal but still in the file
    cooling    \* keys of the cooldowns in force: agent labels and account names

vars == <<machine, leases, ended, cooling>>

BulkGlobalReserve == 3
BulkPoolReserve == 1
CriticalGlobalBorrow == 2
CriticalPoolBorrow == 2
Lanes == {"bulk", "normal", "critical"}

(* reserved: not spawned yet; lapsed: never spawned, and its claimant is    *)
(* provably dead; running: its worker may be alive; gone: every holder is   *)
(* provably dead; expired: gone, and past its time to live.                 *)
LeaseStates == {"reserved", "lapsed", "running", "gone", "expired"}
Leases == [acct : Accounts, weight : {r.weight : r \in Requests},
           mem : {r.mem : r \in Requests}, st : LeaseStates]

Least(a, b) == IF a < b THEN a ELSE b
Greatest(a, b) == IF a > b THEN a ELSE b

-----------------------------------------------------------------------------
(* The machine's ceilings *)

Headroom == Greatest(0, machine.ram - Reserve)

RawCeilingBare == Least(HardCap, Headroom \div Worst)

RawCeiling == Greatest(1, Least(HardCap, Headroom \div Worst))

GB == 1024

Tier ==
    CASE machine.ram <= 0       -> 2
      [] machine.ram \in 1 .. 8 * GB -> 1
      [] machine.ram \in 8 * GB + 1 .. 16 * GB -> 3
      [] machine.ram \in 16 * GB + 1 .. 32 * GB -> 4
      [] machine.ram \in 32 * GB + 1 .. 64 * GB -> 6
      [] OTHER -> 32

OperatingCap ==
    LET wanted == IF machine.override > 0 THEN machine.override ELSE Tier
    IN  Greatest(1, Least(RawCeiling, wanted))

-----------------------------------------------------------------------------
(* Accounts *)

(* _account_cap: the account's own number, the vendor's default, or what   *)
(* the caller falls back to.                                               *)
AccountCap(acct, fallback) ==
    IF acct \in DOMAIN Configured THEN Configured[acct]
    ELSE IF Default \in DOMAIN Configured THEN Configured[Default]
    ELSE fallback

(* The sum of w over S. *)
Total(w, S) == MapThenSumSet(LAMBDA x : w[x], S)

(* Leases, with multiplicity. *)
Size(B) == Total(B, DOMAIN B)

SumWeight(B, acct) ==
    Total([l \in DOMAIN B |-> l.weight * B[l]], {l \in DOMAIN B : l.acct = acct})

TotalMem(B) == Total([l \in DOMAIN B |-> l.mem * B[l]], DOMAIN B)

One(l) == SetToBag({l})

Only(B, keep(_)) == [l \in {x \in DOMAIN B : keep(x)} |-> B[l]]

In(B, states) == Only(B, LAMBDA l : l.st \in states)

(* prune_state and reclaim_stale_leases on the active leases: a lease past  *)
(* its time is dropped only with a dead worker, one without a worker only   *)
(* by reclaiming.                                                           *)
Pruned(B) == In(B, LeaseStates \ {"expired"})
Reclaimed(B) == In(B, {"reserved", "running"})

-----------------------------------------------------------------------------
(* Provider pressure: entries ordered by count, most frequent first.       *)
(* scope "agent" is one label's model capacity, "provider" the budget the  *)
(* labels share, "account" an advisory.  stop is a quota hard stop; it is  *)
(* never set for scope "agent" or "account" (decorate_pressure_payload).   *)

Entries ==
    {e \in [scope : {"agent", "provider", "account"}, labels : SUBSET Agents, stop : BOOLEAN] :
        e.stop => e.scope = "provider"}

ASSUME PressureAssumption == Pressures \subseteq Seq(Entries)

Touches(e, agent) == e.scope # "account" /\ {agent, Pool} \cap e.labels # {}

Recommended(e, agent) ==
    LET label == IF agent \in e.labels THEN agent ELSE Pool
    IN  Greatest(1, AgentCaps[label] \div 2)

EffectiveCap(e, agent, base) ==
    IF e.stop /\ e.scope # "agent" THEN 0
    ELSE Greatest(1, Least(base, Recommended(e, agent)))

(* adaptive_agent_cap: the first entry that touches the agent and lowers   *)
(* its cap decides; walked tells whether there is one.                     *)
Adaptive(agent, base, p) ==
    LET lowering == {i \in DOMAIN p : Touches(p[i], agent) /\ EffectiveCap(p[i], agent, base) < base}
    IN  IF lowering = {} THEN [cap |-> base, walked |-> FALSE]
        ELSE [cap |-> EffectiveCap(p[Min(lowering)], agent, base), walked |-> TRUE]

-----------------------------------------------------------------------------
(* Lanes *)

LaneTotalUnclamped(lane) ==
    CASE lane = "bulk"     -> Greatest(1, OperatingCap - BulkGlobalReserve)
      [] lane = "normal"   -> OperatingCap
      [] lane = "critical" -> OperatingCap + CriticalGlobalBorrow

LaneTotal(lane) ==
    CASE lane = "bulk"     -> Greatest(1, OperatingCap - BulkGlobalReserve)
      [] lane = "normal"   -> OperatingCap
      [] lane = "critical" -> Least(OperatingCap + CriticalGlobalBorrow, RawCeiling)

LaneAgentCapBulkFloor(lane, a) ==
    CASE lane = "bulk"     -> Greatest(1, a.cap - BulkPoolReserve)
      [] lane = "normal"   -> a.cap
      [] lane = "critical" -> IF a.walked THEN a.cap ELSE a.cap + CriticalPoolBorrow

LaneAgentCapBorrowing(lane, a) ==
    CASE lane = "bulk"     -> IF a.cap <= 0 THEN 0 ELSE Greatest(1, a.cap - BulkPoolReserve)
      [] lane = "normal"   -> a.cap
      [] lane = "critical" -> a.cap + CriticalPoolBorrow

LaneAgentCap(lane, a) ==
    CASE lane = "bulk"     -> IF a.cap <= 0 THEN 0 ELSE Greatest(1, a.cap - BulkPoolReserve)
      [] lane = "normal"   -> a.cap
      [] lane = "critical" -> IF a.walked THEN a.cap ELSE a.cap + CriticalPoolBorrow

RequestCap(r, lane, p) ==
    LaneAgentCap(lane, Adaptive(r.agent, AccountCap(r.acct, AgentCaps[Pool]), p))

-----------------------------------------------------------------------------
(* cmd_acquire *)

(* cooldown_for: an account's own key, then the label, then its prefix,    *)
(* which is the pool's label.                                              *)
Cooling(r) ==
    \/ r.acct # Default /\ r.acct \in cooling
    \/ r.agent \in cooling
    \/ Pool \in cooling

OverRamNotCritical(B, r, lane) ==
    lane # "critical" /\ machine.ram > 0 /\ TotalMem(B) + r.mem > Headroom

OverRam(B, r, lane) == machine.ram > 0 /\ TotalMem(B) + r.mem > Headroom

(* One of the three refusals: machine_worker_cap, the account's cap (also  *)
(* reported as adaptive_rate_pressure), rss_budget.                        *)
Full(B, r, lane, p) ==
    \/ Size(B) >= LaneTotal(lane)
    \/ SumWeight(B, r.acct) + r.weight > Slot * RequestCap(r, lane, p)
    \/ OverRam(B, r, lane)

(* Stale leases are reclaimed only when the request would otherwise be     *)
(* refused.                                                                *)
Reclaims(r, lane, p) == Full(Pruned(leases), r, lane, p)

(* The active leases admission decides on. *)
Considered(r, lane, p) ==
    IF Reclaims(r, lane, p) THEN Reclaimed(leases) ELSE Pruned(leases)

Admitted(r, lane, p) == ~Cooling(r) /\ ~Full(Considered(r, lane, p), r, lane, p)

(* The bounds of the model, on what grows. *)
Bounded ==
    Size(leases') + Size(ended') <= IF cooling' = {} THEN MaxLeases ELSE MaxCooled

(* A refusal saves nothing, the pruning and the reclaiming included.  What *)
(* is pruned or reclaimed stays in the file as a terminal row.             *)
Acquire(r, lane, p) ==
    /\ Admitted(r, lane, p)
    /\ leases' = Considered(r, lane, p)
                 (+) One([acct |-> r.acct, weight |-> r.weight, mem |-> r.mem, st |-> "reserved"])
    /\ ended' = ended (+) In(leases, IF Reclaims(r, lane, p) THEN {"gone", "expired"}
                                     ELSE {"expired"})
    /\ UNCHANGED <<machine, cooling>>
    /\ Bounded

-----------------------------------------------------------------------------
(* The rest of a lease's life *)

Moved(l, m) == (leases (-) One(l)) (+) One(m)

Becomes(l, st) ==
    /\ leases' = Moved(l, [l EXCEPT !.st = st])
    /\ UNCHANGED <<machine, ended, cooling>>

(* mark_lease_spawning, and the worker attached after it. *)
Spawn(l) == l.st = "reserved" /\ Becomes(l, "running")

(* Claimant or worker gone for good; the time to live passes. *)
Die(l) ==
    \/ l.st = "reserved" /\ Becomes(l, "lapsed")
    \/ l.st = "running" /\ Becomes(l, "gone")

Outlive(l) == l.st = "gone" /\ Becomes(l, "expired")

(* cmd_release by the owner, or of a worker proved gone: the row is dropped *)
(* or, with --keep and in release_terminal_dispatch, kept as a terminal one *)
(* (only one that was spawned can matter again).                            *)
Release(l) ==
    /\ leases' = leases (-) One(l)
    /\ \/ UNCHANGED ended
       \/ /\ l.st \notin {"reserved", "lapsed"}
          /\ ended' = ended (+) One([l EXCEPT !.st = "gone"])
    /\ UNCHANGED <<machine, cooling>>

(* cmd_release_stale: what it prunes stays a terminal row, what it reclaims *)
(* only with --keep.                                                        *)
ReleaseStale ==
    /\ leases # Reclaimed(leases)
    /\ leases' = Reclaimed(leases)
    /\ \E states \in {{"expired"}, {"gone", "expired"}} : ended' = ended (+) In(leases, states)
    /\ UNCHANGED <<machine, cooling>>

(* retain_indeterminate_live_lease: a supervisor that cannot confirm the   *)
(* worker's death sets the lease active, whatever its state and without a  *)
(* look at caps or memory.                                                 *)
Retain(l) == l.st \in {"gone", "expired"} /\ Becomes(l, "running")

Reactivate(l) ==
    /\ leases' = leases (+) One([l EXCEPT !.st = "running"])
    /\ ended' = ended (-) One(l)
    /\ UNCHANGED <<machine, cooling>>

(* A terminal row leaves the file a day after its end (prune_state); that  *)
(* the pruning comes with some other call does not matter, since nothing   *)
(* else looks at these rows.                                               *)
Forget(l) ==
    /\ ended' = ended (-) One(l)
    /\ UNCHANGED <<machine, leases, cooling>>

(* rebind_capacity_lease_account: a failover keeps the slot and charges it *)
(* to another account, whose cap it does not consult.                      *)
Rebind(l, acct) ==
    /\ l.st = "reserved"
    /\ acct # l.acct
    /\ leases' = Moved(l, [l EXCEPT !.acct = acct])
    /\ UNCHANGED <<machine, ended, cooling>>

(* cmd_cooldown; both directions prune the lease map and save it.  One     *)
(* cooldown at a time, over few leases, is a bound of the model; clearing  *)
(* one also stands for its time running out (prune_state).                 *)
Prunes ==
    /\ leases' = Pruned(leases)
    /\ ended' = ended (+) In(leases, {"expired"})
    /\ UNCHANGED machine

Cool(key) == cooling = {} /\ cooling' = {key} /\ Prunes /\ Bounded

ClearCooldown(key) == cooling' = cooling \ {key} /\ Prunes

-----------------------------------------------------------------------------
(* launch_slot_budget *)

AccountRemainingSessions(acct, p) ==
    Greatest(0, Slot * (Adaptive(Pool, AccountCap(acct, AccountDefault), p).cap
                  - Size(Only(Pruned(leases), LAMBDA l : l.acct = acct))))

(* What the launcher is told an account has left, asked under the pool's   *)
(* label and for no lane.                                                  *)
AccountRemaining(acct, p) ==
    Greatest(0, Slot * Adaptive(Pool, AccountCap(acct, AccountDefault), p).cap
                  - SumWeight(Pruned(leases), acct))

(* _grok_account_admission_reason, _codex_account_admission_reason         *)
BudgetRefuses(r, p) == AccountRemaining(r.acct, p) < r.weight

-----------------------------------------------------------------------------
Init ==
    /\ machine \in Machines
    /\ leases = EmptyBag
    /\ ended = EmptyBag
    /\ cooling = {}

Next ==
    \/ \E r \in Requests, lane \in Lanes, p \in Pressures : Acquire(r, lane, p)
    \/ \E l \in DOMAIN leases :
          \/ Spawn(l) \/ Die(l) \/ Outlive(l) \/ Release(l) \/ Retain(l)
          \/ \E acct \in Accounts : Rebind(l, acct)
    \/ \E l \in DOMAIN ended : Reactivate(l) \/ Forget(l)
    \/ ReleaseStale
    \/ \E key \in Agents \cup (Accounts \ {Default}) : Cool(key)
    \/ \E key \in cooling : ClearCooldown(key)

Spec == Init /\ [][Next]_vars
-----------------------------------------------------------------------------
(* Types, and the ceilings every other cap is clamped to: no machine,      *)
(* however small or unreadable, has a ceiling of zero (profile).           *)
TypeOK ==
    /\ machine \in Machines
    /\ IsABag(leases) /\ DOMAIN leases \subseteq Leases
    /\ IsABag(ended) /\ DOMAIN ended \subseteq {l \in Leases : l.st \in {"gone", "expired"}}
    /\ cooling \subseteq Agents \cup Accounts
    /\ RawCeiling \in 1 .. HardCap /\ OperatingCap \in 1 .. RawCeiling

(* How far the active leases are beyond the RSS budget and the RAM ceiling. *)
OverBudget(B) == IF machine.ram = 0 THEN 0 ELSE Greatest(0, TotalMem(B) - Headroom)
OverCeiling(B) == Greatest(0, Size(B) - RawCeiling)

(* A supervisor brings back a lease that had ended. *)
Reactivates == \E l \in DOMAIN ended : Reactivate(l)

(* Only the reactivation of an ended lease takes the memory charged to the *)
(* active leases past what the controller's reserve leaves, or further     *)
(* past it: no lane's grant, no reclaiming and no rebinding does, and what *)
(* was reactivated is counted against every grant that follows             *)
(* (cmd_acquire's RSS budget binds ALL lanes;                              *)
(* retain_indeterminate_live_lease asks nobody).                           *)
RamHeld == [][OverBudget(leases') > OverBudget(leases) => Reactivates]_vars

(* Likewise the number of leases and the RAM ceiling, although a critical  *)
(* request may borrow past the operating cap and a configured total may    *)
(* lie above the ceiling (cmd_acquire's machine cap).                      *)
WithinCeiling == [][OverCeiling(leases') > OverCeiling(leases) => Reactivates]_vars

(* The lanes are ordered: what bulk is granted normal would be granted,    *)
(* and what normal is granted critical would be, in every state and under  *)
(* every pressure, reclaiming included; no reserve or borrow turns the     *)
(* order round at a cap of zero or one or at the RAM ceiling.              *)
LanesOrdered ==
    \A r \in Requests, p \in Pressures :
        /\ Admitted(r, "bulk", p) => Admitted(r, "normal", p)
        /\ Admitted(r, "normal", p) => Admitted(r, "critical", p)

(* A milder entry that touches the agent is read before a hard stop.       *)
Hidden(p, agent) ==
    \E i, j \in DOMAIN p : i < j /\ Touches(p[i], agent) /\ ~p[i].stop /\ p[j].stop

(* A provider's hard stop is a stop in every lane, critical included, and  *)
(* whatever the account's own cap is, unless a milder entry was counted    *)
(* more often and is read first (adaptive_agent_cap, and the "provider     *)
(* pushback wins" of the lane comment).                                    *)
StopHolds ==
    \A r \in Requests, p \in Pressures, lane \in Lanes :
        (\E i \in DOMAIN p : p[i].stop /\ Touches(p[i], r.agent)) /\ ~Hidden(p, r.agent)
            => ~Admitted(r, lane, p)

(* The budget that picks an account before the launch is never stricter    *)
(* than the acquire that follows it in the normal lane, once no lease is   *)
(* left to reclaim: an account passed over for want of headroom would have *)
(* been refused (launch_slot_budget, "Lane math matches acquire").         *)
BudgetNeverShort ==
    Reclaimed(leases) = Pruned(leases) =>
        \A r \in Requests, p \in Pressures :
            BudgetRefuses(r, p) /\ ~Hidden(p, r.agent) => ~Admitted(r, "normal", p)
=============================================================================
