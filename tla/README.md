# Microstable: a TLA+ verification project

Microstable is a stablecoin (MSTB) on Solana backed by a basket of other
stablecoins. One on-chain program (`src/solana/programs/microstable/src/lib.rs`)
holds the basket, mints and redeems MSTB, and guards itself with circuit
breakers, flow limits and a global shutdown. An off-chain daemon, the keeper
(`src/solana/keeper/src/`), publishes prices, moves the weights of the basket
and shuts the protocol down when it is under-collateralised. This directory
holds TLA+ models of both, the TLC configurations that check them, and proofs
that the TLA+ proof system (TLAPS) checks.

To repeat a check: `tlc -config <run>.cfg <module>.tla` (the table under
*Runs* names both); to repeat the proofs: `tlapm <Module>Proofs.tla`.

## 1. Inventory

### On-chain program (`lib.rs`)

| Component | State | Operations | What makes it correct |
|---|---|---|---|
| Circuit breakers, shutdown, manual oracle mode | `CircuitBreakerState` (status, ticks, counters of four breakers; mint rate, optimizer switch, learning rate), weight caps and target ratio, `emergency_shutdown`, the manual oracle window | `activate_circuit_breaker`, `recover_circuit_breaker`, `emergency_shutdown`, `resume_from_shutdown`, `enable_manual_oracle_mode`, and `refresh_circuit_breakers`, with which most other instructions begin | The policies agree with the breakers whoever refreshes them and when; breakers follow their documented life cycle; caps stay in bounds; a resumption is clean; manual windows are rare |
| Mint and redeem | vault books, supply, user positions, flow window | `mint`, `redeem`; holders also move tokens without the program | Books and tokens agree; leaving never dilutes those who stay; slots never move more than their limit |
| Commit and reveal | the pending commit, the weights | `commit_rebalance`, `rebalance` | A large move is announced; only the proposal committed can be revealed |
| Keeper set | `keeper_set`, the pending set and its time lock | `rotate_keeper_set`; the quorum of two in every privileged instruction | There are always three keepers; no rotation is early or one-sided |
| Agent registry | `AgentRecord`, `AgentEscrow` | register, deregister, claim, score, promote, demote, slash | Stake is there; a slash has no way back; trust takes time |
| Oracle feeds and TWAP | price, confidence, moving average (an EWMA) and slot of each vault | `update_oracle_pyth`, `update_oracle`, `set_pyth_feed`, and what `mint` and `redeem` ask of a price | No price mints long after it was published or set by hand; the average does not depend on how often a price is confirmed |
| Protocol parameters | both fees, `cr_target` | `update_protocol_params`, sent by two parts of the daemon and by keepers; CB-1 raises the ratio | Several writers of one instruction do not undo each other; fees follow the risk |

An instruction is atomic: it succeeds as a whole or has no effect, and the
cluster orders instructions. What is hard on chain is therefore not
interleaving *inside* an instruction but **lazy** state (breakers, flow windows
and time locks move only when some instruction looks), long **sequences** of
individually legal calls, **rounding and boundaries**, and tokens that move
**outside** the program.

### Keeper daemon

| Component | State | Operations | What makes it correct |
|---|---|---|---|
| Main loop (`main.rs`) | the mode of the cycle, backoff | oracle, rebalance, risk, agents, monitor, watchdog in that order; in degraded mode only the safety steps | A step's fault never stops the safety steps; the mode is honoured; normal operation comes back |
| Health of the secondary RPC node, reads and sends (`utils.rs`) | `SecondaryRpcHealthState` | probe, comparing read with retries, send and confirm | One node is trusted alone only after repeated failures of the other |
| Monitor (`monitor.rs`) | `consecutive_emergency_cycles` | read, count, shut down | A lasting emergency ends in a shutdown; one bad reading does not |
| Commit/reveal cycle (`rebalance.rs`) | `pending_reveal` and its checkpoint file | commit in one cycle, reveal in a later one | Commits can be revealed; a crash, a lost file or a late transaction moves nothing unannounced |
| Targets and optimizer (`optimizer.rs`, `rebalance.rs`) | Adam in memory, its checkpoint file | compute the target weights and parameters, save, resume | A target is an allocation, the nearest to the wish; a crash costs a step at most |
| Oracle updates (`oracle.rs`) | none but the health record | compare both nodes feed by feed, filter, send | Neither node alone sets a price; one bad feed does not take the others with it |
| Risk manager (`risk_manager.rs`, `main.rs`) | the fees it found at its first look | assess the risk, scale the fees | Fees are scaled once, and come back |
| Agent loop (`agent_loop.rs`) | when the gate and the tournament last ran | score, promote, demote, one transaction after the other | The registry only moves as its instructions allow, at its pace |
| Watchdog (`watchdog.rs`) | what it alerted on | read, alert | It writes nothing: only its reads matter |

The daemon and the program interact by transactions, which may be lost, land
late, or land although an error was reported, and by reads, which two nodes may
answer differently. What is hard here is **stale** snapshots, the **timeouts and
retries** of what may already have happened, **crashes** between a send and the
write of its checkpoint, and **liveness** under failing nodes.

`PROJECT.json` lists every component with its status, and under `hazards` each
of these difficulties at the line where it bites, with the properties aimed at it.

## 2. Modules

```
BreakerLifecycle            abstract: NORMAL -> ACTIVE -> COOLDOWN -> NORMAL
  ^ refined by
CircuitBreakers             breakers, shutdown, manual mode      (+ Proofs)
MintRedeem                  books and flow limits                (+ Proofs)
OracleFeed                  prices, average, manual window       (+ Proofs)
KeeperSet                   rotation of the keepers
  ^ extended and implemented by
ProtocolParams              fees, target ratio, their writers    (+ Proofs, of both)
AgentRegistry               stake, score, tiers
  ^ extended and implemented by
AgentLoop                   the gate and the tournament          (+ Proofs, of both)
RebalanceCommit             the chain's half of a rebalance
  ^ extended by
KeeperRebalance             the daemon's half, network, crashes  (+ Proofs)
KeeperTargets               what it aims at: targets, optimizer  (+ Proofs)
KeeperCycle                 main loop, two RPC nodes, monitor    (+ Proofs)
OracleCycle                 its oracle step, call by call        (proofs with OracleFeed's)
```

The `MC...` modules only give values to constants. An operator whose comment
begins with *Faulty* is a deliberately wrong variant of the definition it
precedes; no specification uses it. It documents a mistake that a property of
the module is known to reject.

Conventions: variables and operators keep the names of the code. One action is
one successful instruction (a call that fails changes nothing, so it has no
action) or one step of the daemon between two calls that wait. Slots and seconds
are natural numbers moved by `Tick`. Integer widths: the amounts, slots and
ratios the models reach are far below 2^64, and the code uses checked arithmetic,
so an overflow is a call that fails; where the code saturates at zero instead,
the model does too (`Minus`).

### CircuitBreakers, BreakerLifecycle
Every instruction that reads or writes the breakers is an action over the
*refreshed* state (`RefreshedStatus`, `RefreshedCooldown`, `RefreshedMintRate`,
...), since it begins with `refresh_circuit_breakers`. Statuses, triggers with
their window, adaptive minimal hold, forced recovery after
`MaxActivationDuration`, weight caps, `cr_target`, the shutdown and the manual
oracle window with its doubling delay and its limit per epoch are modelled as
they are. A price is its distance from the peg; a feed is degraded or not; the
collateral ratio is what users and prices make it, but a mint leaves it at the
target or above.
`BreakerLifecycle` is the state diagram of `docs/spec.md` 3.6.5;
`ImplementsLifecycle` instantiates it with `status` mapped to a phase and the
last change of the breaker to `since`.

### MintRedeem
Integer arithmetic is kept with every rounding: the in-slot limits, the velocity
fee, the discount of a vault off its peg, the pro-rata payout. The confidence
and staleness of a feed are one penalty chosen by the environment; of the
breakers only `mint_rate_limit` is seen (`CircuitBreakers` says which values it
takes). `Transfer`, `BurnOwn` and `Donate` are what holders do with tokens
without the program. The history variables say what a slot really minted and
redeemed, independently of the lazily reset counters.

### OracleFeed
Two clocks: an observation is *posted* at a slot and was *published* at a second;
the program checks the second when it takes the observation over, and the slot
whenever the price is used. `UpdateOraclePyth` has every refusal of the code
(identity of the feed, age, confidence, sanity and deviation limits), with the
conversion of exponents and its rounding; the weight of the new price in the
average is a power by repeated squaring, truncated at each step as in the code.
The deviation is measured against an average that already contains the new price
(`lib.rs:3108`), so the real limit is wider than its constant says. The buffers
of `update_twap_buffers` are filled and never read; they are left out.

### OracleCycle
`run_oracle_cycle` with one label per call that waits; nodes and messages change
between any two. A feed on which the nodes differ ends the cycle before any
update and never counts as a failure of the secondary node, so it stops all feeds
for as long as it lasts; a feed that is merely unfit is left out.

### RebalanceCommit, KeeperRebalance
Allocations are model values; which moves are within the step, turnover and cap
limits (`Reachable`) and which need a commit (`Large`) are constant relations. A
proposal stands for its own hash. The daemon's `pc` has one label per call that
waits (`decide`, `commit`, `reveal`, `params`, `await`, `persist`, `wait`);
between any two of them the chain moves on, a transaction in flight lands or
expires, and the daemon may crash, keeping only `disk`. Writing and removing the
checkpoint may fail, as in the code, which only warns. Whether the daemon executes
immediately is a variable chosen at the start, `immediate`: one run and one proof
cover both configurations.

### KeeperTargets
`compute_static_target_weights`, `project_to_safety_set` and `f64_weights_to_ppm`
are functions on integers, with their order of rounding. The optimizer's weights
are `GRAIN` parts finer than those of the chain. Adam is abstracted: its step
moves every weight by at most `AdamStep` either way; what is kept of its state
(`adam`, and `disk` for the file) is the number of its steps. Saves before and after
a step may fail; a file may be refused; without `MICROSTABLE_STATE_HMAC_KEY` every
save fails and the daemon stays with its static targets.

`proposals` holds every target that may still land: kept in memory or in the file of
pending reveals, which survives a restart, or on the wire, whatever the daemon
thinks became of it. They land in any order, also after later ones, again while a
reveal is retried, or never; which of them need a commit is the subject of
`KeeperRebalance`. The fees and the target ratio that Adam moves too have a
transaction and writers of their own, in `ProtocolParams`.

Facts the model shows and a reader might not expect: Adam advances even if its
target is then dropped; rollbacks cannot happen with the default bounds, whose
largest change is infinite (`optimizer.rs:1001`); what the caps leave over goes to
the last vault of a static target, which may pass its own cap by it; a target too
far from the present weights is committed and then refused, again and again,
since no step of the daemon walks there in pieces (`docs/spec.md:148`).

### KeeperSet, ProtocolParams
`rotate_keeper_set` both proposes and activates; the model has the two branches,
the quorum of two distinct keepers in office, and `validate_keeper_set`. The
empty pending set is `NoKeepers`, three default keys, as in the account.

`ProtocolParams` adds the instruction that writes both fees and the target ratio
at once, and everybody who sends it: the optimizer's proposal after its reveal, a
step of the risk manager later in the same cycle, keepers by hand, transactions
the daemon has given up, and CB-1, which writes the ratio alone. Every writer
writes back the values it does not mean to change as it has read them.

Nobody but the optimizer steps the ratio in small moves, and the gradient of its
loss in the target is never negative (`RatiosAfter`): a step of Adam keeps the ratio
or lowers it. On the chain an update may still raise it, when it waited for its
reveal, was given up and lands after a later one, or writes back a ratio read before
keepers lowered it, with fees that have changed. What holds of all of them together
is `RatioWithinPeak`: the ratio stays between its minimum and the highest that
`initialize`, CB-1 or keepers have set (`peak`), since each update asks for no more
than some earlier state of the chain had.

`KeeperSetMoves` is the rotation: the two keys with which the risk manager signs
are the first of the configuration whether in office or not (`main.rs:758`), while
the rebalance step looks for two in office (`OwnSigners`).

The history variable `grade` counts how often fees have been scaled. The risk
manager remembers the fees of its first look in memory only, so that after a
restart in a crisis it takes scaled fees for the ordinary ones: `ScaledOncePerRun`
is all that holds, and a daemon that keeps crashing ratchets the fees up to
`FEE_RATE_MAX`, where the program refuses every further update. It also
overwrites, within a cycle, the fees that the optimizer or keepers have set, and
past the maximum of the target ratio (CB-1 does not check it) every fee update is
refused. The properties say what remains true in spite of this.

### AgentRegistry
Every instruction on an agent's record and escrow. `slot` and `now` advance
together but not in step (several slots share a second), since slashes are paced
by slots and everything else by seconds.

### AgentLoop
Extends `AgentRegistry` with the loop that drives it: which actions the gate and
the tournament queue, how they are sent whatever became of the one before, those
given up that land later, restarts of the daemon and the keepers' hands. The
trials and losses behind an aggregate score are computed from constants of the
program (`aig.rs`, `tournament.rs`): the score is a parameter, a ranking any order.
`ImplementsRegistry` says that the records move only by the registry's
instructions, so every theorem about the registry holds with the loop.

What the loop achieves is less than it is written for. From score 0 every update
it sends is out of the reach of `ScoreDelta`; a promotion sent right after an
update always fails the cooldown; it never promotes from tier 0 to 1
(`docs/whitepaper.md:278-282`); and the score adjustments of
`evaluate_proposals` are read by nobody. `LoopAloneIsInert` states the outcome.

### KeeperCycle
`step` is the module of the cycle, `phase` the kind of call it is about to make
(`read`, `fallback`, `act`, `confirm`). Nodes change between any two calls:
the secondary node may be *up*, *lagging* (answers from an older state),
*unreadable* (answers all but account reads) or *down*. The monitor is modelled
to the landing of its transaction; of the other steps the model keeps what they
do to the health record: comparing reads and an open number of sends. A degraded
cycle skips the oracle and rebalance steps and the risk manager's fees.

## 3. Runs

All passing runs explore their full state space. They were chosen so that every
action and every disjunct fires in one of them; each property is known to fail
for a plausible mistake in the code (`mutants` in `PROJECT.json`).

| Run (module) | Shows |
|---|---|
| `cb_breakers` (MCCircuitBreakers) | CB-1 on either vault with rebalances and new targets: `CapsWithinBounds`. CB-2 with CB-3, also moved by one instruction: `OptimizerFrozen`. In both `ImplementsLifecycle` |
| `cb_shutdown` (MCCircuitBreakers) | CB-2 and CB-4 with shutdowns and manual windows, on every way out of force and in every refresh order: `RatesFollowBreakers`, `ResumeIsClean`, `ManualWindowsSpaced` |
| `rb_cycle` (MCKeeperRebalance) | a deferred daemon with late landings, lost files and a crash, and an immediate one with shutdowns: `NoDeadZone`, `MovesAnnounced`, `LargeMovesAnnounced`, `OverwritesOnlyUnseen`, `ParamsFollowReveal` |
| `kt_targets` (MCKeeperTargets) | static and optimized targets that land late, out of order or again, CB-1, CB-3, failing saves, a crash: `StaticTargetsAddUp`, `NearestTarget`, `CrashLosesOneStep` |
| `mr_books` (MCMintRedeem) | `BooksAgree`, `RedeemIsServed` under outside transfers, burns and donations; `SlotFlowsBounded` |
| `mr_backing` (MCMintRedeem) | `RedeemNeverDilutes`, `BackingKept` with two vaults off their peg |
| `of_prices` (MCOracleFeed) | posts, late messages, updates and manual prices in any order: `QuotesAreRecent`, `ManualPricesExpire`, `TwapIgnoresCadence` |
| `oc_feeds` (OracleCycle) | under `FairSpec`, two feeds and nodes that fail and differ between any two calls: `FeedsServed`, `DifferenceStopsAll` |
| `pp_params` (MCProtocolParams) | every rotation: `RotationIsDeliberate`. All writers of the parameters: `ScaledOncePerRun`, `FeeUpdatesKeepRatio`, `RatioWithinPeak`; under fairness `FeesFollowRisk` |
| `al_loop` (MCAgentLoop) | the registry by hand, with the gate and with tournaments: `EscrowHoldsStake`, `ExitIsQuiet`, `SlashedNeverCommit`, `TrustTakesTime`, `CommittersCanBeSlashed`, `StandingChangesSpaced`, `LoopAloneIsInert`, `ImplementsRegistry` |
| `kc_cycle` (KeeperCycle) | `SingleTrustIsEarned`; under `FairSpec` `EmergencyShutsDown`, `SecondaryComesBack` |

Type invariants are not among the runs' properties: they are proved (section 5).

`CapRelaxedOnlyByRecovery`, `FlowCountersExact`, `KeepersComplete`, `AverageInRange`
and `AverageFollowsPrice` are theorems and are not repeated in a run.

### Bounds, and why they are enough
* **Breakers.** Times keep the order the assumptions demand (cooldown ≤ ramp
  step, three holds ≤ maximal duration) but are scaled: cooldown 1, hold 1,
  maximal duration 4, trigger window 5. `MaxSlot` 7 leaves room for an
  activation, an extension, a forced recovery, a cooldown and a second
  activation; 10, where windows are the question, for a manual window, its
  doubled delay and the next epoch. A behaviour has a *focus*
  (MCCircuitBreakers), the set of breakers its keepers trigger; the prices, feeds
  and settings only other breakers depend on stand still in it. Prices are at the
  peg or off by more than every threshold, ratios below and above the CB-4 limit,
  or undefined for a supply of zero.
* **Mint and redeem.** One is 20 parts rather than 10^6, so that every rounding
  loses something visible. In `mr_books` amounts of 2 and 5 and a supply of at
  most 11 reach both the minimal units and the proportional limits, and three
  slots are enough for a window to open, to be stale and to be reopened. In
  `mr_backing` prices are below, at and above the peg, within two slots.
* **Rebalance.** Three allocations give a small step, a large one and an
  unreachable one; a batch window of 4 with delays 1 and 2 has slots with and
  without room; two proposals are enough to confuse one with the other; one
  crash and one change of the shutdown. `Bounded` (MCKeeperRebalance) gives the
  deferred daemon the crash and the later slots, the immediate one the shutdowns.
* **Targets.** Three vaults share a whole of 9 parts, the optimizer tells 6 parts of
  each apart: caps bind in both starts, a zero in one, roundings in both. Two steps of
  Adam, two proposals on their way at a time, a crash and a CB-1. The algorithms are evaluated for every state.
* **Oracle feed.** One vault (vaults share only the manual window). The whole is
  1000, messages come with three or four decimals, so that some are rounded; at
  the peg, off it by more than a step's deviation, or too uncertain for a mint.
  Ages are scaled in their order (publication 1, mint 2, volatile mint 1,
  staleness 3) within 6 slots. Prices go from 900 to 1100, so that `CadenceError`,
  what the order of updates may cost an average, is 11 parts of the whole. With the
  program's constants it is 24 parts per million, beside a deviation limit of
  25,000.
* **Oracle cycle.** Two feeds, one with messages that never change, threshold and
  attempts as in the code (3, 3). No clock: the run is a complete finite graph.
* **Keeper set and parameters.** Four keys, three of which rule: every rotation
  replaces one keeper, permutes, or both; all malformed sets are offered. Fees are
  those of the code (2000 at the start, 10000 at most), so that two scalings of a
  crisis fit and the third is refused; two crashes reach that. A behaviour has a
  *focus*: rotations; a daemon whose keys are rotated out and in; a crisis with
  crashes; or shutdowns, CB-1 and keepers' hands. One proposal of the optimizer,
  one late transaction, one raise, one setting by hand, which puts the ratio back to
  that of the opening: from 24 it goes to 25 by CB-1 and to 23, its minimum here, by
  Adam, so that the clamp binds as well.
* **Registry and loop.** One agent by hand (agents share nothing but the treasury)
  or with the gate, two in a tournament; stakes below and above the minimum,
  slashes below, at and above the stake. A score goes from 0 to 8 by 2 at most;
  thresholds of 6, 7 and 8 with a cooldown of 1 put all tiers within 9 slots. As
  in the code what a tournament grants (5, 4, 3) is out of reach from zero.
* **Keeper cycle.** Threshold, attempts and debounce have the values of the
  code (3, 3, 3). Two sends per step and three reads per cycle are enough for
  the threshold to fall in any step; one restart clears the record once.

### Deadlock
Checked in the `mr_`, `pp_`, `kc_`, `oc_` and `kt_` runs and in the findings that
use KeeperCycle. In the others the bounded clock is the only thing that can always
move, so a run really ends at `MaxSlot` and the check is off.

### Fairness
KeeperCycle:
* `WF(Keeper)`: the loop is one task driven by an interval timer; errors of a
  step are logged and the loop goes on, and every call has a timeout.
* `WF(IntervalElapses)`: the 30 s between two probes pass.
* `SF(Land /\ AwaitsShutdown)`: an assumption on the network, not on the code.
  A transaction that is sent again and again, and waited for, lands again and
  again. Without it a network could drop each one and nothing could be promised.

OracleCycle: `WF(Daemon)` and `WF(Recover)` for the loop and its probes; `SF` for the
sending of a feed's update and its landing: the calls before it may fail now and
then, but not each time. `FeedsServed` is claimed while the nodes are up and agree on
every feed, since one on which they differ stops all.

ProtocolParams: `WF(Daemon)` for the loop, which in degraded mode does nothing here
and is assumed not to stay there for ever; `SF` for the landing of a fee update that
is sent again and again. `FeesFollowRisk` is claimed while the risk stays at a level,
no shutdown is on, the two keys are in office, and the ratio and the scaled fees are
in the program's range: each exception is a way in which the fees do get stuck.

`EmergencyShutsDown` is claimed while the secondary node is in order or gone for
good. With one that lags for ever the monitor refuses to act on two views that
differ (documented behaviour), and with one that is unreadable it never gets
there (a finding).

## 4. Findings

Each has a configuration that TLC ends with a counterexample, for a sentence of
the documentation the code does not keep. The first is the one that matters most,
a run of `PROJECT.json`, which quotes the sentence. The others repeat with
`tlc -config <name>.cfg` on the module of their component: `KeeperCycle` for
`doc_dual_trust`; `MCCircuitBreakers` for `doc_optimizer_resumes`, `doc_cr_target_max`,
`doc_mint_ramp` and `doc_recovery_order`; `MCKeeperRebalance` for `doc_one_shot`;
`MCAgentRegistry` for `doc_auto_demotion`; `MCAgentLoop` for `doc_tournament`;
`MCKeeperTargets` for `doc_target_caps`.

| Configuration | The code | The sentence |
|---|---|---|
| `doc_unreadable` | a secondary node that answers the probe but no account read makes every cycle reset the count of low readings: the automatic shutdown is never sent | `keeper/src/main.rs:821`, `:828` |
| `doc_dual_trust` | the very transaction whose missing confirmation is the third failure is accepted on the primary node's word | `docs/blue-keeper-v6-tc.md:39` |
| `doc_optimizer_resumes` | a CB-3 that ends by its time limit never switches the optimizer on again | `docs/spec.md:214` |
| `doc_cr_target_max` | each CB-1 adds 5 points to the target ratio, nothing on chain takes them back, and the maximum of 200 % is passed | `lib.rs:17` |
| `doc_mint_ramp` | the cooldown (5 slots) is over before the first step of the ramp (10 slots), so minting returns at 100 % instead of climbing from 50 % | `docs/spec.md:207` |
| `doc_recovery_order` | breakers are recovered in any order | `docs/spec.md:235` |
| `doc_one_shot` | a small reveal does not consume its commit and can move the weights twice | `docs/whitepaper.md:209` |
| `doc_auto_demotion` | an agent whose score falls below its tier keeps it and commits | `docs/agent-intelligence-gate.md:164` |
| `doc_tournament` | a tournament sets its winner to 550,000, so that an agent above that loses score by winning | `docs/whitepaper.md:259` |
| `doc_target_caps` | the optimizer projects with caps of 1.0, never with those of the vaults it has read | `docs/whitepaper.md:142`, `:87` |

Smaller ones, met while reading: a manual price during a shutdown restores the
mint rate that `docs/ops-runbook.md:95` says is zero (the shutdown flag still
refuses mints); a monitor cycle skipped by a failed primary-only read
(`monitor.rs:228`) keeps the count that `docs/purple-keeper-v2-report.md:52` says is
reset; a step that begins after the record turned degraded in the same cycle
still compares the nodes (`docs/blue-keeper-v6-tc.md:18`); a step of Adam moves the
ratio and the fees by 100 basis points where `docs/spec.md:148` speaks of 10.

## 5. Proofs

TLAPS checks the following for every value of the constants the named
assumptions admit: any number of vaults, users, agents and keys, any times, with
none of the bounds of section 3 (a bound on the clock such as `MaxSlot` is only
a guard and may be any natural number).

Each proof module follows one argument: an inductive invariant `IInv`, a lemma
`Init => IInv`, one preservation lemma or step per action, `Invariance`, and the
properties from it. Action properties are proved from `IInv /\ [Next]_vars`.

| Module | Theorems | Inductive invariant, and why the properties alone are not inductive |
|---|---|---|
| CircuitBreakersProofs | `TypeCorrectness`, `RatesFollow`, `OptimizerStaysOff`, `CapsStayInBounds`, `CapsRelaxOnRecovery`, `WindowsKeepApart`, `ResumesClean`, `LifecycleImplemented`, `BreakersSuitOracle` | `TypeOK`, the policies, the caps, and two facts about time: `Chronology` (the stamps of a breaker are in the past, and one that recovers cools down until its recovery plus the cooldown) and `DelayFloor` (a manual delay is never below the base cooldown). Without them an arbitrary stamp would let a refresh skip a stage |
| MintRedeemProofs | `TypeCorrectness`, `CountersExact`, `FlowsBounded`, `NeverDilutes`, `BooksAlwaysAgree`, `RedemptionsAreServed`, `BackingIsKept` | `TypeOK`, `FlowCountersExact`, `SlotFlowsBounded`, `SupplyFollows` (the supply is the opening one plus what was minted less what was redeemed) and `DepositsHeld` (recorded deposits are in the token accounts). The limits refer to the present supply, the bound to the opening one; `SupplyFollows` ties them. `Books` adds the two sums of `BooksAgree`, `PositionsAddUp` and `TokensCovered`. `BackingIsKept`: a mint only passes if the rounded deposits cover the supply after it, and then the exact ones do (`CoverBacks`); a redemption takes from no vault more than its share (`RedeemKeepsBacking`) |
| OracleFeedProofs | of OracleFeed: `TypeCorrectness`, `RecentQuotes`, `ManualPricesDie`, `AverageKeepsRange`, `AverageFollows`, `CadenceIsIgnored` | types, and per vault `PythTimed` and `ManualTimed`: the seconds since a price was published are at most its age limit and the slots since it was taken over; a price set by hand was taken over within its window. They tie the two clocks, which the properties compare only at the moment of a mint. `AverageInRange`: an observation weighs at least one slot's part (`AlphaBounds`, from the power loop: the power of a share is at most the share), and that part of `Rounding` makes good what an update cuts. `CadenceInv`: the two slots kept of a price are one, and its average is `Near` the exact one, where the powers in the weights are not truncated (`Kept` over `Whole`). What an update cuts is added to what the updates before it left over, of which a part is forgotten (`UpdateStaysNear`); the rate of both is `TwapAlpha`, so the sum stays below a bound |
| | of OracleCycle: `CycleTypeCorrectness`, `DifferencesStopUpdates` | `TypeOK`, with where a feed can be while it is compared; from it each failed comparison has one of three outcomes (`FeedOutcomes`), and the one that goes on alone leaves the record degraded. The assumption of `OracleCycle` is a hypothesis of both |
| ProtocolParamsProofs | of KeeperSet: `KeepersStayComplete`, `RotationsAreDeliberate` | `TypeOK`, the validity of the set in force, and `ProposalByIncumbents`: the pending set was proposed by two keepers *still in office*, and its time lock runs from that proposal. Two pairs out of three share a keeper |
| | of ProtocolParams: `KeepersUnderWriters`, `ParamsTypeCorrect`, `ScalesOncePerRun`, `FeesLeaveRatio`, `RatioStaysWithinPeak` | `KeepersUnderWriters` (a refinement) carries the theorems above over. `GradeInv`: nothing on the chain, remembered, proposed or on its way is scaled above `Reach`, the grade that the present run of the daemon may set, and what it remembers is below it. `RatioInv`: while a fee update of the risk manager is awaited, its ratio is that of the chain, or somebody wrote it since. `PeakInv`: no ratio on the chain, proposed or on its way is above `peak`; it rests on a step of Adam never raising the ratio it starts from (`WishesAreParams`) |
| AgentLoopProofs | of AgentRegistry: `TypeCorrectness`, `EscrowCoversStake`, `SlashedStayOut`, `TrustIsSlow`, `ExitsAreQuiet` | per agent: the escrow holds the stake, the status tells whether it was slashed or left, `last_active_at` is not before that (`Timed`), and what score and tier have cost so far (`Earned`) |
| | of AgentLoop: `LoopImplementsRegistry`, `LoopKeepsRegistry`, `StandingIsPaced`, `CommittersAtStake`, `LoopIsInert` | the registry's `IInv`; `LoopInv`: whatever is queued or flying sets a score out of an update's reach from zero; `Stands`: the standing last changed no later than `last_active_at`, which commits move on, an active agent has its stake, and one that nobody's hands touched is at zero |
| KeeperRebalanceProofs | `TypeCorrectness`, `CommitsCanBeRevealed`, `MovesComeAnnounced`, `LargeMovesComeAnnounced`, `OnlyUnseenOverwritten`, `ParamsComeAfter` | what the daemon knew when it sent a transaction is still true when it lands (`WireInv`, per kind of transaction): `CommitsDiffer` (no two commits of one salt), `PendingInv` and `AnnouncedInv` (the pending commit is the latest announced, and timely), `Phase`, `DaemonKnows` and `SeenInv` (what the daemon holds in memory, on disk and in its snapshot at each label was announced, and before a reveal long enough ago) |
| KeeperTargetsProofs | `TypeCorrectness`, `CrashesLoseOneStep`, `StaticTargetsAreWhole`, `OptimizerTargetsAreNearest`, `LandedTargetsAreWhole` | `TypeOK`, `StepIsSaved` (what the file holds beside the daemon's memory at each of its labels: a step is taken only from what was saved) and `ProposalsAreWhole` (every proposal that may still land, however old, is the whole) |
| KeeperCycleProofs | `TypeCorrectness`, `SingleTrustEarned` | `TypeOK`, `Sound` (the record is degraded exactly when its failures have reached the threshold, through probes, successes and restarts) and `AtStep` (where in a step the daemon can be) |

`LifecycleImplemented` is a refinement: the initial states and every step of
`CircuitBreakers` map to initial states and steps, or stutters, of
`BreakerLifecycle`, whatever the order in which instructions refresh the breakers.
`BreakersSuitOracle` ties two modules that share the manual window and the shutdown:
every step of the breakers that moves no feed is a step or a stutter of `OracleFeed`,
which therefore leaves out no window and no shutdown that the breakers permit.

The lemmas about the algorithms, which hold beside any specification:

* *Sums* (MintRedeemProofs: `SumEquation`, `SumSplit`, `SumsCompare`, `SumFollows`)
  and *totals* (KeeperTargetsProofs: `UptoIs`, `PrefixInduct`, `TotalPlus`,
  `TotalGrows`): the induction theorems of the library take an operator and cannot
  be cited, so induction goes by the least member of a set of counterexamples
  (`NaturalsInduct`, from `WFMin`, in each module that needs it). The recursive
  functions themselves are shown to exist first, from solutions up to each argument.
* *The power loop* (OracleFeedProofs: `LoopEquation`, `PowerIsShare`) in the same way,
  on the exponent, and `ewma_next_price` (`EwmaFollows`, `EwmaStaysInRange`).
* *What the loop truncates* (`PowerAdd`, `LoopRounds`, `PowRounds`): the power by repeated
  squaring is never above the exact one and below it by a bounded part of it. From
  there what a sequence of updates leaves of an average is compared with what a
  single one leaves (`WeightOfKept`, `StaysNear`, `NearEachOther`).
* *Static targets* (`StaticTargetIsWhole`): normalized shares, capped ones and the tail
  that takes up what they leave add up to the scale, whatever is cut on the way.
* *The projection* (`ProjectedAddsUp`): what the bounds leave over is divided by the
  number of vaults strictly between them. That is exact because every such number
  divides `GRAIN`, which `TargetsAssumption` asks: weights are fine enough.
* *The rounding* (`RoundedAddsUp`): the parts left over go to the vaults with the
  largest remainders; ranking the vaults gives every rank once (`Places`), so that
  as many vaults come first as parts are left (`FirstPlaces`).

Besides types and ranges, the assumptions ask that `Vault` and `User` be finite
(`VaultAssumption`, `UserAssumption`: sums are over them) and that the opening markets of
`KeeperTargets` be allocations with natural values (`StartsAssumption`).
`KeeperAssumption` asks that the daemon's reveal delay be at least the program's:
so it is by default (both are 5), but `config.rs:536-553` does not check it, and a
daemon configured below it would send reveals the program refuses. The least
price that a feed admits is positive (`LimitAssumption`; `PRICE_MIN` is half a unit):
`ewma_next_price` lifts an average of zero to one, which would be an error of its own.

### Only model-checked
* Liveness (`EmergencyShutsDown`, `SecondaryComesBack`, `FeedsServed`, `FeesFollowRisk`):
  temporal reasoning with fairness and ENABLED is beyond the prover.
* The findings, which are counterexamples and need no proof.

## 6. Plan

Done: breakers, mint and redeem, commit and reveal with the daemon, keeper set,
registry, the keeper's cycle; the oracle feeds and the daemon's oracle step, the
agent loop as an implementation of the registry, targets and optimizer, the
parameters with their writers; proofs of every invariant and action property of the
runs (section 5).

Left, in this order:

1. Composition of `MintRedeem` with `CircuitBreakers` (its `Govern` action as a
   refinement of the breakers' effect on `mint_rate_limit`), and with `OracleFeed`
   (its penalty from confidence and age).
2. Liveness of the way out of a shutdown.
3. The thresholds of the watchdog's alerts, should they come to act on something.

## 7. Not modelled

* **The TWAP buffers** (`update_twap_buffers`): written, never read. **The bytes of a
  Pyth account**: a message is readable or not.
* **The arithmetic of Adam and the gradients**: any step of a bounded size; only the
  sign of the ratio's gradient and the symmetry of the fees' are kept.
* **The trials of `aig.rs` and the losses of `tournament.rs`**: pure functions of
  constants of the program.
* **The watchdog's alerts**, and the risk manager's throttle, redemption policy and
  recovery step, which are computed and read by nobody.
* **Backoff after failed cycles** only delays the next one. **Key usage limits**
  are observed and logged. **Start-up checks** that exit leave no running system.
* **What the rebalance, risk and agent steps decide** is open in `KeeperCycle`: each
  may send anything up to its bound. Their own modules have the decisions.
* **Configuration, wire formats, key files**: parsing and serialization.
* **Idealisations**: in `KeeperCycle` a secondary node that is *up* agrees with the
  primary one (small differences are within the code's tolerance). In
  `KeeperTargets` the projection is the least sufficient shift, on integers: the
  limit of the 120 rounds of bisection in floating point and of the correction of
  the sum after them (`optimizer.rs:1160-1236`), of whose own errors it says nothing.
* **The Python simulation and prototype agents, monitoring, the MCP server, the
  dashboard**: not part of the running system, or only readers of it.
* **Rent, account creation and the token program's own checks** are Solana's;
  an instruction they refuse changes nothing.
