-------------------------- MODULE CircuitBreakers --------------------------
(***************************************************************************)
(* The circuit breakers of the on-chain program: CB-1 (one collateral off  *)
(* its peg), CB-2 (several off), CB-3 (oracles degraded) and CB-4          *)
(* (collateral ratio too low), the lazy refresh that moves them along with *)
(* the slot, the instructions that activate and recover them, the global   *)
(* shutdown, and the time-boxed manual oracle mode.                        *)
(*                                                                         *)
(* An instruction is atomic: it succeeds as a whole or leaves no trace.    *)
(* Every action is one successful instruction, or the passing of a slot.   *)
(* Most instructions first call refresh_circuit_breakers, so they are      *)
(* written over the refreshed state (the Refreshed... operators).          *)
(***************************************************************************)
EXTENDS Integers, FiniteSets

CONSTANTS
  Vault,          \* the collateral vaults
  FirstVault,     \* the vault of index 0
  BaseWeightCap,  \* base_weight_cap of each vault
  InitialWeights, \* the allocation set by initialize
  MinHold,        \* min_hold_ticks of each breaker
  CooldownTicks, MaxActivationDuration, TriggerWindow,
  ManualModeMaxSlots, ManualCooldown, ManualCooldownMax,
  ManualBackoffWindow, ManualMaxPerEpoch, SlotsPerEpoch,
  NoSupply        \* stands for the ratio of a supply of zero

CONSTANTS  \* The bounds of an instance.
  MaxSlot,        \* the last slot explored
  Managed,        \* the breakers its keepers use
  Deviations,     \* the distances from the peg a price may take, in ppm
  Unreliable,     \* the vaults whose feed may degrade
  Ratios,         \* the collateral ratios users and prices may produce
  Weightings,     \* the allocations a rebalance may propose: each sums to SCALE
  CrTargets       \* the targets update_protocol_params may set

CB == 1..4
SCALE == 1000000
HalfScale == 500000
DepegOn == 20000
DepegOff == 5000
MintDepegPause == 30000
WeightStepLimit == 20000
InitialCrTarget == 1200000
CrTargetMin == 1000000
CrTargetMax == 2000000
AdaptiveRecoveryMax == 15000
RampInterval == 10

ASSUME VaultAssumption ==
  /\ FirstVault \in Vault
  /\ BaseWeightCap \in [Vault -> Nat]
  /\ InitialWeights \in [Vault -> Nat]
  /\ \A v \in Vault : InitialWeights[v] <= BaseWeightCap[v]

ASSUME TimingAssumption ==
  /\ MinHold \in [CB -> Nat]
  /\ CooldownTicks \in Nat \ {0}
  /\ CooldownTicks <= RampInterval
  /\ MaxActivationDuration \in Nat
  /\ \A c \in CB : 3 * MinHold[c] <= MaxActivationDuration
  /\ TriggerWindow \in Nat

ASSUME ManualAssumption ==
  /\ ManualModeMaxSlots \in Nat
  /\ ManualCooldown \in Nat \ {0}
  /\ ManualCooldownMax \in Nat
  /\ ManualCooldown <= ManualCooldownMax
  /\ ManualBackoffWindow \in Nat
  /\ ManualMaxPerEpoch \in Nat
  /\ SlotsPerEpoch \in Nat \ {0}

ASSUME BoundAssumption ==
  /\ MaxSlot \in Nat
  /\ Managed \subseteq CB
  /\ Deviations \subseteq Nat
  /\ Unreliable \subseteq Vault
  /\ NoSupply \notin Nat
  /\ Ratios \subseteq Nat \cup {NoSupply}
  /\ Weightings \subseteq [Vault -> Nat]
  /\ CrTargets \subseteq CrTargetMin..CrTargetMax

VARIABLES
  slot,                  \* the cluster's clock
  \* CircuitBreakerState
  status, activation_tick, trigger_count, cooldown_until, last_trigger_tick,
  recent_trigger_count, recovery_tick, cb1_collateral_index,
  mint_rate_limit, optimizer_enabled, learning_rate_scale,
  \* the part of ProtocolState and of the vaults the breakers act on
  weights, weight_cap, cr_target, emergency_shutdown,
  manual_expiry,         \* manual_oracle_mode_expiry_slot
  manual_delay,          \* manual_oracle_reenable_delay_slots
  manual_last,           \* manual_oracle_last_activation_slot
  manual_epoch,          \* manual_oracle_activation_epoch
  manual_count,          \* manual_oracle_activation_count_epoch
  \* what the breakers observe
  deviation,             \* |price - 1| of each vault, in ppm
  degraded,              \* the vaults for which vault_oracle_degraded holds
  ratio                  \* collateral value over supply, or NoSupply

breakerVars == <<status, activation_tick, trigger_count, cooldown_until,
                 last_trigger_tick, recent_trigger_count, recovery_tick,
                 cb1_collateral_index>>
policyVars == <<mint_rate_limit, optimizer_enabled, learning_rate_scale>>
manualVars == <<manual_expiry, manual_delay, manual_last, manual_epoch,
                manual_count>>
marketVars == <<deviation, degraded, ratio>>
vars == <<slot, breakerVars, policyVars, weights, weight_cap, cr_target,
          emergency_shutdown, manualVars, marketVars>>

-----------------------------------------------------------------------------
Status == {"Inactive", "Active", "Holding", "Recovery", "ExtendedActive"}

ActiveLike(s) == s \in {"Holding", "Active", "ExtendedActive"}

\* saturating_sub of the slots and rates, which are unsigned.
Minus(a, b) == IF a >= b THEN a - b ELSE 0
AtMost(a, b) == IF a <= b THEN a ELSE b
AtLeast(a, b) == IF a >= b THEN a ELSE b

(***************************************************************************)
(* refresh_circuit_breakers, breaker by breaker.                           *)
(***************************************************************************)
HeldStatus(c) ==
  IF status[c] = "Holding" /\ Minus(slot, activation_tick[c]) >= MinHold[c]
  THEN "Active" ELSE status[c]

ForcedOut(c) ==
  /\ ActiveLike(HeldStatus(c))
  /\ Minus(slot, activation_tick[c]) >= MaxActivationDuration

RefreshedRecoveryTick(c) == IF ForcedOut(c) THEN slot ELSE recovery_tick[c]

\* Faulty: a breaker forced out gets no cooldown.
RefreshedCooldown_OnlyVoluntary(c) == cooldown_until[c]

RefreshedCooldown(c) ==
  IF ForcedOut(c) THEN slot + CooldownTicks ELSE cooldown_until[c]

InRecovery(c) == ForcedOut(c) \/ status[c] = "Recovery"

RefreshedStatus(c) ==
  IF ~InRecovery(c) THEN HeldStatus(c)
  ELSE IF slot >= RefreshedCooldown(c) THEN "Inactive" ELSE "Recovery"

\* Faulty: the early restoration only, without the one on becoming inactive.
RefreshedLearningRate_NoHardRestore ==
  IF InRecovery(4) /\ Minus(slot, RefreshedRecoveryTick(4)) >= RampInterval
  THEN SCALE ELSE learning_rate_scale

RefreshedLearningRate ==
  IF /\ InRecovery(4)
     /\ \/ Minus(slot, RefreshedRecoveryTick(4)) >= RampInterval
        \/ slot >= RefreshedCooldown(4)
  THEN SCALE ELSE learning_rate_scale

\* The rate at which minting resumes: half, a boost when CB-2 was in force
\* for too long, and a tenth more for every RampInterval slots of recovery.
RampedMintRate ==
  LET overtime == Minus(Minus(slot, activation_tick[2]), MaxActivationDuration)
      boost    == AtMost((overtime \div RampInterval) * 50000,
                         AdaptiveRecoveryMax)
      steps    == Minus(slot, RefreshedRecoveryTick(2)) \div RampInterval
  IN  AtMost(HalfScale + boost + steps * 100000, SCALE)

RefreshedMintRate ==
  CASE RefreshedStatus(2) = "Recovery" -> RampedMintRate
    [] RefreshedStatus(2) = "Inactive" -> SCALE
    [] OTHER -> mint_rate_limit

\* An instruction that refreshes the breakers and does no more to them.
Refresh ==
  /\ status' = [c \in CB |-> RefreshedStatus(c)]
  /\ recovery_tick' = [c \in CB |-> RefreshedRecoveryTick(c)]
  /\ cooldown_until' = [c \in CB |-> RefreshedCooldown(c)]
  /\ mint_rate_limit' = RefreshedMintRate
  /\ learning_rate_scale' = RefreshedLearningRate
  /\ UNCHANGED <<activation_tick, trigger_count, last_trigger_tick,
                 recent_trigger_count, cb1_collateral_index,
                 optimizer_enabled>>

\* assert_invariants; the other conjuncts of the code are about constants here.
AssertInvariants ==
  /\ cr_target > 0
  /\ \A v \in Vault : weights[v] <= weight_cap[v]

-----------------------------------------------------------------------------
CanActivate(c, v) ==
  CASE c = 1 -> deviation[v] > DepegOn
    [] c = 2 -> \E u, w \in Vault : /\ u # w
                                    /\ deviation[u] > DepegOn
                                    /\ deviation[w] > DepegOn
    [] c = 3 -> degraded # {}
    [] OTHER -> ratio # NoSupply /\ ratio + 100000 < cr_target

\* The recovery window widens when a breaker was in force for too long.
AdaptiveBonus(c) ==
  LET overtime == Minus(Minus(slot, activation_tick[c]), MaxActivationDuration)
  IN  AtMost((overtime \div 10) * 1000, AdaptiveRecoveryMax)

HysteresisOk(c) ==
  CASE c = 1 -> deviation[cb1_collateral_index] < DepegOff + AdaptiveBonus(1)
    [] c = 2 -> /\ \A v \in Vault : deviation[v] < DepegOff + AdaptiveBonus(2)
                /\ degraded = {}
    [] c = 3 -> degraded = {}
    [] OTHER -> ratio # NoSupply => ratio >= cr_target /\ degraded = {}

\* One step back towards the base cap: a twentieth of the gap, at least 1.
RestoredCap(v) ==
  LET gap == Minus(BaseWeightCap[v], weight_cap[v])
  IN  IF gap = 0 THEN weight_cap[v]
      ELSE AtMost(weight_cap[v] + AtLeast(gap \div 20, 1), BaseWeightCap[v])

\* Faulty: halves the cap in force, so that activations compound.
TightenedCap_Compounding(v) == AtLeast(weight_cap[v] \div 2, weights[v])

\* CB-1 halves the base cap, short of cutting into the allocation.
TightenedCap(v) == AtLeast(BaseWeightCap[v] \div 2, weights[v])

EffectiveMinHold(c, s) ==
  IF s = "ExtendedActive" THEN 3 * MinHold[c] ELSE MinHold[c]

RecentTriggers(c) ==
  IF Minus(slot, last_trigger_tick[c]) <= TriggerWindow
  THEN AtMost(recent_trigger_count[c] + 1, 255)  \* a saturating u8
  ELSE 1

\* activate_circuit_breaker
Activate(c, v) ==
  /\ ~emergency_shutdown
  /\ AssertInvariants
  /\ CanActivate(c, v)
  /\ ~ActiveLike(RefreshedStatus(c))
  /\ slot >= RefreshedCooldown(c)
  /\ recent_trigger_count' =
       [recent_trigger_count EXCEPT ![c] = RecentTriggers(c)]
  /\ last_trigger_tick' = [last_trigger_tick EXCEPT ![c] = slot]
  /\ trigger_count' = [trigger_count EXCEPT ![c] = @ + 1]
  /\ activation_tick' = [activation_tick EXCEPT ![c] = slot]
  /\ status' = [b \in CB |->
       IF b # c THEN RefreshedStatus(b)
       ELSE IF RecentTriggers(c) >= 3 THEN "ExtendedActive" ELSE "Holding"]
  /\ recovery_tick' = [b \in CB |-> RefreshedRecoveryTick(b)]
  /\ cooldown_until' = [b \in CB |-> RefreshedCooldown(b)]
  /\ cb1_collateral_index' = IF c = 1 THEN v ELSE cb1_collateral_index
  /\ weight_cap' =
       IF c = 1
       THEN [weight_cap EXCEPT ![v] = TightenedCap(v)]
       ELSE weight_cap
  /\ cr_target' = IF c = 1 THEN cr_target + 50000 ELSE cr_target
  /\ mint_rate_limit' = IF c = 2 THEN 0 ELSE RefreshedMintRate
  /\ optimizer_enabled' = IF c = 3 THEN FALSE ELSE optimizer_enabled
  /\ learning_rate_scale' = IF c = 4 THEN HalfScale ELSE RefreshedLearningRate
  /\ UNCHANGED <<slot, weights, emergency_shutdown, manualVars, marketVars>>
  /\ AssertInvariants'

\* recover_circuit_breaker
Recover(c) ==
  /\ ~emergency_shutdown
  /\ ActiveLike(RefreshedStatus(c))
  /\ Minus(slot, activation_tick[c]) >= EffectiveMinHold(c, RefreshedStatus(c))
  /\ AssertInvariants
  /\ HysteresisOk(c)
  /\ status' = [b \in CB |-> IF b = c THEN "Recovery" ELSE RefreshedStatus(b)]
  /\ cooldown_until' = [b \in CB |-> IF b = c THEN slot + CooldownTicks
                                     ELSE RefreshedCooldown(b)]
  /\ recovery_tick' = [b \in CB |-> IF b = c THEN slot
                                    ELSE RefreshedRecoveryTick(b)]
  /\ weight_cap' =
       IF c = 1
       THEN [weight_cap EXCEPT ![cb1_collateral_index] =
               RestoredCap(cb1_collateral_index)]
       ELSE weight_cap
  /\ mint_rate_limit' = IF c = 2 THEN HalfScale ELSE RefreshedMintRate
  /\ optimizer_enabled' = IF c = 3 THEN TRUE ELSE optimizer_enabled
  /\ learning_rate_scale' = IF c = 4 THEN HalfScale ELSE RefreshedLearningRate
  /\ UNCHANGED <<slot, activation_tick, trigger_count, last_trigger_tick,
                 recent_trigger_count, cb1_collateral_index, weights,
                 cr_target, emergency_shutdown, manualVars, marketVars>>
  /\ AssertInvariants'

-----------------------------------------------------------------------------
EmergencyShutdown ==
  /\ emergency_shutdown' = TRUE
  /\ mint_rate_limit' = 0
  /\ optimizer_enabled' = FALSE
  /\ UNCHANGED <<slot, breakerVars, learning_rate_scale, weights, weight_cap,
                 cr_target, manualVars, marketVars>>

\* Faulty: resumes whatever the breakers are in.
Resume_AnyStatus ==
  /\ emergency_shutdown' = FALSE
  /\ mint_rate_limit' = SCALE
  /\ optimizer_enabled' = TRUE
  /\ UNCHANGED <<slot, breakerVars, learning_rate_scale, weights, weight_cap,
                 cr_target, manualVars, marketVars>>

\* resume_from_shutdown looks at the stored statuses: it does not refresh.
Resume ==
  /\ \A c \in CB : status[c] = "Inactive"
  /\ emergency_shutdown' = FALSE
  /\ mint_rate_limit' = SCALE
  /\ optimizer_enabled' = TRUE
  /\ UNCHANGED <<slot, breakerVars, learning_rate_scale, weights, weight_cap,
                 cr_target, manualVars, marketVars>>

Epoch == slot \div SlotsPerEpoch

\* Faulty: the delay runs from the start of the last window.
ManualDelay_FromEnabling == Minus(manual_delay, ManualModeMaxSlots)

ManualDelay == IF manual_delay = 0 THEN ManualCooldown ELSE manual_delay

\* enable_manual_oracle_mode for n slots; it does not refresh either.
EnableManualOracleMode(n) ==
  LET used == IF manual_epoch = Epoch THEN manual_count ELSE 0
  IN  /\ slot > manual_expiry
      /\ used < ManualMaxPerEpoch
      /\ manual_expiry > 0 => slot >= manual_expiry + ManualDelay
      /\ \E c \in CB : status[c] # "Inactive"
      /\ manual_delay' =
           IF manual_last > 0 /\ slot - manual_last <= ManualBackoffWindow
           THEN AtMost(2 * ManualDelay, ManualCooldownMax)
           ELSE ManualCooldown
      /\ manual_expiry' = slot + n
      /\ manual_last' = slot
      /\ manual_epoch' = Epoch
      /\ manual_count' = used + 1
      /\ UNCHANGED <<slot, breakerVars, policyVars, weights, weight_cap,
                     cr_target, emergency_shutdown, marketVars>>

\* update_protocol_params
UpdateParams(target) ==
  /\ ~emergency_shutdown
  /\ cr_target' = target
  /\ UNCHANGED <<slot, breakerVars, policyVars, weights, weight_cap,
                 emergency_shutdown, manualVars, marketVars>>

-----------------------------------------------------------------------------
(***************************************************************************)
(* The instructions of the other components, as far as the breakers see    *)
(* them: they refresh, and change what the breakers observe.               *)
(***************************************************************************)

\* A fresh observation of vault v. Its deviation from the time-weighted
\* average decides whether the oracle of v is degraded.
ObservePrice(v) ==
  /\ \E d \in Deviations : deviation' = [deviation EXCEPT ![v] = d]
  /\ degraded' \in {degraded \ {v}, degraded \cup ({v} \cap Unreliable)}
  /\ ratio' \in IF ratio = NoSupply THEN {ratio} ELSE Ratios \ {NoSupply}

\* update_oracle_pyth
UpdateOraclePyth(v) ==
  /\ ~emergency_shutdown
  /\ Refresh
  /\ ObservePrice(v)
  /\ AssertInvariants
  /\ UNCHANGED <<slot, weights, weight_cap, cr_target, emergency_shutdown,
                 manualVars>>

\* update_oracle: open only in manual mode, but open during a shutdown.
UpdateOracle(v) ==
  /\ slot <= manual_expiry
  /\ Refresh
  /\ ObservePrice(v)
  /\ AssertInvariants
  /\ UNCHANGED <<slot, weights, weight_cap, cr_target, emergency_shutdown,
                 manualVars>>

\* mint on the collateral of vault v.
Mint(v) ==
  /\ ~emergency_shutdown
  /\ Refresh
  /\ AssertInvariants
  /\ ~ActiveLike(RefreshedStatus(2))
  /\ RefreshedMintRate > 0
  /\ v \notin degraded
  /\ \A u \in Vault : deviation[u] < MintDepegPause
  /\ ratio' \in {r \in Ratios \ {NoSupply} : r >= cr_target}
  /\ UNCHANGED <<slot, weights, weight_cap, cr_target, emergency_shutdown,
                 manualVars, deviation, degraded>>

\* redeem; the last redemption leaves no supply.
Redeem ==
  /\ ~emergency_shutdown
  /\ Refresh
  /\ AssertInvariants
  /\ ratio # NoSupply
  /\ degraded # Vault
  /\ ratio' \in Ratios
  /\ UNCHANGED <<slot, weights, weight_cap, cr_target, emergency_shutdown,
                 manualVars, deviation, degraded>>

\* rebalance to the allocation w.
Rebalance(w) ==
  /\ ~emergency_shutdown
  /\ Refresh
  /\ \A v \in Vault : /\ Minus(w[v], weights[v]) <= WeightStepLimit
                      /\ Minus(weights[v], w[v]) <= WeightStepLimit
  /\ weights' = w
  /\ UNCHANGED <<slot, weight_cap, cr_target, emergency_shutdown, manualVars,
                 marketVars>>
  /\ AssertInvariants'

\* A slot passes; feeds that are not written grow stale.
Tick ==
  /\ slot < MaxSlot
  /\ slot' = slot + 1
  /\ \E stale \in SUBSET Unreliable : degraded' = degraded \cup stale
  /\ UNCHANGED <<breakerVars, policyVars, weights, weight_cap, cr_target,
                 emergency_shutdown, manualVars, deviation, ratio>>

-----------------------------------------------------------------------------
Init ==
  /\ slot = 1
  /\ status = [c \in CB |-> "Inactive"]
  /\ activation_tick = [c \in CB |-> 0]
  /\ trigger_count = [c \in CB |-> 0]
  /\ cooldown_until = [c \in CB |-> 0]
  /\ last_trigger_tick = [c \in CB |-> 0]
  /\ recent_trigger_count = [c \in CB |-> 0]
  /\ recovery_tick = [c \in CB |-> 0]
  /\ cb1_collateral_index = FirstVault
  /\ mint_rate_limit = SCALE
  /\ optimizer_enabled = TRUE
  /\ learning_rate_scale = SCALE
  /\ weights = InitialWeights
  /\ weight_cap = BaseWeightCap
  /\ cr_target = InitialCrTarget
  /\ emergency_shutdown = FALSE
  /\ manual_expiry = 0
  /\ manual_delay = ManualCooldown
  /\ manual_last = 0
  /\ manual_epoch = 0
  /\ manual_count = 0
  /\ deviation = [v \in Vault |-> 0]
  /\ degraded = {}
  /\ ratio = NoSupply

Breakers == \E c \in Managed : Recover(c) \/ \E v \in Vault : Activate(c, v)

Control ==
  \/ EmergencyShutdown
  \/ Resume
  \/ \E n \in 1..ManualModeMaxSlots : EnableManualOracleMode(n)
  \/ \E t \in CrTargets : UpdateParams(t)

Market ==
  \/ \E v \in Vault : UpdateOraclePyth(v) \/ UpdateOracle(v) \/ Mint(v)
  \/ Redeem
  \/ \E w \in Weightings : Rebalance(w)

Next == Breakers \/ Control \/ Market \/ Tick

Spec == Init /\ [][Next]_vars
-----------------------------------------------------------------------------
(***************************************************************************)
(* Properties.                                                             *)
(***************************************************************************)

BreakerTypeOK ==
  /\ status \in [CB -> Status]
  /\ activation_tick \in [CB -> Nat]
  /\ trigger_count \in [CB -> Nat]
  /\ cooldown_until \in [CB -> Nat]
  /\ last_trigger_tick \in [CB -> Nat]
  /\ recent_trigger_count \in [CB -> 0..255]
  /\ recovery_tick \in [CB -> Nat]
  /\ cb1_collateral_index \in Vault

PolicyTypeOK ==
  /\ mint_rate_limit \in Nat
  /\ optimizer_enabled \in BOOLEAN
  /\ learning_rate_scale \in {HalfScale, SCALE}

AllocationTypeOK ==
  /\ weights \in [Vault -> Nat]
  /\ weight_cap \in [Vault -> Nat]
  /\ cr_target \in Nat

ManualTypeOK ==
  /\ manual_expiry \in Nat
  /\ manual_delay \in Nat
  /\ manual_last \in Nat
  /\ manual_epoch \in Nat
  /\ manual_count \in Nat

MarketTypeOK ==
  /\ deviation \in [Vault -> Nat]
  /\ degraded \subseteq Vault
  /\ ratio \in Nat \cup {NoSupply}

\* The types of the variables; the learning rate takes two values only.
TypeOK ==
  /\ slot \in Nat
  /\ BreakerTypeOK
  /\ PolicyTypeOK
  /\ AllocationTypeOK
  /\ emergency_shutdown \in BOOLEAN
  /\ ManualTypeOK
  /\ MarketTypeOK

\* About a half.
IsResumingRate(rate) ==
  HalfScale <= rate /\ rate <= HalfScale + AdaptiveRecoveryMax

\* The mint limit is a function of CB-2 alone, whatever order activations,
\* forced and voluntary recoveries, shutdowns and resumes come in: zero while
\* CB-2 is in force, full when it is inactive, about a half in between.
MintRateFollowsCB2 ==
  /\ ActiveLike(status[2]) => mint_rate_limit = 0
  /\ ~emergency_shutdown =>
       /\ status[2] = "Inactive" => mint_rate_limit = SCALE
       /\ status[2] = "Recovery" => IsResumingRate(mint_rate_limit)

\* The learning rate is halved exactly while CB-4 is not inactive: no path
\* back to Inactive, forced or not, leaves it halved or restores it early.
LearningRateFollowsCB4 ==
  learning_rate_scale = IF status[4] = "Inactive" THEN SCALE ELSE HalfScale

\* Both rates follow their breaker, on every way out of force.
RatesFollowBreakers == MintRateFollowsCB2 /\ LearningRateFollowsCB4

\* The optimizer is off while CB-3 is in force and during a shutdown, though
\* recoveries and resumes switch it on.
OptimizerFrozen ==
  ActiveLike(status[3]) \/ emergency_shutdown => ~optimizer_enabled

\* However often CB-1 tightens a cap and recoveries relax it, the cap stays
\* between half its base and its base, and never cuts into the allocation.
CapsWithinBounds ==
  \A v \in Vault : /\ BaseWeightCap[v] \div 2 <= weight_cap[v]
                   /\ weight_cap[v] <= BaseWeightCap[v]
                   /\ weights[v] <= weight_cap[v]

(***************************************************************************)
(* The breakers implement the lifecycle of docs/spec.md 3.6.5.             *)
(***************************************************************************)
PhaseOf(s) ==
  CASE s = "Inactive" -> "Normal"
    [] s = "Recovery" -> "Cooldown"
    [] s = "ExtendedActive" -> "Extended"
    [] OTHER -> "InForce"

LifecyclePhase == [c \in CB |-> PhaseOf(status[c])]

LifecycleSince ==
  [c \in CB |-> IF ActiveLike(status[c]) THEN activation_tick[c]
                ELSE recovery_tick[c]]

Lifecycle == INSTANCE BreakerLifecycle WITH
  Breaker <- CB, Hold <- MinHold, Cooldown <- CooldownTicks,
  now <- slot, phase <- LifecyclePhase, since <- LifecycleSince

\* Whatever the interleaving of lazy refreshes, forced recoveries and keeper
\* instructions, each breaker follows the documented diagram: it holds for
\* its minimal time and is not triggered again while it cools down.
ImplementsLifecycle == Lifecycle!LifecycleSpec

\* A cap rises only when CB-1 leaves force, and then only the cap of the
\* vault it was activated for: re-activations never relax a cap.
CapRelaxedOnlyByRecovery ==
  [][\A v \in Vault :
       weight_cap'[v] > weight_cap[v]
       => /\ ActiveLike(status[1])
          /\ status'[1] = "Recovery"
          /\ v = cb1_collateral_index]_vars

\* Two windows of manual oracle mode are at least the base cooldown apart:
\* the stored delay never falls below it, through doublings and resets.
ManualWindowsSpaced ==
  [][manual_expiry # 0 /\ manual_expiry' # manual_expiry
     => slot >= manual_expiry + ManualCooldown]_vars

\* A shutdown ends with every policy at its normal setting.
ResumeIsClean ==
  [][emergency_shutdown /\ ~emergency_shutdown'
     => /\ \A c \in CB : status'[c] = "Inactive"
        /\ mint_rate_limit' = SCALE
        /\ learning_rate_scale' = SCALE
        /\ optimizer_enabled']_vars

(***************************************************************************)
(* What the documents say and the code does not do.                        *)
(***************************************************************************)

\* docs/spec.md 3.6.3: recovery goes CB-4, CB-3, CB-2, CB-1; a lower breaker
\* does not leave force while a higher one is in force.
RecoveryInOrder ==
  [][\A c \in CB :
       ActiveLike(status[c]) /\ status'[c] = "Recovery"
       => \A higher \in CB : higher > c => ~ActiveLike(status'[higher])]_vars

\* docs/spec.md 3.6.2: after the recovery of CB-2 the mint limit starts at a
\* half and grows by a tenth every 10 ticks.
MintRampFollowed ==
  recovery_tick[2] > 0 /\ ~ActiveLike(status[2])
  => mint_rate_limit <= AtMost(SCALE, HalfScale + AdaptiveRecoveryMax
       + ((slot - recovery_tick[2]) \div RampInterval) * 100000)

\* docs/spec.md 3.6.2: the recovery of CB-3 resumes the gradient updates, so
\* with CB-3 inactive and no shutdown the optimizer runs.
OptimizerResumes ==
  status[3] = "Inactive" /\ ~emergency_shutdown => optimizer_enabled

\* CR_TARGET_MAX: the target ratio is at most 200%.
CrTargetWithinMax == cr_target <= CrTargetMax
=============================================================================
