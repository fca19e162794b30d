----------------------- MODULE CircuitBreakersProofs -----------------------
(***************************************************************************)
(* Theorems about CircuitBreakers, for any vaults, times and bounds that   *)
(* satisfy its assumptions.                                                *)
(***************************************************************************)
EXTENDS CircuitBreakers, TLAPS

\* What ties the times of a breaker to its status and to the clock.
Chronology ==
  \A c \in CB : /\ activation_tick[c] <= slot
                /\ recovery_tick[c] <= slot
                /\ status[c] = "Recovery"
                   => cooldown_until[c] = recovery_tick[c] + CooldownTicks

\* The delay before the next manual window is never below the base cooldown.
DelayFloor == manual_delay >= ManualCooldown

\* The inductive invariant.
IInv ==
  /\ TypeOK
  /\ Chronology
  /\ DelayFloor
  /\ MintRateFollowsCB2
  /\ LearningRateFollowsCB4
  /\ OptimizerFrozen
  /\ CapsWithinBounds

-----------------------------------------------------------------------------
(***************************************************************************)
(* What a refresh yields.                                                  *)
(***************************************************************************)

\* A refresh keeps every breaker well-typed and its times in order.
LEMMA RefreshedBreaker ==
  ASSUME TypeOK, Chronology, NEW c \in CB
  PROVE  /\ RefreshedStatus(c) \in Status
         /\ RefreshedRecoveryTick(c) \in Nat
         /\ RefreshedRecoveryTick(c) <= slot
         /\ RefreshedCooldown(c) \in Nat
         /\ RefreshedStatus(c) = "Recovery"
              => RefreshedCooldown(c)
                   = RefreshedRecoveryTick(c) + CooldownTicks
BY TimingAssumption
DEF TypeOK, BreakerTypeOK, Chronology, Status, RefreshedStatus, RefreshedRecoveryTick,
    RefreshedCooldown, InRecovery, ForcedOut, HeldStatus, ActiveLike

\* A breaker in recovery after a refresh has been so for less than a ramp
\* interval: the cooldown is no longer than it.
LEMMA RecoveryIsShort ==
  ASSUME TypeOK, Chronology, NEW c \in CB, RefreshedStatus(c) = "Recovery"
  PROVE  /\ Minus(slot, RefreshedRecoveryTick(c)) \in Nat
         /\ Minus(slot, RefreshedRecoveryTick(c)) < RampInterval
<1>1. slot < RefreshedCooldown(c)
  BY TimingAssumption
  DEF TypeOK, BreakerTypeOK, RefreshedStatus, RefreshedCooldown, InRecovery, HeldStatus,
      ForcedOut, ActiveLike, Status
<1>2. QED
  BY <1>1, RefreshedBreaker, TimingAssumption DEF TypeOK, BreakerTypeOK, Minus, RampInterval

\* The ramp: in a recovery this short the mint rate is half and the boost.
LEMMA RampedRate ==
  ASSUME TypeOK, Chronology, RefreshedStatus(2) = "Recovery"
  PROVE  RampedMintRate \in Nat /\ IsResumingRate(RampedMintRate)
<1> DEFINE overtime == Minus(Minus(slot, activation_tick[2]),
                             MaxActivationDuration)
           boost == AtMost((overtime \div RampInterval) * 50000,
                           AdaptiveRecoveryMax)
           steps == Minus(slot, RefreshedRecoveryTick(2)) \div RampInterval
<1>1. overtime \in Nat
  BY TimingAssumption DEF TypeOK, BreakerTypeOK, CB, Minus
<1>2. boost \in Nat /\ boost <= AdaptiveRecoveryMax
  <2>1. overtime \div RampInterval \in Nat
    BY <1>1 DEF RampInterval
  <2>2. QED
    BY <2>1 DEF AtMost, AdaptiveRecoveryMax
<1>3. steps = 0
  BY RecoveryIsShort DEF CB, RampInterval
<1>4. RampedMintRate = AtMost(HalfScale + boost + steps * 100000, SCALE)
  BY DEF RampedMintRate
<1> HIDE DEF overtime, boost, steps
<1>5. QED
  BY <1>2, <1>3, <1>4
  DEF IsResumingRate, AtMost, HalfScale, SCALE, AdaptiveRecoveryMax

\* The mint rate a refresh leaves is the one the refreshed CB-2 calls for.
LEMMA RefreshedMint ==
  ASSUME TypeOK, Chronology, MintRateFollowsCB2
  PROVE  /\ RefreshedMintRate \in Nat
         /\ ActiveLike(RefreshedStatus(2)) => RefreshedMintRate = 0
         /\ RefreshedStatus(2) = "Inactive" => RefreshedMintRate = SCALE
         /\ RefreshedStatus(2) = "Recovery"
              => IsResumingRate(RefreshedMintRate)
<1>1. CASE RefreshedStatus(2) = "Recovery"
  BY <1>1, RampedRate DEF RefreshedMintRate, ActiveLike
<1>2. CASE RefreshedStatus(2) = "Inactive"
  BY <1>2 DEF RefreshedMintRate, ActiveLike, SCALE
<1>3. CASE RefreshedStatus(2) \notin {"Recovery", "Inactive"}
  <2>1. RefreshedMintRate = mint_rate_limit
    BY <1>3 DEF RefreshedMintRate
  <2>2. ActiveLike(RefreshedStatus(2))
    BY <1>3, RefreshedBreaker DEF CB, Status, ActiveLike
  <2>3. ActiveLike(status[2])
    BY <2>2 DEF RefreshedStatus, InRecovery, ForcedOut, HeldStatus, ActiveLike
  <2>4. QED
    BY <1>3, <2>1, <2>3 DEF MintRateFollowsCB2, SCALE
<1>4. QED
  BY <1>1, <1>2, <1>3

\* The learning rate a refresh leaves is the one the refreshed CB-4 calls for.
LEMMA RefreshedRate ==
  ASSUME TypeOK, Chronology, LearningRateFollowsCB4
  PROVE  RefreshedLearningRate
           = IF RefreshedStatus(4) = "Inactive" THEN SCALE ELSE HalfScale
<1>1. CASE RefreshedStatus(4) = "Recovery"
  <2>1. ~(Minus(slot, RefreshedRecoveryTick(4)) >= RampInterval)
    BY <1>1, RecoveryIsShort DEF CB, RampInterval
  <2>2. ~(slot >= RefreshedCooldown(4)) /\ status[4] # "Inactive"
    BY <1>1, TimingAssumption
    DEF TypeOK, BreakerTypeOK, RefreshedStatus, RefreshedCooldown, InRecovery,
        HeldStatus, ForcedOut, ActiveLike, CB, Status
  <2>4. QED
    BY <1>1, <2>1, <2>2
    DEF RefreshedLearningRate, LearningRateFollowsCB4
<1>2. CASE RefreshedStatus(4) # "Recovery"
  BY <1>2
  DEF RefreshedLearningRate, LearningRateFollowsCB4, RefreshedStatus,
      InRecovery, ForcedOut, HeldStatus, ActiveLike
<1>3. QED
  BY <1>1, <1>2

-----------------------------------------------------------------------------
(***************************************************************************)
(* Every step preserves the invariant. Most instructions refresh; what a   *)
(* refresh does to the breakers and the policies is proved once.           *)
(***************************************************************************)

\* An instruction that only refreshes the breakers keeps them and the
\* policies in order.
LEMMA RefreshPreserves ==
  ASSUME IInv, Refresh, UNCHANGED <<slot, emergency_shutdown>>
  PROVE  /\ BreakerTypeOK' /\ PolicyTypeOK'
         /\ Chronology'
         /\ MintRateFollowsCB2'
         /\ LearningRateFollowsCB4'
         /\ OptimizerFrozen'
<1>1. TypeOK /\ Chronology
  BY DEF IInv
<1>2. LearningRateFollowsCB4'
  BY <1>1, RefreshedRate DEF IInv, Refresh, LearningRateFollowsCB4, CB
<1>3. BreakerTypeOK'
  BY <1>1, RefreshedBreaker DEF Refresh, TypeOK, BreakerTypeOK
<1>4. PolicyTypeOK'
  BY <1>1, <1>2, RefreshedMint
  DEF IInv, Refresh, TypeOK, PolicyTypeOK, LearningRateFollowsCB4
<1>5. Chronology'
  BY <1>1, RefreshedBreaker DEF Refresh, TypeOK, BreakerTypeOK, Chronology
<1>6. MintRateFollowsCB2'
  BY <1>1, RefreshedMint DEF IInv, Refresh, MintRateFollowsCB2, CB
<1>7. OptimizerFrozen'
  <2>1. ActiveLike(RefreshedStatus(3)) => ActiveLike(status[3])
    BY DEF RefreshedStatus, InRecovery, ForcedOut, HeldStatus, ActiveLike
  <2>2. QED
    BY <2>1 DEF IInv, Refresh, OptimizerFrozen, CB
<1>8. QED
  BY <1>2, <1>3, <1>4, <1>5, <1>6, <1>7

\* Tightening a cap keeps it in bounds and above the allocation.
LEMMA TightenedInBounds ==
  ASSUME TypeOK, CapsWithinBounds, NEW v \in Vault
  PROVE  /\ TightenedCap(v) \in Nat
         /\ BaseWeightCap[v] \div 2 <= TightenedCap(v)
         /\ TightenedCap(v) <= weight_cap[v]
         /\ weights[v] <= TightenedCap(v)
<1>1. BaseWeightCap[v] \in Nat /\ BaseWeightCap[v] \div 2 \in Nat
  BY VaultAssumption
<1>2. QED
  BY <1>1
  DEF TypeOK, AllocationTypeOK, CapsWithinBounds, TightenedCap, AtLeast

\* A step of restoration raises the cap, never above its base.
LEMMA RestoredInBounds ==
  ASSUME TypeOK, CapsWithinBounds, NEW v \in Vault
  PROVE  /\ RestoredCap(v) \in Nat
         /\ weight_cap[v] <= RestoredCap(v)
         /\ RestoredCap(v) <= BaseWeightCap[v]
<1> DEFINE gap == Minus(BaseWeightCap[v], weight_cap[v])
<1>1. BaseWeightCap[v] \in Nat /\ weight_cap[v] \in Nat
  BY VaultAssumption DEF TypeOK, AllocationTypeOK
<1>2. gap \in Nat
  BY <1>1 DEF Minus
<1>3. gap \div 20 \in Nat
  BY <1>2
<1>4. RestoredCap(v)
        = IF gap = 0 THEN weight_cap[v]
          ELSE AtMost(weight_cap[v] + AtLeast(gap \div 20, 1),
                      BaseWeightCap[v])
  BY DEF RestoredCap
<1> HIDE DEF gap
<1>5. QED
  BY <1>1, <1>3, <1>4 DEF CapsWithinBounds, AtMost, AtLeast

\* activate_circuit_breaker: the breaker it triggers starts a new activation
\* and the policy it drives is set with it; the others are only refreshed.
LEMMA ActivatePreserves ==
  ASSUME IInv, NEW c \in CB, NEW v \in Vault, Activate(c, v)
  PROVE  IInv'
<1>1. TypeOK /\ Chronology /\ slot \in Nat
  BY DEF IInv, TypeOK
<1>2. BreakerTypeOK'
  <2>1. RecentTriggers(c) \in 0..255
    BY <1>1
    DEF TypeOK, BreakerTypeOK, RecentTriggers, AtMost
  <2>2. /\ status' \in [CB -> Status]
        /\ recovery_tick' \in [CB -> Nat]
        /\ cooldown_until' \in [CB -> Nat]
    BY <1>1, RefreshedBreaker DEF Activate, Status
  <2>3. /\ recent_trigger_count' \in [CB -> 0..255]
        /\ last_trigger_tick' \in [CB -> Nat]
        /\ trigger_count' \in [CB -> Nat]
        /\ activation_tick' \in [CB -> Nat]
        /\ cb1_collateral_index' \in Vault
    BY <1>1, <2>1 DEF Activate, TypeOK, BreakerTypeOK
  <2>4. QED
    BY <2>2, <2>3 DEF BreakerTypeOK
<1>3. LearningRateFollowsCB4'
  BY <1>1, RefreshedRate DEF IInv, Activate, LearningRateFollowsCB4, CB
<1>4. PolicyTypeOK'
  <2>1. mint_rate_limit' \in Nat
    BY <1>1, RefreshedMint DEF IInv, Activate
  <2>2. optimizer_enabled' \in BOOLEAN
    <3>1. optimizer_enabled \in BOOLEAN
      BY <1>1 DEF TypeOK, PolicyTypeOK
    <3>2. optimizer_enabled' = IF c = 3 THEN FALSE ELSE optimizer_enabled
      BY DEF Activate
    <3>3. QED
      BY <3>1, <3>2, Zenon
  <2>3. learning_rate_scale' \in {HalfScale, SCALE}
    BY <1>3 DEF LearningRateFollowsCB4
  <2>4. QED
    BY <2>1, <2>2, <2>3 DEF PolicyTypeOK
<1>5. AllocationTypeOK' /\ CapsWithinBounds'
  <2>1. CapsWithinBounds /\ weight_cap \in [Vault -> Nat]
    BY <1>1 DEF IInv, TypeOK, AllocationTypeOK
  <2>2. \A u \in Vault : weight_cap'[u] \in {weight_cap[u], TightenedCap(u)}
    BY <2>1 DEF Activate
  <2>3. weight_cap' \in [Vault -> Nat]
    BY <1>1, <2>1, TightenedInBounds DEF Activate
  <2>4. ASSUME NEW u \in Vault
        PROVE  /\ BaseWeightCap[u] \div 2 <= weight_cap'[u]
               /\ weight_cap'[u] <= BaseWeightCap[u]
               /\ weights'[u] <= weight_cap'[u]
    <3>1. weights' = weights
      BY DEF Activate
    <3>2. CASE weight_cap'[u] = weight_cap[u]
      BY <2>1, <3>1, <3>2 DEF CapsWithinBounds
    <3>3. CASE weight_cap'[u] = TightenedCap(u)
      <4>1. /\ BaseWeightCap[u] \in Nat
            /\ weight_cap[u] \in Nat
            /\ weight_cap[u] <= BaseWeightCap[u]
        BY <2>1, VaultAssumption DEF CapsWithinBounds
      <4>2. QED
        BY <1>1, <2>1, <3>1, <3>3, <4>1, TightenedInBounds
    <3>4. QED
      BY <2>2, <3>2, <3>3
  <2>5. QED
    BY <1>1, <2>3, <2>4
    DEF Activate, TypeOK, AllocationTypeOK, CapsWithinBounds
<1>6. TypeOK'
  BY <1>2, <1>4, <1>5
  DEF IInv, Activate, TypeOK, manualVars, marketVars, ManualTypeOK,
      MarketTypeOK
<1>7. Chronology'
  BY <1>1, RefreshedBreaker
  DEF Activate, TypeOK, BreakerTypeOK, Chronology
<1>8. DelayFloor'
  BY DEF IInv, Activate, DelayFloor, manualVars
<1>9. MintRateFollowsCB2'
  BY <1>1, RefreshedMint
  DEF IInv, Activate, MintRateFollowsCB2, CB, ActiveLike
<1>10. OptimizerFrozen'
  <2>1. ActiveLike(RefreshedStatus(3)) => ActiveLike(status[3])
    BY DEF RefreshedStatus, InRecovery, ForcedOut, HeldStatus, ActiveLike
  <2>2. QED
    BY <2>1 DEF IInv, Activate, OptimizerFrozen, CB
<1>11. QED
  BY <1>3, <1>5, <1>6, <1>7, <1>8, <1>9, <1>10 DEF IInv

\* recover_circuit_breaker: the policy goes to its setting for a recovery,
\* and a cap of CB-1 takes one step back.
LEMMA RecoverPreserves ==
  ASSUME IInv, NEW c \in CB, Recover(c)
  PROVE  IInv'
<1>1. TypeOK /\ Chronology /\ slot \in Nat /\ CooldownTicks \in Nat
  BY TimingAssumption DEF IInv, TypeOK
<1>2. BreakerTypeOK'
  BY <1>1, RefreshedBreaker DEF Recover, Status, TypeOK, BreakerTypeOK
<1>3. LearningRateFollowsCB4'
  BY <1>1, RefreshedRate DEF IInv, Recover, LearningRateFollowsCB4, CB
<1>4. PolicyTypeOK'
  <2>1. mint_rate_limit' \in Nat
    BY <1>1, RefreshedMint DEF IInv, Recover, HalfScale
  <2>2. optimizer_enabled' \in BOOLEAN
    BY <1>1 DEF Recover, TypeOK, PolicyTypeOK
  <2>3. learning_rate_scale' \in {HalfScale, SCALE}
    BY <1>3 DEF LearningRateFollowsCB4
  <2>4. QED
    BY <2>1, <2>2, <2>3 DEF PolicyTypeOK
<1>5. AllocationTypeOK' /\ CapsWithinBounds'
  <2>1. cb1_collateral_index \in Vault
    BY DEF IInv, TypeOK, BreakerTypeOK
  <2>2. weight_cap' \in [Vault -> Nat] /\ CapsWithinBounds'
    <3>1. CASE c = 1
      <4>1. weight_cap' = [weight_cap EXCEPT ![cb1_collateral_index] =
                             RestoredCap(cb1_collateral_index)]
        BY <3>1 DEF Recover
      <4>2. weight_cap' \in [Vault -> Nat]
        BY <1>1, <2>1, <4>1, RestoredInBounds
        DEF IInv, TypeOK, AllocationTypeOK
      <4>3. ASSUME NEW u \in Vault
            PROVE  /\ weight_cap[u] <= weight_cap'[u]
                   /\ weight_cap'[u] <= BaseWeightCap[u]
        BY <1>1, <2>1, <4>1, RestoredInBounds
        DEF IInv, TypeOK, AllocationTypeOK, CapsWithinBounds
      <4>4. \A u \in Vault : /\ weights[u] \in Nat
                             /\ weight_cap[u] \in Nat
                             /\ BaseWeightCap[u] \div 2 \in Nat
        BY VaultAssumption DEF IInv, TypeOK, AllocationTypeOK
      <4>5. QED
        BY <4>2, <4>3, <4>4 DEF IInv, Recover, CapsWithinBounds
    <3>2. CASE c # 1
      BY <3>2 DEF IInv, Recover, TypeOK, AllocationTypeOK, CapsWithinBounds
    <3>3. QED
      BY <3>1, <3>2
  <2>3. QED
    BY <2>2 DEF IInv, Recover, TypeOK, AllocationTypeOK
<1>6. TypeOK'
  BY <1>2, <1>4, <1>5
  DEF IInv, Recover, TypeOK, manualVars, marketVars, ManualTypeOK,
      MarketTypeOK
<1>7. Chronology'
  BY <1>1, RefreshedBreaker
  DEF Recover, TypeOK, BreakerTypeOK, Chronology
<1>8. DelayFloor'
  BY DEF IInv, Recover, DelayFloor, manualVars
<1>9. MintRateFollowsCB2'
  BY <1>1, RefreshedMint
  DEF IInv, Recover, MintRateFollowsCB2, CB, ActiveLike, IsResumingRate,
      HalfScale, AdaptiveRecoveryMax
<1>10. OptimizerFrozen'
  <2>1. ActiveLike(RefreshedStatus(3)) => ActiveLike(status[3])
    BY DEF RefreshedStatus, InRecovery, ForcedOut, HeldStatus, ActiveLike
  <2>2. QED
    BY <2>1 DEF IInv, Recover, OptimizerFrozen, CB, ActiveLike
<1>11. QED
  BY <1>3, <1>5, <1>6, <1>7, <1>8, <1>9, <1>10 DEF IInv

\* enable_manual_oracle_mode: the stored delay is never below the base one.
LEMMA EnableManualPreserves ==
  ASSUME IInv, NEW n \in 1..ManualModeMaxSlots, EnableManualOracleMode(n)
  PROVE  IInv'
<1> DEFINE used == IF manual_epoch = Epoch THEN manual_count ELSE 0
<1>1. /\ slot \in Nat
      /\ manual_delay \in Nat
      /\ manual_count \in Nat
      /\ Epoch \in Nat
      /\ manual_delay >= ManualCooldown
  BY ManualAssumption DEF IInv, TypeOK, ManualTypeOK, DelayFloor, Epoch
<1>2. /\ manual_delay' \in Nat
      /\ manual_delay' >= ManualCooldown
  BY <1>1, ManualAssumption DEF EnableManualOracleMode, ManualDelay, AtMost
<1>3. ManualTypeOK'
  BY <1>1, <1>2 DEF EnableManualOracleMode, ManualTypeOK
<1>4. UNCHANGED <<slot, breakerVars, policyVars, weights, weight_cap,
                  cr_target, emergency_shutdown, marketVars>>
  BY DEF EnableManualOracleMode
<1>5. TypeOK'
  BY <1>3, <1>4
  DEF IInv, TypeOK, BreakerTypeOK, PolicyTypeOK, AllocationTypeOK,
      MarketTypeOK, breakerVars, policyVars, marketVars
<1>6. QED
  BY <1>2, <1>4, <1>5
  DEF IInv, Chronology, DelayFloor, MintRateFollowsCB2,
      LearningRateFollowsCB4, OptimizerFrozen, CapsWithinBounds,
      breakerVars, policyVars

\* Instructions that refresh and otherwise touch only the allocation, the
\* manual mode or the market.
LEMMA RefreshingPreserves ==
  ASSUME IInv, Refresh,
         UNCHANGED <<slot, cr_target, emergency_shutdown, manualVars>>,
         AllocationTypeOK', MarketTypeOK', CapsWithinBounds'
  PROVE  IInv'
<1>1. TypeOK'
  BY RefreshPreserves DEF IInv, TypeOK, ManualTypeOK, manualVars
<1>2. QED
  BY <1>1, RefreshPreserves DEF IInv, DelayFloor, manualVars

\* A new price keeps what the breakers observe well-typed.
LEMMA ObservePreserves ==
  ASSUME TypeOK, NEW v \in Vault, ObservePrice(v)
  PROVE  MarketTypeOK'
BY BoundAssumption DEF TypeOK, MarketTypeOK, ObservePrice

\* The oracle updates, mint, redeem and rebalance.
LEMMA MarketPreserves ==
  ASSUME IInv, Market
  PROVE  IInv'
<1>1. ASSUME UNCHANGED <<weights, weight_cap, cr_target>>
      PROVE  AllocationTypeOK' /\ CapsWithinBounds'
  BY <1>1 DEF IInv, TypeOK, AllocationTypeOK, CapsWithinBounds
<1>2. ASSUME NEW v \in Vault, UpdateOraclePyth(v) \/ UpdateOracle(v)
      PROVE  IInv'
  <2>1. MarketTypeOK'
    BY <1>2, ObservePreserves DEF IInv, UpdateOraclePyth, UpdateOracle
  <2>2. QED
    BY <1>1, <1>2, <2>1, RefreshingPreserves
    DEF UpdateOraclePyth, UpdateOracle
<1>3. ASSUME NEW v \in Vault, Mint(v) PROVE IInv'
  <2>1. MarketTypeOK'
    BY <1>3, BoundAssumption DEF IInv, TypeOK, Mint, MarketTypeOK
  <2>2. QED
    BY <1>1, <1>3, <2>1, RefreshingPreserves DEF Mint
<1>4. CASE Redeem
  <2>1. MarketTypeOK'
    BY <1>4, BoundAssumption DEF IInv, TypeOK, Redeem, MarketTypeOK
  <2>2. QED
    BY <1>1, <1>4, <2>1, RefreshingPreserves DEF Redeem
<1>5. ASSUME NEW w \in Weightings, Rebalance(w) PROVE IInv'
  <2>1. MarketTypeOK' /\ AllocationTypeOK'
    BY <1>5, BoundAssumption
    DEF IInv, TypeOK, Rebalance, MarketTypeOK, AllocationTypeOK, marketVars
  <2>2. CapsWithinBounds'
    BY <1>5 DEF IInv, Rebalance, AssertInvariants, CapsWithinBounds
  <2>3. QED
    BY <1>5, <2>1, <2>2, RefreshingPreserves DEF Rebalance
<1>6. QED
  BY <1>2, <1>3, <1>4, <1>5 DEF Market

\* emergency_shutdown, resume_from_shutdown and update_protocol_params.
LEMMA ControlPreserves ==
  ASSUME IInv, EmergencyShutdown \/ Resume \/ \E t \in CrTargets : UpdateParams(t)
  PROVE  IInv'
<1>1. UNCHANGED <<slot, breakerVars, learning_rate_scale, weights, weight_cap,
                  manualVars, marketVars>>
  BY DEF EmergencyShutdown, Resume, UpdateParams, policyVars
<1>2. cr_target' \in Nat
  <2>1. cr_target \in Nat
    BY DEF IInv, TypeOK, AllocationTypeOK
  <2>2. CrTargets \subseteq Nat
    BY BoundAssumption DEF CrTargetMin
  <2>3. QED
    BY <2>1, <2>2 DEF EmergencyShutdown, Resume, UpdateParams
<1>3. BreakerTypeOK' /\ AllocationTypeOK' /\ ManualTypeOK' /\ MarketTypeOK'
  BY <1>1, <1>2
  DEF IInv, TypeOK, BreakerTypeOK, AllocationTypeOK, ManualTypeOK,
      MarketTypeOK, breakerVars, manualVars, marketVars
<1>4. Chronology' /\ DelayFloor' /\ LearningRateFollowsCB4' /\ CapsWithinBounds'
  BY <1>1
  DEF IInv, Chronology, DelayFloor, LearningRateFollowsCB4, CapsWithinBounds,
      breakerVars, manualVars
<1>5. PolicyTypeOK' /\ emergency_shutdown' \in BOOLEAN
      /\ MintRateFollowsCB2' /\ OptimizerFrozen'
  <2>1. CASE EmergencyShutdown
    BY <1>1, <2>1
    DEF EmergencyShutdown, IInv, TypeOK, PolicyTypeOK, MintRateFollowsCB2,
        OptimizerFrozen, breakerVars
  <2>2. CASE Resume
    <3>1. /\ emergency_shutdown' = FALSE
          /\ mint_rate_limit' = SCALE
          /\ optimizer_enabled' = TRUE
          /\ \A c \in CB : status'[c] = "Inactive"
      BY <1>1, <2>2 DEF Resume, breakerVars
    <3>2. SCALE \in Nat
      BY DEF SCALE
    <3>3. status'[2] = "Inactive" /\ status'[3] = "Inactive"
      BY <3>1 DEF CB
    <3>4. learning_rate_scale' \in {HalfScale, SCALE}
      BY <1>1 DEF IInv, TypeOK, PolicyTypeOK
    <3>5. QED
      BY <3>1, <3>2, <3>3, <3>4
      DEF PolicyTypeOK, MintRateFollowsCB2, OptimizerFrozen, ActiveLike
  <2>3. CASE \E t \in CrTargets : UpdateParams(t)
    BY <1>1, <2>3
    DEF UpdateParams, IInv, TypeOK, PolicyTypeOK, MintRateFollowsCB2,
        OptimizerFrozen, breakerVars, policyVars
  <2>4. QED
    BY <2>1, <2>2, <2>3
<1>6. QED
  BY <1>1, <1>3, <1>4, <1>5 DEF IInv, TypeOK

\* The passing of a slot leaves every time in the past.
LEMMA TickPreserves ==
  ASSUME IInv, Tick
  PROVE  IInv'
<1>1. slot \in Nat /\ slot' = slot + 1
  BY DEF IInv, TypeOK, Tick
<1>2. TypeOK'
  BY <1>1, BoundAssumption
  DEF IInv, Tick, TypeOK, BreakerTypeOK, PolicyTypeOK, AllocationTypeOK,
      ManualTypeOK, MarketTypeOK, breakerVars, policyVars, manualVars
<1>3. Chronology'
  BY <1>1 DEF IInv, Tick, TypeOK, BreakerTypeOK, Chronology, breakerVars
<1>4. QED
  BY <1>2, <1>3
  DEF IInv, Tick, DelayFloor, MintRateFollowsCB2, LearningRateFollowsCB4,
      OptimizerFrozen, CapsWithinBounds, breakerVars, policyVars, manualVars

-----------------------------------------------------------------------------
(***************************************************************************)
(* The invariant and what it gives.                                        *)
(***************************************************************************)
\* initialize leaves the breakers inactive and every policy normal.
LEMMA InitEstablishes == Init => IInv
<1> SUFFICES ASSUME Init PROVE IInv
  OBVIOUS
<1>1. TypeOK
  <2>1. BreakerTypeOK
    BY VaultAssumption DEF Init, BreakerTypeOK, Status
  <2>2. PolicyTypeOK
    BY DEF Init, PolicyTypeOK, SCALE
  <2>3. AllocationTypeOK
    BY VaultAssumption DEF Init, AllocationTypeOK, InitialCrTarget
  <2>4. ManualTypeOK
    BY ManualAssumption DEF Init, ManualTypeOK
  <2>5. MarketTypeOK
    BY DEF Init, MarketTypeOK
  <2>6. slot \in Nat
    BY DEF Init
  <2>7. emergency_shutdown \in BOOLEAN
    BY DEF Init
  <2>8. QED
    BY <2>1, <2>2, <2>3, <2>4, <2>5, <2>6, <2>7 DEF TypeOK
<1>2. Chronology
  BY DEF Init, Chronology
<1>3. DelayFloor
  BY ManualAssumption DEF Init, DelayFloor
<1>4. MintRateFollowsCB2 /\ LearningRateFollowsCB4 /\ OptimizerFrozen
  BY DEF Init, MintRateFollowsCB2, LearningRateFollowsCB4, OptimizerFrozen,
         ActiveLike, CB
<1>5. CapsWithinBounds
  BY VaultAssumption DEF Init, CapsWithinBounds
<1>6. QED
  BY <1>1, <1>2, <1>3, <1>4, <1>5 DEF IInv

\* The induction step, one group of instructions after another.
LEMMA StepPreserves == IInv /\ [Next]_vars => IInv'
<1> SUFFICES ASSUME IInv, [Next]_vars PROVE IInv'
  OBVIOUS
<1>1. CASE Breakers
  BY <1>1, ActivatePreserves, RecoverPreserves, BoundAssumption DEF Breakers
<1>2. CASE Control
  BY <1>2, ControlPreserves, EnableManualPreserves DEF Control
<1>3. CASE Market
  BY <1>3, MarketPreserves
<1>4. CASE Tick
  BY <1>4, TickPreserves
<1>5. CASE UNCHANGED vars
  BY <1>5
  DEF vars, breakerVars, policyVars, manualVars, marketVars, IInv, TypeOK,
      BreakerTypeOK, PolicyTypeOK, AllocationTypeOK, ManualTypeOK,
      MarketTypeOK, Chronology, DelayFloor, MintRateFollowsCB2,
      LearningRateFollowsCB4, OptimizerFrozen, CapsWithinBounds
<1>6. QED
  BY <1>1, <1>2, <1>3, <1>4, <1>5 DEF Next

\* The inductive invariant holds throughout.
THEOREM Invariance == Spec => []IInv
BY InitEstablishes, StepPreserves, PTL DEF Spec

\* The variables keep their types; the learning rate is halved or whole.
THEOREM TypeCorrectness == Spec => []TypeOK
<1>1. IInv => TypeOK
  BY DEF IInv
<1>2. QED
  BY <1>1, Invariance, PTL

\* The mint limit never diverges from the status of CB-2: no sequence of
\* refreshes, forced recoveries, shutdowns and resumes opens minting while
\* CB-2 is in force, or leaves it throttled once CB-2 is inactive. And the
\* learning rate is halved exactly while CB-4 is not inactive.
THEOREM RatesFollow == Spec => []RatesFollowBreakers
<1>1. IInv => RatesFollowBreakers
  BY DEF IInv, RatesFollowBreakers
<1>2. QED
  BY <1>1, Invariance, PTL

\* The optimizer is off while CB-3 is in force and during a shutdown.
THEOREM OptimizerStaysOff == Spec => []OptimizerFrozen
<1>1. IInv => OptimizerFrozen
  BY DEF IInv
<1>2. QED
  BY <1>1, Invariance, PTL

\* The weight caps stay between half their base and their base, and the
\* allocation under them.
THEOREM CapsStayInBounds == Spec => []CapsWithinBounds
<1>1. IInv => CapsWithinBounds
  BY DEF IInv
<1>2. QED
  BY <1>1, Invariance, PTL

-----------------------------------------------------------------------------
(***************************************************************************)
(* What a step may never do.                                               *)
(***************************************************************************)

\* A cap rises only when CB-1 leaves force, for the vault it was about.
THEOREM CapsRelaxOnRecovery == Spec => CapRelaxedOnlyByRecovery
<1> DEFINE Relaxed ==
      \A v \in Vault : weight_cap'[v] > weight_cap[v]
                       => /\ ActiveLike(status[1])
                          /\ status'[1] = "Recovery"
                          /\ v = cb1_collateral_index
<1>1. IInv /\ [Next]_vars => [Relaxed]_vars
  <2> SUFFICES ASSUME IInv, Next PROVE Relaxed
    OBVIOUS
  <2>1. \A v \in Vault : weight_cap[v] \in Nat
    BY DEF IInv, TypeOK, AllocationTypeOK
  <2>2. ASSUME NEW c \in CB, NEW v \in Vault, Activate(c, v) PROVE Relaxed
    <3>1. \A u \in Vault : weight_cap'[u] \in {weight_cap[u], TightenedCap(u)}
      BY <2>2 DEF Activate, IInv, TypeOK, AllocationTypeOK
    <3>2. \A u \in Vault : /\ TightenedCap(u) \in Nat
                           /\ TightenedCap(u) <= weight_cap[u]
      BY TightenedInBounds DEF IInv
    <3>3. QED
      BY <2>1, <3>1, <3>2
  <2>3. ASSUME NEW c \in CB, Recover(c) PROVE Relaxed
    <3>1. CASE c = 1
      <4>1. ActiveLike(status[1])
        BY <2>3, <3>1
        DEF Recover, RefreshedStatus, InRecovery, ForcedOut, HeldStatus,
            ActiveLike
      <4>2. status'[1] = "Recovery"
        BY <2>3, <3>1 DEF Recover, CB
      <4>3. \A u \in Vault : u # cb1_collateral_index
                             => weight_cap'[u] = weight_cap[u]
        BY <2>3, <3>1 DEF Recover, IInv, TypeOK, AllocationTypeOK
      <4>4. QED
        BY <2>1, <4>1, <4>2, <4>3
    <3>2. CASE c # 1
      BY <2>1, <2>3, <3>2 DEF Recover
    <3>3. QED
      BY <3>1, <3>2
  <2>4. ASSUME UNCHANGED weight_cap PROVE Relaxed
    BY <2>1, <2>4
  <2>5. CASE Breakers
    BY <2>2, <2>3, <2>5, BoundAssumption DEF Breakers
  <2>6. CASE Control \/ Market \/ Tick
    BY <2>4, <2>6
    DEF Control, EmergencyShutdown, Resume, EnableManualOracleMode,
        UpdateParams, Market, UpdateOraclePyth, UpdateOracle, Mint, Redeem,
        Rebalance, Tick
  <2>7. QED
    BY <2>5, <2>6 DEF Next
<1>2. QED
  BY <1>1, Invariance, PTL DEF Spec, CapRelaxedOnlyByRecovery

\* Activating or recovering a breaker leaves the manual mode and the
\* shutdown alone.
LEMMA BreakersKeepControl ==
  Breakers => /\ manual_expiry' = manual_expiry
              /\ emergency_shutdown' = emergency_shutdown
<1>1. ASSUME NEW c \in CB, NEW v \in Vault, Activate(c, v)
      PROVE  /\ manual_expiry' = manual_expiry
             /\ emergency_shutdown' = emergency_shutdown
  BY <1>1 DEF Activate, manualVars
<1>2. ASSUME NEW c \in CB, Recover(c)
      PROVE  /\ manual_expiry' = manual_expiry
             /\ emergency_shutdown' = emergency_shutdown
  BY <1>2 DEF Recover, manualVars
<1>3. QED
  BY <1>1, <1>2, BoundAssumption DEF Breakers

\* Manual oracle windows are at least the base cooldown apart.
THEOREM WindowsKeepApart == Spec => ManualWindowsSpaced
<1> DEFINE Spaced == manual_expiry # 0 /\ manual_expiry' # manual_expiry
                     => slot >= manual_expiry + ManualCooldown
<1>1. IInv /\ [Next]_vars => [Spaced]_vars
  <2> SUFFICES ASSUME IInv, Next, manual_expiry # 0,
                      manual_expiry' # manual_expiry
               PROVE  slot >= manual_expiry + ManualCooldown
    OBVIOUS
  <2>1. \E n \in 1..ManualModeMaxSlots : EnableManualOracleMode(n)
    <3>1. ~(Breakers \/ Tick)
      BY BreakersKeepControl DEF Tick, manualVars
    <3>2. ~Market
      BY DEF Market, UpdateOraclePyth, UpdateOracle, Mint, Redeem, Rebalance,
             manualVars
    <3>3. ~(EmergencyShutdown \/ Resume
            \/ \E t \in CrTargets : UpdateParams(t))
      BY DEF EmergencyShutdown, Resume, UpdateParams, manualVars
    <3>4. QED
      BY <3>1, <3>2, <3>3 DEF Next, Control
  <2>2. slot >= manual_expiry + ManualDelay /\ slot \in Nat
    BY <2>1 DEF EnableManualOracleMode, IInv, TypeOK, ManualTypeOK
  <2>3. ManualDelay \in Nat /\ ManualDelay >= ManualCooldown
    BY ManualAssumption
    DEF IInv, TypeOK, ManualTypeOK, DelayFloor, ManualDelay
  <2>4. QED
    BY <2>2, <2>3, ManualAssumption DEF IInv, TypeOK, ManualTypeOK
<1>2. QED
  BY <1>1, Invariance, PTL DEF Spec, ManualWindowsSpaced

\* A shutdown ends with every breaker inactive and every policy normal.
THEOREM ResumesClean == Spec => ResumeIsClean
<1> DEFINE Clean == emergency_shutdown /\ ~emergency_shutdown'
                    => /\ \A c \in CB : status'[c] = "Inactive"
                       /\ mint_rate_limit' = SCALE
                       /\ learning_rate_scale' = SCALE
                       /\ optimizer_enabled'
<1>1. IInv /\ [Next]_vars => [Clean]_vars
  <2> SUFFICES ASSUME IInv, Next, emergency_shutdown, ~emergency_shutdown'
               PROVE  Clean
    OBVIOUS
  <2>1. Resume
    <3>1. ~(Breakers \/ Tick)
      BY BreakersKeepControl DEF Tick
    <3>2. ~Market
      BY DEF Market, UpdateOraclePyth, UpdateOracle, Mint, Redeem, Rebalance
    <3>3. ~(EmergencyShutdown
            \/ (\E n \in 1..ManualModeMaxSlots : EnableManualOracleMode(n))
            \/ \E t \in CrTargets : UpdateParams(t))
      BY DEF EmergencyShutdown, EnableManualOracleMode, UpdateParams
    <3>4. QED
      BY <3>1, <3>2, <3>3 DEF Next, Control
  <2>2. \A c \in CB : status'[c] = "Inactive"
    BY <2>1 DEF Resume, breakerVars
  <2>3. learning_rate_scale' = SCALE
    BY <2>1 DEF Resume, IInv, LearningRateFollowsCB4, CB
  <2>4. mint_rate_limit' = SCALE /\ optimizer_enabled'
    BY <2>1 DEF Resume
  <2>5. QED
    BY <2>2, <2>3, <2>4
<1>2. QED
  BY <1>1, Invariance, PTL DEF Spec, ResumeIsClean

-----------------------------------------------------------------------------
(***************************************************************************)
(* The breakers implement BreakerLifecycle.                                *)
(***************************************************************************)

\* The phases and times of the lifecycle, in the terms of this module.
LEMMA Mapped ==
  ASSUME NEW b \in CB
  PROVE  /\ LifecyclePhase[b] = PhaseOf(status[b])
         /\ LifecycleSince[b] = IF ActiveLike(status[b])
                                THEN activation_tick[b] ELSE recovery_tick[b]
         /\ LifecyclePhase'[b] = PhaseOf(status'[b])
         /\ LifecycleSince'[b] = IF ActiveLike(status'[b])
                                 THEN activation_tick'[b]
                                 ELSE recovery_tick'[b]
BY DEF LifecyclePhase, LifecycleSince

\* Which phase of the lifecycle each status stands for.
LEMMA Phases ==
  ASSUME NEW s \in Status
  PROVE  /\ (PhaseOf(s) = "Normal") = (s = "Inactive")
         /\ (PhaseOf(s) = "Cooldown") = (s = "Recovery")
         /\ (PhaseOf(s) = "Extended") = (s = "ExtendedActive")
         /\ Lifecycle!Engaged(PhaseOf(s)) = ActiveLike(s)
BY DEF Status, PhaseOf, Lifecycle!Engaged, ActiveLike

\* What a refresh does to a breaker is a move of its lifecycle.
LEMMA RefreshedMoves ==
  ASSUME TypeOK, Chronology, NEW b \in CB, slot' = slot,
         status'[b] = RefreshedStatus(b),
         activation_tick'[b] = activation_tick[b],
         recovery_tick'[b] = RefreshedRecoveryTick(b)
  PROVE  Lifecycle!Release(b) \/ Lifecycle!Cool(b) \/ Lifecycle!Rest(b)
<1>1. /\ status[b] \in Status
      /\ slot \in Nat /\ activation_tick[b] \in Nat /\ recovery_tick[b] \in Nat
      /\ activation_tick[b] <= slot
      /\ MinHold[b] \in Nat /\ MaxActivationDuration \in Nat
      /\ 3 * MinHold[b] <= MaxActivationDuration
      /\ CooldownTicks \in Nat \ {0}
  BY TimingAssumption DEF TypeOK, BreakerTypeOK, Chronology
<1>2. CASE ForcedOut(b)
  <2>1. /\ ActiveLike(status[b])
        /\ slot >= activation_tick[b] + MaxActivationDuration
    BY <1>1, <1>2 DEF ForcedOut, HeldStatus, ActiveLike, Minus
  <2>2. status'[b] = "Recovery" /\ recovery_tick'[b] = slot
    BY <1>1, <1>2
    DEF RefreshedStatus, RefreshedRecoveryTick, RefreshedCooldown, InRecovery
  <2>3. slot >= activation_tick[b] + 3 * MinHold[b]
        /\ slot >= activation_tick[b] + MinHold[b]
    BY <1>1, <2>1
  <2>4. QED
    BY <1>1, <2>1, <2>2, <2>3, Mapped
    DEF Lifecycle!Release, Lifecycle!HoldOf, Lifecycle!Engaged, PhaseOf,
        ActiveLike, Status
<1>3. CASE ~ForcedOut(b) /\ status[b] = "Recovery"
  <2>1. cooldown_until[b] = recovery_tick[b] + CooldownTicks
    BY <1>3 DEF Chronology
  <2>2. recovery_tick'[b] = recovery_tick[b]
    BY <1>3 DEF RefreshedRecoveryTick
  <2>3. CASE slot >= cooldown_until[b]
    <3>1. status'[b] = "Inactive"
      BY <1>3, <2>3 DEF RefreshedStatus, RefreshedCooldown, InRecovery
    <3>2. QED
      BY <1>3, <2>1, <2>2, <2>3, <3>1, Mapped
      DEF Lifecycle!Cool, Lifecycle!Cooled, PhaseOf, ActiveLike
  <2>4. CASE ~(slot >= cooldown_until[b])
    <3>1. status'[b] = "Recovery"
      BY <1>3, <2>4 DEF RefreshedStatus, RefreshedCooldown, InRecovery
    <3>2. QED
      BY <1>3, <2>2, <3>1, Mapped DEF Lifecycle!Rest
  <2>5. QED
    BY <2>3, <2>4
<1>4. CASE ~ForcedOut(b) /\ status[b] # "Recovery"
  <2>1. /\ status'[b] = HeldStatus(b)
        /\ recovery_tick'[b] = recovery_tick[b]
    BY <1>4 DEF RefreshedStatus, RefreshedRecoveryTick, InRecovery
  <2>2. /\ PhaseOf(HeldStatus(b)) = PhaseOf(status[b])
        /\ ActiveLike(HeldStatus(b)) = ActiveLike(status[b])
    BY DEF HeldStatus, PhaseOf, ActiveLike
  <2>3. QED
    BY <2>1, <2>2, Mapped DEF Lifecycle!Rest
<1>5. QED
  BY <1>2, <1>3, <1>4

\* An activation triggers one breaker and lets the others move.
LEMMA ActivateMoves ==
  ASSUME IInv, NEW c \in CB, NEW v \in Vault, Activate(c, v)
  PROVE  Lifecycle!Move
<1>1. TypeOK /\ Chronology /\ slot' = slot
  BY DEF IInv, Activate
<1>2. ASSUME NEW b \in CB, b # c
      PROVE  Lifecycle!Release(b) \/ Lifecycle!Cool(b) \/ Lifecycle!Rest(b)
  <2>1. /\ status'[b] = RefreshedStatus(b)
        /\ activation_tick'[b] = activation_tick[b]
        /\ recovery_tick'[b] = RefreshedRecoveryTick(b)
    BY <1>1, <1>2 DEF Activate, TypeOK, BreakerTypeOK
  <2>2. QED
    BY <1>1, <2>1, RefreshedMoves
<1>3. Lifecycle!Trigger(c)
  <2>1. /\ ActiveLike(status'[c])
        /\ activation_tick'[c] = slot
        /\ status'[c] \in {"ExtendedActive", "Holding"}
    BY <1>1 DEF Activate, TypeOK, BreakerTypeOK, ActiveLike
  <2>2. ~ActiveLike(RefreshedStatus(c)) /\ slot >= RefreshedCooldown(c)
    BY DEF Activate
  <2>3. status[c] \in Status /\ ~ForcedOut(c)
    BY <1>1, <2>2, TimingAssumption
    DEF TypeOK, BreakerTypeOK, ForcedOut, RefreshedCooldown
  <2>4. status[c] = "Recovery" => slot >= recovery_tick[c] + CooldownTicks
    BY <1>1, <2>2, <2>3 DEF RefreshedCooldown, Chronology
  <2>5. status[c] \in {"Inactive", "Recovery"}
    BY <2>2, <2>3
    DEF RefreshedStatus, InRecovery, HeldStatus, ActiveLike, Status
  <2>6. QED
    BY <1>1, <2>1, <2>4, <2>5, Mapped
    DEF Lifecycle!Trigger, Lifecycle!Engaged, Lifecycle!Cooled, PhaseOf,
        ActiveLike
<1>4. QED
  BY <1>1, <1>2, <1>3 DEF Lifecycle!Move

\* A recovery releases one breaker and lets the others move.
LEMMA RecoverMoves ==
  ASSUME IInv, NEW c \in CB, Recover(c)
  PROVE  Lifecycle!Move
<1>1. TypeOK /\ Chronology /\ slot' = slot
  BY DEF IInv, Recover
<1>2. ASSUME NEW b \in CB, b # c
      PROVE  Lifecycle!Release(b) \/ Lifecycle!Cool(b) \/ Lifecycle!Rest(b)
  <2>1. /\ status'[b] = RefreshedStatus(b)
        /\ activation_tick'[b] = activation_tick[b]
        /\ recovery_tick'[b] = RefreshedRecoveryTick(b)
    BY <1>1, <1>2 DEF Recover
  <2>2. QED
    BY <1>1, <2>1, RefreshedMoves
<1>3. Lifecycle!Release(c)
  <2>1. status'[c] = "Recovery" /\ recovery_tick'[c] = slot
    BY DEF Recover
  <2>2. /\ ActiveLike(RefreshedStatus(c))
        /\ Minus(slot, activation_tick[c])
             >= EffectiveMinHold(c, RefreshedStatus(c))
    BY DEF Recover
  <2>3. /\ status[c] \in Status
        /\ slot \in Nat /\ activation_tick[c] \in Nat
        /\ activation_tick[c] <= slot
        /\ MinHold[c] \in Nat
    BY <1>1, TimingAssumption DEF TypeOK, BreakerTypeOK, Chronology
  <2>4. RefreshedStatus(c) = HeldStatus(c) /\ ActiveLike(status[c])
    BY <2>2 DEF RefreshedStatus, InRecovery, HeldStatus, ActiveLike
  <2>5. slot >= activation_tick[c]
                  + IF status[c] = "ExtendedActive" THEN 3 * MinHold[c]
                    ELSE MinHold[c]
    BY <2>2, <2>3, <2>4 DEF EffectiveMinHold, HeldStatus, Minus
  <2>6. QED
    BY <1>1, <2>1, <2>3, <2>4, <2>5, Mapped
    DEF Lifecycle!Release, Lifecycle!HoldOf, Lifecycle!Engaged, PhaseOf,
        ActiveLike, Status
<1>4. QED
  BY <1>1, <1>2, <1>3 DEF Lifecycle!Move

\* An instruction that refreshes and does no more moves every breaker.
LEMMA RefreshMoves ==
  ASSUME IInv, Refresh, slot' = slot
  PROVE  Lifecycle!Move
<1>1. TypeOK /\ Chronology
  BY DEF IInv
<1>2. ASSUME NEW b \in CB
      PROVE  Lifecycle!Release(b) \/ Lifecycle!Cool(b) \/ Lifecycle!Rest(b)
  <2>1. /\ status'[b] = RefreshedStatus(b)
        /\ activation_tick'[b] = activation_tick[b]
        /\ recovery_tick'[b] = RefreshedRecoveryTick(b)
    BY DEF Refresh
  <2>2. QED
    BY <1>1, <2>1, RefreshedMoves
<1>3. QED
  BY <1>2 DEF Lifecycle!Move

\* Whatever the interleaving of lazy refreshes, forced recoveries and keeper
\* instructions, each breaker follows the lifecycle of docs/spec.md 3.6.5.
THEOREM LifecycleImplemented == Spec => ImplementsLifecycle
<1>1. Init => Lifecycle!LifecycleInit
  BY DEF Init, Lifecycle!LifecycleInit, LifecyclePhase, LifecycleSince,
         PhaseOf, ActiveLike
<1>2. IInv /\ [Next]_vars => [Lifecycle!LifecycleNext]_(Lifecycle!lifecycleVars)
  <2> SUFFICES ASSUME IInv, [Next]_vars
               PROVE  \/ Lifecycle!Move
                      \/ Lifecycle!Pass
                      \/ UNCHANGED <<slot, LifecyclePhase, LifecycleSince>>
    BY DEF Lifecycle!LifecycleNext, Lifecycle!lifecycleVars
  <2>1. CASE Breakers
    BY <2>1, ActivateMoves, RecoverMoves, BoundAssumption DEF Breakers
  <2>2. CASE Market
    BY <2>2, RefreshMoves
    DEF Market, UpdateOraclePyth, UpdateOracle, Mint, Redeem, Rebalance
  <2>3. ASSUME UNCHANGED breakerVars
        PROVE  UNCHANGED <<LifecyclePhase, LifecycleSince>>
    BY <2>3 DEF breakerVars, LifecyclePhase, LifecycleSince
  <2>4. CASE Control \/ UNCHANGED vars
    <3>1. UNCHANGED <<slot, breakerVars>>
      BY <2>4
      DEF Control, EmergencyShutdown, Resume, EnableManualOracleMode,
          UpdateParams, vars
    <3>2. QED
      BY <2>3, <3>1
  <2>5. CASE Tick
    BY <2>3, <2>5 DEF Tick, Lifecycle!Pass
  <2>6. QED
    BY <2>1, <2>2, <2>4, <2>5 DEF Next
<1>3. QED
  BY <1>1, <1>2, Invariance, PTL
  DEF Spec, ImplementsLifecycle, Lifecycle!LifecycleSpec
-----------------------------------------------------------------------------
(***************************************************************************)
(* What the other modules take for granted of the breakers: OracleFeed     *)
(* lets manual windows be opened and shutdowns come and go by rules of its *)
(* own, which are wider than those of CircuitBreakers.                     *)
(***************************************************************************)
CONSTANTS Feed, NoFeed, FeedOf, DECIMALS, PriceMin, PriceMax, ConfidenceMax,
          MintConfidenceMax, PublishMaxAge, StalenessMax, HighVolStaleness,
          MintStaleness, HighVolMintStaleness, TwapAlpha, TwapMaxDeviation,
          HighVolatility, Messages, ManualQuotes, Lags

VARIABLES now, account, pyth_price_feed, vault, twap_price,
          last_twap_update_slots, source, published_at, base

Oracle == INSTANCE OracleFeed WITH
  manual_oracle_mode_expiry_slot <- manual_expiry,
  ManualMaxSlots <- ManualModeMaxSlots, ManualDelay <- ManualCooldown

\* What OracleFeed keeps beside the clock, the window and the shutdown.
feedVars == <<now, account, pyth_price_feed, Oracle!priceVars>>

\* A step of the breakers during which no feed moves is one of OracleFeed.
LEMMA BreakerStepsSuitOracle ==
  IInv /\ [Next]_vars /\ UNCHANGED feedVars => [Oracle!Next]_(Oracle!vars)
<1> SUFFICES ASSUME IInv, [Next]_vars, UNCHANGED feedVars
             PROVE  Oracle!Next \/ UNCHANGED Oracle!vars
  OBVIOUS
<1> USE DEF feedVars, Oracle!priceVars, Oracle!clockVars, Oracle!settingVars,
            Oracle!vars
<1>1. ASSUME NEW n \in 1..ManualModeMaxSlots, EnableManualOracleMode(n)
      PROVE  Oracle!Next
  <2>1. manual_expiry > 0 => slot >= manual_expiry + ManualCooldown
    <3>1. ManualCooldown <= ManualDelay /\ ManualDelay \in Nat
      BY ManualAssumption DEF IInv, TypeOK, ManualTypeOK, DelayFloor, ManualDelay
    <3>2. manual_expiry > 0 => slot >= manual_expiry + ManualDelay
      BY <1>1 DEF EnableManualOracleMode
    <3>3. slot \in Nat /\ manual_expiry \in Nat /\ ManualCooldown \in Nat
      BY ManualAssumption DEF IInv, TypeOK, ManualTypeOK
    <3>4. QED
      BY <3>1, <3>2, <3>3
  <2>2. manual_expiry = 0 \/ manual_expiry > 0
    BY DEF IInv, TypeOK, ManualTypeOK
  <2>3. Oracle!EnableManualOracleMode(n)
    BY <1>1, <2>1, <2>2
    DEF EnableManualOracleMode, Oracle!EnableManualOracleMode
  <2>4. QED
    BY <2>3 DEF Oracle!Next
<1>2. CASE EmergencyShutdown \/ Resume
  <2>1. UNCHANGED <<slot, manual_expiry>>
    BY <1>2 DEF EmergencyShutdown, Resume, manualVars
  <2>2. \/ UNCHANGED emergency_shutdown
        \/ emergency_shutdown' = ~emergency_shutdown
    BY <1>2, Zenon DEF EmergencyShutdown, Resume, IInv, TypeOK
  <2>3. CASE emergency_shutdown' = ~emergency_shutdown
    BY <2>1, <2>3 DEF Oracle!ToggleShutdown, Oracle!Next
  <2>4. QED
    BY <2>1, <2>2, <2>3
<1>3. CASE Tick
  <2>1. Oracle!Tick
    BY <1>3 DEF Tick, manualVars, Oracle!Tick
  <2>2. QED
    BY <2>1 DEF Oracle!Next
<1>4. CASE UNCHANGED <<slot, manual_expiry, emergency_shutdown>>
  BY <1>4
<1>5. ASSUME Breakers
      PROVE  UNCHANGED <<slot, manual_expiry, emergency_shutdown>>
  <2>1. ASSUME NEW c \in CB, NEW v \in Vault, Activate(c, v)
        PROVE  slot' = slot
    BY <2>1 DEF Activate
  <2>2. ASSUME NEW c \in CB, Recover(c)
        PROVE  slot' = slot
    BY <2>2 DEF Recover
  <2>3. slot' = slot
    BY <1>5, <2>1, <2>2, BoundAssumption DEF Breakers
  <2>4. QED
    BY <1>5, <2>3, BreakersKeepControl
<1>6. ASSUME Market
      PROVE  UNCHANGED <<slot, manual_expiry, emergency_shutdown>>
  BY <1>6 DEF Market, UpdateOraclePyth, UpdateOracle, Mint, Redeem, Rebalance,
              manualVars
<1>7. ASSUME NEW t \in CrTargets, UpdateParams(t)
      PROVE  UNCHANGED <<slot, manual_expiry, emergency_shutdown>>
  BY <1>7 DEF UpdateParams, manualVars
<1>8. ASSUME UNCHANGED vars
      PROVE  UNCHANGED <<slot, manual_expiry, emergency_shutdown>>
  BY <1>8 DEF vars, manualVars
<1>9. QED
  BY <1>1, <1>2, <1>3, <1>4, <1>5, <1>6, <1>7, <1>8 DEF Next, Control

\* enable_manual_oracle_mode, emergency_shutdown and resume_from_shutdown keep
\* to what OracleFeed assumes of them: windows that end within their limit,
\* open one at a time and a cooldown apart, whatever delays the breakers have
\* stored, and no other effect on the clock and the settings of the feeds.
THEOREM BreakersSuitOracle ==
  Spec => [][UNCHANGED feedVars
               => Oracle!Next \/ UNCHANGED Oracle!vars]_vars
<1>1. IInv /\ [Next]_vars
        => [UNCHANGED feedVars => Oracle!Next \/ UNCHANGED Oracle!vars]_vars
  BY BreakerStepsSuitOracle
<1>2. QED
  BY <1>1, Invariance, PTL DEF Spec
=============================================================================
