--------------------------- MODULE KeeperTargets ---------------------------
(***************************************************************************)
(* What the keeper daemon aims at: the target weights of a rebalance, from *)
(* the optimizer, or from the value and the risk of the vaults while the   *)
(* optimizer is off or fails; and the checkpoint file that carries the     *)
(* optimizer across restarts.                                              *)
(*                                                                         *)
(* Adam is abstracted to the number of its steps: a step moves every       *)
(* weight by at most AdamStep either way. Weights the optimizer works with *)
(* are finer than those of the chain, of which they are GRAIN parts. The   *)
(* projection is taken at the limit of the bisection that the code stops   *)
(* after 120 rounds. The fees and the target ratio that Adam moves too are *)
(* in ProtocolParams. How a proposal reaches the chain, by a commit and a  *)
(* reveal, is the subject of KeeperRebalance: here it lands as a whole,    *)
(* some time later, before or after other proposals and restarts, once or  *)
(* again, or not at all.                                                   *)
(***************************************************************************)
EXTENDS Integers, FiniteSets, FiniteSetsExt

CONSTANTS
  N,               \* WEIGHT_DIM: the vaults are 1 to N
  SCALE,           \* WEIGHT_SCALE
  GRAIN,           \* parts of a weight that the optimizer tells apart
  AdamStep,        \* what a step of Adam moves at most
  SafetyCaps,      \* SafetyBounds.weight_caps, for each vault
  Deviation,       \* rebalance_deviation_bps, as parts of SCALE
  StepLimit, TurnoverLimit    \* WEIGHT_STEP_LIMIT, TURNOVER_LIMIT

CONSTANTS  \* The bounds of an instance.
  Values,          \* what the vaults can be worth
  Starts,          \* initial markets: weights, values, risks, caps
  MaxStep, MaxCrashes, MaxHalvings, MaxProposals

Vault == 1..N

Total(w) == LET upto[i \in 0..N] == IF i = 0 THEN 0 ELSE upto[i - 1] + w[i]
            IN  upto[N]

Allocation == [Vault -> 0..SCALE]
Market == [value : Values, risk : [Vault -> Nat], cap : Allocation,
           base_cap : Allocation]

ASSUME TargetsAssumption ==
  /\ {SCALE, N, GRAIN} \subseteq Nat \ {0}
  /\ SCALE % N = 0
  /\ \A k \in Vault : GRAIN % k = 0
  /\ SafetyCaps \in [Vault -> 0..SCALE]
  /\ Total(SafetyCaps) >= SCALE
  /\ {AdamStep, Deviation, StepLimit, TurnoverLimit} \subseteq Nat
  /\ {MaxStep, MaxCrashes, MaxHalvings, MaxProposals} \subseteq Nat

ASSUME StartsAssumption ==
  /\ Values \subseteq [Vault -> Nat]
  /\ Starts \subseteq [weights : Allocation, market : Market]

VARIABLES
  \* The chain.
  market,             \* what a snapshot shows of the vaults
  weights,
  optimizer_enabled,  \* CircuitBreakerState.optimizer_enabled
  halvings,           \* how often CB-1 was activated
  \* The daemon.
  pc,
  adam,               \* memory.adam_optimizer: the steps it has done, or None
  checkpoint,         \* memory.optimizer_checkpoint: its Adam state, or None
  disk,               \* the checkpoint file: its Adam state, or None
  proposals,          \* targets kept to be revealed, or on the wire
  crashes

chainVars == <<market, weights, optimizer_enabled, halvings>>
optimizerVars == <<adam, checkpoint, disk>>
daemonVars == <<pc, optimizerVars, proposals, crashes>>
vars == <<chainVars, daemonVars>>

None == -1
Fresh == 0

-----------------------------------------------------------------------------
(***************************************************************************)
(* Targets from value and risk.                                            *)
(***************************************************************************)
AbsDiff(a, b) == IF a >= b THEN a - b ELSE b - a
Least(a, b) == IF a <= b THEN a ELSE b
Clamp(x, low, high) == IF x < low THEN low ELSE IF x > high THEN high ELSE x

Heads == Vault \ {N}
Even == [i \in Vault |-> SCALE \div N]

\* rebalance_tail: the last vault takes what the others leave.
WithTail(w) ==
  [w EXCEPT ![N] = Max({0, SCALE - Total([w EXCEPT ![N] = 0])})]

\* normalize_scores
Normalized(score) ==
  LET total == Total(score)
  IN  IF total = 0 THEN Even
      ELSE WithTail([i \in Vault |-> (score[i] * SCALE) \div total])

\* Faulty: what the capped vaults leave may lift another one over its cap.
Capped_Once(w, cap) ==
  LET cut == [i \in Vault |-> Least(w[i], cap[i])]
      open == {i \in Vault : w[i] <= cap[i]}
      remaining == SCALE - Total(cut)
      total == Total([i \in Vault |-> IF i \in open THEN cut[i] ELSE 0])
  IN  WithTail([i \in Vault |->
        IF i \in open /\ total > 0
        THEN cut[i] + (remaining * cut[i]) \div total ELSE cut[i]])

\* apply_weight_caps: what the capped vaults leave goes to the others, in
\* proportion, up to their caps.
Capped(w, cap) ==
  LET cut == [i \in Vault |-> Least(w[i], cap[i])]
      open == {i \in Vault : w[i] <= cap[i]}
      remaining == SCALE - Total(cut)
      total == Total([i \in Vault |-> IF i \in open THEN cut[i] ELSE 0])
  IN  WithTail([i \in Vault |->
        IF i \in open /\ total > 0
        THEN Least(cut[i] + (remaining * cut[i]) \div total, cap[i])
        ELSE cut[i]])

\* compute_static_target_weights
StaticTarget(m) ==
  LET total == Total(m.value)
      score == [i \in Vault |->
        (((m.value[i] * SCALE) \div total) * (SCALE - Least(m.risk[i], SCALE - 1)))
          \div SCALE]
  IN  IF total = 0 THEN Even ELSE Capped(Normalized(score), m.cap)

\* weight_deviation_bps
L1(v, w) == Total([i \in Vault |-> AbsDiff(v[i], w[i])])

-----------------------------------------------------------------------------
(***************************************************************************)
(* Targets from the optimizer. A wish is what a step of Adam leads to.     *)
(***************************************************************************)
Wishes(w) ==
  {[i \in Vault |-> GRAIN * (w[i] + step[i])] :
     step \in [Vault -> -AdamStep..AdamStep]}

Shifted(wish, tau) ==
  [i \in Vault |-> Clamp(wish[i] - tau, 0, GRAIN * SafetyCaps[i])]

\* Faulty: takes what is too much from every weight, and cuts at the bounds
\* without looking at the sum again.
Projected_OneShift(wish) ==
  Shifted(wish, (Total(wish) - GRAIN * SCALE) \div N)

\* project_onto_bounded_simplex: lower all by the least amount that leaves
\* no more than the whole, which the code finds by bisection.
Projected(wish) ==
  LET low == Min({wish[i] - GRAIN * SafetyCaps[i] : i \in Vault})
      high == Max({wish[i] : i \in Vault})
      tau == CHOOSE t \in low..high :
               /\ Total(Shifted(wish, t)) <= GRAIN * SCALE
               /\ t = low \/ Total(Shifted(wish, t - 1)) > GRAIN * SCALE
  IN  Shifted(wish, tau)

\* f64_weights_to_ppm: the largest remainders are rounded up, the first
\* vaults among equals.
Rounded(exact) ==
  LET base == [i \in Vault |-> exact[i] \div GRAIN]
      rest == [i \in Vault |-> exact[i] % GRAIN]
      Before(i, j) == rest[i] > rest[j] \/ (rest[i] = rest[j] /\ i < j)
      remaining == SCALE - Total(base)
  IN  [i \in Vault |->
        IF Cardinality({j \in Vault : Before(j, i)}) < remaining
        THEN base[i] + 1 ELSE base[i]]

-----------------------------------------------------------------------------
(***************************************************************************)
(* The daemon.                                                             *)
(***************************************************************************)
\* The cycle ends, and if the target is far enough from the weights, with a
\* proposal: unless a commit is pending, the batch window has no room or no
\* agent may commit. Past the bound it counts as one of these cases.
Propose(target) ==
  /\ pc' = "idle"
  /\ \/ UNCHANGED proposals
     \/ /\ L1(weights, target) > Deviation
        /\ Cardinality(proposals) < MaxProposals
        /\ proposals' = proposals \union {target}

\* compute_target_weights without the optimizer.
StaticCycle ==
  /\ pc = "idle"
  /\ ~optimizer_enabled
  /\ Propose(StaticTarget(market))
  /\ UNCHANGED <<chainVars, optimizerVars, crashes>>

\* save_default: a file that could be renamed but not protected is an error.
SaveFails(state) == disk' \in {disk, state}

\* Faulty: goes on without the checkpoint.
SaveBeforeStep_BestEffort ==
  /\ pc = "idle"
  /\ optimizer_enabled
  /\ adam' = IF adam = None THEN Fresh ELSE adam
  /\ adam' < MaxStep
  /\ disk' \in {disk, adam'}
  /\ checkpoint' = adam'
  /\ pc' = "step"
  /\ UNCHANGED <<chainVars, proposals, crashes>>

\* optimize_step up to the first checkpoint, without which it fails.
SaveBeforeStep ==
  /\ pc = "idle"
  /\ optimizer_enabled
  /\ adam' = IF adam = None THEN Fresh ELSE adam
  /\ adam' < MaxStep
  /\ \/ /\ disk' = adam'
        /\ checkpoint' = adam'
        /\ pc' = "step"
        /\ UNCHANGED proposals
     \/ /\ SaveFails(adam')
        /\ Propose(StaticTarget(market))
        /\ UNCHANGED checkpoint
  /\ UNCHANGED <<chainVars, crashes>>

\* The rest of optimize_step: a step of Adam, its projection, the second
\* checkpoint. When that fails the target is dropped, but not the step. The
\* roll-back is out of reach: with the default bounds every projection of a
\* finite wish is safe, and every snapshot of the chain is finite.
Step ==
  /\ pc = "step"
  /\ adam' = adam + 1
  /\ \/ /\ disk' = adam'
        /\ checkpoint' = adam'
        /\ \E wish \in Wishes(weights) : Propose(Rounded(Projected(wish)))
     \/ /\ SaveFails(adam')
        /\ Propose(StaticTarget(market))
        /\ UNCHANGED checkpoint
  /\ UNCHANGED <<chainVars, crashes>>

\* load_from_path: a file that is altered or open to others is as good as none.
Loadable == {None, disk}

\* load_optimizer_checkpoint_into_memory, after a crash or a stop. A proposal
\* is in a file of its own: what is lost with it is dropped.
Restart ==
  /\ crashes < MaxCrashes
  /\ crashes' = crashes + 1
  /\ \E loaded \in Loadable : adam' = loaded /\ checkpoint' = loaded
  /\ pc' = "idle"
  /\ UNCHANGED <<chainVars, disk, proposals>>

\* A proposal expires, is refused for good, overwritten or lost.
Drop(target) ==
  /\ pc = "idle"
  /\ target \in proposals
  /\ proposals' = proposals \ {target}
  /\ UNCHANGED <<chainVars, pc, optimizerVars, crashes>>

-----------------------------------------------------------------------------
(***************************************************************************)
(* The chain. That it moves while a cycle runs makes no difference to the  *)
(* daemon, which looks at the snapshot it has taken: it moves in between.  *)
(***************************************************************************)
\* rebalance, and assert_invariants at its end.
Admitted(target) ==
  /\ AbsDiff(Total(target), SCALE) <= 1
  /\ \A i \in Vault :
       /\ AbsDiff(weights[i], target[i]) <= StepLimit
       /\ target[i] <= market.cap[i]
  /\ L1(weights, target) \div 2 <= TurnoverLimit

\* A reveal that is reported as failed is sent again, also when it has landed.
Reveal(target) ==
  /\ pc = "idle"
  /\ target \in proposals
  /\ Admitted(target)
  /\ weights' = target
  /\ proposals' \in {proposals, proposals \ {target}}
  /\ UNCHANGED <<market, optimizer_enabled, halvings, pc, optimizerVars, crashes>>

\* CB-1 halves the cap of a vault, but not below its weight.
ActivateCB1(v) ==
  /\ pc = "idle"
  /\ halvings < MaxHalvings
  /\ halvings' = halvings + 1
  /\ market' = [market EXCEPT !.cap[v] = Max({market.base_cap[v] \div 2, weights[v]})]
  /\ UNCHANGED <<weights, optimizer_enabled, daemonVars>>

\* CB-3 turns the optimizer off; a recovery turns it on.
ToggleCB3 ==
  /\ pc = "idle"
  /\ optimizer_enabled' = ~optimizer_enabled
  /\ UNCHANGED <<market, weights, halvings, daemonVars>>

\* A deposit, a redemption or a price changes what the vaults are worth.
MarketMoves ==
  /\ pc = "idle"
  /\ \E value \in Values : market' = [market EXCEPT !.value = value]
  /\ UNCHANGED <<weights, optimizer_enabled, halvings, daemonVars>>

Init ==
  /\ \E start \in Starts : market = start.market /\ weights = start.weights
  /\ optimizer_enabled = TRUE
  /\ halvings = 0
  /\ pc = "idle"
  /\ adam = None
  /\ checkpoint = None
  /\ disk = None
  /\ proposals = {}
  /\ crashes = 0

Next ==
  \/ StaticCycle \/ SaveBeforeStep \/ Step \/ Restart
  \/ \E target \in proposals : Reveal(target) \/ Drop(target)
  \/ \E v \in Vault : ActivateCB1(v)
  \/ ToggleCB3 \/ MarketMoves

Spec == Init /\ [][Next]_vars

-----------------------------------------------------------------------------
(***************************************************************************)
(* Properties.                                                             *)
(***************************************************************************)
TypeOK ==
  /\ market \in Market
  /\ weights \in Allocation
  /\ optimizer_enabled \in BOOLEAN
  /\ {adam, checkpoint, disk} \subseteq {None} \union 0..MaxStep
  /\ pc \in {"idle", "step"}
  /\ proposals \subseteq Allocation
  /\ halvings \in 0..MaxHalvings /\ crashes \in 0..MaxCrashes

(* compute_static_target_weights: whatever the values, the risks and the   *)
(* caps, the target is the whole, and what the caps leave over goes to the *)
(* last vault only, so that no other is ever over its cap.                 *)
StaticTargetsAddUp ==
  LET target == StaticTarget(market)
  IN  /\ target \in Allocation
      /\ Total(target) = SCALE
      /\ \A i \in Heads : target[i] <= Max({market.cap[i], SCALE \div N})

(* project_to_safety_set with f64_weights_to_ppm: whatever step Adam takes *)
(* the target is the whole within the bounds of the optimizer, and none    *)
(* closer to the wish is: no part moved from a vault to another brings it  *)
(* nearer, in spite of the cut at the bounds and of the rounding.          *)
NearestTarget ==
  pc = "step" => \A wish \in Wishes(weights) :
    LET target == Rounded(Projected(wish))
        Excess(i) == GRAIN * target[i] - wish[i]
    IN  /\ target \in Allocation
        /\ Total(target) = SCALE
        /\ \A i \in Vault : target[i] <= SafetyCaps[i]
        /\ \A i, j \in Vault :
             target[i] > 0 /\ target[j] < SafetyCaps[j]
               => Excess(i) - Excess(j) <= GRAIN

(* optimize_step: whichever of its saves fail and whenever the daemon      *)
(* dies, at most the last step of the optimizer is missing in the file, so *)
(* that the learning rate never falls back by more than a step unless the  *)
(* file is refused.                                                        *)
CrashLosesOneStep == adam <= disk + 1

(* docs/whitepaper.md:142: updates of Adam are applied after "simplex + cap *)
(* projection", with "per-asset upper bounds" on the weights (line 87). A   *)
(* target of the optimizer is within the caps that its snapshot shows.      *)
OptimizerKeepsCaps ==
  [][pc = "step" /\ checkpoint' = adam'
       => \A target \in proposals' \ proposals :
            \A i \in Vault : target[i] <= market.cap[i]]_vars
=============================================================================
