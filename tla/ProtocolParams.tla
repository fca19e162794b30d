--------------------------- MODULE ProtocolParams ---------------------------
(***************************************************************************)
(* The fees and the target collateral ratio, and those who write them: the *)
(* keeper daemon twice in a cycle, for its optimizer after a reveal and    *)
(* for its risk manager, which scales the fees by the risk; keepers by     *)
(* hand; CB-1, which raises the ratio; and transactions the daemon no      *)
(* longer waits for. One instruction sets all three values at once, so     *)
(* that whoever changes one writes the others as he last read them.        *)
(*                                                                         *)
(* Extends KeeperSet: the instruction asks for two keepers in office, and  *)
(* the daemon's keys may have been rotated out. The reveal itself is the   *)
(* subject of KeeperRebalance; breakers and shutdowns are those of         *)
(* CircuitBreakers, the degraded mode is that of KeeperCycle.              *)
(***************************************************************************)
EXTENDS KeeperSet, FiniteSets

CONSTANTS
  None,
  Local,            \* the daemon's keypairs, in the order of its configuration
  FeeMax,           \* FEE_RATE_MAX
  CrMin, CrMax,     \* CR_TARGET_MIN, CR_TARGET_MAX
  OpeningFee,       \* both fees at initialize
  OpeningCr,        \* cr_target at initialize
  CrRaise,          \* what CB-1 adds to the target ratio
  FeeStep, CrStep   \* what a step of Adam moves a fee, and the ratio

CONSTANTS  \* The inputs and the bounds of an instance.
  HandFees,         \* the fees keepers set by hand, and
  HandRatios,       \* the target ratios
  MaxCrashes, MaxRaises, MaxHands, MaxProposals, MaxLate

ASSUME ParamsAssumption ==
  /\ Local \in [Position -> Key] /\ ValidKeeperSet(Local)
  /\ {FeeMax, CrMin, CrMax, CrRaise, FeeStep, CrStep} \subseteq Nat
  /\ OpeningFee \in 0..FeeMax
  /\ CrMin <= CrMax /\ OpeningCr \in CrMin..CrMax
  /\ HandFees \subseteq 0..FeeMax /\ HandRatios \subseteq Nat
  /\ {MaxCrashes, MaxRaises, MaxHands, MaxProposals, MaxLate} \subseteq Nat

\* RiskLevel
Level == {"Normal", "Elevated", "High", "Critical"}

\* A pair of fees. History: grade counts how often the risk manager has scaled
\* them since they were set by hand.
Fees == [mint : Nat, redeem : Nat, grade : Nat]

\* ProtocolParamUpdate
Params == [cr_target : Nat, fees : Fees]

\* An update_protocol_params of the daemon on its way.
Update == [from : {"optimizer", "risk"}, signers : SUBSET Key, params : Params]

ASSUME NoneAssumption == None \notin Level \union Fees \union Params \union Update

VARIABLES
  \* The chain.
  fees, cr_target,      \* mint_fee_rate and redeem_fee_rate; cr_target
  emergency_shutdown,
  level,                \* what the vaults and the supply amount to
  \* The daemon.
  pc,
  moving,               \* Adam's moments of the fees have left zero
  draft,                \* the parameters of a proposal to be revealed, or None
  base,                 \* base_mint_fee_rate and base_redeem_fee_rate, or None
  risk_level,           \* what its risk step found in this cycle, or None
  update,               \* what it is about to send or waits for, or None
  late                  \* what it gave up on, and may still land

\* History: whether anyone but the daemon, or a late update of its own, has
\* written the ratio since the daemon prepared the update it waits for.
VARIABLE ratio_touched

\* History: the highest ratio that anyone but the daemon has set: initialize,
\* CB-1, or keepers by hand.
VARIABLE peak

VARIABLES crashes, raises, hands, proposals   \* counted for the bounds

chainVars == <<fees, cr_target>>
worldVars == <<emergency_shutdown, level>>
riskVars == <<base, risk_level>>
optimizerVars == <<moving, draft>>
daemonVars == <<pc, optimizerVars, riskVars, update, late>>
countVars == <<peak, crashes, raises, hands, proposals>>
allVars ==
  <<vars, chainVars, worldVars, daemonVars, ratio_touched, countVars>>

SameFees(f, g) == f.mint = g.mint /\ f.redeem = g.redeem

Higher(a, b) == IF a >= b THEN a ELSE b
Clamp(x, low, high) == IF x < low THEN low ELSE IF x > high THEN high ELSE x
-----------------------------------------------------------------------------
(***************************************************************************)
(* The program: apply_protocol_param_update.                               *)
(***************************************************************************)
Admitted(u) ==
  /\ \E a, b \in u.signers : KeeperQuorum(a, b)
  /\ ~emergency_shutdown
  /\ u.params.cr_target \in CrMin..CrMax
  /\ u.params.fees.mint <= FeeMax /\ u.params.fees.redeem <= FeeMax

Apply(u) ==
  /\ Admitted(u)
  /\ fees' = u.params.fees
  /\ cr_target' = u.params.cr_target
-----------------------------------------------------------------------------
(***************************************************************************)
(* The rebalance step of a cycle. A cycle in degraded mode leaves out all  *)
(* that writes: it is as good as none.                                     *)
(***************************************************************************)

\* keeper_quorum_for_protocol: the first two of its keys that are in office.
OwnSigners ==
  LET in_office == {i \in Position : Local[i] \in Members(keeper_set)}
  IN  {Local[i] : i \in IF {1, 2} \subseteq in_office THEN {1, 2} ELSE in_office}

HasQuorum == \E a, b \in OwnSigners : a # b

FromOptimizer(p) == [from |-> "optimizer", signers |-> OwnSigners, params |-> p]

\* Faulty: climbs the loss of a shortfall instead of descending it.
RatiosAfter_Climb == {Clamp(cr_target + c, CrMin, CrMax) : c \in {0, CrStep}}

\* The target ratios a step of Adam can lead to: the gradient is never negative,
\* and zero unless collateral falls short of the target.
RatiosAfter == {Clamp(cr_target - c, CrMin, CrMax) : c \in {0, CrStep}}

\* The params of compute_target_weights, none if they are those in force. The
\* gradients of the two fees are opposite, and zero while the fees are equal.
Wishes ==
  {p \in {[cr_target |-> ratio,
           fees |-> [mint |-> Clamp(fees.mint + d, 0, FeeMax),
                     redeem |-> Clamp(fees.redeem - d, 0, FeeMax),
                     grade |-> fees.grade]] :
             ratio \in RatiosAfter,
             d \in IF moving' THEN {-FeeStep, 0, FeeStep} ELSE {0}} :
     p.cr_target # cr_target \/ ~SameFees(p.fees, fees)}

\* Unequal fees set Adam's moments in motion, in cycles without a proposal too.
Moving == moving \/ fees.mint # fees.redeem

\* The optimizer has a proposal with new parameters, which is kept until it is
\* revealed: in this cycle or in a later one.
Optimize ==
  /\ pc = "idle"
  /\ draft = None /\ HasQuorum
  /\ proposals < MaxProposals
  /\ proposals' = proposals + 1
  /\ moving' = Moving
  /\ \E p \in Wishes :
       /\ draft' = p
       /\ \/ pc' = "reveal" /\ update' = FromOptimizer(p)
          \/ pc' = "risk" /\ UNCHANGED update
  /\ UNCHANGED <<vars, chainVars, worldVars, riskVars, late, ratio_touched,
                 peak, crashes, raises, hands>>

\* A later cycle reveals it; parameters in force already are not sent again.
Reveal ==
  /\ pc = "idle"
  /\ draft # None /\ HasQuorum
  /\ pc' = "reveal"
  /\ update' = IF draft.cr_target = cr_target /\ SameFees(draft.fees, fees)
               THEN None ELSE FromOptimizer(draft)
  /\ moving' \in {moving, Moving}
  /\ UNCHANGED <<vars, chainVars, worldVars, draft, riskVars, late,
                 ratio_touched, countVars>>

\* The reveal has been confirmed, or not; without it no parameters are sent,
\* and the proposal is kept.
RevealReturns ==
  /\ pc = "reveal"
  /\ \/ update # None /\ pc' = "await" /\ UNCHANGED <<update, draft>>
     \/ update = None /\ pc' = "risk" /\ draft' = None /\ UNCHANGED update
     \/ pc' = "risk" /\ update' = None /\ UNCHANGED draft
  /\ UNCHANGED <<vars, chainVars, worldVars, moving, riskVars, late,
                 ratio_touched, countVars>>

\* There is nothing to propose, nothing to reveal yet, or the step fails; what
\* was kept may have expired.
NoParams ==
  /\ pc = "idle"
  /\ pc' = "risk"
  /\ draft' \in {draft, None}
  /\ moving' \in {moving, Moving}
  /\ UNCHANGED <<vars, chainVars, worldVars, riskVars, update, late,
                 ratio_touched, countVars>>
-----------------------------------------------------------------------------
(***************************************************************************)
(* The risk step.                                                          *)
(***************************************************************************)

\* scale_fee
ScaleFee(fee, bps) == (fee * bps + 9999) \div 10000

\* compute_dynamic_fees
Multiplier ==
  [Normal   |-> [mint |-> 10000, redeem |-> 10000],
   Elevated |-> [mint |-> 11000, redeem |-> 12000],
   High     |-> [mint |-> 13500, redeem |-> 15000],
   Critical |-> [mint |-> 17500, redeem |-> 20000]]

Scaled(f, l) ==
  [mint |-> ScaleFee(f.mint, Multiplier[l].mint),
   redeem |-> ScaleFee(f.redeem, Multiplier[l].redeem),
   grade |-> f.grade + 1]

\* run_risk_manager_cycle
AssessRisk ==
  /\ pc = "risk"
  /\ pc' = "fees"
  /\ risk_level' = level
  /\ UNCHANGED <<vars, chainVars, worldVars, optimizerVars, base, update, late,
                 ratio_touched, countVars>>

\* Faulty: scales the fees it finds in every cycle.
Bases_EachTime == fees

\* dynamic_fee_bases: the fees found at its first look are remembered.
Bases == IF base = None THEN fees ELSE base

\* Faulty: one fee that is as it should be is enough.
InForce_Either(f) == f.mint = fees.mint \/ f.redeem = fees.redeem

\* dynamic_fee_update_for_risk_level asks whether there is anything to change.
InForce(f) == SameFees(f, fees)

\* Faulty: writes the ratio of the deployment.
FromRisk_Opening(f) ==
  [from |-> "risk", signers |-> {Local[1], Local[2]},
   params |-> [cr_target |-> OpeningCr, fees |-> f]]

\* The update names the first two keys of the configuration, in office or not.
FromRisk(f) ==
  [from |-> "risk", signers |-> {Local[1], Local[2]},
   params |-> [cr_target |-> cr_target, fees |-> f]]

\* maybe_apply_dynamic_fees, which reads the protocol again.
SetFees ==
  /\ pc = "fees"
  /\ base' = Bases
  /\ risk_level' = None
  /\ LET next == Scaled(Bases, risk_level)
     IN  IF InForce(next)
         THEN pc' = "idle" /\ UNCHANGED update
         ELSE /\ pc' = "await"
              /\ update' = FromRisk(next)
  /\ UNCHANGED <<vars, chainVars, worldVars, optimizerVars, late, ratio_touched,
                 countVars>>
-----------------------------------------------------------------------------
(***************************************************************************)
(* What becomes of an update.                                              *)
(***************************************************************************)
\* The daemon goes on, with the optimizer's proposal done.
Return ==
  /\ IF update.from = "optimizer"
     THEN pc' = "risk" /\ draft' = None
     ELSE pc' = "idle" /\ UNCHANGED draft
  /\ update' = None /\ ratio_touched' = FALSE
  /\ UNCHANGED moving

LandUpdate ==
  /\ pc = "await"
  /\ Apply(update)
  /\ Return
  /\ UNCHANGED <<vars, worldVars, riskVars, late, countVars>>

\* Past the bound an update that was given up counts as expired.
GivenUp(u) ==
  \/ late' = late
  \/ Cardinality(late) < MaxLate /\ late' = late \union {u}

\* It is refused or lost, or its confirmation is; the daemon warns and goes on.
GiveUp ==
  /\ pc = "await"
  /\ GivenUp(update)
  /\ Return
  /\ UNCHANGED <<vars, chainVars, worldVars, riskVars, countVars>>

Daemon ==
  \/ Optimize \/ Reveal \/ RevealReturns \/ NoParams
  \/ AssessRisk \/ SetFees \/ GiveUp

LandLate(u) ==
  /\ u \in late
  /\ Apply(u)
  /\ late' = late \ {u}
  /\ ratio_touched' = (pc = "await")
  /\ UNCHANGED <<vars, worldVars, pc, optimizerVars, riskVars, update,
                 countVars>>

Expire(u) ==
  /\ u \in late
  /\ late' = late \ {u}
  /\ UNCHANGED <<vars, chainVars, worldVars, pc, optimizerVars, riskVars,
                 update, ratio_touched, countVars>>

\* The risk manager's memory is lost; the checkpoints of the rebalance and of
\* the optimizer may be.
Restart ==
  /\ crashes < MaxCrashes
  /\ crashes' = crashes + 1
  /\ pc' = "idle"
  /\ base' = None /\ risk_level' = None
  /\ moving' \in {moving, FALSE}
  /\ draft' \in {draft, None}
  /\ update' = None /\ ratio_touched' = FALSE
  /\ IF pc = "await" THEN GivenUp(update) ELSE UNCHANGED late
  /\ UNCHANGED <<vars, chainVars, worldVars, peak, raises, hands, proposals>>
-----------------------------------------------------------------------------
(***************************************************************************)
(* The others.                                                             *)
(***************************************************************************)

\* Two keepers set the parameters by hand.
SetByHand(a, b) ==
  /\ hands < MaxHands
  /\ \E mint, redeem \in HandFees, ratio \in HandRatios :
       Apply([signers |-> {a, b},
              params |-> [cr_target |-> ratio,
                          fees |-> [mint |-> mint, redeem |-> redeem,
                                    grade |-> 0]]])
  /\ a # b
  /\ peak' = Higher(peak, cr_target')
  /\ hands' = hands + 1
  /\ ratio_touched' = (pc = "await")
  /\ UNCHANGED <<vars, worldVars, daemonVars, crashes, raises, proposals>>

\* activate_circuit_breaker, of CB-1: past the maximum, too.
RaiseRatio ==
  /\ raises < MaxRaises
  /\ ~emergency_shutdown
  /\ cr_target' = cr_target + CrRaise
  /\ peak' = Higher(peak, cr_target')
  /\ raises' = raises + 1
  /\ ratio_touched' = (pc = "await")
  /\ UNCHANGED <<vars, fees, worldVars, daemonVars, crashes, hands, proposals>>

ToggleShutdown ==
  /\ emergency_shutdown' = ~emergency_shutdown
  /\ UNCHANGED <<vars, chainVars, level, daemonVars, ratio_touched,
                 countVars>>

RiskChanges ==
  /\ level' \in Level
  /\ UNCHANGED <<vars, chainVars, emergency_shutdown, daemonVars,
                 ratio_touched, countVars>>

\* The keeper set rotates, and the clock advances for it.
KeeperSetMoves ==
  /\ Next
  /\ UNCHANGED <<chainVars, worldVars, daemonVars, ratio_touched, countVars>>

ParamsInit ==
  /\ Init
  /\ fees = [mint |-> OpeningFee, redeem |-> OpeningFee, grade |-> 0]
  /\ cr_target = OpeningCr
  /\ emergency_shutdown = FALSE
  /\ level = "Normal"
  /\ pc = "idle" /\ update = None /\ late = {}
  /\ moving = FALSE /\ draft = None
  /\ base = None /\ risk_level = None
  /\ ratio_touched = FALSE
  /\ peak = OpeningCr
  /\ crashes = 0 /\ raises = 0 /\ hands = 0 /\ proposals = 0

WritersNext ==
  \/ Daemon \/ LandUpdate \/ Restart
  \/ \E u \in late : LandLate(u) \/ Expire(u)
  \/ \E a, b \in Key : SetByHand(a, b)
  \/ RaiseRatio \/ ToggleShutdown \/ RiskChanges

ParamsNext == WritersNext \/ KeeperSetMoves

ParamsSpec == ParamsInit /\ [][ParamsNext]_allVars

\* The loop runs on, and not for ever in degraded mode; a fee update that is
\* sent and waited for again and again, and that the program would take, lands
\* again and again.
Fairness ==
  /\ WF_allVars(Daemon)
  /\ SF_allVars(LandUpdate /\ update.from = "risk")

FairParamsSpec == ParamsSpec /\ Fairness
-----------------------------------------------------------------------------
(***************************************************************************)
(* Properties.                                                             *)
(***************************************************************************)

\* The types of the variables.
ParamsTypeOK ==
  /\ fees \in Fees /\ cr_target \in Nat
  /\ emergency_shutdown \in BOOLEAN
  /\ level \in Level
  /\ pc \in {"idle", "reveal", "await", "risk", "fees"}
  /\ moving \in BOOLEAN
  /\ draft \in Params \union {None}
  /\ base \in Fees \union {None} /\ risk_level \in Level \union {None}
  /\ update \in Update \union {None}
  /\ pc = "await" => update # None
  /\ pc = "fees" => risk_level # None
  /\ late \subseteq Update
  /\ ratio_touched \in BOOLEAN
  /\ {peak, crashes, raises, hands, proposals} \subseteq Nat

\* A run of the daemon scales the fees once, from what it found: however its
\* updates are lost, come late or cross those of the optimizer and of the
\* keepers, fees that are scaled are not scaled again but after a restart in
\* a crisis, whose fees the next run takes for the ordinary ones.
ScaledOncePerRun == fees.grade <= crashes + 1

\* Setting the fees leaves the target ratio alone, the optimizer's of the same
\* cycle included, unless somebody else wrote it after the daemon had read it.
FeeUpdatesKeepRatio ==
  [][LandUpdate /\ update.from = "risk" /\ ~ratio_touched
       => cr_target' = cr_target]_allVars

\* The daemon never takes the ratio past the highest that anyone else has set,
\* nor below its range. An update may raise it: one that waited for its reveal,
\* was given up and lands late, or writes back what was read before keepers
\* lowered the ratio. But none asks for more than was in force when its cycle
\* read the chain, so that cycles, crashes and delays cannot add up.
RatioWithinPeak == cr_target \in CrMin..peak

\* Nothing in the way of the risk manager: the risk stays at l, the program
\* takes its updates, and the loop sends them.
Undisturbed(l) ==
  /\ level = l
  /\ ~emergency_shutdown
  /\ {Local[1], Local[2]} \subseteq Members(keeper_set)
  /\ cr_target \in CrMin..CrMax
  /\ base # None =>
       Scaled(base, l).mint <= FeeMax /\ Scaled(base, l).redeem <= FeeMax

\* The fees follow the risk: whatever the optimizer, late updates, keepers and
\* restarts left behind, they come back to what the daemon found, scaled for
\* the risk of the day.
FeesFollowRisk ==
  \A l \in Level :
    <>[]Undisturbed(l) =>
      []<>(base # None /\ SameFees(fees, Scaled(base, l)))
=============================================================================
