------------------------ MODULE ProtocolParamsProofs ------------------------
(***************************************************************************)
(* Theorems about KeeperSet and about ProtocolParams, which extends it,    *)
(* for all keys, delays, founders, fees and bounds that satisfy their      *)
(* assumptions.                                                            *)
(***************************************************************************)
EXTENDS ProtocolParams, TLAPS

(***************************************************************************)
(* The keeper set.                                                         *)
(***************************************************************************)

\* What is pending was signed by two keepers who are still in office, and
\* its time lock ends a delay after that.
ProposalByIncumbents ==
  pending_keeper_set # NoKeepers =>
    /\ \E a, b \in Key : /\ a # b
                         /\ proposers = {a, b}
                         /\ {a, b} \subseteq Members(keeper_set)
    /\ pending_keeper_activation_slot = proposed_at + RotationDelay

\* The inductive invariant.
IInv == TypeOK /\ ValidKeeperSet(keeper_set) /\ ProposalByIncumbents

\* Two quorums of three keepers share one.
LEMMA QuorumsIntersect ==
  ASSUME NEW keys \in KeeperArray,
         NEW a \in Members(keys), NEW b \in Members(keys), a # b,
         NEW c \in Members(keys), NEW d \in Members(keys), c # d
  PROVE  \E k \in {a, b} \intersect {c, d} : k \in Members(keys)
<1>1. Members(keys) = {keys[1], keys[2], keys[3]}
  BY DEF Members, Position
<1>2. \/ a = c \/ a = d \/ b = c \/ b = d
  BY <1>1
<1>3. QED
  BY <1>2

\* A quorum consists of keys.
LEMMA MembersAreKeys ==
  ASSUME TypeOK, ValidKeeperSet(keeper_set)
  PROVE  Members(keeper_set) \subseteq Key
BY DEF TypeOK, ValidKeeperSet, Members, KeeperArray

\* The set that stands for no proposal is not a valid one.
LEMMA NoKeepersInvalid == ~ValidKeeperSet(NoKeepers)
BY DEF ValidKeeperSet, NoKeepers, Position

\* The invariant holds in every state.
THEOREM Invariance == Spec => []IInv
<1>1. Init => IInv
  <2> SUFFICES ASSUME Init
               PROVE  IInv
    OBVIOUS
  <2>1. NoKeepers \in KeeperArray
    BY DEF NoKeepers, KeeperArray
  <2>2. TypeOK
    BY <2>1, KeySetAssumption DEF Init, TypeOK
  <2>3. QED
    BY <2>2, KeySetAssumption DEF Init, IInv, ProposalByIncumbents
<1>2. IInv /\ [Next]_vars => IInv'
  <2> SUFFICES ASSUME IInv, [Next]_vars
               PROVE  IInv'
    OBVIOUS
  <2>1. /\ slot \in Nat /\ RotationDelay \in Nat
        /\ NoKeepers \in KeeperArray
    BY KeySetAssumption DEF IInv, TypeOK, NoKeepers, KeeperArray
  <2>2. ASSUME NEW a \in Key, NEW b \in Key, NEW keys \in KeeperArray,
               RotateKeeperSet(a, b, keys)
        PROVE  IInv'
    <3>1. KeeperQuorum(a, b) /\ ValidKeeperSet(keys) /\ signers' = {a, b}
      BY <2>2 DEF RotateKeeperSet
    <3>2. CASE Propose(a, b, keys)
      <4>1. TypeOK'
        BY <2>1, <3>1, <3>2 DEF Propose, Proposed, IInv, TypeOK
      <4>2. ProposalByIncumbents'
        BY <3>1, <3>2
        DEF Propose, Proposed, ProposalByIncumbents, KeeperQuorum
      <4>3. ValidKeeperSet(keeper_set)'
        BY <3>2 DEF Propose, IInv, ValidKeeperSet
      <4>4. QED
        BY <4>1, <4>2, <4>3 DEF IInv
    <3>3. CASE Activate(keys)
      <4>1. TypeOK'
        BY <2>1, <3>1, <3>3 DEF Activate, IInv, TypeOK
      <4>2. ProposalByIncumbents'
        BY <3>3 DEF Activate, ProposalByIncumbents, NoKeepers
      <4>3. ValidKeeperSet(keeper_set)'
        BY <3>1, <3>3 DEF Activate, ValidKeeperSet
      <4>4. QED
        BY <4>1, <4>2, <4>3 DEF IInv
    <3>4. QED
      BY <2>2, <3>2, <3>3 DEF RotateKeeperSet
  <2>3. CASE Tick \/ UNCHANGED vars
    BY <2>1, <2>3
    DEF Tick, vars, proposalVars, historyVars, IInv, TypeOK,
        ProposalByIncumbents, ValidKeeperSet, Members, NoKeepers
  <2>4. QED
    BY <2>2, <2>3 DEF Next
<1>3. QED
  BY <1>1, <1>2, PTL DEF Spec

\* The protocol never loses its keepers.
THEOREM KeepersStayComplete == Spec => []KeepersComplete
<1>1. IInv => KeepersComplete
  BY DEF IInv, KeepersComplete, ValidKeeperSet, KeeperQuorum, Members
<1>2. QED
  BY <1>1, Invariance, PTL

\* No rotation is early, and none is without a keeper who approved it twice.
THEOREM RotationsAreDeliberate == Spec => RotationIsDeliberate
<1>1. IInv /\ [Next]_vars
        => [keeper_set' # keeper_set =>
              /\ keeper_set' = pending_keeper_set
              /\ slot >= proposed_at + RotationDelay
              /\ \E k \in proposers \intersect signers' :
                   k \in Members(keeper_set)]_vars
  <2> SUFFICES ASSUME IInv, [Next]_vars, keeper_set' # keeper_set
               PROVE  /\ keeper_set' = pending_keeper_set
                      /\ slot >= proposed_at + RotationDelay
                      /\ \E k \in proposers \intersect signers' :
                           k \in Members(keeper_set)
    OBVIOUS
  <2>1. PICK a \in Key, b \in Key, keys \in KeeperArray :
          RotateKeeperSet(a, b, keys)
    BY DEF Next, Tick, vars
  <2>2. /\ pending_keeper_set = keys
        /\ slot >= pending_keeper_activation_slot
        /\ keeper_set' = keys
        /\ signers' = {a, b}
        /\ KeeperQuorum(a, b)
        /\ ValidKeeperSet(keys)
    BY <2>1 DEF RotateKeeperSet, Propose, Activate
  <2>3. pending_keeper_set # NoKeepers
    BY <2>2, NoKeepersInvalid
  <2>4. PICK c \in Key, d \in Key :
          c # d /\ proposers = {c, d} /\ {c, d} \subseteq Members(keeper_set)
    BY <2>3 DEF IInv, ProposalByIncumbents
  <2>5. a # b /\ {a, b} \subseteq Members(keeper_set)
    BY <2>2 DEF KeeperQuorum
  <2>6. \E k \in {c, d} \intersect {a, b} : k \in Members(keeper_set)
    BY <2>4, <2>5, QuorumsIntersect DEF IInv, TypeOK
  <2>7. QED
    BY <2>2, <2>3, <2>4, <2>6 DEF IInv, ProposalByIncumbents
<1>2. QED
  BY <1>1, Invariance, PTL DEF Spec, RotationIsDeliberate
-----------------------------------------------------------------------------
(***************************************************************************)
(* The writers of the parameters.                                          *)
(***************************************************************************)

\* No writer of the parameters touches the keeper set: what holds of its
\* rotation holds with them.
THEOREM KeepersUnderWriters == ParamsSpec => Spec
<1>1. ParamsInit => Init
  BY DEF ParamsInit
<1>2. [ParamsNext]_allVars => [Next]_vars
  BY DEF ParamsNext, WritersNext, KeeperSetMoves, allVars, Daemon, Optimize,
         Reveal, RevealReturns, NoParams, AssessRisk, SetFees, GiveUp,
         LandUpdate, Restart, LandLate, Expire, SetByHand, RaiseRatio,
         ToggleShutdown, RiskChanges
<1>3. QED
  BY <1>1, <1>2, PTL DEF ParamsSpec, Spec

\* Clamping keeps a value within the bounds.
LEMMA ClampInBounds ==
  ASSUME NEW x \in Int, NEW low \in Nat, NEW high \in Nat, low <= high
  PROVE  Clamp(x, low, high) \in low..high
BY DEF Clamp

\* A fee scaled up is a fee.
LEMMA ScaledFees ==
  ASSUME NEW f \in Fees, NEW l \in Level
  PROVE  Scaled(f, l) \in Fees /\ Scaled(f, l).grade = f.grade + 1
<1>1. Multiplier[l].mint \in Nat /\ Multiplier[l].redeem \in Nat
  BY DEF Level, Multiplier
<1>2. ASSUME NEW fee \in Nat, NEW bps \in Nat
      PROVE  ScaleFee(fee, bps) \in Nat
  <2>1. fee * bps + 9999 \in Nat
    OBVIOUS
  <2>2. ASSUME NEW n \in Nat PROVE n \div 10000 \in Nat
    OBVIOUS
  <2>3. QED
    BY <2>1, <2>2 DEF ScaleFee
<1>3. f.mint \in Nat /\ f.redeem \in Nat /\ f.grade \in Nat
  BY DEF Fees
<1>4. /\ ScaleFee(f.mint, Multiplier[l].mint) \in Nat
      /\ ScaleFee(f.redeem, Multiplier[l].redeem) \in Nat
  BY <1>1, <1>2, <1>3
<1>5. Scaled(f, l).grade = f.grade + 1
  BY DEF Scaled
<1>6. Scaled(f, l) \in Fees
  <2>1. ASSUME NEW m \in Nat, NEW r \in Nat, NEW g \in Nat
        PROVE  [mint |-> m, redeem |-> r, grade |-> g] \in Fees
    BY DEF Fees
  <2>2. f.grade + 1 \in Nat
    BY <1>3
  <2>3. QED
    BY <1>4, <2>1, <2>2, Zenon DEF Scaled
<1>7. QED
  BY <1>5, <1>6

\* The daemon signs with keys.
LEMMA SignersAreKeys == OwnSigners \subseteq Key /\ {Local[1], Local[2]} \subseteq Key
BY ParamsAssumption DEF OwnSigners, Position

\* What the optimizer proposes are parameters, with the grade of the fees it
\* starts from.
LEMMA WishesAreParams ==
  ASSUME ParamsTypeOK, NEW p \in Wishes
  PROVE  /\ p \in Params /\ p.fees.grade = fees.grade
         /\ p.cr_target \in CrMin..CrMax
         /\ cr_target >= CrMin => p.cr_target <= cr_target
<1>1. PICK ratio \in RatiosAfter, d \in {-FeeStep, 0, FeeStep} :
        p = [cr_target |-> ratio,
             fees |-> [mint |-> Clamp(fees.mint + d, 0, FeeMax),
                       redeem |-> Clamp(fees.redeem - d, 0, FeeMax),
                       grade |-> fees.grade]]
  BY DEF Wishes
<1>2. /\ cr_target \in Nat
      /\ fees.mint \in Nat /\ fees.redeem \in Nat /\ fees.grade \in Nat
  BY DEF ParamsTypeOK, Fees
<1>3. CrMin \in Nat /\ CrMax \in Nat /\ CrMin <= CrMax /\ FeeMax \in Nat
      /\ CrStep \in Nat /\ d \in Int
  BY ParamsAssumption
<1>4. /\ ratio \in CrMin..CrMax
      /\ cr_target >= CrMin => ratio <= cr_target
  <2>1. PICK c \in Nat : ratio = Clamp(cr_target - c, CrMin, CrMax)
    BY <1>3 DEF RatiosAfter
  <2>2. QED
    BY <1>2, <1>3, <2>1 DEF Clamp
<1>5. /\ Clamp(fees.mint + d, 0, FeeMax) \in Nat
      /\ Clamp(fees.redeem - d, 0, FeeMax) \in Nat
  <2>1. fees.mint + d \in Int /\ fees.redeem - d \in Int
    BY <1>2, <1>3
  <2>2. 0 \in Nat /\ 0 <= FeeMax
    BY <1>3
  <2>3. Clamp(fees.mint + d, 0, FeeMax) \in 0..FeeMax
    BY <1>3, <2>1, <2>2, ClampInBounds
  <2>4. Clamp(fees.redeem - d, 0, FeeMax) \in 0..FeeMax
    BY <1>3, <2>1, <2>2, ClampInBounds
  <2>5. QED
    BY <1>3, <2>3, <2>4
<1>6. ratio \in Nat
  BY <1>3, <1>4
<1>7. p \in Params /\ p.fees.grade = fees.grade /\ p.cr_target = ratio
  BY <1>1, <1>2, <1>5, <1>6 DEF Params, Fees
<1>8. QED
  BY <1>4, <1>7

\* The higher of two.
LEMMA HigherIsBound ==
  ASSUME NEW a \in Nat, NEW b \in Nat
  PROVE  Higher(a, b) \in Nat /\ Higher(a, b) >= a /\ Higher(a, b) >= b
BY DEF Higher

\* An update of the optimizer.
LEMMA OptimizerUpdates ==
  ASSUME NEW p \in Params
  PROVE  /\ FromOptimizer(p) \in Update
         /\ FromOptimizer(p).from = "optimizer"
         /\ FromOptimizer(p).params = p
BY SignersAreKeys DEF FromOptimizer, Update

\* An update of the risk manager.
LEMMA RiskUpdates ==
  ASSUME NEW f \in Fees, cr_target \in Nat
  PROVE  /\ FromRisk(f) \in Update
         /\ FromRisk(f).from = "risk"
         /\ FromRisk(f).params.cr_target = cr_target
         /\ FromRisk(f).params.fees = f
BY SignersAreKeys DEF FromRisk, Update, Params

\* The types are right in every state.
THEOREM ParamsTypeCorrect == ParamsSpec => []ParamsTypeOK
<1>1. ParamsInit => ParamsTypeOK
  <2> SUFFICES ASSUME ParamsInit PROVE ParamsTypeOK
    OBVIOUS
  <2>1. OpeningFee \in Nat /\ OpeningCr \in Nat
    BY ParamsAssumption
  <2>2. fees \in Fees
    BY <2>1 DEF ParamsInit, Fees
  <2>3. {peak, crashes, raises, hands, proposals} \subseteq Nat
    BY <2>1 DEF ParamsInit
  <2>4. QED
    BY <2>1, <2>2, <2>3 DEF ParamsInit, ParamsTypeOK, Level
<1>2. ParamsTypeOK /\ [ParamsNext]_allVars => ParamsTypeOK'
  <2> SUFFICES ASSUME ParamsTypeOK, [ParamsNext]_allVars
               PROVE  ParamsTypeOK'
    OBVIOUS
  <2> USE DEF chainVars, worldVars, optimizerVars, riskVars, daemonVars,
              countVars
  <2>1. ASSUME NEW u, Apply(u), u.params \in Params
        PROVE  fees' \in Fees /\ cr_target' \in Nat
    BY <2>1 DEF Apply, Params
  <2>2. CASE Optimize
    <3>1. PICK p \in Wishes :
            /\ draft' = p
            /\ \/ pc' = "reveal" /\ update' = FromOptimizer(p)
               \/ pc' = "risk" /\ UNCHANGED update
      BY <2>2 DEF Optimize
    <3>2. p \in Params /\ FromOptimizer(p) \in Update
      BY <3>1, WishesAreParams, OptimizerUpdates
    <3>3. moving' \in BOOLEAN
      BY <2>2 DEF Optimize, Moving, ParamsTypeOK
    <3>4. QED
      BY <2>2, <3>1, <3>2, <3>3 DEF Optimize, ParamsTypeOK
  <2>3. CASE Reveal
    <3>1. draft \in Params
      BY <2>3 DEF Reveal, ParamsTypeOK
    <3>2. FromOptimizer(draft) \in Update
      BY <3>1, OptimizerUpdates
    <3>3. moving' \in BOOLEAN
      BY <2>3 DEF Reveal, Moving, ParamsTypeOK
    <3>4. QED
      BY <2>3, <3>2, <3>3 DEF Reveal, ParamsTypeOK
  <2>4. CASE RevealReturns
    BY <2>4 DEF RevealReturns, ParamsTypeOK
  <2>5. CASE NoParams
    <3>1. moving' \in BOOLEAN
      BY <2>5 DEF NoParams, Moving, ParamsTypeOK
    <3>2. QED
      BY <2>5, <3>1 DEF NoParams, ParamsTypeOK
  <2>6. CASE AssessRisk
    BY <2>6, NoneAssumption DEF AssessRisk, ParamsTypeOK
  <2>7. CASE SetFees
    <3>1. risk_level \in Level /\ Bases \in Fees /\ cr_target \in Nat
      BY <2>7 DEF SetFees, Bases, ParamsTypeOK
    <3>2. Scaled(Bases, risk_level) \in Fees
      BY <3>1, ScaledFees
    <3>3. FromRisk(Scaled(Bases, risk_level)) \in Update
      BY <3>1, <3>2, RiskUpdates
    <3>4. update' \in Update \union {None} /\ (pc' = "await" => update' # None)
      BY <2>7, <3>3, NoneAssumption DEF SetFees, ParamsTypeOK
    <3>5. base' \in Fees \union {None} /\ risk_level' = None
      BY <2>7, <3>1 DEF SetFees
    <3>6. pc' \in {"idle", "await"}
      BY <2>7 DEF SetFees
    <3>7. QED
      BY <2>7, <3>4, <3>5, <3>6 DEF SetFees, ParamsTypeOK
  <2>8. ASSUME pc = "await" PROVE update \in Update
    BY <2>8 DEF ParamsTypeOK
  <2>9. ASSUME NEW u \in Update, GivenUp(u) PROVE late' \subseteq Update
    BY <2>9 DEF GivenUp, ParamsTypeOK
  <2>10. CASE GiveUp
    <3>1. late' \subseteq Update
      BY <2>8, <2>9, <2>10 DEF GiveUp
    <3>2. /\ pc' \in {"risk", "idle"} /\ update' = None
          /\ draft' \in Params \union {None}
          /\ ratio_touched' \in BOOLEAN /\ moving' \in BOOLEAN
      BY <2>10 DEF GiveUp, Return, ParamsTypeOK
    <3>3. QED
      BY <2>10, <3>1, <3>2 DEF GiveUp, ParamsTypeOK
  <2>11. CASE LandUpdate
    <3>1. fees' \in Fees /\ cr_target' \in Nat
      BY <2>1, <2>8, <2>11 DEF LandUpdate, Update
    <3>2. /\ pc' \in {"risk", "idle"} /\ update' = None
          /\ draft' \in Params \union {None}
          /\ ratio_touched' \in BOOLEAN /\ moving' \in BOOLEAN
      BY <2>11 DEF LandUpdate, Return, ParamsTypeOK
    <3>3. QED
      BY <2>11, <3>1, <3>2 DEF LandUpdate, ParamsTypeOK
  <2>12. CASE Restart
    <3>1. late' \subseteq Update
      BY <2>8, <2>9, <2>12 DEF Restart, ParamsTypeOK
    <3>2. {peak, crashes, raises, hands, proposals}' \subseteq Nat
      BY <2>12 DEF Restart, ParamsTypeOK
    <3>3. moving' \in BOOLEAN /\ draft' \in Params \union {None}
      BY <2>12 DEF Restart, ParamsTypeOK
    <3>4. QED
      BY <2>12, <3>1, <3>2, <3>3 DEF Restart, ParamsTypeOK
  <2>13. ASSUME NEW u \in late, LandLate(u)
         PROVE  ParamsTypeOK'
    <3>1. u.params \in Params
      BY DEF ParamsTypeOK, Update
    <3>2. fees' \in Fees /\ cr_target' \in Nat
      BY <2>1, <2>13, <3>1 DEF LandLate
    <3>3. QED
      BY <2>13, <3>2 DEF LandLate, ParamsTypeOK
  <2>14. ASSUME NEW u \in late, Expire(u)
         PROVE  ParamsTypeOK'
    BY <2>14 DEF Expire, ParamsTypeOK
  <2>15. ASSUME NEW a \in Key, NEW b \in Key, SetByHand(a, b)
         PROVE  ParamsTypeOK'
    <3>1. PICK mint \in HandFees, redeem \in HandFees, ratio \in HandRatios :
            Apply([signers |-> {a, b},
                   params |-> [cr_target |-> ratio,
                               fees |-> [mint |-> mint, redeem |-> redeem,
                                         grade |-> 0]]])
      BY <2>15 DEF SetByHand
    <3>2. mint \in Nat /\ redeem \in Nat /\ ratio \in Nat
      BY ParamsAssumption
    <3>3. fees' \in Fees /\ cr_target' \in Nat
      BY <3>1, <3>2 DEF Apply, Fees
    <3>4. {peak, crashes, raises, hands, proposals}' \subseteq Nat
      <4>1. peak' = Higher(peak, cr_target') /\ peak \in Nat
        BY <2>15 DEF SetByHand, ParamsTypeOK
      <4>2. peak' \in Nat
        BY <3>3, <4>1, HigherIsBound
      <4>3. hands' = hands + 1 /\ UNCHANGED <<crashes, raises, proposals>>
        BY <2>15 DEF SetByHand
      <4>4. QED
        BY <4>2, <4>3 DEF ParamsTypeOK
    <3>5. QED
      BY <2>15, <3>3, <3>4 DEF SetByHand, ParamsTypeOK
  <2>16. CASE RaiseRatio
    <3>1. cr_target' \in Nat
      BY <2>16, ParamsAssumption DEF RaiseRatio, ParamsTypeOK
    <3>2. {peak, crashes, raises, hands, proposals}' \subseteq Nat
      <4>1. peak' = Higher(peak, cr_target') /\ peak \in Nat
        BY <2>16 DEF RaiseRatio, ParamsTypeOK
      <4>2. peak' \in Nat
        BY <3>1, <4>1, HigherIsBound
      <4>3. raises' = raises + 1 /\ UNCHANGED <<crashes, hands, proposals>>
        BY <2>16 DEF RaiseRatio
      <4>4. QED
        BY <4>2, <4>3 DEF ParamsTypeOK
    <3>3. QED
      BY <2>16, <3>1, <3>2 DEF RaiseRatio, ParamsTypeOK
  <2>17. CASE ToggleShutdown \/ RiskChanges
    BY <2>17 DEF ToggleShutdown, RiskChanges, ParamsTypeOK
  <2>18. CASE KeeperSetMoves \/ UNCHANGED allVars
    BY <2>18 DEF KeeperSetMoves, allVars, ParamsTypeOK
  <2>19. QED
    BY <2>2, <2>3, <2>4, <2>5, <2>6, <2>7, <2>10, <2>11, <2>12, <2>13, <2>14,
       <2>15, <2>16, <2>17, <2>18
    DEF ParamsNext, WritersNext, Daemon
<1>3. QED
  BY <1>1, <1>2, PTL DEF ParamsSpec

\* The highest grade there may be: once the risk manager remembers the ordinary
\* fees, those it sets are one above them.
Reach == IF base = None THEN crashes ELSE crashes + 1

\* No fees anywhere, on the chain, remembered or on their way, are above it.
GradeInv ==
  /\ fees.grade <= Reach
  /\ base # None => base.grade <= crashes
  /\ draft # None => draft.fees.grade <= Reach
  /\ update # None => update.params.fees.grade <= Reach
  /\ \A u \in late : u.params.fees.grade <= Reach

\* Both parts of the invariant.
ScaleInv == ParamsTypeOK /\ GradeInv

\* What is scaled is scaled once in a run of the daemon.
THEOREM ScalesOncePerRun == ParamsSpec => []ScaledOncePerRun
<1>1. ParamsInit /\ ParamsTypeOK => ScaleInv
  BY DEF ParamsInit, ScaleInv, GradeInv, Reach
<1>2. ScaleInv /\ ParamsTypeOK' /\ [ParamsNext]_allVars => ScaleInv'
  <2> SUFFICES ASSUME ScaleInv, ParamsTypeOK', [ParamsNext]_allVars
               PROVE  GradeInv'
    BY DEF ScaleInv
  <2> USE DEF chainVars, worldVars, optimizerVars, riskVars, daemonVars,
              countVars
  <2>1. /\ crashes \in Nat /\ Reach \in {crashes, crashes + 1}
        /\ fees \in Fees /\ draft \in Params \union {None}
        /\ update \in Update \union {None} /\ late \subseteq Update
        /\ base \in Fees \union {None}
        /\ \A f \in Fees : f.grade \in Nat
        /\ \A q \in Params : q.fees \in Fees
        /\ \A u \in Update : u.params \in Params
    BY DEF ScaleInv, ParamsTypeOK, Reach, Fees, Params, Update
  <2>2. CASE Optimize
    <3>1. PICK p \in Wishes :
            /\ draft' = p
            /\ \/ pc' = "reveal" /\ update' = FromOptimizer(p)
               \/ pc' = "risk" /\ UNCHANGED update
      BY <2>2 DEF Optimize
    <3>2. p \in Params /\ p.fees.grade = fees.grade
      BY <3>1, WishesAreParams DEF ScaleInv
    <3>3. FromOptimizer(p).params = p
      BY <3>2, OptimizerUpdates
    <3>4. UNCHANGED <<fees, base, late, crashes>>
      BY <2>2 DEF Optimize
    <3>5. Reach' = Reach
      BY <3>4 DEF Reach
    <3>6. QED
      BY <3>1, <3>2, <3>3, <3>4, <3>5 DEF ScaleInv, GradeInv
  <2>3. CASE Reveal
    <3>1. UNCHANGED <<fees, base, late, crashes, draft>> /\ draft # None
      BY <2>3 DEF Reveal
    <3>2. FromOptimizer(draft).params = draft
      BY <2>1, <3>1, OptimizerUpdates
    <3>3. update' = None \/ update' = FromOptimizer(draft)
      BY <2>3 DEF Reveal
    <3>4. Reach' = Reach
      BY <3>1 DEF Reach
    <3>5. QED
      BY <3>1, <3>2, <3>3, <3>4 DEF ScaleInv, GradeInv
  <2>4. CASE RevealReturns \/ NoParams \/ AssessRisk \/ ToggleShutdown
             \/ RiskChanges \/ KeeperSetMoves \/ RaiseRatio \/ UNCHANGED allVars
    <3>1. /\ UNCHANGED <<fees, base, late, crashes>>
          /\ draft' \in {draft, None} /\ update' \in {update, None}
      BY <2>4 DEF RevealReturns, NoParams, AssessRisk, ToggleShutdown,
                  RiskChanges, KeeperSetMoves, RaiseRatio, allVars
    <3>2. Reach' = Reach
      BY <3>1 DEF Reach
    <3>3. QED
      BY <3>1, <3>2 DEF ScaleInv, GradeInv
  <2>5. CASE SetFees
    <3>1. /\ base' = Bases
          /\ UNCHANGED <<fees, late, crashes, draft>>
          /\ \/ UNCHANGED update
             \/ update' = FromRisk(Scaled(Bases, risk_level))
      BY <2>5 DEF SetFees
    <3>2. Bases \in Fees /\ Bases.grade <= crashes
      BY <2>1 DEF Bases, ScaleInv, GradeInv, Reach
    <3>3. risk_level \in Level /\ cr_target \in Nat
      BY <2>5 DEF SetFees, ScaleInv, ParamsTypeOK
    <3>4. /\ Scaled(Bases, risk_level) \in Fees
          /\ Scaled(Bases, risk_level).grade = Bases.grade + 1
      BY <3>2, <3>3, ScaledFees
    <3>5. FromRisk(Scaled(Bases, risk_level)).params.fees
            = Scaled(Bases, risk_level)
      BY <3>3, <3>4, RiskUpdates
    <3>6. Reach' = crashes + 1 /\ Reach <= Reach'
      BY <2>1, <3>1, <3>2, NoneAssumption DEF Reach
    <3>7. FromRisk(Scaled(Bases, risk_level)).params.fees.grade <= Reach'
      BY <2>1, <3>2, <3>4, <3>5, <3>6
    <3>8. ASSUME NEW f \in Fees, f.grade <= Reach PROVE f.grade <= Reach'
      BY <2>1, <3>6, <3>8
    <3>9. fees'.grade <= Reach' /\ (base' # None => base'.grade <= crashes')
      BY <2>1, <3>1, <3>2, <3>8 DEF ScaleInv, GradeInv
    <3>10. draft' # None => draft'.fees.grade <= Reach'
      BY <2>1, <3>1, <3>8 DEF ScaleInv, GradeInv
    <3>11. update' # None => update'.params.fees.grade <= Reach'
      BY <2>1, <3>1, <3>7, <3>8 DEF ScaleInv, GradeInv
    <3>12. \A u \in late' : u.params.fees.grade <= Reach'
      BY <2>1, <3>1, <3>8 DEF ScaleInv, GradeInv
    <3>13. QED
      BY <3>9, <3>10, <3>11, <3>12 DEF GradeInv
  <2>6. ASSUME pc = "await" PROVE update # None
    BY <2>6 DEF ScaleInv, ParamsTypeOK
  <2>7. CASE GiveUp \/ LandUpdate
    <3>1. pc = "await" /\ UNCHANGED <<base, crashes>>
      BY <2>7 DEF GiveUp, LandUpdate
    <3>2. update' = None /\ draft' \in {draft, None}
      BY <2>7 DEF GiveUp, LandUpdate, Return
    <3>3. late' \subseteq late \union {update}
      BY <2>7 DEF GiveUp, GivenUp, LandUpdate
    <3>4. fees' = fees \/ fees' = update.params.fees
      BY <2>7 DEF GiveUp, LandUpdate, Apply
    <3>5. Reach' = Reach
      BY <3>1 DEF Reach
    <3>6. QED
      BY <2>6, <3>1, <3>2, <3>3, <3>4, <3>5 DEF ScaleInv, GradeInv
  <2>8. CASE Restart
    <3>1. /\ crashes' = crashes + 1 /\ base' = None /\ update' = None
          /\ draft' \in {draft, None} /\ fees' = fees
      BY <2>8 DEF Restart
    <3>2. late' \subseteq IF pc = "await" THEN late \union {update} ELSE late
      BY <2>8 DEF Restart, GivenUp
    <3>3. Reach' = crashes + 1 /\ Reach <= Reach'
      BY <2>1, <3>1 DEF Reach
    <3>4. ASSUME NEW f \in Fees, f.grade <= Reach PROVE f.grade <= Reach'
      BY <2>1, <3>3, <3>4
    <3>5. fees'.grade <= Reach'
      BY <2>1, <3>1, <3>4 DEF ScaleInv, GradeInv
    <3>6. draft' # None => draft'.fees.grade <= Reach'
      BY <2>1, <3>1, <3>4 DEF ScaleInv, GradeInv
    <3>7. ASSUME NEW u \in late' PROVE u.params.fees.grade <= Reach'
      <4>1. u \in Update /\ u.params.fees.grade <= Reach
        BY <2>1, <2>6, <3>2 DEF ScaleInv, GradeInv
      <4>2. QED
        BY <2>1, <3>4, <4>1
    <3>8. QED
      BY <3>1, <3>5, <3>6, <3>7 DEF GradeInv
  <2>9. ASSUME NEW u \in late, LandLate(u) \/ Expire(u)
        PROVE  GradeInv'
    <3>1. /\ UNCHANGED <<base, crashes, draft, update>>
          /\ late' \subseteq late
          /\ fees' = fees \/ fees' = u.params.fees
      BY <2>9 DEF LandLate, Expire, Apply
    <3>2. Reach' = Reach
      BY <3>1 DEF Reach
    <3>3. QED
      BY <3>1, <3>2 DEF ScaleInv, GradeInv
  <2>10. ASSUME NEW a \in Key, NEW b \in Key, SetByHand(a, b)
         PROVE  GradeInv'
    <3>1. UNCHANGED <<base, crashes, draft, update, late>>
      BY <2>10 DEF SetByHand
    <3>2. fees'.grade = 0
      BY <2>10 DEF SetByHand, Apply
    <3>3. Reach' = Reach
      BY <3>1 DEF Reach
    <3>4. QED
      BY <2>1, <3>1, <3>2, <3>3 DEF ScaleInv, GradeInv
  <2>11. QED
    BY <2>2, <2>3, <2>4, <2>5, <2>7, <2>8, <2>9, <2>10
    DEF ParamsNext, WritersNext, Daemon
<1>3. ScaleInv => ScaledOncePerRun
  BY DEF ScaleInv, ParamsTypeOK, GradeInv, Reach, ScaledOncePerRun, Fees
<1>4. QED
  BY <1>1, <1>2, <1>3, ParamsTypeCorrect, PTL DEF ParamsSpec

\* While the daemon waits for an update of its risk manager, the ratio is the
\* one it has read, or somebody wrote it since.
RatioInv ==
  /\ pc = "reveal" /\ update # None => update.from = "optimizer"
  /\ pc = "await" /\ update.from = "risk" /\ ~ratio_touched
       => update.params.cr_target = cr_target

\* Setting the fees leaves the ratio alone.
THEOREM FeesLeaveRatio == ParamsSpec => FeeUpdatesKeepRatio
<1>1. ParamsInit => RatioInv
  BY DEF ParamsInit, RatioInv
<1>2. ParamsTypeOK /\ RatioInv /\ [ParamsNext]_allVars => RatioInv'
  <2> SUFFICES ASSUME ParamsTypeOK, RatioInv, [ParamsNext]_allVars
               PROVE  RatioInv'
    OBVIOUS
  <2> USE DEF chainVars, worldVars, optimizerVars, riskVars, daemonVars,
              countVars
  <2>1. CASE Optimize
    <3>1. /\ \/ pc' = "reveal" /\ update'.from = "optimizer"
             \/ pc' = "risk"
      BY <2>1 DEF Optimize, FromOptimizer
    <3>2. QED
      BY <3>1 DEF RatioInv
  <2>2. CASE Reveal
    BY <2>2 DEF Reveal, FromOptimizer, RatioInv
  <2>3. CASE RevealReturns
    BY <2>3 DEF RevealReturns, RatioInv
  <2>4. CASE SetFees
    <3>1. /\ \/ pc' = "idle"
             \/ pc' = "await" /\ update' = FromRisk(Scaled(Bases, risk_level))
          /\ cr_target' = cr_target
      BY <2>4 DEF SetFees
    <3>2. FromRisk(Scaled(Bases, risk_level)).params.cr_target = cr_target
      BY DEF FromRisk
    <3>3. QED
      BY <3>1, <3>2 DEF RatioInv
  <2>5. CASE NoParams \/ AssessRisk \/ GiveUp \/ LandUpdate \/ Restart
    <3>1. pc' \in {"idle", "risk", "fees"}
      BY <2>5 DEF NoParams, AssessRisk, GiveUp, LandUpdate, Return, Restart
    <3>2. QED
      BY <3>1 DEF RatioInv
  <2>6. ASSUME NEW u \in late, LandLate(u)
        PROVE  RatioInv'
    BY <2>6 DEF LandLate, RatioInv
  <2>7. ASSUME NEW u \in late, Expire(u)
        PROVE  RatioInv'
    BY <2>7 DEF Expire, RatioInv
  <2>8. ASSUME NEW a \in Key, NEW b \in Key, SetByHand(a, b)
        PROVE  RatioInv'
    BY <2>8 DEF SetByHand, RatioInv
  <2>9. CASE RaiseRatio
    BY <2>9 DEF RaiseRatio, RatioInv
  <2>10. CASE ToggleShutdown \/ RiskChanges \/ KeeperSetMoves
              \/ UNCHANGED allVars
    BY <2>10 DEF ToggleShutdown, RiskChanges, KeeperSetMoves, allVars, RatioInv
  <2>11. QED
    BY <2>1, <2>2, <2>3, <2>4, <2>5, <2>6, <2>7, <2>8, <2>9, <2>10
    DEF ParamsNext, WritersNext, Daemon
<1>3. RatioInv /\ [ParamsNext]_allVars
        => [LandUpdate /\ update.from = "risk" /\ ~ratio_touched
              => cr_target' = cr_target]_allVars
  BY DEF RatioInv, LandUpdate, Apply
<1>4. QED
  BY <1>1, <1>2, <1>3, ParamsTypeCorrect, PTL
  DEF ParamsSpec, FeeUpdatesKeepRatio

\* No ratio anywhere, on the chain, in a proposal or on its way, is above the
\* peak; that of the chain is in its range, or above it.
PeakInv ==
  /\ cr_target \in CrMin..peak
  /\ draft # None => draft.cr_target <= peak
  /\ update # None => update.params.cr_target <= peak
  /\ \A u \in late : u.params.cr_target <= peak

\* Nothing the daemon writes adds up: its updates, whenever and however often
\* they land, stay below what others have set.
THEOREM RatioStaysWithinPeak == ParamsSpec => []RatioWithinPeak
<1>1. ParamsInit => PeakInv
  BY ParamsAssumption DEF ParamsInit, PeakInv
<1>2. ParamsTypeOK /\ ParamsTypeOK' /\ PeakInv /\ [ParamsNext]_allVars => PeakInv'
  <2> SUFFICES ASSUME ParamsTypeOK, ParamsTypeOK', PeakInv, [ParamsNext]_allVars
               PROVE  PeakInv'
    OBVIOUS
  <2> USE DEF chainVars, worldVars, optimizerVars, riskVars, daemonVars,
              countVars
  <2>1. /\ CrMin \in Nat /\ CrMax \in Nat /\ CrRaise \in Nat
        /\ peak \in Nat /\ peak' \in Nat /\ cr_target \in Nat /\ cr_target' \in Nat
        /\ draft \in Params \union {None} /\ update \in Update \union {None}
        /\ late \subseteq Update
        /\ \A q \in Params : q.cr_target \in Nat
        /\ \A u \in Update : u.params \in Params
    BY ParamsAssumption DEF ParamsTypeOK, Params, Update
  <2>2. CASE Optimize
    <3>1. PICK p \in Wishes :
            /\ draft' = p
            /\ \/ pc' = "reveal" /\ update' = FromOptimizer(p)
               \/ pc' = "risk" /\ UNCHANGED update
      BY <2>2 DEF Optimize
    <3>2. p \in Params /\ p.cr_target \in Nat /\ p.cr_target <= cr_target
      BY <2>1, <3>1, WishesAreParams DEF PeakInv
    <3>3. p.cr_target <= peak
      BY <2>1, <3>2 DEF PeakInv
    <3>4. FromOptimizer(p).params = p
      BY <3>2, OptimizerUpdates
    <3>5. UNCHANGED <<cr_target, late, peak>>
      BY <2>2 DEF Optimize
    <3>6. QED
      BY <3>1, <3>3, <3>4, <3>5 DEF PeakInv
  <2>3. CASE Reveal
    <3>1. UNCHANGED <<cr_target, late, draft, peak>> /\ draft # None
      BY <2>3 DEF Reveal
    <3>2. FromOptimizer(draft).params = draft
      BY <2>1, <3>1, OptimizerUpdates
    <3>3. update' = None \/ update' = FromOptimizer(draft)
      BY <2>3 DEF Reveal
    <3>4. QED
      BY <3>1, <3>2, <3>3 DEF PeakInv
  <2>4. CASE RevealReturns \/ NoParams \/ AssessRisk \/ ToggleShutdown
             \/ RiskChanges \/ KeeperSetMoves \/ UNCHANGED allVars
    <3>1. /\ UNCHANGED <<cr_target, late, peak>>
          /\ draft' \in {draft, None} /\ update' \in {update, None}
      BY <2>4 DEF RevealReturns, NoParams, AssessRisk, ToggleShutdown,
                  RiskChanges, KeeperSetMoves, allVars
    <3>2. QED
      BY <3>1 DEF PeakInv
  <2>5. CASE SetFees
    <3>1. /\ UNCHANGED <<cr_target, late, draft, peak>>
          /\ \/ UNCHANGED update
             \/ update' = FromRisk(Scaled(Bases, risk_level))
      BY <2>5 DEF SetFees
    <3>2. FromRisk(Scaled(Bases, risk_level)).params.cr_target = cr_target
      BY DEF FromRisk
    <3>3. cr_target <= peak
      BY DEF PeakInv
    <3>4. QED
      BY <3>1, <3>2, <3>3 DEF PeakInv
  <2>6. ASSUME pc = "await" PROVE update # None
    BY <2>6 DEF ParamsTypeOK
  <2>7. ASSUME NEW u, Apply(u), u.params.cr_target <= peak
        PROVE  cr_target' \in CrMin..peak
    BY <2>1, <2>7 DEF Apply, Admitted
  <2>8. CASE GiveUp \/ LandUpdate
    <3>1. pc = "await" /\ UNCHANGED peak
      BY <2>8 DEF GiveUp, LandUpdate
    <3>2. update' = None /\ draft' \in {draft, None}
      BY <2>8 DEF GiveUp, LandUpdate, Return
    <3>3. late' \subseteq late \union {update}
      BY <2>8 DEF GiveUp, GivenUp, LandUpdate
    <3>4. update.params.cr_target <= peak
      BY <2>6, <3>1 DEF PeakInv
    <3>5. cr_target' \in CrMin..peak
      BY <2>7, <2>8, <3>4 DEF GiveUp, LandUpdate, PeakInv
    <3>6. QED
      BY <3>1, <3>2, <3>3, <3>4, <3>5 DEF PeakInv
  <2>9. CASE Restart
    <3>1. /\ update' = None /\ draft' \in {draft, None}
          /\ UNCHANGED <<cr_target, peak>>
      BY <2>9 DEF Restart
    <3>2. late' \subseteq IF pc = "await" THEN late \union {update} ELSE late
      BY <2>9 DEF Restart, GivenUp
    <3>3. QED
      BY <2>6, <3>1, <3>2 DEF PeakInv
  <2>10. ASSUME NEW u \in late, LandLate(u) \/ Expire(u)
         PROVE  PeakInv'
    <3>1. UNCHANGED <<draft, update, peak>> /\ late' \subseteq late
      BY <2>10 DEF LandLate, Expire
    <3>2. u.params.cr_target <= peak
      BY DEF PeakInv
    <3>3. cr_target' \in CrMin..peak
      BY <2>7, <2>10, <3>2 DEF LandLate, Expire, PeakInv
    <3>4. QED
      BY <3>1, <3>3 DEF PeakInv
  <2>11. ASSUME UNCHANGED <<draft, update, late>>,
                peak' = Higher(peak, cr_target'), cr_target' >= CrMin
         PROVE  PeakInv'
    <3>1. peak' >= peak /\ peak' >= cr_target'
      BY <2>1, <2>11, HigherIsBound
    <3>2. ASSUME NEW n \in Nat, n <= peak PROVE n <= peak'
      BY <2>1, <3>1, <3>2
    <3>3. cr_target' \in CrMin..peak'
      BY <2>1, <2>11, <3>1
    <3>4. draft' # None => draft'.cr_target <= peak'
      BY <2>1, <2>11, <3>2 DEF PeakInv
    <3>5. update' # None => update'.params.cr_target <= peak'
      BY <2>1, <2>11, <3>2 DEF PeakInv
    <3>6. \A u \in late' : u.params.cr_target <= peak'
      BY <2>1, <2>11, <3>2 DEF PeakInv
    <3>7. QED
      BY <3>3, <3>4, <3>5, <3>6 DEF PeakInv
  <2>12. ASSUME NEW a \in Key, NEW b \in Key, SetByHand(a, b)
         PROVE  PeakInv'
    <3>1. cr_target' >= CrMin
      BY <2>1, <2>12 DEF SetByHand, Apply, Admitted
    <3>2. QED
      BY <2>11, <2>12, <3>1 DEF SetByHand
  <2>13. CASE RaiseRatio
    <3>1. cr_target' >= CrMin
      BY <2>1, <2>13 DEF RaiseRatio, PeakInv
    <3>2. QED
      BY <2>11, <2>13, <3>1 DEF RaiseRatio
  <2>14. QED
    BY <2>2, <2>3, <2>4, <2>5, <2>8, <2>9, <2>10, <2>12, <2>13
    DEF ParamsNext, WritersNext, Daemon
<1>3. PeakInv => RatioWithinPeak
  BY DEF PeakInv, RatioWithinPeak
<1>4. QED
  BY <1>1, <1>2, <1>3, ParamsTypeCorrect, PTL DEF ParamsSpec
=============================================================================
