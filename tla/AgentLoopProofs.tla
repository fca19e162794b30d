--------------------------- MODULE AgentLoopProofs ---------------------------
(***************************************************************************)
(* Theorems about AgentRegistry and about AgentLoop, for any agents,       *)
(* amounts, scores, cooldowns, intervals and bounds that satisfy their     *)
(* assumptions. The loop implements the registry, so that what the first   *)
(* part shows of the registry holds of the loop; on top of the registry's  *)
(* invariant comes what the loop may have sent.                            *)
(***************************************************************************)
EXTENDS AgentLoop, FiniteSetTheorems, SequenceTheorems, TLAPS

-----------------------------------------------------------------------------
(***************************************************************************)
(* The registry, under every sequence of its instructions.                 *)
(***************************************************************************)
\* The stake is there.
Escrowed(a) == 0 < record[a].stake /\ record[a].stake <= escrow[a]

\* What the status says of the agent's past.
StatusTells(a) ==
  /\ record[a].status = "Active" => record[a].last_slashed_slot = 0
  /\ record[a].status = "Deregistered"
       => left_at[a] = record[a].last_active_at

\* The timestamps of a record are in order.
Timed(a) ==
  /\ record[a].registered_at <= record[a].last_active_at
  /\ record[a].last_active_at <= now

\* The highest score accounts for the score and the tier, and the time up to
\* the last activity has paid for them: a cooldown for every ScoreDelta of
\* score, and one for every tier.
Earned(a) ==
  /\ record[a].agent_score <= peak_score[a]
  /\ record[a].tier > 0 => Threshold[record[a].tier] <= peak_score[a]
  /\ GovernanceCooldown * (peak_score[a] + ScoreDelta * record[a].tier)
       <= ScoreDelta * (record[a].last_active_at - record[a].registered_at)

AgentInv(a) == Escrowed(a) /\ StatusTells(a) /\ Timed(a) /\ Earned(a)

\* The inductive invariant.
IInv == TypeOK /\ \A a \in Registered : AgentInv(a)

-----------------------------------------------------------------------------
\* Facts about the constants.
LEMMA Constants ==
  /\ SCALE \in Nat /\ StakeCooldown \in Nat /\ SlashCooldown \in Nat
  /\ GovernanceCooldown \in Nat /\ ScoreDelta \in Nat
  /\ MinStake \in Nat /\ MinStake > 0
  /\ MinCommitTier \in 1..3
  /\ \A t \in 1..3 : Threshold[t] \in 0..SCALE
  /\ \A t \in 2..3 : Threshold[t - 1] <= Threshold[t]
BY RegistryAssumption DEF Tier

\* Multiplication by a natural number keeps the order.
LEMMA TimesKeepsOrder ==
  ASSUME NEW k \in Nat, NEW x \in Int, NEW y \in Int, x <= y
  PROVE  k * x <= k * y
<1>1. PICK d \in Nat : y = x + d
  <2>1. y - x \in Nat /\ y = x + (y - x)
    OBVIOUS
  <2>2. QED
    BY <2>1
<1>2. k * y = k * x + k * d
  BY <1>1
<1>3. k * d \in Nat
  BY <1>1
<1>4. QED
  BY <1>2, <1>3

\* A product of natural numbers is one.
LEMMA ProductIsNat ==
  ASSUME NEW x \in Nat, NEW y \in Nat
  PROVE  x * y \in Nat
OBVIOUS

\* An agent that rested has earned one more step of its score or its tier:
\* "level" is what the time up to its last activity has paid for.
LEMMA RestEarns ==
  ASSUME NEW level \in Int, NEW next \in Int, next <= level + ScoreDelta,
         NEW start \in Nat, NEW last \in Nat, NEW t \in Nat,
         t >= last + GovernanceCooldown,
         GovernanceCooldown * level <= ScoreDelta * (last - start)
  PROVE  GovernanceCooldown * next <= ScoreDelta * (t - start)
<1> DEFINE G == GovernanceCooldown
           D == ScoreDelta
<1>1. G \in Nat /\ D \in Nat
  BY Constants
<1> HIDE DEF G, D
<1>2. G * next <= G * (level + D)
  BY <1>1, TimesKeepsOrder DEF D
<1>3. G * (level + D) = G * level + D * G
  BY <1>1
<1>4. D * ((last - start) + G) = D * (last - start) + D * G
  BY <1>1
<1>5. D * ((last - start) + G) <= D * (t - start)
  BY <1>1, TimesKeepsOrder DEF G
<1>6. G * level <= D * (last - start)
  BY DEF G, D
<1>7. /\ G * next \in Int /\ G * level \in Int /\ D * G \in Int
      /\ D * (last - start) \in Int /\ D * (t - start) \in Int
  BY <1>1
<1>8. QED
  BY <1>2, <1>3, <1>4, <1>5, <1>6, <1>7 DEF G, D

\* As time passes, what was earned stays earned.
LEMMA EarnedLasts ==
  ASSUME NEW level \in Int, NEW next \in Int, next <= level,
         NEW start \in Nat, NEW last \in Nat, NEW t \in Nat, last <= t,
         GovernanceCooldown * level <= ScoreDelta * (last - start)
  PROVE  GovernanceCooldown * next <= ScoreDelta * (t - start)
<1>1. GovernanceCooldown * next <= GovernanceCooldown * level
  BY Constants, TimesKeepsOrder
<1>2. ScoreDelta * (last - start) <= ScoreDelta * (t - start)
  BY Constants, TimesKeepsOrder
<1>3. /\ GovernanceCooldown * next \in Int /\ GovernanceCooldown * level \in Int
      /\ ScoreDelta * (last - start) \in Int /\ ScoreDelta * (t - start) \in Int
  BY Constants
<1>4. QED
  BY <1>1, <1>2, <1>3

\* The types of what the invariant speaks of.
LEMMA RecordTypes ==
  ASSUME TypeOK, NEW a \in Registered
  PROVE  /\ a \in Agent
         /\ record[a] \in AgentRecord
         /\ record[a].stake \in Nat
         /\ record[a].tier \in 0..3
         /\ record[a].agent_score \in 0..SCALE
         /\ record[a].registered_at \in Nat
         /\ record[a].last_active_at \in Nat
         /\ record[a].last_slashed_slot \in Nat
         /\ escrow[a] \in Nat
         /\ peak_score[a] \in 0..SCALE
         /\ left_at[a] \in Nat
BY DEF TypeOK, AgentRecord, Tier

\* An agent's last activity may be moved to the present.
LEMMA EarnedByNow ==
  ASSUME TypeOK, NEW a \in Registered, Earned(a), Timed(a)
  PROVE  GovernanceCooldown * (peak_score[a] + ScoreDelta * record[a].tier)
           <= ScoreDelta * (now - record[a].registered_at)
<1> DEFINE level == peak_score[a] + ScoreDelta * record[a].tier
<1>1. /\ level \in Int /\ level <= level
      /\ record[a].registered_at \in Nat /\ record[a].last_active_at \in Nat
      /\ now \in Nat /\ record[a].last_active_at <= now
  BY RecordTypes, Constants DEF TypeOK, Timed
<1>2. GovernanceCooldown * level
        <= ScoreDelta * (record[a].last_active_at - record[a].registered_at)
  BY DEF Earned
<1> HIDE DEF level
<1>3. GovernanceCooldown * level
        <= ScoreDelta * (now - record[a].registered_at)
  BY <1>1, <1>2, EarnedLasts
<1>4. QED
  BY <1>3 DEF level

\* An operation on one agent leaves the others as they were.
LEMMA OthersKeepInv ==
  ASSUME IInv, NEW a \in Agent, NEW b \in Registered, b # a,
         record'[b] = record[b], escrow'[b] = escrow[b],
         peak_score'[b] = peak_score[b], left_at'[b] = left_at[b],
         now' = now
  PROVE  AgentInv(b)'
BY DEF IInv, AgentInv, Escrowed, StatusTells, Timed, Earned

-----------------------------------------------------------------------------
\* The types and the invariant are kept, operation by operation.
LEMMA RegisterKeepsInv ==
  ASSUME IInv, NEW a \in Agent, NEW amount \in Stakes, Register(a, amount)
  PROVE  IInv'
<1>1. amount \in Nat /\ amount > 0
  BY Constants, InputAssumption DEF Register
<1>2. /\ a \notin Registered
      /\ Registered' = Registered \union {a}
      /\ record'[a] = NewRecord(amount)
      /\ \A b \in Registered : record'[b] = record[b]
      /\ escrow' = [escrow EXCEPT ![a] = @ + amount]
      /\ peak_score' = [peak_score EXCEPT ![a] = 0]
      /\ left_at' = [left_at EXCEPT ![a] = now]
      /\ now' = now
  BY DEF Register, Registered, clockVars
<1>3. TypeOK'
  <2>1. NewRecord(amount) \in AgentRecord
    BY <1>1, Constants DEF NewRecord, AgentRecord, Status, Tier, IInv, TypeOK
  <2>2. record' \in [Registered' -> AgentRecord]
    BY <1>2, <2>1 DEF Register, Registered, IInv, TypeOK
  <2>3. QED
    BY <1>1, <1>2, <2>2, Constants DEF Register, clockVars, IInv, TypeOK
<1>4. AgentInv(a)'
  <2>1. escrow[a] \in Nat /\ now \in Nat
    BY DEF IInv, TypeOK
  <2>2. escrow'[a] = escrow[a] + amount /\ peak_score'[a] = 0
    BY <1>2 DEF IInv, TypeOK
  <2>3. /\ record'[a].stake = amount /\ record'[a].tier = 0
        /\ record'[a].status = "Active" /\ record'[a].agent_score = 0
        /\ record'[a].last_slashed_slot = 0
        /\ record'[a].registered_at = now /\ record'[a].last_active_at = now
    BY <1>2 DEF NewRecord
  <2>4. Escrowed(a)'
    BY <1>1, <2>1, <2>2, <2>3 DEF Escrowed
  <2>5. StatusTells(a)'
    BY <2>3 DEF StatusTells
  <2>6. Timed(a)'
    BY <1>2, <2>1, <2>3 DEF Timed
  <2>7. Earned(a)'
    BY <2>1, <2>2, <2>3, Constants DEF Earned
  <2>8. QED
    BY <2>4, <2>5, <2>6, <2>7 DEF AgentInv
<1>5. ASSUME NEW b \in Registered', b # a
      PROVE  AgentInv(b)'
  BY <1>2, <1>5, OthersKeepInv DEF IInv, TypeOK
<1>6. QED
  BY <1>3, <1>4, <1>5 DEF IInv

\* A deregistration starts the cooldown of the whole stake.
LEMMA DeregisterKeepsInv ==
  ASSUME IInv, NEW a \in Agent, Deregister(a)
  PROVE  IInv'
<1>1. /\ a \in Registered
      /\ Registered' = Registered
      /\ \A b \in Registered : b # a => record'[b] = record[b]
      /\ left_at' = [left_at EXCEPT ![a] = now]
      /\ UNCHANGED <<clockVars, escrow, treasury, peak_score>>
  BY DEF Deregister, Registered, IInv, TypeOK
<1>2. record'[a] = [record[a] EXCEPT !.status = "Deregistered",
                                     !.last_active_at = now]
  BY <1>1 DEF Deregister, Registered, IInv, TypeOK
<1>3. TypeOK'
  <2>1. record'[a] \in AgentRecord
    BY <1>1, <1>2, RecordTypes DEF AgentRecord, Status, IInv, TypeOK
  <2>2. QED
    BY <1>1, <2>1 DEF Deregister, Registered, clockVars, IInv, TypeOK
<1>4. AgentInv(a)'
  <2>1. AgentInv(a) /\ now \in Nat
    BY <1>1 DEF IInv, TypeOK
  <2>2. /\ record'[a].stake = record[a].stake
        /\ record'[a].tier = record[a].tier
        /\ record'[a].status = "Deregistered"
        /\ record'[a].agent_score = record[a].agent_score
        /\ record'[a].registered_at = record[a].registered_at
        /\ record'[a].last_active_at = now
    BY <1>1, <1>2, RecordTypes DEF AgentRecord, IInv
  <2>3. Escrowed(a)' /\ Timed(a)'
    BY <1>1, <2>1, <2>2, RecordTypes
    DEF AgentInv, Escrowed, Timed, clockVars, IInv
  <2>4. StatusTells(a)'
    BY <1>1, <2>2 DEF StatusTells, IInv, TypeOK
  <2>5. Earned(a)'
    <3>1. GovernanceCooldown * (peak_score[a] + ScoreDelta * record[a].tier)
            <= ScoreDelta * (now - record[a].registered_at)
      BY <1>1, <2>1, EarnedByNow DEF AgentInv, IInv
    <3>2. QED
      BY <1>1, <2>1, <2>2, <3>1 DEF AgentInv, Earned
  <2>6. QED
    BY <2>3, <2>4, <2>5 DEF AgentInv
<1>5. ASSUME NEW b \in Registered, b # a
      PROVE  AgentInv(b)'
  BY <1>1, <1>5, OthersKeepInv DEF clockVars, IInv, TypeOK
<1>6. QED
  BY <1>1, <1>3, <1>4, <1>5 DEF IInv

\* A change of an active agent's score or tier, or a mere sign of life, keeps
\* the invariant when the new score and tier are earned.
LEMMA StandingKeepsInv ==
  ASSUME IInv, NEW a \in Registered, record[a].status = "Active",
         record' \in [Registered -> AgentRecord],
         \A b \in Registered : b # a => record'[b] = record[b],
         record'[a].status = record[a].status,
         record'[a].stake = record[a].stake,
         record'[a].registered_at = record[a].registered_at,
         record'[a].last_slashed_slot = record[a].last_slashed_slot,
         record'[a].last_active_at = now,
         peak_score' \in [Agent -> 0..SCALE],
         \A b \in Agent : b # a => peak_score'[b] = peak_score[b],
         UNCHANGED <<clockVars, escrow, treasury, left_at>>,
         Earned(a)'
  PROVE  IInv'
<1>1. Registered' = Registered
  BY DEF Registered
<1>2. TypeOK'
  BY <1>1 DEF clockVars, IInv, TypeOK
<1>3. AgentInv(a)'
  <2>1. AgentInv(a) /\ now \in Nat
    BY DEF IInv, TypeOK
  <2>2. Escrowed(a)' /\ Timed(a)'
    BY <2>1, RecordTypes DEF AgentInv, Escrowed, Timed, clockVars, IInv
  <2>3. StatusTells(a)'
    BY <2>1 DEF AgentInv, StatusTells
  <2>4. QED
    BY <2>2, <2>3 DEF AgentInv
<1>4. ASSUME NEW b \in Registered, b # a
      PROVE  AgentInv(b)'
  BY <1>4, OthersKeepInv DEF clockVars, IInv, TypeOK
<1>5. QED
  BY <1>1, <1>2, <1>3, <1>4 DEF IInv

\* A score leaves the stake alone.
LEMMA UpdateScoreKeepsInv ==
  ASSUME IInv, NEW a \in Agent, NEW score \in Scores, UpdateScore(a, score)
  PROVE  IInv'
<1>1. /\ a \in Registered /\ AgentInv(a)
      /\ record[a].status = "Active"
      /\ now >= record[a].last_active_at + GovernanceCooldown
      /\ score \in 0..SCALE /\ score <= record[a].agent_score + ScoreDelta
  BY InputAssumption DEF UpdateScore, Governed, Rested, IInv
<1>2. record'[a] = [record[a] EXCEPT !.agent_score = score,
                                     !.last_active_at = now]
  BY <1>1 DEF UpdateScore, Registered, IInv, TypeOK
<1>3. /\ record'[a] \in AgentRecord
      /\ record'[a].agent_score = score
      /\ record'[a].tier = record[a].tier
      /\ record'[a].status = record[a].status
      /\ record'[a].stake = record[a].stake
      /\ record'[a].registered_at = record[a].registered_at
      /\ record'[a].last_slashed_slot = record[a].last_slashed_slot
      /\ record'[a].last_active_at = now
  BY <1>1, <1>2, RecordTypes DEF AgentRecord, IInv, TypeOK
<1>4. /\ record' \in [Registered -> AgentRecord]
      /\ \A b \in Registered : b # a => record'[b] = record[b]
  BY <1>3 DEF UpdateScore, Registered, IInv, TypeOK
<1>5. /\ peak_score'[a] = AtLeast(peak_score[a], score)
      /\ AtLeast(peak_score[a], score) \in 0..SCALE
      /\ \A b \in Agent : b # a => peak_score'[b] = peak_score[b]
      /\ peak_score' \in [Agent -> 0..SCALE]
  BY <1>1, RecordTypes DEF UpdateScore, AtLeast, IInv, TypeOK
<1>6. Earned(a)'
  <2> DEFINE level == peak_score[a] + ScoreDelta * record[a].tier
             next == peak_score'[a] + ScoreDelta * record[a].tier
  <2>1. Earned(a)
    BY <1>1 DEF AgentInv
  <2>2. /\ record[a].tier \in 0..3 /\ peak_score[a] \in 0..SCALE
        /\ record[a].agent_score \in 0..SCALE
        /\ record[a].registered_at \in Nat /\ record[a].last_active_at \in Nat
        /\ now \in Nat
    BY <1>1, RecordTypes DEF IInv, TypeOK
  <2>3. /\ peak_score'[a] <= peak_score[a] + ScoreDelta
        /\ score <= peak_score'[a] /\ peak_score[a] <= peak_score'[a]
        /\ peak_score'[a] \in Int
    BY <1>1, <1>5, <2>1, <2>2, Constants DEF AtLeast, Earned
  <2>4. level \in Int /\ next \in Int /\ next <= level + ScoreDelta
    BY <2>2, <2>3, Constants
  <2>5. GovernanceCooldown * level
          <= ScoreDelta * (record[a].last_active_at - record[a].registered_at)
    BY <2>1 DEF Earned
  <2> HIDE DEF level, next
  <2>6. GovernanceCooldown * next
          <= ScoreDelta * (now - record[a].registered_at)
    BY <1>1, <2>2, <2>4, <2>5, RestEarns
  <2>7. record[a].tier > 0 => Threshold[record[a].tier] <= peak_score'[a]
    BY <2>1, <2>2, <2>3, Constants DEF Earned
  <2>8. QED
    BY <1>3, <2>3, <2>6, <2>7 DEF Earned, next
<1>7. UNCHANGED <<clockVars, escrow, treasury, left_at>>
  BY DEF UpdateScore
<1>8. QED
  BY <1>1, <1>3, <1>4, <1>5, <1>6, <1>7, StandingKeepsInv

\* A commitment leaves the stake and the tier alone.
LEMMA CommitKeepsInv ==
  ASSUME IInv, NEW a \in Agent, Commit(a)
  PROVE  IInv'
<1>1. a \in Registered /\ AgentInv(a) /\ record[a].status = "Active"
  BY DEF Commit, MayCommit, IInv
<1>2. record'[a] = [record[a] EXCEPT !.last_active_at = now]
  BY <1>1 DEF Commit, Registered, IInv, TypeOK
<1>3. /\ record'[a] \in AgentRecord
      /\ record'[a].agent_score = record[a].agent_score
      /\ record'[a].tier = record[a].tier
      /\ record'[a].status = record[a].status
      /\ record'[a].stake = record[a].stake
      /\ record'[a].registered_at = record[a].registered_at
      /\ record'[a].last_slashed_slot = record[a].last_slashed_slot
      /\ record'[a].last_active_at = now
  BY <1>1, <1>2, RecordTypes DEF AgentRecord, IInv, TypeOK
<1>4. /\ record' \in [Registered -> AgentRecord]
      /\ \A b \in Registered : b # a => record'[b] = record[b]
  BY <1>3 DEF Commit, Registered, IInv, TypeOK
<1>5. UNCHANGED <<clockVars, escrow, treasury, historyVars>>
  BY DEF Commit
<1>6. Earned(a)'
  <2>1. Earned(a) /\ Timed(a)
    BY <1>1 DEF AgentInv
  <2>2. GovernanceCooldown * (peak_score[a] + ScoreDelta * record[a].tier)
          <= ScoreDelta * (now - record[a].registered_at)
    BY <1>1, <2>1, EarnedByNow DEF IInv
  <2>3. QED
    BY <1>3, <1>5, <2>1, <2>2 DEF Earned, historyVars
<1>7. QED
  BY <1>1, <1>3, <1>4, <1>5, <1>6, StandingKeepsInv
  DEF historyVars, IInv, TypeOK

\* A promotion checks the stake of the tier it gives.
LEMMA PromoteKeepsInv ==
  ASSUME IInv, NEW a \in Agent, Promote(a)
  PROVE  IInv'
<1>1. /\ a \in Registered /\ AgentInv(a)
      /\ record[a].status = "Active"
      /\ now >= record[a].last_active_at + GovernanceCooldown
      /\ record[a].tier < 3
      /\ record[a].agent_score >= Threshold[record[a].tier + 1]
  BY DEF Promote, Governed, Rested, IInv
<1>2. record'[a] = [record[a] EXCEPT !.tier = @ + 1,
                                     !.last_active_at = now]
  BY <1>1 DEF Promote, Registered, IInv, TypeOK
<1>3. /\ record'[a] \in AgentRecord
      /\ record'[a].agent_score = record[a].agent_score
      /\ record'[a].tier = record[a].tier + 1
      /\ record'[a].status = record[a].status
      /\ record'[a].stake = record[a].stake
      /\ record'[a].registered_at = record[a].registered_at
      /\ record'[a].last_slashed_slot = record[a].last_slashed_slot
      /\ record'[a].last_active_at = now
  <2>1. record[a].tier + 1 \in Tier
    BY <1>1, RecordTypes DEF Tier, IInv
  <2>2. record[a] \in AgentRecord /\ now \in Nat
    BY <1>1 DEF IInv, TypeOK
  <2>3. QED
    BY <1>2, <2>1, <2>2 DEF AgentRecord
<1>4. /\ record' \in [Registered -> AgentRecord]
      /\ \A b \in Registered : b # a => record'[b] = record[b]
  BY <1>3 DEF Promote, Registered, IInv, TypeOK
<1>5. UNCHANGED <<clockVars, escrow, treasury, historyVars>>
  BY DEF Promote
<1>6. Earned(a)'
  <2> DEFINE level == peak_score[a] + ScoreDelta * record[a].tier
             next == peak_score[a] + ScoreDelta * (record[a].tier + 1)
  <2>1. Earned(a)
    BY <1>1 DEF AgentInv
  <2>2. /\ record[a].tier \in 0..3 /\ peak_score[a] \in 0..SCALE
        /\ record[a].agent_score \in 0..SCALE
        /\ record[a].registered_at \in Nat /\ record[a].last_active_at \in Nat
        /\ now \in Nat
    BY <1>1, RecordTypes DEF IInv, TypeOK
  <2>3. ScoreDelta * (record[a].tier + 1)
          = ScoreDelta * record[a].tier + ScoreDelta
    BY <2>2, Constants
  <2>4. level \in Int /\ next \in Int /\ next <= level + ScoreDelta
    BY <2>2, <2>3, Constants
  <2>5. GovernanceCooldown * level
          <= ScoreDelta * (record[a].last_active_at - record[a].registered_at)
    BY <2>1 DEF Earned
  <2> HIDE DEF level, next
  <2>6. GovernanceCooldown * next
          <= ScoreDelta * (now - record[a].registered_at)
    BY <1>1, <2>2, <2>4, <2>5, RestEarns
  <2>7. record[a].tier + 1 > 0
          => Threshold[record[a].tier + 1] <= peak_score[a]
    BY <1>1, <2>1, <2>2, Constants DEF Earned
  <2>8. QED
    BY <1>3, <1>5, <2>1, <2>6, <2>7 DEF Earned, next, historyVars
<1>7. QED
  BY <1>1, <1>3, <1>4, <1>5, <1>6, StandingKeepsInv
  DEF historyVars, IInv, TypeOK

\* A demotion asks for less stake.
LEMMA DemoteKeepsInv ==
  ASSUME IInv, NEW a \in Agent, Demote(a)
  PROVE  IInv'
<1>1. /\ a \in Registered /\ AgentInv(a)
      /\ record[a].status = "Active"
      /\ now >= record[a].last_active_at + GovernanceCooldown
      /\ record[a].tier > 0
  BY DEF Demote, Governed, Rested, IInv
<1>2. record'[a] = [record[a] EXCEPT !.tier = @ - 1,
                                     !.last_active_at = now]
  BY <1>1 DEF Demote, Registered, IInv, TypeOK
<1>3. /\ record'[a] \in AgentRecord
      /\ record'[a].agent_score = record[a].agent_score
      /\ record'[a].tier = record[a].tier - 1
      /\ record'[a].status = record[a].status
      /\ record'[a].stake = record[a].stake
      /\ record'[a].registered_at = record[a].registered_at
      /\ record'[a].last_slashed_slot = record[a].last_slashed_slot
      /\ record'[a].last_active_at = now
  <2>1. record[a].tier - 1 \in Tier
    BY <1>1, RecordTypes DEF Tier, IInv
  <2>2. record[a] \in AgentRecord /\ now \in Nat
    BY <1>1 DEF IInv, TypeOK
  <2>3. QED
    BY <1>2, <2>1, <2>2 DEF AgentRecord
<1>4. /\ record' \in [Registered -> AgentRecord]
      /\ \A b \in Registered : b # a => record'[b] = record[b]
  BY <1>3 DEF Demote, Registered, IInv, TypeOK
<1>5. UNCHANGED <<clockVars, escrow, treasury, historyVars>>
  BY DEF Demote
<1>6. Earned(a)'
  <2> DEFINE level == peak_score[a] + ScoreDelta * record[a].tier
             next == peak_score[a] + ScoreDelta * (record[a].tier - 1)
  <2>1. Earned(a)
    BY <1>1 DEF AgentInv
  <2>2. /\ record[a].tier \in 0..3 /\ peak_score[a] \in 0..SCALE
        /\ record[a].agent_score \in 0..SCALE
        /\ record[a].registered_at \in Nat /\ record[a].last_active_at \in Nat
        /\ now \in Nat
    BY <1>1, RecordTypes DEF IInv, TypeOK
  <2>3. ScoreDelta * (record[a].tier - 1)
          = ScoreDelta * record[a].tier - ScoreDelta
    BY <2>2, Constants
  <2>4. level \in Int /\ next \in Int /\ next <= level + ScoreDelta
    BY <2>2, <2>3, Constants
  <2>5. GovernanceCooldown * level
          <= ScoreDelta * (record[a].last_active_at - record[a].registered_at)
    BY <2>1 DEF Earned
  <2> HIDE DEF level, next
  <2>6. GovernanceCooldown * next
          <= ScoreDelta * (now - record[a].registered_at)
    BY <1>1, <2>2, <2>4, <2>5, RestEarns
  <2>7. record[a].tier - 1 > 0
          => Threshold[record[a].tier - 1] <= peak_score[a]
    BY <1>1, <2>1, <2>2, Constants DEF Earned
  <2>8. QED
    BY <1>3, <1>5, <2>1, <2>6, <2>7 DEF Earned, next, historyVars
<1>7. QED
  BY <1>1, <1>3, <1>4, <1>5, <1>6, StandingKeepsInv
  DEF historyVars, IInv, TypeOK

\* A slash moves stake to the treasury.
LEMMA SlashKeepsInv ==
  ASSUME IInv, NEW a \in Agent, NEW amount \in Slashes, Slash(a, amount)
  PROVE  IInv'
<1> DEFINE value == SlashValue(a, amount)
<1>1. /\ a \in Registered /\ AgentInv(a) /\ now \in Nat /\ slot \in Nat \ {0}
      /\ record[a].stake \in Nat /\ escrow[a] \in Nat /\ treasury \in Nat
  BY RecordTypes DEF Slash, IInv, TypeOK
<1>2. /\ value \in Nat /\ 0 < value /\ value < record[a].stake
      /\ value <= escrow[a]
  BY <1>1, InputAssumption DEF Slash, SlashValue, AtMost
<1>3. record'[a] = [Slashed(record[a]) EXCEPT
                     !.stake = record[a].stake - value]
  BY <1>1 DEF Slash, Registered, IInv, TypeOK
<1>4. /\ escrow' = [escrow EXCEPT ![a] = @ - value]
      /\ treasury' = treasury + value
      /\ left_at' = [left_at EXCEPT ![a] = now]
      /\ UNCHANGED <<clockVars, peak_score>>
      /\ \A b \in Registered : b # a => record'[b] = record[b]
      /\ Registered' = Registered
  BY <1>1 DEF Slash, Registered, IInv, TypeOK
<1> HIDE DEF value
<1>5. /\ record'[a] \in AgentRecord
      /\ record'[a].stake = record[a].stake - value
      /\ record'[a].tier = record[a].tier
      /\ record'[a].status = "Slashed"
      /\ record'[a].agent_score = record[a].agent_score
      /\ record'[a].registered_at = record[a].registered_at
      /\ record'[a].last_active_at = now
  <2>1. record[a] \in AgentRecord /\ record[a].stake - value \in Nat
    BY <1>1, <1>2 DEF IInv, TypeOK
  <2>2. QED
    BY <1>1, <1>3, <2>1 DEF Slashed, AgentRecord, Status
<1>6. TypeOK'
  <2>1. record' \in [Registered' -> AgentRecord]
    BY <1>1, <1>4, <1>5 DEF Slash, Registered, IInv, TypeOK
  <2>2. escrow' \in [Agent -> Nat]
    <3>1. escrow[a] - value \in Nat
      BY <1>1, <1>2
    <3>2. QED
      BY <1>4, <3>1 DEF IInv, TypeOK
  <2>3. treasury' \in Nat
    BY <1>1, <1>2, <1>4
  <2>4. QED
    BY <1>4, <2>1, <2>2, <2>3 DEF clockVars, IInv, TypeOK
<1>7. AgentInv(a)'
  <2>1. Escrowed(a)'
    BY <1>1, <1>2, <1>4, <1>5 DEF AgentInv, Escrowed, IInv, TypeOK
  <2>2. StatusTells(a)'
    BY <1>5 DEF StatusTells
  <2>3. Timed(a)'
    BY <1>1, <1>4, <1>5, RecordTypes DEF AgentInv, Timed, clockVars, IInv
  <2>4. Earned(a)'
    <3>1. GovernanceCooldown * (peak_score[a] + ScoreDelta * record[a].tier)
            <= ScoreDelta * (now - record[a].registered_at)
      BY <1>1, EarnedByNow DEF AgentInv, IInv
    <3>2. QED
      BY <1>1, <1>4, <1>5, <3>1 DEF AgentInv, Earned
  <2>5. QED
    BY <2>1, <2>2, <2>3, <2>4 DEF AgentInv
<1>8. ASSUME NEW b \in Registered, b # a
      PROVE  AgentInv(b)'
  BY <1>4, <1>8, OthersKeepInv DEF clockVars, IInv, TypeOK
<1>9. QED
  BY <1>4, <1>6, <1>7, <1>8 DEF IInv

\* A claim pays the stake out after the cooldown.
LEMMA ClaimStakeKeepsInv ==
  ASSUME IInv, NEW a \in Agent, ClaimStake(a)
  PROVE  IInv'
<1>1. /\ Registered' = Registered \ {a}
      /\ \A b \in Registered' : record'[b] = record[b]
      /\ record' \in [Registered' -> AgentRecord]
  BY DEF ClaimStake, Registered, IInv, TypeOK
<1>2. /\ escrow[a] - record[a].stake \in Nat
      /\ escrow' = [escrow EXCEPT ![a] = @ - record[a].stake]
      /\ UNCHANGED <<clockVars, treasury, historyVars>>
  BY RecordTypes DEF ClaimStake, IInv
<1>3. TypeOK'
  BY <1>1, <1>2 DEF clockVars, historyVars, IInv, TypeOK
<1>4. ASSUME NEW b \in Registered'
      PROVE  AgentInv(b)'
  BY <1>1, <1>2, <1>4, OthersKeepInv DEF clockVars, historyVars, IInv, TypeOK
<1>5. QED
  BY <1>3, <1>4 DEF IInv

\* A transfer from outside only adds to the escrow.
LEMMA DonateKeepsInv ==
  ASSUME IInv, NEW a \in Agent, Donate(a)
  PROVE  IInv'
<1>1. /\ escrow' = [escrow EXCEPT ![a] = @ + 1]
      /\ UNCHANGED <<clockVars, record, treasury, historyVars>>
      /\ Registered' = Registered
  BY DEF Donate, Registered
<1>2. TypeOK'
  BY <1>1 DEF clockVars, historyVars, IInv, TypeOK
<1>3. ASSUME NEW b \in Registered
      PROVE  AgentInv(b)'
  <2>1. AgentInv(b) /\ escrow[b] \in Nat /\ record[b].stake \in Nat
    BY RecordTypes DEF IInv
  <2>2. escrow[b] <= escrow'[b]
    BY <1>1, <2>1 DEF IInv, TypeOK
  <2>3. escrow'[b] \in Nat
    BY <1>1, <2>1 DEF IInv, TypeOK
  <2>4. Escrowed(b)'
    BY <1>1, <2>1, <2>2, <2>3 DEF AgentInv, Escrowed
  <2>5. QED
    BY <1>1, <2>1, <2>4
    DEF AgentInv, StatusTells, Timed, Earned, clockVars, historyVars
<1>4. QED
  BY <1>1, <1>2, <1>3 DEF IInv

\* Time only passes.
LEMMA TickKeepsInv ==
  ASSUME IInv, Tick
  PROVE  IInv'
<1>1. /\ slot' = slot + 1
      /\ now' \in Nat /\ now <= now'
      /\ UNCHANGED <<record, escrow, treasury, historyVars>>
      /\ Registered' = Registered
  BY DEF Tick, Registered, IInv, TypeOK
<1>2. TypeOK'
  BY <1>1 DEF historyVars, IInv, TypeOK
<1>3. ASSUME NEW b \in Registered
      PROVE  AgentInv(b)'
  <2>1. AgentInv(b) /\ now \in Nat /\ record[b].last_active_at \in Nat
    BY RecordTypes DEF IInv, TypeOK
  <2>2. Timed(b)'
    BY <1>1, <2>1 DEF AgentInv, Timed
  <2>3. QED
    BY <1>1, <2>1, <2>2
    DEF AgentInv, Escrowed, StatusTells, Earned, historyVars
<1>4. QED
  BY <1>1, <1>2, <1>3 DEF IInv

\* The registry starts empty.
LEMMA InitEstablishesInv == Init => IInv
<1> SUFFICES ASSUME Init
             PROVE  IInv
  OBVIOUS
<1>1. Registered = {}
  BY DEF Init, Registered
<1>2. record \in [Registered -> AgentRecord]
  BY <1>1 DEF Init, Registered
<1>3. QED
  BY <1>1, <1>2, Constants DEF Init, IInv, TypeOK

\* Every step keeps the invariant.
LEMMA StepKeepsInv == IInv /\ [Next]_vars => IInv'
<1> SUFFICES ASSUME IInv, [Next]_vars
             PROVE  IInv'
  OBVIOUS
<1>1. CASE UNCHANGED vars
  <2>1. TypeOK'
    BY <1>1 DEF IInv, TypeOK, Registered, vars, clockVars, historyVars
  <2>2. ASSUME NEW a \in Registered
        PROVE  AgentInv(a)'
    BY <1>1 DEF IInv, AgentInv, Escrowed, StatusTells, Timed, Earned, vars,
                clockVars, historyVars
  <2>3. QED
    BY <1>1, <2>1, <2>2 DEF IInv, Registered, vars
<1>2. ASSUME NEW a \in Agent, NEW amount \in Stakes, Register(a, amount)
      PROVE  IInv'
  BY <1>2, RegisterKeepsInv
<1>3. ASSUME NEW a \in Agent, Deregister(a) \/ Commit(a) \/ ClaimStake(a)
      PROVE  IInv'
  BY <1>3, DeregisterKeepsInv, CommitKeepsInv, ClaimStakeKeepsInv
<1>4. ASSUME NEW a \in Agent, NEW score \in Scores, UpdateScore(a, score)
      PROVE  IInv'
  BY <1>4, UpdateScoreKeepsInv
<1>5. ASSUME NEW a \in Agent, Promote(a) \/ Demote(a) \/ Donate(a)
      PROVE  IInv'
  BY <1>5, PromoteKeepsInv, DemoteKeepsInv, DonateKeepsInv
<1>6. ASSUME NEW a \in Agent, NEW amount \in Slashes, Slash(a, amount)
      PROVE  IInv'
  BY <1>6, SlashKeepsInv
<1>7. CASE Tick
  BY <1>7, TickKeepsInv
<1>8. QED
  BY <1>1, <1>2, <1>3, <1>4, <1>5, <1>6, <1>7 DEF Next

\* The invariant holds in every state.
THEOREM Invariance == Spec => []IInv
BY InitEstablishesInv, StepKeepsInv, PTL DEF Spec

\* The variables keep their types.
THEOREM TypeCorrectness == Spec => []TypeOK
BY Invariance, PTL DEF IInv

\* The lamports a record promises are in the escrow.
THEOREM EscrowCoversStake == Spec => []EscrowHoldsStake
<1>1. IInv => EscrowHoldsStake
  BY DEF IInv, AgentInv, Escrowed, EscrowHoldsStake
<1>2. QED
  BY <1>1, Invariance, PTL

\* Nobody commits who was slashed since registering.
THEOREM SlashedStayOut == Spec => []SlashedNeverCommit
<1>1. IInv => SlashedNeverCommit
  BY DEF IInv, AgentInv, StatusTells, SlashedNeverCommit, MayCommit
<1>2. QED
  BY <1>1, Invariance, PTL

\* A tier takes its time.
THEOREM TrustIsSlow == Spec => []TrustTakesTime
<1>1. IInv => TrustTakesTime
  <2> SUFFICES ASSUME IInv, NEW a \in Registered, record[a].tier > 0
               PROVE  ScoreDelta * (now - record[a].registered_at)
                        >= GovernanceCooldown * (Threshold[record[a].tier]
                                          + ScoreDelta * record[a].tier)
    BY DEF TrustTakesTime
  <2> DEFINE level == peak_score[a] + ScoreDelta * record[a].tier
             asked == Threshold[record[a].tier] + ScoreDelta * record[a].tier
  <2>1. Earned(a) /\ Timed(a)
    BY DEF IInv, AgentInv
  <2>2. /\ record[a].tier \in 1..3 /\ peak_score[a] \in 0..SCALE
        /\ record[a].registered_at \in Nat /\ record[a].last_active_at \in Nat
        /\ now \in Nat
    BY RecordTypes DEF IInv, TypeOK
  <2>3. level \in Int /\ asked \in Int /\ asked <= level
    BY <2>1, <2>2, Constants DEF Earned
  <2>4. GovernanceCooldown * level
          <= ScoreDelta * (record[a].last_active_at - record[a].registered_at)
    BY <2>1 DEF Earned
  <2> HIDE DEF level, asked
  <2>5. GovernanceCooldown * asked
          <= ScoreDelta * (now - record[a].registered_at)
    BY <2>1, <2>2, <2>3, <2>4, EarnedLasts DEF Timed
  <2>6. /\ GovernanceCooldown * asked \in Int
        /\ ScoreDelta * (now - record[a].registered_at) \in Int
    BY <2>2, <2>3, Constants
  <2>7. QED
    BY <2>5, <2>6 DEF asked
<1>2. QED
  BY <1>1, Invariance, PTL

\* A stake is returned only after a quiet cooldown.
THEOREM ExitsAreQuiet == Spec => ExitIsQuiet
<1>1. IInv /\ [Next]_vars
        => [\A a \in Registered :
              a \notin Registered' => now >= left_at[a] + StakeCooldown]_vars
  <2> SUFFICES ASSUME IInv, [Next]_vars, NEW a \in Registered,
                      a \notin Registered'
               PROVE  now >= left_at[a] + StakeCooldown
    OBVIOUS
  <2>1. AgentInv(a)
    BY DEF IInv
  <2>2. ClaimStake(a)
    BY DEF Next, Register, Deregister, Commit, ClaimStake, UpdateScore,
           Promote, Demote, Slash, Donate, Tick, Registered, vars
  <2>3. QED
    BY <2>1, <2>2 DEF ClaimStake, AgentInv, StatusTells
<1>2. QED
  BY <1>1, Invariance, PTL DEF Spec, ExitIsQuiet

-----------------------------------------------------------------------------
(***************************************************************************)
(* The loop.                                                               *)
(***************************************************************************)

\* The scores that the loop sends.
Sendable ==
  (IF config.aig THEN {AtMost(config.aggregate, SCALE)} ELSE {})
    \union (IF config.tournament THEN {BaseScore, WinnerScore, LoserScore}
                                 ELSE {})

Sent == {u \in TxAction : u.kind = "UpdateScore" => u.value \in Sendable}

\* The inductive invariant of what the loop has to do and has done.
LoopInv ==
  /\ config \in Configs
  /\ queue \in Seq(Sent)
  /\ flying \subseteq Sent

\* The last change of an agent's standing counted as activity of the agent, an
\* active agent's stake was never cut, and an agent that only the loop looks
\* after has no standing.
Stands(a) ==
  /\ changed_at[a] <= record[a].last_active_at
  /\ record[a].status = "Active" => record[a].stake >= MinStake
  /\ config.hand = {} => record[a].agent_score = 0 /\ record[a].tier = 0

\* The inductive invariant of what becomes of the records.
StandingInv ==
  /\ changed_at \in [Agent -> Nat]
  /\ \A a \in Registered : Stands(a)

-----------------------------------------------------------------------------
\* The configurations are records.
LEMMA ConfigTypes ==
  ASSUME NEW c \in Configs
  PROVE  /\ c.aig \in BOOLEAN /\ c.tournament \in BOOLEAN
         /\ c.aggregate \in Nat /\ c.crowd \subseteq Agent
         /\ c.stakes \subseteq Stakes /\ c.hand \subseteq Scores
BY LoopAssumption, LoopInputAssumption DEF Config

\* The scores of the loop are natural numbers, and scores of the registry.
LEMMA SendableScores ==
  ASSUME config \in Configs, NEW score \in Sendable
  PROVE  score \in Nat /\ score \in Scores /\ score > ScoreDelta
<1>1. score \in Scores
  BY LoopInputAssumption DEF Sendable
<1>2. score > ScoreDelta
  BY ScaleAssumption, ConfigTypes DEF Sendable
<1>3. QED
  BY <1>1, <1>2, InputAssumption

\* A smaller number is a natural one.
LEMMA Bounds ==
  ASSUME NEW x \in Nat, NEW y \in Nat
  PROVE  AtMost(x, y) \in Nat /\ AtLeast(x, y) \in Nat
BY DEF AtMost, AtLeast

\* What the gate sends.
LEMMA AigSendsSent ==
  ASSUME config \in Configs, config.aig, NEW a \in Agent
  PROVE  AigActions(a) \in Seq(Sent)
<1>1. AtMost(config.aggregate, SCALE) \in Nat
  BY ConfigTypes, Constants, Bounds
<1>2. ToScore(a, AtMost(config.aggregate, SCALE)) \in Sent
  BY <1>1 DEF Sent, Sendable, TxAction, ToScore
<1>3. TargetTier \in Nat /\ CurrentTier \in Nat
  BY LoopAssumption DEF Tier
<1>4. ToPromote(a, TargetTier) \in Sent
  BY <1>3 DEF Sent, TxAction, ToPromote
<1>5. CurrentTier > 0 => ToDemote(a, CurrentTier - 1) \in Sent
  BY <1>3 DEF Sent, TxAction, ToDemote
<1> DEFINE rest == IF config.aggregate >= Threshold[TargetTier]
                   THEN IF TargetTier > CurrentTier
                        THEN <<ToPromote(a, TargetTier)>> ELSE <<>>
                   ELSE IF CurrentTier > 0
                        THEN <<ToDemote(a, CurrentTier - 1)>> ELSE <<>>
<1>6. <<ToScore(a, AtMost(config.aggregate, SCALE))>> \in Seq(Sent)
  BY <1>2
<1>7. rest \in Seq(Sent)
  BY <1>4, <1>5
<1> HIDE DEF rest
<1>8. <<ToScore(a, AtMost(config.aggregate, SCALE))>> \o rest \in Seq(Sent)
  BY <1>6, <1>7, ConcatProperties
<1>9. QED
  BY <1>8 DEF AigActions, rest

\* What a tournament sends.
LEMMA TournamentSendsSent ==
  ASSUME IInv, config \in Configs, config.tournament, NEW ranked \in Rankings
  PROVE  TournamentActions(ranked) \in Seq(Sent)
<1> DEFINE n == AtMost(ParticipantCap(Cardinality(Candidates)),
                       Cardinality(Eligible))
           third == AtLeast(n \div 3, 1)
           Grade(i) == IF i <= third THEN WinnerScore
                       ELSE IF i > n - third THEN LoserScore ELSE BaseScore
<1>1. Candidates \subseteq Agent /\ Eligible \subseteq Candidates
  BY DEF Candidates, Eligible, IInv, TypeOK
<1>2. Cardinality(Candidates) \in Nat /\ Cardinality(Eligible) \in Nat
  BY <1>1, LoopAssumption, FS_Subset, FS_CardinalityType
<1>3. n \in Nat
  <2>1. Cardinality(Candidates) \div Divisor \in Nat /\ MinParticipants \in Nat
    BY <1>2, LoopAssumption
  <2>2. ParticipantCap(Cardinality(Candidates)) \in Nat
    BY <1>2, <2>1 DEF ParticipantCap, AtMost, AtLeast
  <2>3. QED
    BY <1>2, <2>2 DEF AtMost
<1>4. ranked \in [1..n -> Eligible]
  BY DEF Rankings, Injection
<1> HIDE DEF n
<1>5. Len(ranked) = n
  BY <1>3, <1>4
<1>6. ASSUME NEW i \in 1..n PROVE ToScore(ranked[i], Grade(i)) \in Sent
  <2>1. ranked[i] \in Agent
    BY <1>1, <1>4
  <2>2. Grade(i) \in Sendable
    BY DEF Sendable
  <2>3. Grade(i) \in Nat
    BY <2>2, SendableScores
  <2> HIDE DEF Grade
  <2>4. QED
    BY <2>1, <2>2, <2>3 DEF Sent, TxAction, ToScore
<1>7. TournamentActions(ranked) = [i \in 1..n |-> ToScore(ranked[i], Grade(i))]
  BY <1>5 DEF TournamentActions
<1> HIDE DEF Grade
<1>8. [i \in 1..n |-> ToScore(ranked[i], Grade(i))] \in [1..n -> Sent]
  BY <1>6
<1>9. QED
  BY <1>3, <1>7, <1>8

\* What the loop does to its own variables keeps them in order.
LEMMA LoopStepKeepsInv ==
  ASSUME IInv, LoopInv, [LoopNext]_allVars
  PROVE  LoopInv'
<1> USE DEF LoopInv
<1>1. config' = config
  BY DEF LoopNext, AigCycle, TournamentCycle, Submit, Land, Expire, Restart,
         Joins, ByHand, Others, Passes, allVars
<1>2. Sent' = Sent
  BY <1>1 DEF Sent, Sendable
<1>3. CASE AigCycle
  <2>1. queue' \in Seq(Sent)
    <3>1. CASE queue' = <<>>
      BY <3>1
    <3>2. ASSUME NEW a \in Candidates, queue' = AigActions(a)
          PROVE  queue' \in Seq(Sent)
      <4>1. a \in Agent /\ config.aig
        BY <1>3 DEF AigCycle, Candidates, IInv, TypeOK
      <4>2. QED
        BY <3>2, <4>1, AigSendsSent
    <3>3. QED
      BY <1>3, <3>1, <3>2 DEF AigCycle
  <2>2. QED
    BY <1>1, <1>2, <1>3, <2>1 DEF AigCycle
<1>4. CASE TournamentCycle
  <2>1. queue' \in Seq(Sent)
    <3>1. CASE queue' = <<>>
      BY <3>1
    <3>2. ASSUME NEW ranked \in Rankings, queue' = TournamentActions(ranked)
          PROVE  queue' \in Seq(Sent)
      BY <1>4, <3>2, TournamentSendsSent DEF TournamentCycle
    <3>3. QED
      BY <1>4, <3>1, <3>2 DEF TournamentCycle
  <2>2. QED
    BY <1>1, <1>2, <1>4, <2>1 DEF TournamentCycle
<1>5. CASE Submit
  <2>1. Head(queue) \in Sent /\ Tail(queue) \in Seq(Sent)
    BY <1>5, HeadTailProperties DEF Submit
  <2>2. QED
    BY <1>1, <1>2, <1>5, <2>1 DEF Submit
<1>6. ASSUME NEW u \in flying, Land(u) \/ Expire(u) PROVE LoopInv'
  BY <1>1, <1>2, <1>6 DEF Land, Expire, loopVars
<1>7. CASE Restart
  BY <1>1, <1>2, <1>7 DEF Restart
<1>8. CASE UNCHANGED <<queue, flying>>
  BY <1>1, <1>2, <1>8
<1>9. QED
  BY <1>3, <1>4, <1>5, <1>6, <1>7, <1>8
  DEF LoopNext, Joins, ByHand, Others, Passes, allVars, loopVars

\* Every step of the loop is one of the registry, or leaves it alone.
LEMMA StepImplements ==
  ASSUME LoopInv, [LoopNext]_allVars
  PROVE  [Next]_vars
<1>1. ASSUME NEW u \in flying, Land(u) PROVE Next
  <2>1. u.agent \in Agent /\ Applied(u)
    BY <1>1 DEF LoopInv, Sent, TxAction, Land
  <2>2. u.kind = "UpdateScore" => u.value \in Scores
    BY SendableScores DEF LoopInv, Sent
  <2>3. QED
    BY <2>1, <2>2 DEF Applied, Next
<1>2. ASSUME NEW a \in config.crowd, NEW amount \in config.stakes,
             Joins(a, amount)
      PROVE  Next
  BY <1>2, ConfigTypes DEF LoopInv, Joins, Next
<1>3. ASSUME NEW a \in config.crowd, ByHand(a) PROVE Next
  BY <1>3, ConfigTypes DEF LoopInv, ByHand, Next
<1>4. ASSUME NEW a \in config.crowd, Others(a) PROVE Next
  BY <1>4, ConfigTypes DEF LoopInv, Others, Next
<1>5. CASE Passes
  BY <1>5 DEF Passes, Next
<1>6. QED
  BY <1>1, <1>2, <1>3, <1>4, <1>5
  DEF LoopNext, AigCycle, TournamentCycle, Submit, Expire, Restart, allVars, vars

-----------------------------------------------------------------------------
\* What the three changes of an agent's standing have in common.
LEMMA StandingEffect ==
  ASSUME IInv, NEW a \in Agent,
         (\E score \in Scores : UpdateScore(a, score)) \/ Promote(a) \/ Demote(a)
  PROVE  /\ a \in Registered /\ Registered' = Registered
         /\ now' = now
         /\ now >= record[a].last_active_at + GovernanceCooldown
         /\ record'[a].last_active_at = now
         /\ record'[a].status = record[a].status
         /\ record'[a].stake = record[a].stake
         /\ \A b \in Registered : b # a => record'[b] = record[b]
<1>1. a \in Registered /\ record[a] \in AgentRecord
  BY RecordTypes DEF UpdateScore, Promote, Demote, Governed, IInv
<1>2. /\ now >= record[a].last_active_at + GovernanceCooldown
      /\ now' = now
  BY DEF UpdateScore, Promote, Demote, Governed, Rested, clockVars
<1>3. ASSUME NEW r, record' = [record EXCEPT ![a] = r],
             r.last_active_at = now, r.status = record[a].status,
             r.stake = record[a].stake
      PROVE  /\ Registered' = Registered
             /\ record'[a].last_active_at = now
             /\ record'[a].status = record[a].status
             /\ record'[a].stake = record[a].stake
             /\ \A b \in Registered : b # a => record'[b] = record[b]
  BY <1>1, <1>3 DEF IInv, TypeOK, Registered
<1>4. ASSUME NEW score \in Scores, UpdateScore(a, score)
      PROVE  /\ Registered' = Registered
             /\ record'[a].last_active_at = now
             /\ record'[a].status = record[a].status
             /\ record'[a].stake = record[a].stake
             /\ \A b \in Registered : b # a => record'[b] = record[b]
  <2> DEFINE r == [record[a] EXCEPT !.agent_score = score, !.last_active_at = now]
  <2>1. record' = [record EXCEPT ![a] = r]
    BY <1>1, <1>4 DEF UpdateScore
  <2>2. /\ r.last_active_at = now /\ r.status = record[a].status
        /\ r.stake = record[a].stake
    BY <1>1 DEF AgentRecord
  <2> HIDE DEF r
  <2>3. QED
    BY <1>1, <1>2, <1>3, <2>1, <2>2
<1>5. CASE Promote(a)
  <2> DEFINE r == [record[a] EXCEPT !.tier = record[a].tier + 1, !.last_active_at = now]
  <2>1. record' = [record EXCEPT ![a] = r]
    BY <1>1, <1>5 DEF Promote
  <2>2. /\ r.last_active_at = now /\ r.status = record[a].status
        /\ r.stake = record[a].stake
    BY <1>1 DEF AgentRecord
  <2> HIDE DEF r
  <2>3. QED
    BY <1>1, <1>2, <1>3, <2>1, <2>2
<1>6. CASE Demote(a)
  <2> DEFINE r == [record[a] EXCEPT !.tier = record[a].tier - 1, !.last_active_at = now]
  <2>1. record' = [record EXCEPT ![a] = r]
    BY <1>1, <1>6 DEF Demote
  <2>2. /\ r.last_active_at = now /\ r.status = record[a].status
        /\ r.stake = record[a].stake
    BY <1>1 DEF AgentRecord
  <2> HIDE DEF r
  <2>3. QED
    BY <1>1, <1>2, <1>3, <2>1, <2>2
<1>7. QED
  BY <1>1, <1>2, <1>3, <1>4, <1>5, <1>6

\* What else happens to agents leaves their standing alone, and never makes
\* one active or lowers the stake of one that stays active.
LEMMA OtherEffect ==
  ASSUME IInv, NEW a \in Agent,
         \/ Deregister(a) \/ ClaimStake(a) \/ Commit(a) \/ Donate(a)
         \/ \E amount \in Slashes : Slash(a, amount)
  PROVE  /\ Registered' \subseteq Registered
         /\ now' = now
         /\ \A b \in Registered' :
              /\ record'[b].agent_score = record[b].agent_score
              /\ record'[b].tier = record[b].tier
              /\ record'[b].last_active_at >= record[b].last_active_at
              /\ record'[b].status = "Active"
                   => record[b].status = "Active"
                        /\ record'[b].stake = record[b].stake
<1>1. now' = now
  BY DEF Deregister, ClaimStake, Commit, Donate, Slash, clockVars
<1>2. ASSUME NEW b \in Registered
      PROVE  /\ record[b] \in AgentRecord /\ now \in Nat
             /\ record[b].last_active_at \in Nat
             /\ record[b].last_active_at <= now
  BY RecordTypes DEF IInv, AgentInv, Timed, TypeOK
<1>3. CASE ClaimStake(a)
  BY <1>1, <1>2, <1>3 DEF ClaimStake, Registered, IInv, TypeOK
<1>4. CASE Donate(a)
  BY <1>1, <1>2, <1>4 DEF Donate, Registered
<1>5. ASSUME a \in Registered,
             NEW r, record' = [record EXCEPT ![a] = r],
             r.agent_score = record[a].agent_score, r.tier = record[a].tier,
             r.last_active_at = now,
             r.status = "Active" => record[a].status = "Active"
                                      /\ r.stake = record[a].stake
      PROVE  /\ Registered' \subseteq Registered
             /\ \A b \in Registered' :
                  /\ record'[b].agent_score = record[b].agent_score
                  /\ record'[b].tier = record[b].tier
                  /\ record'[b].last_active_at >= record[b].last_active_at
                  /\ record'[b].status = "Active"
                       => record[b].status = "Active"
                            /\ record'[b].stake = record[b].stake
  <2>1. Registered' = Registered
    BY <1>5 DEF Registered
  <2>2. record'[a] = r /\ \A b \in Registered : b # a => record'[b] = record[b]
    BY <1>5 DEF Registered, IInv, TypeOK
  <2>3. QED
    BY <1>2, <1>5, <2>1, <2>2
<1>6. CASE Deregister(a)
  <2> DEFINE r == [record[a] EXCEPT !.status = "Deregistered",
                                    !.last_active_at = now]
  <2>1. a \in Registered /\ record' = [record EXCEPT ![a] = r]
    BY <1>6 DEF Deregister
  <2>2. /\ r.agent_score = record[a].agent_score /\ r.tier = record[a].tier
        /\ r.last_active_at = now /\ r.status = "Deregistered"
    BY <1>2, <2>1 DEF AgentRecord
  <2> HIDE DEF r
  <2>3. QED
    BY <1>1, <1>5, <2>1, <2>2
<1>7. CASE Commit(a)
  <2> DEFINE r == [record[a] EXCEPT !.last_active_at = now]
  <2>1. a \in Registered /\ record' = [record EXCEPT ![a] = r]
    BY <1>7 DEF Commit, MayCommit
  <2>2. /\ r.agent_score = record[a].agent_score /\ r.tier = record[a].tier
        /\ r.last_active_at = now /\ r.status = record[a].status
        /\ r.stake = record[a].stake
    BY <1>2, <2>1 DEF AgentRecord
  <2> HIDE DEF r
  <2>3. QED
    BY <1>1, <1>5, <2>1, <2>2
<1>8. ASSUME NEW amount \in Slashes, Slash(a, amount)
      PROVE  /\ Registered' \subseteq Registered
             /\ \A b \in Registered' :
                  /\ record'[b].agent_score = record[b].agent_score
                  /\ record'[b].tier = record[b].tier
                  /\ record'[b].last_active_at >= record[b].last_active_at
                  /\ record'[b].status = "Active"
                       => record[b].status = "Active"
                            /\ record'[b].stake = record[b].stake
  <2> DEFINE r == [Slashed(record[a]) EXCEPT
                     !.stake = record[a].stake - SlashValue(a, amount)]
  <2>1. a \in Registered /\ record' = [record EXCEPT ![a] = r]
    BY <1>8 DEF Slash
  <2>2. /\ r.agent_score = record[a].agent_score /\ r.tier = record[a].tier
        /\ r.last_active_at = now /\ r.status = "Slashed"
    BY <1>2, <2>1 DEF AgentRecord, Slashed
  <2> HIDE DEF r
  <2>3. QED
    BY <1>5, <2>1, <2>2
<1>9. QED
  BY <1>1, <1>3, <1>4, <1>6, <1>7, <1>8

\* Nothing the loop sent lands as long as no keeper set a score by hand: the
\* scores are out of reach, and no tier is left to climb or to lose.
LEMMA NothingLandsAlone ==
  ASSUME IInv, LoopInv, StandingInv, NEW u \in flying, Land(u)
  PROVE  config.hand # {}
<1> SUFFICES ASSUME config.hand = {} PROVE FALSE
  OBVIOUS
<1> DEFINE a == u.agent
<1>1. a \in Registered /\ Applied(u)
  BY DEF Land, Applied, UpdateScore, Promote, Demote, Governed
<1>2. record[a].agent_score = 0 /\ record[a].tier = 0
  BY <1>1 DEF StandingInv, Stands
<1>3. CASE u.kind = "UpdateScore" /\ UpdateScore(a, u.value)
  <2>1. u.value \in Nat /\ u.value > ScoreDelta
    BY <1>3, SendableScores DEF LoopInv, Sent
  <2>2. u.value <= ScoreDelta
    BY <1>2, <1>3, Constants DEF UpdateScore
  <2>3. QED
    BY <2>1, <2>2, Constants
<1>4. CASE Promote(a)
  BY <1>2, <1>4, ScaleAssumption, Constants DEF Promote
<1>5. CASE Demote(a)
  BY <1>2, <1>5 DEF Demote
<1>6. QED
  BY <1>1, <1>3, <1>4, <1>5 DEF Applied

\* A change of standing by the loop or by hand keeps the invariant.
LEMMA StandingStepKeepsInv ==
  ASSUME IInv, StandingInv, NEW a \in Agent, config.hand # {},
         (\E score \in Scores : UpdateScore(a, score)) \/ Promote(a) \/ Demote(a),
         ChangedNow(a), config' = config
  PROVE  StandingInv'
<1>1. /\ a \in Registered /\ Registered' = Registered
      /\ record'[a].last_active_at = now
      /\ record'[a].status = record[a].status
      /\ record'[a].stake = record[a].stake
      /\ \A b \in Registered : b # a => record'[b] = record[b]
  BY StandingEffect
<1>2. /\ now \in Nat /\ changed_at \in [Agent -> Nat]
      /\ changed_at' = [changed_at EXCEPT ![a] = now]
  BY DEF IInv, TypeOK, StandingInv, ChangedNow
<1>3. changed_at' \in [Agent -> Nat]
  BY <1>2
<1>4. ASSUME NEW b \in Registered PROVE Stands(b)'
  <2>1. Stands(b) /\ b \in Agent
    BY RecordTypes DEF StandingInv, IInv
  <2>2. CASE b = a
    <3>1. changed_at'[b] = now
      BY <1>2, <2>2
    <3>2. QED
      BY <1>1, <1>2, <2>1, <2>2, <3>1 DEF Stands
  <2>3. CASE b # a
    <3>1. changed_at'[b] = changed_at[b] /\ record'[b] = record[b]
      BY <1>1, <1>2, <2>1, <2>3
    <3>2. QED
      BY <2>1, <3>1 DEF Stands
  <2>4. QED
    BY <2>2, <2>3
<1>5. QED
  BY <1>1, <1>3, <1>4 DEF StandingInv

\* A registration starts with nothing.
LEMMA JoinKeepsInv ==
  ASSUME IInv, LoopInv, StandingInv, NEW a \in Agent, NEW amount \in Stakes,
         Joins(a, amount)
  PROVE  StandingInv'
<1>1. /\ a \notin Registered
      /\ Registered' = Registered \union {a}
      /\ record'[a] = NewRecord(amount)
      /\ \A b \in Registered : record'[b] = record[b]
      /\ amount >= MinStake
  BY DEF Joins, Register, Registered
<1>2. /\ now \in Nat /\ changed_at \in [Agent -> Nat]
      /\ changed_at' = [changed_at EXCEPT ![a] = now]
      /\ config' = config
  BY DEF IInv, TypeOK, StandingInv, ChangedNow, Joins
<1>3. changed_at' \in [Agent -> Nat]
  BY <1>2
<1>4. Stands(a)'
  <2>1. changed_at'[a] = now
    BY <1>2
  <2>2. /\ record'[a].last_active_at = now /\ record'[a].stake = amount
        /\ record'[a].agent_score = 0 /\ record'[a].tier = 0
    BY <1>1 DEF NewRecord
  <2>3. QED
    BY <1>1, <1>2, <2>1, <2>2 DEF Stands
<1>5. ASSUME NEW b \in Registered PROVE Stands(b)'
  <2>1. Stands(b) /\ b \in Agent /\ b # a
    BY <1>1, RecordTypes DEF StandingInv, IInv
  <2>2. changed_at'[b] = changed_at[b] /\ record'[b] = record[b]
    BY <1>1, <1>2, <2>1
  <2>3. QED
    BY <1>2, <2>1, <2>2 DEF Stands
<1>6. QED
  BY <1>1, <1>3, <1>4, <1>5 DEF StandingInv

\* So does whatever else happens to agents.
LEMMA OthersKeepStanding ==
  ASSUME IInv, StandingInv, NEW a \in Agent, Others(a)
  PROVE  StandingInv'
<1>1. /\ Registered' \subseteq Registered
      /\ \A b \in Registered' :
           /\ record'[b].agent_score = record[b].agent_score
           /\ record'[b].tier = record[b].tier
           /\ record'[b].last_active_at >= record[b].last_active_at
           /\ record'[b].status = "Active"
                => record[b].status = "Active"
                     /\ record'[b].stake = record[b].stake
  <2>1. \/ Deregister(a) \/ ClaimStake(a) \/ Commit(a) \/ Donate(a)
        \/ \E amount \in Slashes : Slash(a, amount)
    BY DEF Others
  <2>2. QED
    BY <2>1, OtherEffect
<1>2. changed_at' = changed_at /\ config' = config
  BY DEF Others
<1>3. ASSUME NEW b \in Registered' PROVE Stands(b)'
  <2>1. Stands(b) /\ changed_at[b] \in Nat
    BY <1>1, RecordTypes DEF StandingInv, IInv
  <2>2. record[b].last_active_at \in Nat
    BY <1>1, RecordTypes DEF IInv
  <2>3. record'[b].last_active_at \in Nat
    <3>1. IInv'
      BY StepKeepsInv DEF Others, Next
    <3>2. QED
      BY <3>1 DEF IInv, TypeOK, AgentRecord
  <2>4. QED
    BY <1>1, <1>2, <2>1, <2>2, <2>3 DEF Stands
<1>4. QED
  BY <1>2, <1>3 DEF StandingInv

\* Every step of the loop keeps the standing in order.
LEMMA LoopStepKeepsStanding ==
  ASSUME IInv, LoopInv, StandingInv, [LoopNext]_allVars
  PROVE  StandingInv'
<1>1. CASE UNCHANGED <<record, changed_at, config>>
  BY <1>1 DEF StandingInv, Stands, Registered
<1>2. ASSUME NEW u \in flying, Land(u) PROVE StandingInv'
  <2>1. u.agent \in Agent /\ config.hand # {} /\ config' = config
    BY <1>2, NothingLandsAlone DEF LoopInv, Sent, TxAction, Land
  <2>2. \/ \E score \in Scores : UpdateScore(u.agent, score)
        \/ Promote(u.agent) \/ Demote(u.agent)
    BY <1>2, SendableScores DEF Land, Applied, LoopInv, Sent
  <2>3. ChangedNow(u.agent)
    BY <1>2 DEF Land
  <2>4. QED
    BY <2>1, <2>2, <2>3, StandingStepKeepsInv
<1>3. ASSUME NEW a \in config.crowd, ByHand(a) PROVE StandingInv'
  <2>1. a \in Agent /\ config.hand # {} /\ config' = config
    BY <1>3, ConfigTypes DEF LoopInv, ByHand
  <2>2. (\E score \in Scores : UpdateScore(a, score)) \/ Promote(a) \/ Demote(a)
    BY <1>3, ConfigTypes DEF LoopInv, ByHand
  <2>3. ChangedNow(a)
    BY <1>3 DEF ByHand
  <2>4. QED
    BY <2>1, <2>2, <2>3, StandingStepKeepsInv
<1>4. ASSUME NEW a \in config.crowd, NEW amount \in config.stakes,
             Joins(a, amount)
      PROVE  StandingInv'
  BY <1>4, ConfigTypes, JoinKeepsInv DEF LoopInv
<1>5. ASSUME NEW a \in config.crowd, Others(a) PROVE StandingInv'
  BY <1>5, ConfigTypes, OthersKeepStanding DEF LoopInv
<1>6. QED
  BY <1>1, <1>2, <1>3, <1>4, <1>5
  DEF LoopNext, AigCycle, TournamentCycle, Submit, Expire, Restart, Passes,
      Tick, allVars, vars

-----------------------------------------------------------------------------
LoopIInv == IInv /\ LoopInv /\ StandingInv

\* The loop starts with nothing sent and nobody registered.
LEMMA LoopInitEstablishesInv == LoopInit => LoopIInv
<1> SUFFICES ASSUME LoopInit PROVE LoopIInv
  OBVIOUS
<1>1. IInv
  BY InitEstablishesInv DEF LoopInit
<1>2. LoopInv
  BY EmptySeq DEF LoopInit, LoopInv
<1>3. StandingInv
  BY DEF LoopInit, StandingInv, Init, Registered
<1>4. QED
  BY <1>1, <1>2, <1>3 DEF LoopIInv

\* The inductive invariant of the registry, of what the loop sends and of
\* what becomes of the records holds in every state.
THEOREM LoopInvariance == LoopSpec => []LoopIInv
<1>1. LoopInit => LoopIInv
  BY LoopInitEstablishesInv
<1>2. LoopIInv /\ [LoopNext]_allVars => LoopIInv'
  BY StepImplements, StepKeepsInv, LoopStepKeepsInv, LoopStepKeepsStanding
  DEF LoopIInv
<1>3. QED
  BY <1>1, <1>2, PTL DEF LoopSpec

\* The loop, with its queue, its late and lost transactions and its restarts,
\* and the keepers' hands do to the records only what the program allows.
THEOREM LoopImplementsRegistry == LoopSpec => ImplementsRegistry
<1>1. LoopInit => Init
  BY DEF LoopInit
<1>2. LoopIInv /\ [LoopNext]_allVars => [Next]_vars
  BY StepImplements DEF LoopIInv
<1>3. QED
  BY <1>1, <1>2, LoopInvariance, PTL DEF LoopSpec, Spec, ImplementsRegistry

\* What is true of the registry is true of the loop.
THEOREM LoopKeepsRegistry ==
  LoopSpec => /\ [](EscrowHoldsStake /\ SlashedNeverCommit /\ TrustTakesTime)
              /\ ExitIsQuiet
BY LoopImplementsRegistry, EscrowCoversStake, SlashedStayOut, TrustIsSlow,
   ExitsAreQuiet, PTL DEF ImplementsRegistry

\* Two loops, stale transactions and the keepers' hands together change the
\* standing of an agent once in a cooldown at most.
THEOREM StandingIsPaced == LoopSpec => StandingChangesSpaced
<1>1. LoopIInv /\ [LoopNext]_allVars
        => [\A a \in Registered :
              \/ a \notin Registered'
              \/ record[a].agent_score = record'[a].agent_score
                   /\ record[a].tier = record'[a].tier
              \/ now >= changed_at[a] + GovernanceCooldown]_allVars
  <2> SUFFICES ASSUME LoopIInv, [LoopNext]_allVars, NEW a \in Registered,
                      a \in Registered'
               PROVE  \/ record[a].agent_score = record'[a].agent_score
                           /\ record[a].tier = record'[a].tier
                      \/ now >= changed_at[a] + GovernanceCooldown
    OBVIOUS
  <2> USE DEF LoopIInv
  <2>1. ASSUME NEW b \in Agent,
               \/ \E score \in Scores : UpdateScore(b, score)
               \/ Promote(b) \/ Demote(b)
        PROVE  record'[a] = record[a] \/ now >= changed_at[a] + GovernanceCooldown
    <3>1. CASE a = b
      <4>1. now >= record[a].last_active_at + GovernanceCooldown
        BY <2>1, <3>1, StandingEffect
      <4>2. /\ changed_at[a] <= record[a].last_active_at
            /\ changed_at[a] \in Nat /\ record[a].last_active_at \in Nat
            /\ now \in Nat
        BY RecordTypes DEF StandingInv, Stands, IInv, TypeOK
      <4>3. QED
        BY <4>1, <4>2, Constants
    <3>2. CASE a # b
      BY <2>1, <3>2, StandingEffect
    <3>3. QED
      BY <3>1, <3>2
  <2>2. ASSUME NEW u \in flying, Land(u)
        PROVE  record'[a] = record[a] \/ now >= changed_at[a] + GovernanceCooldown
    <3>1. u.agent \in Agent
      BY DEF LoopInv, Sent, TxAction
    <3>2. \/ \E score \in Scores : UpdateScore(u.agent, score)
          \/ Promote(u.agent) \/ Demote(u.agent)
      BY <2>2, SendableScores DEF Land, Applied, LoopInv, Sent
    <3>3. QED
      BY <2>1, <3>1, <3>2
  <2>3. ASSUME NEW b \in config.crowd, ByHand(b)
        PROVE  record'[a] = record[a] \/ now >= changed_at[a] + GovernanceCooldown
    <3>1. b \in Agent /\ config.hand \subseteq Scores
      BY ConfigTypes DEF LoopInv
    <3>2. QED
      BY <2>1, <2>3, <3>1 DEF ByHand
  <2>4. ASSUME NEW b \in config.crowd, NEW amount \in config.stakes,
               Joins(b, amount)
        PROVE  record'[a] = record[a]
    BY <2>4 DEF Joins, Register, Registered
  <2>5. ASSUME NEW b \in config.crowd, Others(b)
        PROVE  record[a].agent_score = record'[a].agent_score
                 /\ record[a].tier = record'[a].tier
    <3>1. \/ Deregister(b) \/ ClaimStake(b) \/ Commit(b) \/ Donate(b)
          \/ \E amount \in Slashes : Slash(b, amount)
      BY <2>5 DEF Others
    <3>2. b \in Agent
      BY ConfigTypes DEF LoopInv
    <3>3. QED
      BY <3>1, <3>2, OtherEffect
  <2>6. CASE record' = record
    BY <2>6
  <2>7. QED
    BY <2>2, <2>3, <2>4, <2>5, <2>6
    DEF LoopNext, AigCycle, TournamentCycle, Submit, Expire, Restart, Passes,
        Tick, allVars, vars
<1>2. QED
  BY <1>1, LoopInvariance, PTL DEF LoopSpec, StandingChangesSpaced

\* An agent that may commit may be slashed, at once and by any amount: it was
\* never slashed since it registered and its stake is whole.
THEOREM CommittersAtStake == LoopSpec => []CommittersCanBeSlashed
<1>1. LoopIInv => CommittersCanBeSlashed
  <2> SUFFICES ASSUME LoopIInv, NEW a \in Registered, MayCommit(a)
               PROVE  /\ SlashCooldownElapsed(a)
                      /\ \A amount \in Slashes \ {0} :
                           /\ SlashValue(a, amount) > 0
                           /\ escrow[a] >= SlashValue(a, amount)
    BY DEF CommittersCanBeSlashed
  <2> USE DEF LoopIInv
  <2>1. record[a].status = "Active" /\ record[a].last_slashed_slot = 0
    BY DEF MayCommit, IInv, AgentInv, StatusTells
  <2>2. /\ record[a].stake \in Nat /\ record[a].stake >= 2
        /\ escrow[a] \in Nat /\ record[a].stake <= escrow[a]
    BY <2>1, RecordTypes, Constants, ScaleAssumption
    DEF StandingInv, Stands, IInv, AgentInv, Escrowed
  <2>3. record[a].stake \div 2 \in 1..record[a].stake
    BY <2>2
  <2>4. ASSUME NEW amount \in Slashes \ {0}
        PROVE  SlashValue(a, amount) > 0 /\ escrow[a] >= SlashValue(a, amount)
    <3>1. amount \in Nat \ {0}
      BY InputAssumption
    <3>2. QED
      BY <2>2, <2>3, <3>1 DEF SlashValue, AtMost
  <2>5. QED
    BY <2>1, <2>4 DEF SlashCooldownElapsed
<1>2. QED
  BY <1>1, LoopInvariance, PTL

\* The loop alone never changes the standing of an agent.
THEOREM LoopIsInert == LoopSpec => []LoopAloneIsInert
<1>1. LoopIInv => LoopAloneIsInert
  BY DEF LoopIInv, StandingInv, Stands, LoopAloneIsInert
<1>2. QED
  BY <1>1, LoopInvariance, PTL
=============================================================================
