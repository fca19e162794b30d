--------------------------- MODULE AgentRegistry ---------------------------
(***************************************************************************)
(* The agents that optimize the basket: an agent stakes lamports in an     *)
(* escrow, earns a score and with it tiers from the keepers, submits       *)
(* rebalance commits from tier AIG_MIN_COMMIT_TIER on, may be slashed, and *)
(* leaves with what is left of its stake after a cooldown. One timestamp,  *)
(* last_active_at, paces both what keepers do to an agent and its exit.    *)
(*                                                                         *)
(* The keepers' quorum is that of KeeperSet. A record's role, and the      *)
(* counters of proposals, are left out: nothing reads them.                *)
(***************************************************************************)
EXTENDS Integers, Functions

CONSTANTS
  Agent,
  SCALE,
  MinStake,            \* AGENT_MIN_STAKE_LAMPORTS
  StakeCooldown,       \* AGENT_STAKE_COOLDOWN_SECONDS
  SlashCooldown,       \* AGENT_SLASH_COOLDOWN_SLOTS
  GovernanceCooldown,  \* AGENT_GOVERNANCE_COOLDOWN_SECS
  ScoreDelta,          \* AGENT_SCORE_DELTA_LIMIT
  MinCommitTier,       \* AIG_MIN_COMMIT_TIER
  Threshold            \* AIG_TIER1_THRESHOLD to AIG_TIER3_THRESHOLD

CONSTANTS  \* The bounds of an instance.
  Stakes, Slashes, Scores, MaxSlot, MaxDonation

Tier == 0..3

ASSUME RegistryAssumption ==
  /\ {SCALE, StakeCooldown, SlashCooldown, GovernanceCooldown, ScoreDelta}
       \subseteq Nat
  /\ MinStake \in Nat \ {0}
  /\ MinCommitTier \in Tier \ {0}
  /\ Threshold \in [1..3 -> 0..SCALE]
  /\ Threshold[1] <= Threshold[2] /\ Threshold[2] <= Threshold[3]

ASSUME InputAssumption ==
  /\ Stakes \subseteq Nat /\ Slashes \subseteq Nat /\ Scores \subseteq Nat
  /\ MaxSlot \in Nat /\ MaxDonation \in Nat

VARIABLES
  slot, now,  \* the slot and the unix time of the clock
  record,     \* AgentRecord, of each registered agent
  escrow,     \* the lamports of each AgentEscrow, rent apart
  treasury    \* the lamports of PROTOCOL_TREASURY

\* History: the highest score of the current registration, and when the agent
\* last deregistered or was slashed.
VARIABLES peak_score, left_at

clockVars == <<slot, now>>
historyVars == <<peak_score, left_at>>
vars == <<clockVars, record, escrow, treasury, historyVars>>

Registered == DOMAIN record

Status == {"Active", "Slashed", "Deregistered"}

AgentRecord ==
  [status : Status, stake : Nat, tier : Tier, agent_score : 0..SCALE,
   registered_at : Nat, last_active_at : Nat, last_slashed_slot : Nat]

AtMost(a, b) == IF a <= b THEN a ELSE b
AtLeast(a, b) == IF a >= b THEN a ELSE b

-----------------------------------------------------------------------------
NewRecord(amount) ==
  [status |-> "Active", stake |-> amount, tier |-> 0, agent_score |-> 0,
   registered_at |-> now, last_active_at |-> now, last_slashed_slot |-> 0]

\* register_agent: the record must not exist, the escrow may.
Register(a, amount) ==
  /\ a \notin Registered
  /\ amount >= MinStake
  /\ escrow' = [escrow EXCEPT ![a] = @ + amount]
  /\ record' = [b \in Registered \union {a} |->
                  IF b = a THEN NewRecord(amount) ELSE record[b]]
  /\ peak_score' = [peak_score EXCEPT ![a] = 0]
  /\ left_at' = [left_at EXCEPT ![a] = now]
  /\ UNCHANGED <<clockVars, treasury>>

\* deregister_agent: an active agent, or a slashed one.
Deregister(a) ==
  /\ a \in Registered
  /\ record[a].status # "Deregistered"
  /\ record' = [record EXCEPT ![a].status = "Deregistered",
                              ![a].last_active_at = now]
  /\ left_at' = [left_at EXCEPT ![a] = now]
  /\ UNCHANGED <<clockVars, escrow, treasury, peak_score>>

\* Faulty: the time since the registration is looked at.
Rested_SinceRegistration(a) ==
  now >= record[a].registered_at + GovernanceCooldown

\* Keepers change an agent's standing at most once in a cooldown.
Rested(a) == now >= record[a].last_active_at + GovernanceCooldown

Governed(a) ==
  /\ a \in Registered
  /\ record[a].status = "Active"
  /\ Rested(a)

\* Faulty: a score may move by any distance.
UpdateScore_AnyStep(a, score) ==
  /\ Governed(a)
  /\ score <= SCALE
  /\ record' = [record EXCEPT ![a].agent_score = score,
                              ![a].last_active_at = now]
  /\ peak_score' = [peak_score EXCEPT ![a] = AtLeast(@, score)]
  /\ UNCHANGED <<clockVars, escrow, treasury, left_at>>

\* update_agent_score
UpdateScore(a, score) ==
  /\ Governed(a)
  /\ score <= SCALE
  /\ score <= record[a].agent_score + ScoreDelta
  /\ record[a].agent_score <= score + ScoreDelta
  /\ record' = [record EXCEPT ![a].agent_score = score,
                              ![a].last_active_at = now]
  /\ peak_score' = [peak_score EXCEPT ![a] = AtLeast(@, score)]
  /\ UNCHANGED <<clockVars, escrow, treasury, left_at>>

\* promote_agent: to the next tier, with the score it asks for.
Promote(a) ==
  /\ Governed(a)
  /\ record[a].tier < 3
  /\ record[a].agent_score >= Threshold[record[a].tier + 1]
  /\ record' = [record EXCEPT ![a].tier = @ + 1, ![a].last_active_at = now]
  /\ UNCHANGED <<clockVars, escrow, treasury, historyVars>>

\* demote_agent: by one tier.
Demote(a) ==
  /\ Governed(a)
  /\ record[a].tier > 0
  /\ record' = [record EXCEPT ![a].tier = @ - 1, ![a].last_active_at = now]
  /\ UNCHANGED <<clockVars, escrow, treasury, historyVars>>

\* assert_agent_commit_eligibility
MayCommit(a) ==
  /\ a \in Registered
  /\ record[a].status = "Active"
  /\ record[a].tier >= MinCommitTier

\* What a commit_rebalance (RebalanceCommit) does to the agent's record.
Commit(a) ==
  /\ MayCommit(a)
  /\ record' = [record EXCEPT ![a].last_active_at = now]
  /\ UNCHANGED <<clockVars, escrow, treasury, historyVars>>

\* slash_cooldown_elapsed: slot zero stands for never.
SlashCooldownElapsed(a) ==
  \/ record[a].last_slashed_slot = 0
  \/ slot - record[a].last_slashed_slot >= SlashCooldown

\* Faulty: the whole stake may go at once.
SlashValue_Uncapped(a, amount) == AtMost(amount, record[a].stake)

\* capped_slash_amount
SlashValue(a, amount) == AtMost(amount, record[a].stake \div 2)

\* Faulty: an agent on its way out keeps its exit.
Slashed_KeepExit(r) ==
  IF r.status = "Deregistered" THEN [r EXCEPT !.last_slashed_slot = slot]
  ELSE [r EXCEPT !.status = "Slashed", !.last_active_at = now,
                 !.last_slashed_slot = slot]

\* Faulty: the agent stays in place.
Slashed_KeepActive(r) ==
  [r EXCEPT !.last_active_at = now, !.last_slashed_slot = slot]

\* The standing of a slashed agent, whatever it was before.
Slashed(r) ==
  [r EXCEPT !.status = "Slashed", !.last_active_at = now,
            !.last_slashed_slot = slot]

\* slash_agent: what is slashed moves from the escrow to the treasury.
Slash(a, amount) ==
  LET value == SlashValue(a, amount)
  IN  /\ a \in Registered
      /\ SlashCooldownElapsed(a)
      /\ value > 0
      /\ escrow[a] >= value
      /\ escrow' = [escrow EXCEPT ![a] = @ - value]
      /\ treasury' = treasury + value
      /\ record' = [record EXCEPT ![a] = [Slashed(record[a]) EXCEPT
                                            !.stake = record[a].stake - value]]
      /\ left_at' = [left_at EXCEPT ![a] = now]
      /\ UNCHANGED <<clockVars, peak_score>>

\* claim_stake: the agent gets its stake back and the record is closed.
ClaimStake(a) ==
  /\ a \in Registered
  /\ record[a].status = "Deregistered"
  /\ now >= record[a].last_active_at + StakeCooldown
  /\ escrow[a] >= record[a].stake
  /\ escrow' = [escrow EXCEPT ![a] = @ - record[a].stake]
  /\ record' = [b \in Registered \ {a} |-> record[b]]
  /\ UNCHANGED <<clockVars, treasury, historyVars>>

\* Anyone may send lamports to an escrow.
Donate(a) ==
  /\ escrow[a] < MaxDonation
  /\ escrow' = [escrow EXCEPT ![a] = @ + 1]
  /\ UNCHANGED <<clockVars, record, treasury, historyVars>>

\* Several slots share a second.
Tick ==
  /\ slot < MaxSlot
  /\ slot' = slot + 1
  /\ now' \in now..(now + 1)
  /\ UNCHANGED <<record, escrow, treasury, historyVars>>

\* The chain has a history when the program is deployed: its slot is not zero.
Init ==
  /\ slot = 1
  /\ now = 0
  /\ record = [a \in {} |-> NewRecord(0)]
  /\ escrow = [a \in Agent |-> 0]
  /\ treasury = 0
  /\ peak_score = [a \in Agent |-> 0]
  /\ left_at = [a \in Agent |-> 0]

Next ==
  \/ \E a \in Agent :
       \/ \E amount \in Stakes : Register(a, amount)
       \/ Deregister(a)
       \/ Commit(a)
       \/ ClaimStake(a)
       \/ \E score \in Scores : UpdateScore(a, score)
       \/ Promote(a)
       \/ Demote(a)
       \/ \E amount \in Slashes : Slash(a, amount)
       \/ Donate(a)
  \/ Tick

Spec == Init /\ [][Next]_vars
-----------------------------------------------------------------------------
(***************************************************************************)
(* Properties.                                                             *)
(***************************************************************************)

\* The types of the variables.
TypeOK ==
  /\ slot \in Nat \ {0}
  /\ now \in Nat
  /\ Registered \subseteq Agent
  /\ record \in [Registered -> AgentRecord]
  /\ escrow \in [Agent -> Nat]
  /\ treasury \in Nat
  /\ peak_score \in [Agent -> 0..SCALE]
  /\ left_at \in [Agent -> Nat]

\* Through slashes, exits and new registrations on an old escrow, the escrow
\* holds what the record says, so no slash and no claim fails for want of
\* lamports; and slashes never take the whole stake.
EscrowHoldsStake ==
  \A a \in Registered : 0 < record[a].stake /\ record[a].stake <= escrow[a]

\* An agent with a say in rebalances has not been slashed since it
\* registered: there is no way back from a slash but a new registration, from
\* tier zero.
SlashedNeverCommit ==
  \A a \in Registered : MayCommit(a) => record[a].last_slashed_slot = 0

\* No agent is trusted early: however keepers interleave scores, promotions
\* and demotions, a tier costs the agent a cooldown for every step of its
\* score and of its tier.
TrustTakesTime ==
  \A a \in Registered :
    record[a].tier > 0 =>
      ScoreDelta * (now - record[a].registered_at)
        >= GovernanceCooldown * (Threshold[record[a].tier]
                                  + ScoreDelta * record[a].tier)

\* A stake is returned only after it lay for the whole cooldown with nothing
\* happening to it: a slash on the way out starts the exit anew.
ExitIsQuiet ==
  [][\A a \in Registered :
       a \notin Registered' => now >= left_at[a] + StakeCooldown]_vars

\* docs/agent-intelligence-gate.md:164-165 (and :88): an agent whose score
\* falls below its tier's threshold is demoted automatically, when the epoch
\* ends at the latest; here, before it commits.
CommitsAtScore ==
  [][\A a \in Registered :
       Commit(a) => record[a].agent_score >= Threshold[record[a].tier]]_vars
=============================================================================
