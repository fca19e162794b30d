----------------------------- MODULE AgentLoop -----------------------------
(***************************************************************************)
(* The keeper's agent loop: at intervals it evaluates a candidate (the     *)
(* agent intelligence gate) or ranks some agents (the tournament), and     *)
(* sends the program of AgentRegistry the updates that follow from it, one *)
(* transaction after the other, whatever becomes of each.                  *)
(*                                                                         *)
(* A transaction it gave up waiting for may still land, in the middle of a *)
(* later cycle, after a restart of the keeper, or among what the keepers   *)
(* do by hand. The trials and the losses of the proposals are computed     *)
(* from constants of the program: here the aggregate score is a parameter  *)
(* and a ranking is any order of the participants.                         *)
(***************************************************************************)
EXTENDS AgentRegistry, Sequences, FiniteSets

CONSTANTS
  Local,                     \* the agents whose key is one of the keeper's
  CurrentTier, TargetTier,   \* AIG_CURRENT_TIER, AIG_TARGET_TIER
  BaseScore,                 \* TOURNAMENT_BASE_AGENT_SCORE
  TopBoost, BottomReduction, \* TOURNAMENT_TOP_BOOST, ..BOTTOM_REDUCTION
  MinAge,                    \* TOURNAMENT_MIN_REGISTRATION_AGE_SLOTS
  Divisor, MinParticipants,  \* TOURNAMENT_PARTICIPANT_DIVISOR, ..MIN_..
  AigInterval, TournamentInterval,   \* seconds
  Configs,                   \* the settings of an instance
  MaxFlying                  \* its bound on unconfirmed transactions

Move == {"leave", "commit", "slash", "donate"}

\* What differs between the instances checked together: whether the two loops
\* are enabled, what a trial yields, and what happens around the loop: the
\* agents there are, the stakes they bring, what they and others do, the scores
\* keepers set by hand, and the last slot.
Config ==
  [aig : BOOLEAN, tournament : BOOLEAN, aggregate : Nat, crowd : SUBSET Agent,
   stakes : SUBSET Nat, moves : SUBSET Move, hand : SUBSET Nat, horizon : Nat]

WinnerScore == AtMost(BaseScore + TopBoost, SCALE)
LoserScore == AtMost(AtLeast(BaseScore - BottomReduction, 0), SCALE)

ASSUME LoopAssumption ==
  /\ Local \subseteq Agent
  /\ CurrentTier \in Tier /\ TargetTier \in Tier \ {0}
  /\ {BaseScore, TopBoost, BottomReduction, MinAge, MinParticipants,
      AigInterval, TournamentInterval, MaxFlying} \subseteq Nat
  /\ BaseScore <= SCALE
  /\ Divisor \in Nat \ {0}
  /\ Configs \subseteq Config
  /\ IsFiniteSet(Agent)

\* What anyone does by hand, and what the loop sends, is what the registry is
\* looked at for.
ASSUME LoopInputAssumption ==
  /\ {BaseScore, WinnerScore, LoserScore} \subseteq Scores
  /\ \A c \in Configs :
       /\ c.hand \union {AtMost(c.aggregate, SCALE)} \subseteq Scores
       /\ c.stakes \subseteq Stakes
       /\ c.horizon <= MaxSlot

\* What AGENT_MIN_STAKE_LAMPORTS allows for, and what the scores of the loop
\* have in common: an update reaches none of them from a score of zero.
ASSUME ScaleAssumption ==
  /\ MinStake >= 2
  /\ Threshold[1] > 0
  /\ \A c \in Configs :
       /\ c.aig => AtMost(c.aggregate, SCALE) > ScoreDelta
       /\ c.tournament =>
            \A grade \in {BaseScore, WinnerScore, LoserScore} : grade > ScoreDelta

Never == -1

VARIABLES
  config,
  registered_slot,                    \* of AgentRecord
  last_aig_run, last_tournament_run,  \* AgentLoopState
  queue,                              \* the actions of a cycle not yet sent
  flying                              \* those sent whose fate is open

\* History: when the score or the tier of an agent last changed.
VARIABLE changed_at

loopVars == <<last_aig_run, last_tournament_run, queue>>
allVars == <<vars, config, registered_slot, loopVars, flying, changed_at>>

-----------------------------------------------------------------------------
(* AgentTxAction.                                                          *)

TxAction ==
  [kind : {"UpdateScore", "Promote", "Demote"}, agent : Agent, value : Nat]

ToScore(a, score) == [kind |-> "UpdateScore", agent |-> a, value |-> score]
ToPromote(a, tier) == [kind |-> "Promote", agent |-> a, value |-> tier]
ToDemote(a, tier) == [kind |-> "Demote", agent |-> a, value |-> tier]

\* aig_actions_for_outcome
AigActions(a) ==
  <<ToScore(a, AtMost(config.aggregate, SCALE))>> \o
    IF config.aggregate >= Threshold[TargetTier]
    THEN IF TargetTier > CurrentTier THEN <<ToPromote(a, TargetTier)>> ELSE <<>>
    ELSE IF CurrentTier > 0 THEN <<ToDemote(a, CurrentTier - 1)>> ELSE <<>>

\* tournament_actions_from_rankings: the first third wins, the last third
\* loses, at least one of each.
TournamentActions(ranked) ==
  LET n == Len(ranked)
      third == AtLeast(n \div 3, 1)
      Grade(i) == IF i <= third THEN WinnerScore
                  ELSE IF i > n - third THEN LoserScore ELSE BaseScore
  IN  [i \in 1..n |-> ToScore(ranked[i], Grade(i))]

\* fetch_registered_agents: the keeper's own keys are left out.
Candidates ==
  {a \in Registered \ Local : record[a].status = "Active" /\ record[a].stake > 0}

\* filter_tournament_eligible_agents
Eligible == {a \in Candidates : slot >= registered_slot[a] + MinAge}

\* tournament_participant_cap
ParticipantCap(n) == AtMost(AtLeast(n \div Divisor, MinParticipants), n)

\* The orders in which the chosen participants may come out.
Rankings ==
  LET n == AtMost(ParticipantCap(Cardinality(Candidates)),
                  Cardinality(Eligible))
  IN  Injection(1..n, Eligible)

IntervalElapsed(last_run, interval) ==
  last_run = Never \/ now >= last_run + interval

-----------------------------------------------------------------------------
(* The loop.                                                               *)

\* maybe_run_aig_cycle: without a node to ask, a candidate or a quorum of keys,
\* the cycle is over with nothing sent.
AigCycle ==
  /\ config.aig
  /\ queue = <<>>
  /\ IntervalElapsed(last_aig_run, AigInterval)
  /\ last_aig_run' = now
  /\ \/ queue' = <<>>
     \/ \E a \in Candidates : queue' = AigActions(a)
  /\ UNCHANGED <<vars, config, registered_slot, last_tournament_run, flying,
                 changed_at>>

\* maybe_run_tournament_cycle: as above; and it takes MinParticipants to hold a
\* tournament.
TournamentCycle ==
  /\ config.tournament
  /\ queue = <<>>
  /\ IntervalElapsed(last_tournament_run, TournamentInterval)
  /\ last_tournament_run' = now
  /\ \/ queue' = <<>>
     \/ /\ Cardinality(Eligible) >= MinParticipants
        /\ \E ranked \in Rankings : queue' = TournamentActions(ranked)
  /\ UNCHANGED <<vars, config, registered_slot, last_aig_run, flying,
                 changed_at>>

\* One turn of submit_agent_actions, up to the transaction being sent; what is
\* in flight may be confirmed at once or never.
Submit ==
  /\ queue # <<>>
  /\ Cardinality(flying) < MaxFlying
  /\ flying' = flying \union {Head(queue)}
  /\ queue' = Tail(queue)
  /\ UNCHANGED <<vars, config, registered_slot, last_aig_run,
                 last_tournament_run, changed_at>>

\* Faulty: any higher tier the score is enough for may be promoted to.
Applied_AnyTier(u) ==
  \/ u.kind = "UpdateScore" /\ UpdateScore(u.agent, u.value)
  \/ /\ u.kind = "Promote"
     /\ Governed(u.agent)
     /\ record[u.agent].tier < u.value
     /\ record[u.agent].agent_score >= Threshold[u.value]
     /\ record' = [record EXCEPT ![u.agent].tier = u.value,
                                 ![u.agent].last_active_at = now]
     /\ UNCHANGED <<clockVars, escrow, treasury, historyVars>>
  \/ u.kind = "Demote" /\ Demote(u.agent) /\ u.value < record[u.agent].tier

\* What the program does with an update: promote_agent and demote_agent take
\* the tier next to the agent's, and the registry's guards apply.
Applied(u) ==
  \/ u.kind = "UpdateScore" /\ UpdateScore(u.agent, u.value)
  \/ /\ u.kind = "Promote"
     /\ Promote(u.agent)
     /\ u.value = record[u.agent].tier + 1
  \/ /\ u.kind = "Demote"
     /\ Demote(u.agent)
     /\ u.value = record[u.agent].tier - 1

ChangedNow(a) == changed_at' = [changed_at EXCEPT ![a] = now]

Land(u) ==
  /\ Applied(u)
  /\ flying' = flying \ {u}
  /\ ChangedNow(u.agent)
  /\ UNCHANGED <<config, registered_slot, loopVars>>

\* It never landed, or the program refused it: the loop only logs that.
Expire(u) ==
  /\ flying' = flying \ {u}
  /\ UNCHANGED <<vars, config, registered_slot, loopVars, changed_at>>

\* AgentLoopState and the rest of a cycle are lost, the transactions are not.
Restart ==
  /\ last_aig_run' = Never
  /\ last_tournament_run' = Never
  /\ queue' = <<>>
  /\ UNCHANGED <<vars, config, registered_slot, flying, changed_at>>

-----------------------------------------------------------------------------
(* What happens around the loop: the actions of AgentRegistry.             *)

Joins(a, amount) ==
  /\ Register(a, amount)
  /\ registered_slot' = [registered_slot EXCEPT ![a] = slot]
  /\ ChangedNow(a)
  /\ UNCHANGED <<config, loopVars, flying>>

ByHand(a) ==
  /\ \/ \E score \in config.hand : UpdateScore(a, score)
     \/ config.hand # {} /\ (Promote(a) \/ Demote(a))
  /\ ChangedNow(a)
  /\ UNCHANGED <<config, registered_slot, loopVars, flying>>

Others(a) ==
  /\ \/ "leave" \in config.moves /\ (Deregister(a) \/ ClaimStake(a))
     \/ "commit" \in config.moves /\ Commit(a)
     \/ "slash" \in config.moves /\ \E amount \in Slashes : Slash(a, amount)
     \/ "donate" \in config.moves /\ Donate(a)
  /\ UNCHANGED <<config, registered_slot, loopVars, flying, changed_at>>

Passes ==
  /\ Tick
  /\ slot < config.horizon
  /\ UNCHANGED <<config, registered_slot, loopVars, flying, changed_at>>

LoopInit ==
  /\ Init
  /\ config \in Configs
  /\ registered_slot = [a \in Agent |-> 0]
  /\ last_aig_run = Never /\ last_tournament_run = Never
  /\ queue = <<>> /\ flying = {}
  /\ changed_at = [a \in Agent |-> 0]

LoopNext ==
  \/ AigCycle
  \/ TournamentCycle
  \/ Submit
  \/ \E u \in flying : Land(u) \/ Expire(u)
  \/ Restart
  \/ \E a \in config.crowd :
       (\E amount \in config.stakes : Joins(a, amount)) \/ ByHand(a) \/ Others(a)
  \/ Passes

LoopSpec == LoopInit /\ [][LoopNext]_allVars
-----------------------------------------------------------------------------
(***************************************************************************)
(* Properties. Those of AgentRegistry hold of the loop too: it can do no   *)
(* more to the registry than the program's instructions allow.             *)
(***************************************************************************)

\* The types of the variables of the loop.
LoopTypeOK ==
  /\ TypeOK
  /\ config \in Configs
  /\ registered_slot \in [Agent -> Nat]
  /\ last_aig_run \in Nat \union {Never}
  /\ last_tournament_run \in Nat \union {Never}
  /\ queue \in Seq(TxAction)
  /\ flying \subseteq TxAction
  /\ changed_at \in [Agent -> Nat]

\* The detailed specification implements that of the registry: whatever is
\* queued, late or sent twice, the records move only as one of the program's
\* instructions moves them.
ImplementsRegistry == Spec

\* However the two loops, transactions of a former cycle or of a former run of
\* the keeper, and the keepers' hands mix, the standing of an agent changes at
\* most once in a cooldown.
StandingChangesSpaced ==
  [][\A a \in Registered :
       \/ a \notin Registered'
       \/ record[a].agent_score = record'[a].agent_score
            /\ record[a].tier = record'[a].tier
       \/ now >= changed_at[a] + GovernanceCooldown]_allVars

\* An agent can put off what keepers do to its standing by committing again
\* and again, but not its slashing: as long as it may commit, any slash goes
\* through at once.
CommittersCanBeSlashed ==
  \A a \in Registered :
    MayCommit(a) =>
      /\ SlashCooldownElapsed(a)
      /\ \A amount \in Slashes \ {0} :
           SlashValue(a, amount) > 0 /\ escrow[a] >= SlashValue(a, amount)

\* An agent nobody but the loop looks after stays as it registered: both loops
\* set scores that are out of an update's reach from zero, and the gate
\* promotes and demotes as if every candidate were of tier one.
LoopAloneIsInert ==
  config.hand = {} =>
    \A a \in Registered : record[a].agent_score = 0 /\ record[a].tier = 0

\* docs/whitepaper.md:259: the winner of a tournament gets "+50,000"; here, it
\* does not lose by winning.
WinnerGains ==
  [][\A u \in flying :
       (Land(u) /\ u.kind = "UpdateScore" /\ u.value = WinnerScore) =>
         record'[u.agent].agent_score >= record[u.agent].agent_score]_allVars
=============================================================================
