----------------------------- MODULE MCAgentLoop -----------------------------
(***************************************************************************)
(* Instances of AgentLoop for TLC. Scores go from 0 to 8, an update moves  *)
(* a score by 2 at most, so that tiers cost 4, 6 and 7 cooldowns. As in    *)
(* the code a tournament's grades (5, 4 and 3) are out of reach from the   *)
(* score of a registration and below the first threshold. A trial yields   *)
(* 7, the threshold of the target tier, or 4.                              *)
(***************************************************************************)
EXTENDS AgentLoop

CONSTANTS a1, a2, a3

MCThreshold == <<6, 7, 8>>

AllScores == {0, 2, 4, 6, 8, 9}

\* One agent, by hand alone.
Hands ==
  [aig |-> FALSE, tournament |-> FALSE, aggregate |-> 0, crowd |-> {a1},
   stakes |-> {2, 5}, moves |-> Move, hand |-> AllScores, horizon |-> 8]

\* One agent with the gate, which promotes or demotes it, or no agent brought
\* up by hand.
Gates ==
  {[aig |-> TRUE, tournament |-> FALSE, aggregate |-> score, crowd |-> {a1},
    stakes |-> {2}, moves |-> {"commit", "leave"}, hand |-> by_hand,
    horizon |-> 7] : score \in {4, 7}, by_hand \in {{}, {2, 4, 6}}}

\* Tournaments of two that may leave, or whose scores keepers set too.
Tournaments ==
  {[aig |-> FALSE, tournament |-> TRUE, aggregate |-> 0, crowd |-> {a1, a2},
    stakes |-> {2}, moves |-> IF graded THEN {} ELSE {"leave"},
    hand |-> IF graded THEN {2} ELSE {},
    horizon |-> IF graded THEN 4 ELSE 3] : graded \in BOOLEAN}

MCConfigs == {Hands} \union Gates \union Tournaments

\* Two agents that keepers bring up to the best score.
DocConfigs ==
  {[aig |-> FALSE, tournament |-> TRUE, aggregate |-> 4, crowd |-> {a1, a2},
    stakes |-> {2}, moves |-> {}, hand |-> {2, 4, 6, 8}, horizon |-> 8]}
=============================================================================
