--------------------------- MODULE MCAgentRegistry ---------------------------
(***************************************************************************)
(* An instance of AgentRegistry for TLC: scores of 0 to 4, one step of     *)
(* which is the most an update may move, so that tiers cost 3, 5 and 7     *)
(* cooldowns.                                                              *)
(***************************************************************************)
EXTENDS AgentRegistry

CONSTANT a1

MCThreshold == <<2, 3, 4>>
=============================================================================
