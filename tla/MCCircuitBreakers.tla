-------------------------- MODULE MCCircuitBreakers --------------------------
(***************************************************************************)
(* Instances of CircuitBreakers for TLC: two vaults, one with room under   *)
(* its cap and one close to it, and times scaled down in proportion.       *)
(*                                                                         *)
(* A behaviour is about one focus, a set of breakers: only those are       *)
(* triggered in it, and only the markets and settings they depend on move. *)
(***************************************************************************)
EXTENDS CircuitBreakers, TLC

CONSTANTS v1, v2, none

CONSTANT Focuses

VARIABLE focus

MCBaseWeightCap == v1 :> 350000 @@ v2 :> 950000
MCInitialWeights == v1 :> 100000 @@ v2 :> 900000
MCMinHold == <<1, 1, 1, 1>>
MCRatios == {none, 1000000, 1300000}
MCWeightings == {MCInitialWeights, v1 :> 120000 @@ v2 :> 880000}

InFocus ==
  /\ \A c \in CB \ focus : trigger_count'[c] = trigger_count[c]
  /\ focus \cap {1, 2} = {} => UNCHANGED deviation
  /\ focus \cap {2, 3} = {} => UNCHANGED degraded
  /\ 1 \notin focus => UNCHANGED <<weights, cr_target>>
  /\ 4 \notin focus => UNCHANGED ratio

MCInit == Init /\ focus \in Focuses

MCNext == Next /\ InFocus /\ UNCHANGED focus

MCSpec == MCInit /\ [][MCNext]_<<vars, focus>>
=============================================================================
