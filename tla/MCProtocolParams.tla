-------------------------- MODULE MCProtocolParams --------------------------
(***************************************************************************)
(* Instances of ProtocolParams for TLC, with the fees of the code. Four    *)
(* keys, three of which rule, so that a rotation may change one keeper,    *)
(* reorder them or both.                                                   *)
(*                                                                         *)
(* A behaviour has a focus: rotations of every kind; a daemon one of whose *)
(* keys is rotated out and in; a crisis with crashes; or one with          *)
(* shutdowns, CB-1 and keepers' hands.                                     *)
(***************************************************************************)
EXTENDS ProtocolParams

CONSTANTS k1, k2, k3, k4

VARIABLE focus

MCFounders == <<k1, k2, k3>>
MCLocal == <<k1, k2, k3>>

Office ==
  /\ UNCHANGED <<emergency_shutdown, countVars>>
  /\ late' = {}
  /\ level' # "Critical"
  /\ {keeper_set', pending_keeper_set'} \subseteq
       {NoKeepers, <<k1, k2, k3>>, <<k2, k3, k4>>}
  /\ signers' \subseteq {k2, k3}

Crisis ==
  /\ UNCHANGED <<emergency_shutdown, raises, hands>>
  /\ level' \in {"Normal", "Critical"}
  /\ draft' # None => draft'.cr_target # OpeningCr
  /\ crashes' = MaxCrashes => late' \subseteq late

Hands ==
  /\ UNCHANGED crashes
  /\ level' \in {"Normal", "Critical"}

\* Adam's moments matter up to the last proposal only.
MomentsMatter == proposals = MaxProposals => moving' = moving

MCInit == ParamsInit /\ focus \in {"rotation", "office", "crisis", "hands"}

MCNext ==
  /\ \/ focus = "rotation" /\ KeeperSetMoves
     \/ focus = "office" /\ ParamsNext /\ Office
     \/ focus = "crisis" /\ WritersNext /\ Crisis
     \/ focus = "hands" /\ WritersNext /\ Hands
  /\ MomentsMatter
  /\ UNCHANGED focus

MCSpec == MCInit /\ [][MCNext]_<<allVars, focus>> /\ Fairness
=============================================================================
