-------------------------- MODULE MCKeeperTargets --------------------------
(***************************************************************************)
(* Instances of KeeperTargets for TLC: three vaults, a whole of 9 parts,  *)
(* and starts where weights lie against zero, against a cap and between.   *)
(***************************************************************************)
EXTENDS KeeperTargets

MCSafetyCaps == [i \in Vault |-> SCALE]

MCValues == {<<1, 1, 4>>, <<4, 4, 0>>}

At(risk, cap) ==
  [value |-> <<1, 1, 4>>, risk |-> risk, cap |-> cap, base_cap |-> cap]

MCStarts ==
  {[weights |-> <<0, 4, 5>>, market |-> At(<<4, 0, 0>>, <<4, 5, 6>>)],
   [weights |-> <<3, 2, 4>>, market |-> At(<<0, 4, 0>>, <<3, 6, 4>>)]}
=============================================================================
