------------------------- MODULE MCKeeperRebalance -------------------------
(***************************************************************************)
(* Instances of KeeperRebalance for TLC. From each allocation another one  *)
(* is a small step away; a and b are a large turnover apart. Every move is *)
(* within the step limits but the one from c to b.                         *)
(***************************************************************************)
EXTENDS KeeperRebalance

CONSTANTS a, b, c, p, q

MCAllocation == {a, b, c}
MCReachable == (MCAllocation \X MCAllocation) \ {<<c, b>>}
MCLarge == {<<a, b>>, <<b, a>>}
MCAllReachable == MCAllocation \X MCAllocation

\* A deferred daemon has more time, for a commit and its reveal in the next
\* batch window, and crashes; an immediate one meets shutdowns and has other
\* parameters to propose.
Bounded ==
  IF immediate
  THEN slot' <= 3 /\ crashes' = 0
  ELSE toggles' = 0 /\ (draft' # None => draft'.params # q)

MCSpec == Init /\ [][Next /\ Bounded]_vars
=============================================================================
