---------------------------- MODULE MCMintRedeem ----------------------------
(***************************************************************************)
(* Instances of MintRedeem for TLC: one is 20 parts, a unit of collateral  *)
(* is worth 19 to 22 of them, and the limits are coarse enough for a few   *)
(* transactions to reach them.                                             *)
(***************************************************************************)
EXTENDS MintRedeem

CONSTANTS x, y, u1, u2

Shipped == [cr_target |-> 24, mint_fee_rate |-> 1, redeem_fee_rate |-> 1]
NoFees == [cr_target |-> 22, mint_fee_rate |-> 0, redeem_fee_rate |-> 0]
Cheap == [cr_target |-> 22, mint_fee_rate |-> 0, redeem_fee_rate |-> 1]
MCSettings == {Shipped, NoFees}
=============================================================================
