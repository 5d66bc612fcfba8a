------------------------- MODULE MCPurchasePipeline -------------------------
(***************************************************************************)
(* An instance of PurchasePipeline for TLC: the two payouts bring fiat for *)
(* two purchases, 3 and then 2 cents if both come before the first one     *)
(* looks, and what the first withdrawal brings lifts the on-chain balance  *)
(* over the threshold.                                                     *)
(***************************************************************************)
EXTENDS PurchasePipeline
=============================================================================
