----------------------------- MODULE MCCheckout -----------------------------
(***************************************************************************)
(* Instances of Checkout for TLC.                                          *)
(***************************************************************************)
EXTENDS Checkout, TLC

CONSTANTS o1, o2, o3, h1, h2, k1, k2, k3, k4

TwoHandlers == {h1, h2}
FourCodes == {k1, k2, k3, k4}
Symmetry == Permutations(Handlers) \cup Permutations(Codes)

\* An order of two cards, an order of one, and an invalid request.
ThreeOrders == {o1, o2, o3}
ThreeSizes == (o1 :> 2) @@ (o2 :> 1) @@ (o3 :> 0)
TwoOrders == {o1, o2}
TwoSizes == (o1 :> 2) @@ (o2 :> 1)
=============================================================================
