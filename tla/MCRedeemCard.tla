---------------------------- MODULE MCRedeemCard ----------------------------
(***************************************************************************)
(* Instances of RedeemCard for TLC.                                        *)
(***************************************************************************)
EXTENDS RedeemCard, TLC

CONSTANTS c1, c2, i1, i2, i3, r1, r2

\* Two cards, of 2 sats and of 1, and three invoices, of 1, 2 and 1
\* sats: requests contend for a card, for an invoice, or for both.
TwoCards == {c1, c2}
TwoFace == (c1 :> 2) @@ (c2 :> 1)
ThreeInvoices == {i1, i2, i3}
MixedSats == (i1 :> 1) @@ (i2 :> 2) @@ (i3 :> 1)

\* One card of 3 sats contended by every request: any two of the three
\* invoices can be paid, all three cannot.
OneCard == {c1}
OneFace == (c1 :> 3)
ThreeSats == (i1 :> 1) @@ (i2 :> 2) @@ (i3 :> 3)

TwoRequests == {r1, r2}
=============================================================================
