---------------------------- MODULE MCGiftCards -----------------------------
(***************************************************************************)
(* Instances of GiftCards for TLC, with the prices of Fees.                *)
(***************************************************************************)
EXTENDS GiftCards, Fees, TLC

CONSTANTS c1, c2, o1, w1, h1, h2, k1, k2

OneWorker == {w1}
TwoCards == {c1, c2}
OneOrder == {o1}
TwoOfOne == (o1 :> <<c1, c2>>)
TwoHandlers == {h1, h2}
TwoCodes == {k1, k2}
Unbounded == [c \in Cards |-> NumMsgs]

\* Of 100 cents 70 are left, of 65 cents 37; at this price 2 sats and 1 sat.
FaceValue == (c1 :> 100) @@ (c2 :> 65)
NetOfFees == [c \in Cards |-> NetAmount(FaceValue[c], "card")]
ThePrice == {[kind |-> "number", value |-> 35]}
=============================================================================
