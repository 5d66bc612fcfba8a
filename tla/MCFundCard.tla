----------------------------- MODULE MCFundCard -----------------------------
(***************************************************************************)
(* Instances of FundCard for TLC.                                          *)
(***************************************************************************)
EXTENDS FundCard, TLC

CONSTANTS c1, c2, c3, w1, w2

TwoWorkers == {w1, w2}
WorkerSymmetry == Permutations(Workers)

OneCard == {c1}
TwoCards == {c1, c2}
ThreeCards == {c1, c2, c3}

One == [c \in Cards |-> 1]

\* With prices 1 and 2 the small cards are worth 2 or 1 sats, and 1 sat or
\* nothing at all; the last of three was sold for less than its fees.
Twos == [c \in Cards |-> 2]
SmallNets == (c1 :> 2) @@ (c2 :> 1)
OneNotCovered == [c \in Cards |-> IF c = c3 THEN 0 ELSE 2]

A(kind) == [kind |-> kind, value |-> 0]
Number(n) == [kind |-> "number", value |-> n]

OneReply == {Number(1)}
TwoPricesAndErrors == {Number(1), Number(2), Number(0), A("unreachable"), A("nan")}
TwoOrEmpty == {Number(2), A("empty")}
=============================================================================
