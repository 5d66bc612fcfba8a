----------------------------- MODULE FeesProofs -----------------------------
(***************************************************************************)
(* For which prices a card can be funded at all: CreateCard sells any      *)
(* positive amount, and FundCard refuses a net amount that is not          *)
(* positive.                                                               *)
(***************************************************************************)
EXTENDS Fees, TLAPS

(* Rounding moves a fee by at most half a cent.                            *)
LEMMA PctOfBounds ==
  ASSUME NEW rate \in Nat, NEW cents \in Nat
  PROVE  /\ PctOf(rate, cents) \in Nat
         /\ 10000 * PctOf(rate, cents) <= rate * cents + 5000
         /\ 10000 * PctOf(rate, cents) > rate * cents - 5000
<1> DEFINE x == rate * cents
<1>1. x \in Nat
  OBVIOUS
<1> HIDE DEF x
<1>2. /\ (x + 5000) \div 10000 \in Nat
      /\ 10000 * ((x + 5000) \div 10000) <= x + 5000
      /\ 10000 * ((x + 5000) \div 10000) > x - 5000
  BY <1>1
<1> QED
  BY <1>2 DEF PctOf, x

(* ... for each of the three rates.                                        *)
LEMMA FeeBounds ==
  ASSUME NEW face \in Nat
  PROVE  /\ PctOf(ServiceFeePct, face) \in Nat
         /\ 10000 * PctOf(ServiceFeePct, face) <= ServiceFeePct * face + 5000
         /\ PctOf(CryptoSpreadPct, face) \in Nat
         /\ 10000 * PctOf(CryptoSpreadPct, face) <= CryptoSpreadPct * face + 5000
         /\ PctOf(StripeFeePct, face) \in Nat
         /\ 10000 * PctOf(StripeFeePct, face) <= StripeFeePct * face + 5000
<1>1. ServiceFeePct \in Nat /\ CryptoSpreadPct \in Nat /\ StripeFeePct \in Nat
  BY FeesAssumption
<1>2. /\ PctOf(ServiceFeePct, face) \in Nat
      /\ 10000 * PctOf(ServiceFeePct, face) <= ServiceFeePct * face + 5000
  BY <1>1, PctOfBounds
<1>3. /\ PctOf(CryptoSpreadPct, face) \in Nat
      /\ 10000 * PctOf(CryptoSpreadPct, face) <= CryptoSpreadPct * face + 5000
  BY <1>1, PctOfBounds
<1>4. /\ PctOf(StripeFeePct, face) \in Nat
      /\ 10000 * PctOf(StripeFeePct, face) <= StripeFeePct * face + 5000
  BY <1>1, PctOfBounds
<1> QED
  BY <1>2, <1>3, <1>4

(* calculator.go: a card that costs no more than the flat fees is sold,    *)
(* and its net amount is not positive: its message never validates.        *)
THEOREM FlatFeesEatSmallCards ==
  ASSUME NEW face \in Nat, NEW method \in Methods,
         face <= ProcessorFeeFlat(method) + SEPAFee
  PROVE  NetAmount(face, method) <= 0
<1>1. /\ PctOf(ServiceFeePct, face) \in Nat
      /\ PctOf(CryptoSpreadPct, face) \in Nat
      /\ PctOf(StripeFeePct, face) \in Nat
  BY FeeBounds
<1>2. ProcessorFee(face, method) \in Nat
  BY <1>1 DEF ProcessorFee
<1>3. ProcessorFeeFlat(method) \in Nat
  BY FeesAssumption DEF ProcessorFeeFlat
<1> QED
  BY <1>1, <1>2, <1>3, FeesAssumption DEF NetAmount, TotalFee

(* ... and one that leaves more than a cent and a half after all rates and *)
(* flat fees has a positive net amount, whatever the rounding of the three *)
(* percentages (calculator.go, pctOf).                                     *)
THEOREM LargerCardsAreWorthSomething ==
  ASSUME NEW face \in Nat, NEW method \in Methods,
         Kept(method) * face > 10000 * (ProcessorFeeFlat(method) + SEPAFee) + 15000
  PROVE  NetAmount(face, method) > 0
<1> DEFINE s == ServiceFeePct * face
           p == StripeFeePct * face
           c == CryptoSpreadPct * face
<1>1. s \in Nat /\ p \in Nat /\ c \in Nat
  BY FeesAssumption
<1>2. /\ PctOf(ServiceFeePct, face) \in Nat /\ 10000 * PctOf(ServiceFeePct, face) <= s + 5000
      /\ PctOf(CryptoSpreadPct, face) \in Nat /\ 10000 * PctOf(CryptoSpreadPct, face) <= c + 5000
      /\ PctOf(StripeFeePct, face) \in Nat /\ 10000 * PctOf(StripeFeePct, face) <= p + 5000
  BY FeeBounds
<1>3. CASE method = "card"
  <2>1. Kept(method) * face = 10000 * face - s - c - p
    BY <1>3, FeesAssumption DEF Kept
  <2>2. ProcessorFee(face, method) = PctOf(StripeFeePct, face) /\ ProcessorFeeFlat(method) = StripeFeeFlat
    BY <1>3 DEF ProcessorFee, ProcessorFeeFlat
  <2> HIDE DEF s, p, c
  <2>3. 10000 * TotalFee(face, method) <= s + c + p + 15000 + 10000 * (StripeFeeFlat + SEPAFee)
    BY <1>1, <1>2, <2>2, FeesAssumption DEF TotalFee
  <2> QED
    BY <1>1, <1>2, <2>1, <2>2, <2>3, FeesAssumption DEF NetAmount, TotalFee
<1>4. CASE method = "bank_transfer"
  <2>1. Kept(method) * face = 10000 * face - s - c
    BY <1>4, FeesAssumption DEF Kept
  <2>2. ProcessorFee(face, method) = 0 /\ ProcessorFeeFlat(method) = 0
    BY <1>4 DEF ProcessorFee, ProcessorFeeFlat
  <2> HIDE DEF s, p, c
  <2>3. 10000 * TotalFee(face, method) <= s + c + 10000 + 10000 * SEPAFee
    BY <1>1, <1>2, <2>2, FeesAssumption DEF TotalFee
  <2> QED
    BY <1>1, <1>2, <2>1, <2>2, <2>3, FeesAssumption DEF NetAmount, TotalFee
<1> QED
  BY <1>3, <1>4 DEF Methods
=============================================================================
