-------------------------------- MODULE Fees --------------------------------
(***************************************************************************)
(* What of the price of a card buys bitcoin (internal/fees/calculator.go). *)
(* Rates are in hundredths of a percent, amounts in cents.  The code       *)
(* multiplies floats; here a rate is exact, as the configured ones are.    *)
(***************************************************************************)
EXTENDS Integers

CONSTANTS
  ServiceFeePct, StripeFeePct, CryptoSpreadPct,  \* rates
  StripeFeeFlat, SEPAFee                         \* cents per card

ASSUME FeesAssumption ==
  /\ ServiceFeePct \in Nat /\ StripeFeePct \in Nat /\ CryptoSpreadPct \in Nat
  /\ StripeFeeFlat \in Nat /\ SEPAFee \in Nat

Methods == {"card", "bank_transfer"}

\* pctOf rounds to the nearest cent.
PctOf(rate, cents) == (rate * cents + 5000) \div 10000

ProcessorFee(face, method) == IF method = "card" THEN PctOf(StripeFeePct, face) ELSE 0
ProcessorFeeFlat(method) == IF method = "card" THEN StripeFeeFlat ELSE 0

TotalFee(face, method) ==
  PctOf(ServiceFeePct, face) + ProcessorFee(face, method) + ProcessorFeeFlat(method)
    + PctOf(CryptoSpreadPct, face) + SEPAFee

\* Calculate accepts the amount and the method.
Calculable(face, method) == face > 0 /\ method \in Methods

\* FundCardMessage.NetFiatAmountCents.
NetAmount(face, method) == face - TotalFee(face, method)

-----------------------------------------------------------------------------

\* What the three rates leave of a hundred percent.
Kept(method) ==
  10000 - ServiceFeePct - CryptoSpreadPct - (IF method = "card" THEN StripeFeePct ELSE 0)
=============================================================================
