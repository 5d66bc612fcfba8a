----------------------- MODULE PurchasePipelineProofs -----------------------
(***************************************************************************)
(* Proofs about PurchasePipeline, for any balances, deposits, thresholds   *)
(* and numbers of crashes and polls.                                       *)
(***************************************************************************)
EXTENDS PurchasePipeline, TLAPS, SequenceTheorems

\* TypeOK, one variable at a time, and that a withdrawal that is polled exists.
TypesInv ==
  /\ pc \in Locations
  /\ spend \in Nat /\ quoted \in Nat /\ amount \in Nat /\ size \in Nat
  /\ polls \in 0..(MaxPolls - 1)
  /\ bank \in Nat /\ wired \in Nat /\ payouts \in Nat
  /\ dealt \in Nat /\ ordered \in Nat /\ btc \in Nat
  /\ requests \in Seq(Nat)
  /\ withdrawals \in Seq(Withdrawal) /\ wd \in 0..Len(withdrawals)
  /\ sent \in Nat /\ unconfirmed \in Nat /\ wallet \in Nat /\ opened \in Nat /\ crashes \in Nat
  /\ peered \in BOOLEAN
  /\ pc = "poll" => wd > 0

\* What each place of the worker knows of the money.  Until the transfer the
\* bank holds the purchase above the target; from then on the purchase is
\* wired and not dealt for.  Between reading the on-chain balance and opening
\* its excess, the balance only grows.
Budget ==
  /\ dealt <= wired
  /\ pc = "transfer" => bank - spend >= TargetCents
  /\ pc \in {"quote", "wait"} => dealt + spend <= wired
  /\ pc = "wait" => requests # <<>> /\ requests[Len(requests)] = spend
  /\ pc = "deal" => dealt + quoted <= wired
  /\ pc = "excess" /\ ~OperatorRaces => wallet - size >= LNDChannelTargetSats

LEMMA Constants ==
  /\ FloorCents \in Nat /\ TargetCents \in Nat /\ Bank \in Nat /\ Wallet \in Nat
  /\ LNDChannelThresholdSats \in Nat /\ LNDChannelTargetSats \in Nat
  /\ MaxPolls \in Nat \ {0} /\ 0 \in 0..(MaxPolls - 1)
  /\ Deposits \subseteq Nat \ {0} /\ OperatorSizes \subseteq Int /\ OperatorRaces \in BOOLEAN
  BY PurchaseAssumption

LEMMA TypeStep == ASSUME TypesInv, [Next]_vars PROVE TypesInv'
<1> USE Constants DEF TypesInv, Locations, bankVars, exchangeVars, nodeVars, locals, Goto, Forget, Abandon
<1>1. CASE Tick
  BY <1>1 DEF Tick
<1>2. CASE GetFiatBalance
  BY <1>2 DEF GetFiatBalance, ShouldPurchase
<1>3. CASE GetFiatBalanceFailed
  BY <1>3 DEF GetFiatBalanceFailed
<1>4. CASE TransferFiatToCryptoCom
  BY <1>4 DEF TransferFiatToCryptoCom, Wire
<1>5. CASE TransferReplyLost
  BY <1>5 DEF TransferReplyLost, Wire
<1>6. CASE TransferFailed
  BY <1>6 DEF TransferFailed
<1>7. CASE SendQuoteRequest
  BY <1>7 DEF SendQuoteRequest
<1>8. CASE ReceiveQuote
  BY <1>8 DEF ReceiveQuote, AnswersLast
<1>9. CASE QuoteFailed
  BY <1>9 DEF QuoteFailed
<1>10. CASE RequestOTCDeal
  <2>1. CASE Deal
    BY <1>10, <2>1 DEF RequestOTCDeal, Deal
  <2>2. CASE UNCHANGED <<bankVars, exchangeVars, nodeVars, crashes>>
    BY <1>10, <2>2 DEF RequestOTCDeal
  <2> QED
    BY <1>10, <2>1, <2>2 DEF RequestOTCDeal
<1>11. CASE DealFailed
  <2>1. CASE Deal
    BY <1>11, <2>1 DEF DealFailed, Deal
  <2>2. CASE UNCHANGED <<bankVars, exchangeVars, nodeVars, crashes>>
    BY <1>11, <2>2 DEF DealFailed
  <2> QED
    BY <1>11, <2>1, <2>2 DEF DealFailed
<1>12. CASE WithdrawBTCToLND
  BY <1>12 DEF WithdrawBTCToLND, Withdraw, Withdrawal
<1>13. CASE WithdrawFailed
  <2>1. CASE Withdraw
    BY <1>13, <2>1 DEF WithdrawFailed, Withdraw, Withdrawal
  <2>2. CASE UNCHANGED <<bankVars, exchangeVars, nodeVars, crashes>>
    BY <1>13, <2>2 DEF WithdrawFailed
  <2> QED
    BY <1>13, <2>1, <2>2 DEF WithdrawFailed
<1>14. CASE WithdrawalConfirmed
  BY <1>14 DEF WithdrawalConfirmed, Truncated, Withdrawal
<1>15. CASE PollAgain
  BY <1>15 DEF PollAgain
<1>16. CASE GiveUpPolling
  BY <1>16 DEF GiveUpPolling
<1>17. CASE FundLNDChannel
  BY <1>17 DEF FundLNDChannel, ToPeer, OpenChannel
<1>18. CASE FundLNDChannelFailed
  BY <1>18 DEF FundLNDChannelFailed
<1>19. CASE GetLNDBalance
  BY <1>19 DEF GetLNDBalance, OnChainConfirmedSats
<1>20. CASE NoExcess
  BY <1>20 DEF NoExcess
<1>21. CASE OpenExcess
  BY <1>21 DEF OpenExcess, ToPeer, OpenChannel
<1>22. CASE OpenExcessFailed
  BY <1>22 DEF OpenExcessFailed
<1>23. CASE Crash
  BY <1>23 DEF Crash
<1>24. CASE Payout
  BY <1>24 DEF Payout
<1>25. CASE SettleDeals
  BY <1>25 DEF SettleDeals
<1>26. CASE Confirm
  BY <1>26 DEF Confirm
<1>27. CASE OperatorOpens
  BY <1>27 DEF OperatorOpens, OpenChannel
<1>28. CASE \E i \in DOMAIN withdrawals : Broadcast(i) \/ Complete(i) \/ Fail(i)
  <2>1. PICK i \in DOMAIN withdrawals : Broadcast(i) \/ Complete(i) \/ Fail(i)
    BY <1>28
  <2> DEFINE old == withdrawals[i]
  <2>2. old \in Withdrawal
    OBVIOUS
  <2>3. PICK w \in Withdrawal : Progress(i, w)
    <3>1. /\ [old EXCEPT !.txid = TRUE] \in Withdrawal
          /\ [old EXCEPT !.status = "completed"] \in Withdrawal
          /\ [old EXCEPT !.status = "failed"] \in Withdrawal
      BY <2>2 DEF Withdrawal
    <3> QED
      BY <2>1, <3>1 DEF Broadcast, Complete, Fail
  <2>4. withdrawals' \in Seq(Withdrawal) /\ Len(withdrawals') = Len(withdrawals)
    <3>1. i \in 1..Len(withdrawals) /\ withdrawals \in Seq(Withdrawal)
      BY <2>1
    <3> QED
      BY <2>3, <3>1, ExceptSeq DEF Progress
  <2>5. old.sats \in Nat
    BY <2>2 DEF Withdrawal
  <2> HIDE DEF old
  <2>6. sent' \in Nat /\ unconfirmed' \in Nat /\ btc' \in Nat
    <3>1. CASE Broadcast(i)
      <4>1. sent' = sent + old.sats /\ unconfirmed' = unconfirmed + old.sats /\ btc' = btc
        BY <3>1 DEF Broadcast, old
      <4> QED
        BY <2>5, <4>1
    <3>2. CASE Complete(i)
      BY <3>2 DEF Complete
    <3>3. CASE Fail(i)
      <4>1. btc' = btc + old.sats /\ sent' = sent /\ unconfirmed' = unconfirmed
        BY <3>3 DEF Fail, old
      <4> QED
        BY <2>5, <4>1
    <3> QED
      BY <2>1, <3>1, <3>2, <3>3
  <2> QED
    BY <2>3, <2>4, <2>6 DEF Progress
<1>29. CASE UNCHANGED vars
  BY <1>29 DEF vars
<1> QED
  BY <1>1, <1>2, <1>3, <1>4, <1>5, <1>6, <1>7, <1>8, <1>9, <1>10, <1>11, <1>12, <1>13, <1>14, <1>15,
    <1>16, <1>17, <1>18, <1>19, <1>20, <1>21, <1>22, <1>23, <1>24, <1>25, <1>26, <1>27, <1>28, <1>29
  DEF Next, Work, Transfer, Quote, Buy, Collect, Fund, Environment

(* Every variable keeps its type; no balance becomes negative, and the     *)
(* worker polls a withdrawal that exists.                                  *)
THEOREM PurchaseTypeCorrect == Spec => []TypeOK
<1>1. Init => TypesInv
  BY Constants DEF Init, TypesInv, Locations
<1>2. TypesInv /\ [Next]_vars => TypesInv'
  BY TypeStep
<1>3. TypesInv => TypeOK
  BY DEF TypesInv, TypeOK
<1> QED
  BY <1>1, <1>2, <1>3, PTL DEF Spec

-----------------------------------------------------------------------------

LEMMA BudgetStep == ASSUME TypesInv, Budget, [Next]_vars PROVE Budget'
<1> USE Constants DEF TypesInv, Locations, Budget, bankVars, exchangeVars, nodeVars, locals, Goto, Forget, Abandon
<1>1. CASE Tick
  BY <1>1 DEF Tick
<1>2. CASE GetFiatBalance
  BY <1>2 DEF GetFiatBalance, ShouldPurchase
<1>3. CASE GetFiatBalanceFailed
  BY <1>3 DEF GetFiatBalanceFailed
<1>4. CASE TransferFiatToCryptoCom
  BY <1>4 DEF TransferFiatToCryptoCom, Wire
<1>5. CASE TransferReplyLost
  BY <1>5 DEF TransferReplyLost, Wire
<1>6. CASE TransferFailed
  BY <1>6 DEF TransferFailed
<1>7. CASE SendQuoteRequest
  BY <1>7 DEF SendQuoteRequest
<1>8. CASE ReceiveQuote
  BY <1>8 DEF ReceiveQuote, AnswersLast
<1>9. CASE QuoteFailed
  BY <1>9 DEF QuoteFailed
<1>10. CASE RequestOTCDeal
  BY <1>10 DEF RequestOTCDeal, Deal
<1>11. CASE DealFailed
  BY <1>11 DEF DealFailed, Deal
<1>12. CASE WithdrawBTCToLND
  BY <1>12 DEF WithdrawBTCToLND, Withdraw, Withdrawal
<1>13. CASE WithdrawFailed
  BY <1>13 DEF WithdrawFailed, Withdraw, Withdrawal
<1>14. CASE WithdrawalConfirmed
  BY <1>14 DEF WithdrawalConfirmed, Truncated, Withdrawal
<1>15. CASE PollAgain
  BY <1>15 DEF PollAgain
<1>16. CASE GiveUpPolling
  BY <1>16 DEF GiveUpPolling
<1>17. CASE FundLNDChannel
  BY <1>17 DEF FundLNDChannel, ToPeer, OpenChannel
<1>18. CASE FundLNDChannelFailed
  BY <1>18 DEF FundLNDChannelFailed
<1>19. CASE GetLNDBalance
  BY <1>19 DEF GetLNDBalance, OnChainConfirmedSats
<1>20. CASE NoExcess
  BY <1>20 DEF NoExcess
<1>21. CASE OpenExcess
  BY <1>21 DEF OpenExcess, ToPeer, OpenChannel
<1>22. CASE OpenExcessFailed
  BY <1>22 DEF OpenExcessFailed
<1>23. CASE Crash
  BY <1>23 DEF Crash
<1>24. CASE Payout
  BY <1>24 DEF Payout
<1>25. CASE SettleDeals
  BY <1>25 DEF SettleDeals
<1>26. CASE Confirm
  BY <1>26 DEF Confirm
<1>27. CASE OperatorOpens
  BY <1>27 DEF OperatorOpens, OpenChannel
<1>28. CASE \E i \in DOMAIN withdrawals : Broadcast(i) \/ Complete(i) \/ Fail(i)
  BY <1>28 DEF Broadcast, Complete, Fail, Progress, Withdrawal
<1>29. CASE UNCHANGED vars
  BY <1>29 DEF vars
<1> QED
  BY <1>1, <1>2, <1>3, <1>4, <1>5, <1>6, <1>7, <1>8, <1>9, <1>10, <1>11, <1>12, <1>13, <1>14, <1>15,
    <1>16, <1>17, <1>18, <1>19, <1>20, <1>21, <1>22, <1>23, <1>24, <1>25, <1>26, <1>27, <1>28, <1>29
  DEF Next, Work, Transfer, Quote, Buy, Collect, Fund, Environment

LEMMA BudgetHolds == Spec => [](TypesInv /\ Budget)
<1>1. Init => TypesInv /\ Budget
  BY Constants DEF Init, TypesInv, Locations, Budget
<1>2. TypesInv /\ Budget /\ [Next]_vars => TypesInv' /\ Budget'
  BY TypeStep, BudgetStep
<1> QED
  BY <1>1, <1>2, PTL DEF Spec

(* However often the worker crashes, a reply is lost or a purchase is      *)
(* abandoned, no deal is made for fiat that was not wired                  *)
(* (executePurchasePipeline, steps 1 to 3).                                *)
THEOREM NoUnwiredDeal == Spec => []DealsAreWired
<1>1. Budget => DealsAreWired
  BY DEF Budget, DealsAreWired
<1> QED
  BY <1>1, BudgetHolds, PTL

(* No transfer, repeated or not, takes the account below the target        *)
(* (ThresholdTrigger.ShouldPurchase, TransferFiatToCryptoCom).             *)
THEOREM TargetIsRetained == Spec => TargetRetained
<1> DEFINE Kept == bank' < bank => bank' >= TargetCents
<1>1. ASSUME TypesInv, Budget, [Next]_vars PROVE [Kept]_vars
  <2>1. CASE Transfer
    BY <1>1, <2>1, Constants DEF TypesInv, Budget, Transfer, TransferFiatToCryptoCom,
      TransferReplyLost, TransferFailed, Wire, bankVars
  <2>2. CASE Payout
    BY <1>1, <2>2, Constants DEF TypesInv, Payout
  <2>3. CASE UNCHANGED vars
    BY <2>3
  <2>4. CASE ~(Transfer \/ Payout \/ UNCHANGED vars)
    <3>1. bank' = bank
      BY <1>1, <2>4 DEF Next, Work, Tick, GetFiatBalance, GetFiatBalanceFailed, Quote,
        SendQuoteRequest, ReceiveQuote, QuoteFailed, Buy, RequestOTCDeal, DealFailed, Deal, Collect,
        WithdrawBTCToLND, WithdrawFailed, Withdraw, WithdrawalConfirmed, PollAgain, GiveUpPolling,
        Fund, FundLNDChannel, FundLNDChannelFailed, ToPeer, OpenChannel, GetLNDBalance, NoExcess,
        OpenExcess, OpenExcessFailed, Crash, Environment, SettleDeals, Broadcast, Complete, Fail,
        Progress, Confirm, OperatorOpens, bankVars
    <3> QED
      BY <1>1, <3>1 DEF TypesInv
  <2> QED
    BY <2>1, <2>2, <2>3, <2>4
<1>2. TypesInv /\ Budget /\ [Next]_vars => [Kept]_vars
  BY <1>1
<1> QED
  BY <1>2, BudgetHolds, PTL DEF Spec, TargetRetained

(* As long as no channel is opened by hand between the worker's reading of *)
(* the balance and its own opening, excess sats are opened down to the     *)
(* target and no further, whatever was opened before or confirms meanwhile *)
(* (checkAndFundLNDChannel).                                               *)
THEOREM ReserveIsKept == ~OperatorRaces => (Spec => ReserveKept)
<1> SUFFICES ASSUME ~OperatorRaces  PROVE Spec => ReserveKept
  OBVIOUS
<1> DEFINE Kept == wallet' < wallet /\ pc = "excess" => wallet' >= LNDChannelTargetSats
<1>1. ASSUME TypesInv, Budget, [Next]_vars PROVE [Kept]_vars
  <2> USE DEF Locations
  <2>1. CASE pc # "excess"
    BY <2>1
  <2>2. CASE pc = "excess" /\ OpenExcess
    BY <1>1, <2>2, Constants DEF TypesInv, Budget, OpenExcess, ToPeer, OpenChannel
  <2>3. CASE pc = "excess" /\ Confirm
    BY <1>1, <2>3 DEF TypesInv, Confirm
  <2>4. CASE UNCHANGED vars
    BY <2>4
  <2>5. CASE pc = "excess" /\ ~(OpenExcess \/ Confirm \/ UNCHANGED vars)
    <3>1. wallet' = wallet
      BY <1>1, <2>5 DEF Next, Work, Tick, GetFiatBalance, GetFiatBalanceFailed, Transfer,
        TransferFiatToCryptoCom, TransferReplyLost, TransferFailed, Quote, SendQuoteRequest,
        ReceiveQuote, QuoteFailed, Buy, RequestOTCDeal, DealFailed, Collect, WithdrawBTCToLND,
        WithdrawFailed, WithdrawalConfirmed, PollAgain, GiveUpPolling, Fund, FundLNDChannel,
        FundLNDChannelFailed, GetLNDBalance, NoExcess, OpenExcessFailed, Crash, Environment, Payout,
        SettleDeals, Broadcast, Complete, Fail, Progress, OperatorOpens, nodeVars
    <3> QED
      BY <1>1, <3>1 DEF TypesInv
  <2> QED
    BY <2>1, <2>2, <2>3, <2>4, <2>5
<1>2. TypesInv /\ Budget /\ [Next]_vars => [Kept]_vars
  BY <1>1
<1> QED
  BY <1>2, BudgetHolds, PTL DEF Spec, ReserveKept

-----------------------------------------------------------------------------
(* What step 6 opens is covered by the withdrawal it was polled for.       *)

\* The withdrawal of the purchase under way.
Mine == withdrawals[wd]

\* A withdrawal that is on the chain and polled is not opened yet: what was
\* opened before was sent before.
Backed ==
  /\ opened <= sent
  /\ pc \in {"poll", "open"} => wd > 0 /\ (Mine.txid => opened + Mine.sats <= sent)
  /\ pc = "open" => Mine.txid /\ size <= Mine.sats

LEMMA MineType ==
  ASSUME TypesInv, wd > 0
  PROVE  Mine \in Withdrawal /\ Mine.sats \in Nat
<1>1. withdrawals \in Seq(Withdrawal) /\ wd \in 1..Len(withdrawals)
  BY DEF TypesInv
<1>2. Mine \in Withdrawal
  BY <1>1 DEF Mine
<1> QED
  BY <1>2 DEF Withdrawal

\* A step that leaves the history and the node alone, and leaves the worker at
\* the withdrawal it was at or takes it away from polling.
LEMMA BackedUntouched ==
  ASSUME TypesInv, Backed, UNCHANGED <<withdrawals, sent, opened>>,
         pc' \in {"poll", "open"} => UNCHANGED <<pc, wd, size>>
  PROVE  Backed'
  BY DEF Backed, Mine

\* The exchange moves a withdrawal on: its amount stays, and what is put on the
\* chain is added to what was sent.
LEMMA BackedProgress ==
  ASSUME TypesInv, Backed, NEW i \in DOMAIN withdrawals,
         Broadcast(i) \/ Complete(i) \/ Fail(i)
  PROVE  Backed'
<1> DEFINE old == withdrawals[i]
<1>1. /\ withdrawals \in Seq(Withdrawal) /\ wd \in 0..Len(withdrawals)
      /\ opened \in Nat /\ sent \in Nat /\ i \in 1..Len(withdrawals)
  BY DEF TypesInv
<1>2. old \in Withdrawal /\ old.sats \in Nat /\ old.txid \in BOOLEAN
  <2>1. old \in Withdrawal
    BY <1>1
  <2> HIDE DEF old
  <2> QED
    BY <2>1 DEF Withdrawal
<1>3. UNCHANGED <<pc, wd, size, opened>>
  BY DEF Broadcast, Complete, Fail, Progress, locals
<1>4. /\ withdrawals'[i].sats = old.sats /\ (old.txid => withdrawals'[i].txid)
      /\ \A j \in 1..Len(withdrawals) \ {i} : withdrawals'[j] = withdrawals[j]
  <2>1. \E w \in Withdrawal : Progress(i, w) /\ w.sats = old.sats /\ (old.txid => w.txid)
    <3>1. /\ Broadcast(i) => Progress(i, [old EXCEPT !.txid = TRUE])
          /\ Complete(i) => Progress(i, [old EXCEPT !.status = "completed"])
          /\ Fail(i) => Progress(i, [old EXCEPT !.status = "failed"])
      BY DEF Broadcast, Complete, Fail
    <3> HIDE DEF old
    <3>2. /\ [old EXCEPT !.txid = TRUE] \in Withdrawal
          /\ [old EXCEPT !.status = "completed"] \in Withdrawal
          /\ [old EXCEPT !.status = "failed"] \in Withdrawal
          /\ [old EXCEPT !.txid = TRUE].sats = old.sats /\ [old EXCEPT !.txid = TRUE].txid
          /\ [old EXCEPT !.status = "completed"].sats = old.sats
          /\ [old EXCEPT !.status = "completed"].txid = old.txid
          /\ [old EXCEPT !.status = "failed"].sats = old.sats
          /\ [old EXCEPT !.status = "failed"].txid = old.txid
      BY <1>2 DEF Withdrawal
    <3> QED
      BY <3>1, <3>2
  <2> HIDE DEF old
  <2>2. PICK w \in Withdrawal : Progress(i, w) /\ w.sats = old.sats /\ (old.txid => w.txid)
    BY <2>1
  <2>3. withdrawals' = [withdrawals EXCEPT ![i] = w]
    BY <2>2 DEF Progress
  <2> QED
    BY <1>1, <2>2, <2>3
<1>5. sent' \in Nat /\ sent' >= sent
      /\ (withdrawals'[i].txid => old.txid \/ sent' = sent + old.sats)
  <2>1. CASE Broadcast(i)
    <3>1. sent' = sent + old.sats
      BY <2>1 DEF Broadcast
    <3> HIDE DEF old
    <3> QED
      BY <1>1, <1>2, <3>1
  <2>2. CASE Complete(i)
    <3>1. sent' = sent /\ withdrawals' = [withdrawals EXCEPT ![i] = [old EXCEPT !.status = "completed"]]
      BY <2>2 DEF Complete, Progress
    <3>2. [old EXCEPT !.status = "completed"].txid = old.txid
      BY <1>1 DEF Withdrawal
    <3>3. withdrawals'[i].txid = old.txid
      BY <1>1, <3>1, <3>2
    <3> QED
      BY <1>1, <3>1, <3>3
  <2>3. CASE Fail(i)
    <3>1. sent' = sent /\ withdrawals' = [withdrawals EXCEPT ![i] = [old EXCEPT !.status = "failed"]]
      BY <2>3 DEF Fail, Progress
    <3>2. [old EXCEPT !.status = "failed"].txid = old.txid
      BY <1>1 DEF Withdrawal
    <3>3. withdrawals'[i].txid = old.txid
      BY <1>1, <3>1, <3>2
    <3> QED
      BY <1>1, <3>1, <3>3
  <2> QED
    BY <2>1, <2>2, <2>3
<1>6. CASE wd = i
  BY <1>1, <1>2, <1>3, <1>4, <1>5, <1>6 DEF Backed, Mine
<1>7. CASE wd # i /\ wd > 0
  <2>1. Mine' = Mine
    BY <1>1, <1>3, <1>4, <1>7 DEF Mine
  <2>2. Mine.sats \in Nat
    BY <1>7, MineType
  <2> QED
    BY <1>1, <1>3, <1>5, <2>1, <2>2 DEF Backed
<1>8. CASE wd = 0
  BY <1>1, <1>3, <1>5, <1>8 DEF Backed
<1> QED
  BY <1>1, <1>6, <1>7, <1>8

LEMMA BackedStep == ASSUME TypesInv, Backed, [Next]_vars PROVE Backed'
<1> USE Constants DEF bankVars, exchangeVars, nodeVars, locals, Goto, Forget, Abandon
<1>1. CASE WithdrawBTCToLND
  <2>1. /\ withdrawals \in Seq(Withdrawal) /\ amount \in Nat /\ opened \in Nat /\ sent \in Nat
    BY DEF TypesInv
  <2>2. /\ withdrawals' = Append(withdrawals, [sats |-> amount, status |-> "pending", txid |-> FALSE])
        /\ wd' = Len(withdrawals') /\ pc' = "poll" /\ UNCHANGED <<opened, sent>>
    BY <1>1 DEF WithdrawBTCToLND, Withdraw
  <2>3. wd' > 0 /\ Mine'.txid = FALSE
    BY <2>1, <2>2 DEF Mine
  <2> QED
    BY <2>2, <2>3 DEF Backed
<1>2. CASE WithdrawFailed
  <2>1. UNCHANGED <<sent, opened>> /\ pc' = "onchain"
    BY <1>2 DEF WithdrawFailed, Withdraw
  <2> QED
    BY <2>1 DEF Backed
<1>3. CASE WithdrawalConfirmed
  <2>1. /\ pc = "poll" /\ pc' = "open" /\ Mine.txid /\ size' \in {Mine.sats, Mine.sats - 1}
        /\ UNCHANGED <<wd, withdrawals, sent, opened>>
    BY <1>3 DEF WithdrawalConfirmed, IsConfirmed, Truncated, Mine
  <2>2. Mine' = Mine
    BY <2>1 DEF Mine
  <2>3. Mine.sats \in Nat
    BY <2>1, MineType DEF Backed
  <2> QED
    BY <2>1, <2>2, <2>3 DEF Backed
<1>4. CASE FundLNDChannel
  <2>1. pc = "open" /\ pc' = "onchain" /\ opened' = opened + size /\ sent' = sent
    BY <1>4 DEF FundLNDChannel, ToPeer, OpenChannel
  <2>2. Mine.sats \in Nat /\ opened \in Nat /\ size \in Nat /\ sent \in Nat
    BY <2>1, MineType DEF TypesInv, Backed
  <2> QED
    BY <2>1, <2>2 DEF Backed
<1>5. CASE \E i \in DOMAIN withdrawals : Broadcast(i) \/ Complete(i) \/ Fail(i)
  BY <1>5, BackedProgress
<1>6. CASE Tick
  BY <1>6, BackedUntouched DEF Tick
<1>7. CASE GetFiatBalance \/ GetFiatBalanceFailed
  BY <1>7, BackedUntouched DEF GetFiatBalance, GetFiatBalanceFailed
<1>8. CASE Transfer
  BY <1>8, BackedUntouched DEF Transfer, TransferFiatToCryptoCom, TransferReplyLost, TransferFailed, Wire
<1>9. CASE Quote
  BY <1>9, BackedUntouched DEF Quote, SendQuoteRequest, ReceiveQuote, QuoteFailed
<1>10. CASE RequestOTCDeal \/ DealFailed
  BY <1>10, BackedUntouched DEF RequestOTCDeal, DealFailed, Deal
<1>11. CASE PollAgain \/ GiveUpPolling
  BY <1>11, BackedUntouched DEF PollAgain, GiveUpPolling
<1>12. CASE FundLNDChannelFailed
  BY <1>12, BackedUntouched DEF FundLNDChannelFailed
<1>13. CASE GetLNDBalance \/ NoExcess
  BY <1>13, BackedUntouched DEF GetLNDBalance, NoExcess
<1>14. CASE OpenExcess \/ OpenExcessFailed
  BY <1>14, BackedUntouched DEF OpenExcess, OpenExcessFailed, ToPeer, OpenChannel
<1>15. CASE Crash
  BY <1>15, BackedUntouched DEF Crash
<1>16. CASE Payout \/ SettleDeals \/ Confirm \/ OperatorOpens
  BY <1>16, BackedUntouched DEF Payout, SettleDeals, Confirm, OperatorOpens, OpenChannel
<1>17. CASE UNCHANGED vars
  BY <1>17, BackedUntouched DEF vars
<1> QED
  BY <1>1, <1>2, <1>3, <1>4, <1>5, <1>6, <1>7, <1>8, <1>9, <1>10, <1>11, <1>12, <1>13, <1>14,
    <1>15, <1>16, <1>17
  DEF Next, Work, Buy, Collect, Fund, Environment

(* However the exchange's withdrawals overlap with purchases given up and  *)
(* with crashes, step 6 opens channels only with sats that the purchases'  *)
(* own withdrawals have put on the chain (pollWithdrawal, fundLNDChannel). *)
THEOREM OpeningsAreBacked == Spec => []OpensWhatWasSent
<1>1. Init => Backed
  BY DEF Init, Backed
<1>2. TypesInv /\ Budget /\ Backed /\ [Next]_vars => Backed'
  BY BackedStep
<1>3. Backed => OpensWhatWasSent
  BY DEF Backed, OpensWhatWasSent
<1> QED
  BY <1>1, <1>2, <1>3, BudgetHolds, PTL DEF Spec
=============================================================================
