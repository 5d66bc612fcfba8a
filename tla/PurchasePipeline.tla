-------------------------- MODULE PurchasePipeline --------------------------
(***************************************************************************)
(* The treasury monitor: a loop that wires excess fiat to the exchange,    *)
(* buys BTC with it, withdraws the BTC to the LND node and opens Lightning *)
(* channels (cmd/worker/treasury_monitor/main.go, internal/treasury).  One *)
(* action is one call to the bank, the exchange or LND.  The progress of a *)
(* purchase is in the locals of executePurchasePipeline alone: an error or *)
(* a crash forgets it.                                                     *)
(*                                                                         *)
(* Amounts are counted in one unit: cents and the BTC they buy at the      *)
(* quoted price.  The exchange honours a firm quote whether or not the     *)
(* wire has arrived, so fiat is not followed beyond the bank.              *)
(***************************************************************************)
EXTENDS Integers, Sequences

CONSTANTS
  FloorCents, TargetCents,                         \* ThresholdTrigger
  LNDChannelThresholdSats, LNDChannelTargetSats,   \* treasury.Config
  MaxPolls,      \* polls of a withdrawal (60 in the code)
  Bank,          \* fiat balance at the start
  Wallet,        \* confirmed on-chain balance at the start
  Deposits,      \* sizes of payouts to the bank account
  OperatorSizes, \* sizes of the channels the operator opens by hand
  OperatorRaces, \* whether one may be opened between the worker's reading of the
                 \* balance and its own opening
  MaxDeposits,   \* bound: payouts
  MaxCrashes     \* bound: crashes of the worker

ASSUME PurchaseAssumption ==
  /\ {FloorCents, TargetCents, LNDChannelThresholdSats, LNDChannelTargetSats} \subseteq Nat
  /\ MaxPolls \in Nat \ {0}
  /\ Bank \in Nat /\ Wallet \in Nat /\ Deposits \subseteq Nat \ {0}
  /\ OperatorSizes \subseteq Int /\ OperatorRaces \in BOOLEAN
  /\ MaxDeposits \in Nat /\ MaxCrashes \in Nat

VARIABLES
  pc,          \* the next call of the worker
  spend,       \* amountCents of the purchase under way
  quoted,      \* fiat amount of the quote received
  amount,      \* btcAmount of the deal
  wd,          \* the withdrawal being polled, 0 for none
  polls,       \* polls made
  size,        \* localAmtSats of the channel to open
  bank,        \* Qonto: authorized balance (it includes pending debits)
  wired,       \* Qonto: sum of the transfers accepted
  payouts,     \* Qonto: deposits made
  requests,    \* exchange: notionals of the quote requests received
  dealt,       \* exchange: sum of the fiat of the deals accepted
  ordered,     \* exchange: BTC of accepted deals that are not settled
  btc,         \* exchange: BTC balance
  withdrawals, \* exchange: withdrawal history
  sent,        \* chain: sum of the withdrawals broadcast
  unconfirmed, \* LND: on-chain sats without a confirmation
  wallet,      \* LND: confirmed on-chain balance
  opened,      \* LND: sats that step 6 put into channels
  peered,      \* a peer is configured, or some channel is open
  crashes

locals == <<spend, quoted, amount, wd, polls, size>>
bankVars == <<bank, wired, payouts>>
exchangeVars == <<requests, dealt, ordered, btc, withdrawals>>
nodeVars == <<sent, unconfirmed, wallet, opened, peered>>
vars == <<pc, locals, bankVars, exchangeVars, nodeVars, crashes>>

Locations == {"idle", "fiat", "transfer", "quote", "wait", "deal", "withdraw",
              "poll", "open", "onchain", "excess"}
Withdrawal == [sats : Nat, status : {"pending", "completed", "failed"}, txid : BOOLEAN]

TypeOK ==
  /\ pc \in Locations
  /\ {spend, quoted, amount, size} \subseteq Nat /\ polls \in 0..(MaxPolls - 1)
  /\ {bank, wired, payouts, dealt, ordered, btc} \subseteq Nat
  /\ requests \in Seq(Nat) /\ withdrawals \in Seq(Withdrawal) /\ wd \in 0..Len(withdrawals)
  /\ {sent, unconfirmed, wallet, opened, crashes} \subseteq Nat
  /\ peered \in BOOLEAN

Init ==
  /\ pc = "idle"
  /\ spend = 0 /\ quoted = 0 /\ amount = 0 /\ wd = 0 /\ polls = 0 /\ size = 0
  /\ bank = Bank /\ wired = 0 /\ payouts = 0
  /\ requests = <<>> /\ dealt = 0 /\ ordered = 0 /\ btc = 0 /\ withdrawals = <<>>
  /\ sent = 0 /\ unconfirmed = 0 /\ wallet = Wallet /\ opened = 0
  /\ peered \in BOOLEAN
  /\ crashes = 0

Goto(l) == pc' = l

\* The locals of executePurchasePipeline go out of scope.
Forget ==
  /\ spend' = 0 /\ quoted' = 0 /\ amount' = 0
  /\ wd' = 0 /\ polls' = 0 /\ size' = 0

\* It returns; checkAndFundLNDChannel is next.
Abandon ==
  /\ Goto("onchain")
  /\ Forget

-----------------------------------------------------------------------------
(* checkAndPurchase                                                        *)

\* The first turn of runLoop, or a tick.
Tick ==
  /\ pc = "idle"
  /\ Goto("fiat")
  /\ UNCHANGED <<locals, bankVars, exchangeVars, nodeVars, crashes>>

\* Mutant: it is the amount to spend that is compared with the floor.
MutShouldPurchase(balance) ==
  IF balance - TargetCents <= FloorCents \/ balance <= TargetCents THEN 0 ELSE balance - TargetCents

\* ThresholdTrigger.ShouldPurchase: the amount, 0 for no purchase.
ShouldPurchase(balance) ==
  IF balance <= FloorCents \/ balance <= TargetCents THEN 0 ELSE balance - TargetCents

GetFiatBalance ==
  /\ pc = "fiat"
  /\ spend' = ShouldPurchase(bank)
  /\ Goto(IF spend' = 0 THEN "onchain" ELSE "transfer")
  /\ UNCHANGED <<quoted, amount, wd, polls, size, bankVars, exchangeVars, nodeVars, crashes>>

GetFiatBalanceFailed ==
  /\ pc = "fiat"
  /\ Abandon
  /\ UNCHANGED <<bankVars, exchangeVars, nodeVars, crashes>>

-----------------------------------------------------------------------------
(* executePurchasePipeline                                                 *)

\* The bank has accepted a POST to /sepa/transfers.
Wire ==
  /\ bank >= spend
  /\ bank' = bank - spend
  /\ wired' = wired + spend
  /\ UNCHANGED <<payouts, exchangeVars, nodeVars, crashes>>

\* Step 1.  The status is pending: nobody looks whether the wire arrives.
TransferFiatToCryptoCom ==
  /\ pc = "transfer"
  /\ Wire
  /\ Goto("quote")
  /\ UNCHANGED locals

\* Mutant: a transfer whose reply is lost is sent again, under a new key.
MutTransferAgain == pc = "transfer" /\ Wire /\ UNCHANGED <<pc, locals>>

TransferReplyLost ==
  /\ pc = "transfer"
  /\ Wire
  /\ Abandon

\* Mutant: a failed transfer does not end the purchase.
MutTransferFailureIgnored ==
  /\ pc = "transfer"
  /\ Goto("quote")
  /\ UNCHANGED <<locals, bankVars, exchangeVars, nodeVars, crashes>>

\* GetAccount, the verification of the payee or the POST fails: the name
\* does not match, there is no proof token, or the bank refuses.
TransferFailed ==
  /\ pc = "transfer"
  /\ Abandon
  /\ UNCHANGED <<bankVars, exchangeVars, nodeVars, crashes>>

\* Step 2: dial, authenticate, subscribe and send the request.
SendQuoteRequest ==
  /\ pc = "quote"
  /\ requests' = Append(requests, spend)
  /\ Goto("wait")
  /\ UNCHANGED <<locals, bankVars, dealt, ordered, btc, withdrawals, nodeVars, crashes>>

\* Mutant: the first quote that comes is taken.
MutAnyQuote(r) == TRUE

\* ClQuoteReqID: the quote pushed answers the request just made.
AnswersLast(r) == r = Len(requests)

\* The channel carries quotes for earlier requests too: they are skipped,
\* and so are heartbeats.
ReceiveQuote ==
  /\ pc = "wait"
  /\ \E r \in DOMAIN requests : AnswersLast(r) /\ quoted' = requests[r]
  /\ Goto("deal")
  /\ UNCHANGED <<spend, amount, wd, polls, size, bankVars, exchangeVars, nodeVars, crashes>>

\* An error on the socket, or none of the quotes matches within 30 s.
QuoteFailed ==
  /\ pc \in {"quote", "wait"}
  /\ Abandon
  /\ UNCHANGED <<bankVars, exchangeVars, nodeVars, crashes>>

\* The exchange has taken a deal at the price of the quote.
Deal ==
  /\ dealt' = dealt + quoted
  /\ ordered' = ordered + quoted
  /\ UNCHANGED <<bankVars, requests, btc, withdrawals, nodeVars, crashes>>

\* Step 3.  The status in the answer is logged only: a rejected deal whose
\* leg has a quantity goes on like an accepted one.
RequestOTCDeal ==
  /\ pc = "deal"
  /\ Deal \/ UNCHANGED <<bankVars, exchangeVars, nodeVars, crashes>>
  /\ amount' = quoted
  /\ Goto("withdraw")
  /\ UNCHANGED <<spend, quoted, wd, polls, size>>

\* The call fails, its reply is lost, or no leg of the answer carries a
\* quantity.
DealFailed ==
  /\ pc = "deal"
  /\ Deal \/ UNCHANGED <<bankVars, exchangeVars, nodeVars, crashes>>
  /\ Abandon

Withdraw ==
  /\ btc >= amount
  /\ btc' = btc - amount
  /\ withdrawals' = Append(withdrawals, [sats |-> amount, status |-> "pending", txid |-> FALSE])
  /\ UNCHANGED <<bankVars, requests, dealt, ordered, nodeVars, crashes>>

\* Step 4: a new address of the node, then the withdrawal.
WithdrawBTCToLND ==
  /\ pc = "withdraw"
  /\ Withdraw
  /\ wd' = Len(withdrawals')
  /\ Goto("poll")
  /\ UNCHANGED <<spend, quoted, amount, polls, size>>

\* No address, a refusal (the deal is not settled yet), or a lost reply.
WithdrawFailed ==
  /\ pc = "withdraw"
  /\ Withdraw \/ UNCHANGED <<bankVars, exchangeVars, nodeVars, crashes>>
  /\ Abandon

\* Mutant: the transaction id is not looked at.
MutCompleted(w) == w.status = "completed"

IsConfirmed(w) == w.status = "completed" /\ w.txid

\* int64(confirmed.Amount * 1e8) truncates a float.
Truncated(a) == {a, a - 1} \cap Nat

\* Step 5, every 30 s.
WithdrawalConfirmed ==
  /\ pc = "poll"
  /\ IsConfirmed(withdrawals[wd])
  /\ size' \in Truncated(withdrawals[wd].sats)
  /\ Goto("open")
  /\ UNCHANGED <<spend, quoted, amount, wd, polls, bankVars, exchangeVars, nodeVars, crashes>>

\* Mutant: the worker polls until the withdrawal is confirmed.
MutPollForever == pc = "poll" /\ UNCHANGED vars

\* Mutant: the bound is checked one poll too late.
MutOnePollMore ==
  /\ pc = "poll"
  /\ polls < MaxPolls
  /\ polls' = polls + 1
  /\ UNCHANGED <<pc, spend, quoted, amount, wd, size, bankVars, exchangeVars, nodeVars, crashes>>

\* The call fails or the withdrawal is not confirmed; one that has failed
\* for good looks no different.
PollAgain ==
  /\ pc = "poll"
  /\ polls + 1 < MaxPolls
  /\ polls' = polls + 1
  /\ UNCHANGED <<pc, spend, quoted, amount, wd, size, bankVars, exchangeVars, nodeVars, crashes>>

GiveUpPolling ==
  /\ pc = "poll"
  /\ polls + 1 = MaxPolls
  /\ Abandon
  /\ UNCHANGED <<bankVars, exchangeVars, nodeVars, crashes>>

\* LND takes a channel of a sats: from confirmed coins, whichever they are.
OpenChannel(a) ==
  /\ a > 0 /\ wallet >= a
  /\ wallet' = wallet - a
  /\ UNCHANGED <<sent, unconfirmed, bankVars, exchangeVars, crashes>>

\* To the peer configured, or to the busiest peer of the open channels.
ToPeer(a) == peered /\ OpenChannel(a) /\ UNCHANGED peered

\* Step 6.  "Confirmed" is the exchange's word for broadcast: the sats may
\* not be spendable yet, and then the channel is paid from others or refused.
FundLNDChannel ==
  /\ pc = "open"
  /\ ToPeer(size) /\ opened' = opened + size
  /\ Abandon

\* No peer (a no-op), no connection, or a refusal: the sats stay in the wallet.
FundLNDChannelFailed ==
  /\ pc = "open"
  /\ Abandon
  /\ UNCHANGED <<bankVars, exchangeVars, nodeVars, crashes>>

-----------------------------------------------------------------------------
(* checkAndFundLNDChannel                                                  *)

\* Mutant: sats without a confirmation are counted.
MutTotalBalance == wallet + unconfirmed

OnChainConfirmedSats == wallet

\* Mutant: it is the excess that is compared with the threshold.
MutThresholdOfExcess ==
  /\ pc = "onchain"
  /\ wallet - LNDChannelTargetSats > LNDChannelThresholdSats
  /\ size' = wallet - LNDChannelTargetSats
  /\ Goto("excess")
  /\ UNCHANGED <<spend, quoted, amount, wd, polls, bankVars, exchangeVars, nodeVars, crashes>>

\* The sats above the target, when the balance is above the threshold; a
\* threshold of 0 turns it off.
GetLNDBalance ==
  /\ pc = "onchain"
  /\ LNDChannelThresholdSats # 0
  /\ OnChainConfirmedSats > LNDChannelThresholdSats
  /\ OnChainConfirmedSats > LNDChannelTargetSats
  /\ size' = OnChainConfirmedSats - LNDChannelTargetSats
  /\ Goto("excess")
  /\ UNCHANGED <<spend, quoted, amount, wd, polls, bankVars, exchangeVars, nodeVars, crashes>>

\* Nothing above the threshold, or the balances cannot be read.
NoExcess ==
  /\ pc = "onchain"
  /\ Goto("idle")
  /\ UNCHANGED <<locals, bankVars, exchangeVars, nodeVars, crashes>>

OpenExcess ==
  /\ pc = "excess"
  /\ ToPeer(size) /\ UNCHANGED opened
  /\ Goto("idle")
  /\ Forget

OpenExcessFailed ==
  /\ pc = "excess"
  /\ Goto("idle")
  /\ Forget
  /\ UNCHANGED <<bankVars, exchangeVars, nodeVars, crashes>>

-----------------------------------------------------------------------------

\* The process is killed (a signal is only looked at between ticks, and then
\* there is nothing to forget) and started again.
Crash ==
  /\ crashes < MaxCrashes /\ pc # "idle"
  /\ crashes' = crashes + 1
  /\ Goto("idle")
  /\ Forget
  /\ UNCHANGED <<bankVars, exchangeVars, nodeVars>>

\* Sales are paid out to the bank account.
Payout ==
  /\ payouts < MaxDeposits
  /\ payouts' = payouts + 1
  /\ \E d \in Deposits : bank' = bank + d
  /\ UNCHANGED <<pc, locals, wired, exchangeVars, nodeVars, crashes>>

\* The exchange delivers what was bought, or rejects after all.
SettleDeals ==
  /\ ordered > 0
  /\ btc' \in {btc, btc + ordered}
  /\ ordered' = 0
  /\ UNCHANGED <<pc, locals, bankVars, requests, dealt, withdrawals, nodeVars, crashes>>

Progress(i, w) ==
  /\ withdrawals' = [withdrawals EXCEPT ![i] = w]
  /\ UNCHANGED <<pc, locals, bankVars, requests, dealt, ordered, wallet, opened, peered, crashes>>

Broadcast(i) ==
  /\ withdrawals[i].status # "failed" /\ ~withdrawals[i].txid
  /\ Progress(i, [withdrawals[i] EXCEPT !.txid = TRUE])
  /\ sent' = sent + withdrawals[i].sats
  /\ unconfirmed' = unconfirmed + withdrawals[i].sats
  /\ UNCHANGED btc

Complete(i) ==
  /\ withdrawals[i].status = "pending"
  /\ Progress(i, [withdrawals[i] EXCEPT !.status = "completed"])
  /\ UNCHANGED <<sent, unconfirmed, btc>>

\* Rejected, failed or cancelled.
Fail(i) ==
  /\ withdrawals[i].status = "pending" /\ ~withdrawals[i].txid
  /\ Progress(i, [withdrawals[i] EXCEPT !.status = "failed"])
  /\ btc' = btc + withdrawals[i].sats
  /\ UNCHANGED <<sent, unconfirmed>>

Confirm ==
  /\ unconfirmed > 0
  /\ wallet' = wallet + unconfirmed
  /\ unconfirmed' = 0
  /\ UNCHANGED <<pc, locals, bankVars, exchangeVars, sent, opened, peered, crashes>>

\* handler.openChannel: the operator opens a channel by hand, the first one
\* above all.  LND has no way to open only down to a balance: a race with
\* the worker's opening takes both amounts.
OperatorOpens ==
  /\ pc = "excess" => OperatorRaces
  /\ \E a \in OperatorSizes : OpenChannel(a)
  /\ peered' = TRUE
  /\ UNCHANGED <<pc, locals, opened>>

-----------------------------------------------------------------------------

Transfer == TransferFiatToCryptoCom \/ TransferReplyLost \/ TransferFailed
Quote == SendQuoteRequest \/ ReceiveQuote \/ QuoteFailed
Buy == RequestOTCDeal \/ DealFailed
Collect == WithdrawBTCToLND \/ WithdrawFailed \/ WithdrawalConfirmed \/ PollAgain \/ GiveUpPolling
Fund == FundLNDChannel \/ FundLNDChannelFailed
Work ==
  \/ GetFiatBalance \/ GetFiatBalanceFailed \/ Transfer \/ Quote \/ Buy \/ Collect
  \/ Fund \/ GetLNDBalance \/ NoExcess \/ OpenExcess \/ OpenExcessFailed

Environment ==
  \/ Payout \/ SettleDeals \/ Confirm \/ OperatorOpens
  \/ \E i \in DOMAIN withdrawals : Broadcast(i) \/ Complete(i) \/ Fail(i)

Next == Tick \/ Work \/ Crash \/ Environment

Spec == Init /\ [][Next]_vars

\* The ticker ticks, and every call of the worker answers or fails: HTTP
\* calls and the quote have deadlines, LND is taken to answer.  The bank and
\* the node do not fail every call of the same kind for ever: the bank
\* accepts a transfer now and then.  The comment above
\* executePurchasePipeline says that "step 1 (SEPA transfer) currently
\* returns an error"; SendTransfer as it is has no such error to return.
Fairness ==
  /\ WF_vars(Tick) /\ WF_vars(Work)
  /\ SF_vars(GetFiatBalance) /\ SF_vars(TransferFiatToCryptoCom)
  /\ SF_vars(GetLNDBalance) /\ SF_vars(OpenExcess)

FairSpec == Spec /\ Fairness

-----------------------------------------------------------------------------

(* The exchange is never asked for more BTC than fiat was wired for,       *)
(* whatever replies were lost, quotes came late, or purchases were         *)
(* abandoned: every deal has its own accepted transfer, of its amount.     *)
DealsAreWired == dealt <= wired

(* "balance to retain after the purchase": no transfer takes the account   *)
(* below TargetCents, neither one repeated after a lost reply or a crash.  *)
TargetRetained == [][bank' < bank => bank' >= TargetCents]_vars

(* A purchase opens channels only with sats that its withdrawals have put  *)
(* on the chain.                                                           *)
OpensWhatWasSent == opened <= sent

(* "the on-chain balance to keep in LND after opening a channel": excess   *)
(* sats are opened down to the target and no further, though the purchase  *)
(* before has just opened a channel and deposits are arriving, unless the  *)
(* operator races.  Step 6 of a purchase does not look at the target.      *)
ReserveKept ==
  [][wallet' < wallet /\ pc = "excess" => wallet' >= LNDChannelTargetSats]_vars

(* The loop always comes back to its ticker: a purchase cannot block the   *)
(* worker, even when its withdrawal never completes.                       *)
LoopReturns == pc # "idle" ~> pc = "idle"

(* Fiat above the floor is wired in the end, if the bank accepts transfers *)
(* at all: failed readings and transfers are made up for at a later tick   *)
(* (ThresholdTrigger, checkAndPurchase).                                   *)
FiatIsSpent == TargetCents <= FloorCents => (bank > FloorCents ~> bank <= FloorCents)

(* "checkAndFundLNDChannel will retry": sats above the threshold reach a   *)
(* channel once there is a peer, also those of purchases given up.         *)
ExcessIsOpened ==
  (LNDChannelThresholdSats # 0 /\ LNDChannelTargetSats <= LNDChannelThresholdSats) =>
    (peered /\ wallet > LNDChannelThresholdSats ~> wallet <= LNDChannelThresholdSats)
=============================================================================
