------------------------------ MODULE FundCard ------------------------------
(***************************************************************************)
(* The fund_card worker: messages from the fund_card stream are turned     *)
(* into a reservation of treasury sats for a card                          *)
(* (cmd/worker/fund_card/main.go processMessage, Service.FundCard).        *)
(* Several workers run at once; they share the stream (StreamQueue), the   *)
(* card rows and the transactions in PostgreSQL, the treasury lock in      *)
(* Redis and the balances of the LND node.  One action is one call to one  *)
(* of them.                                                                *)
(*                                                                         *)
(* The treasury cache key that FundCard deletes at the end is the state of *)
(* TreasuryCache and is not repeated here.                                 *)
(***************************************************************************)
EXTENDS StreamQueue, Sequences, FiniteSets, Functions, PriceProvider

CONSTANTS
  Cards,        \* gift cards
  MaxCopies,    \* bound: messages published for each card
  Net,          \* FundCardMessage.NetFiatAmountCents of each card
  Provider,     \* the price provider ("cryptocom" in the code)
  Replies,      \* its possible replies
  Treasury,     \* sats the LND node owns at the start
  RoutingFee,   \* sats a Lightning payment costs on top of its amount
  MaxAttempts,  \* attempts of retryWithBackoff (3 in the code)
  MaxFunds,     \* bound: fund transactions of one card
  None          \* nobody

ASSUME FundAssumption ==
  /\ IsFiniteSet(Cards)
  /\ MaxCopies \in [Cards -> Nat]
  /\ Net \in [Cards -> Int]
  /\ Provider \in Providers /\ Replies \subseteq Reply
  /\ Treasury \in Nat /\ RoutingFee \in Nat
  /\ MaxAttempts \in Nat \ {0} /\ MaxFunds \in Nat
  /\ None \notin Workers

VARIABLES
  stream,    \* FundCardMessage.CardID of each entry published
  status,    \* cards.status
  sats,      \* cards.btc_amount_sats
  reserved,  \* SUM(btc_amount_sats) of the cards that are active or funding
  funds,     \* transactions: number of fund rows of each card
  lock,      \* Redis key treasury:lock: the worker that set it
  channel,   \* LND: local balance of the channels
  wallet,    \* LND: confirmed on-chain balance
  opening,   \* LND: sats of channels being opened, in neither balance
  owed,      \* sats paid out for a card and not yet debited from it
  left,      \* the balance that debit will write
  pc,        \* the next call each worker makes
  want,      \* satoshis computed from the message and the price
  seen,      \* treasury balance a worker has read so far
  attempt,   \* failed attempts of the database write
  ok         \* whether processMessage is going to return nil

cardVars == <<status, sats, reserved, funds>>
lndVars == <<channel, wallet, opening, owed, left>>
workVars == <<want, seen, attempt, ok>>
streamVars == <<queueVars, stream>>
vars == <<streamVars, cardVars, lndVars, lock, pc, workVars>>

HoldingLock == {"channel", "wallet", "reserved", "activate", "revert", "release"}
Locations == {"idle", "price", "load", "mark", "lock", "undo", "finish"} \cup HoldingLock

\* GetTotalReservedBalance: what the model counts is what the query computes.
ReservedIsTheSum ==
  reserved = SumFunctionOnSet(sats, {c \in Cards : status[c] \in {"active", "funding"}})

TypeOK ==
  /\ QueueTypeOK
  /\ stream \in Seq(Cards) /\ Len(stream) = published
  /\ status \in [Cards -> {"created", "funding", "active", "redeemed"}]
  /\ sats \in [Cards -> Nat]
  /\ reserved \in Nat /\ ReservedIsTheSum
  /\ funds \in [Cards -> Nat]
  /\ lock \in Workers \cup {None}
  /\ channel \in Nat /\ wallet \in Nat /\ opening \in Nat
  /\ owed \in [Cards -> Nat] /\ left \in [Cards -> Nat]
  /\ pc \in [Workers -> Locations]
  /\ want \in [Workers -> Nat]
  /\ seen \in [Workers -> Int]
  /\ attempt \in [Workers -> 0..MaxAttempts]
  /\ ok \in [Workers -> BOOLEAN]

Init ==
  /\ QueueInit
  /\ stream = <<>>
  /\ status = [c \in Cards |-> "created"]
  /\ sats = [c \in Cards |-> 0]
  /\ reserved = 0
  /\ funds = [c \in Cards |-> 0]
  /\ lock = None
  /\ channel \in 0..Treasury
  /\ wallet = Treasury - channel
  /\ opening = 0
  /\ owed = [c \in Cards |-> 0]
  /\ left = [c \in Cards |-> 0]
  /\ pc = [w \in Workers |-> "idle"]
  /\ want = [w \in Workers |-> 0]
  /\ seen = [w \in Workers |-> 0]
  /\ attempt = [w \in Workers |-> 0]
  /\ ok = [w \in Workers |-> FALSE]

CardOf(w) == stream[Oldest(w)]
Quotes == {GetPrice(Provider, reply) : reply \in Replies}

\* What a card is worth; NaN, which becomes a negative int64, is worth nothing.
Sats(c, quote) == IF quote.kind = "price" THEN Net[c] \div quote.price ELSE 0
Usable(quote) == quote.kind \in {"price", "nan"}

Goto(w, to) == pc' = [pc EXCEPT ![w] = to]
Returns(w, nil) == ok' = [ok EXCEPT ![w] = nil]

\* The error path before the treasury lock is taken: the message stays
\* pending.
FailEarly(w) ==
  /\ Returns(w, FALSE)
  /\ Goto(w, "finish")
  /\ UNCHANGED <<streamVars, lndVars, lock, want, seen, attempt>>

\* What a card adds to GetTotalReservedBalance.
Reserves(st, amount) == IF st \in {"active", "funding"} THEN amount ELSE 0

\* cardRepo.Update: amount replaces btc_amount_sats (COALESCE keeps it when
\* the caller passes nil); the reserved total is what the query will return.
UpdateCard(c, st, amount) ==
  /\ status' = [status EXCEPT ![c] = st]
  /\ sats' = [sats EXCEPT ![c] = amount]
  /\ reserved' = reserved - Reserves(status[c], sats[c]) + Reserves(st, amount)

-----------------------------------------------------------------------------
(* The consume loop and processMessage.                                    *)

Read(w) ==
  /\ pc[w] = "idle"
  /\ ReadGroup(w) \/ Reclaim(w)
  /\ Goto(w, IF batch'[w] = {} THEN "idle" ELSE "price")
  /\ UNCHANGED <<stream, cardVars, lndVars, lock, workVars>>

\* A message that does not validate (net amount not positive).
RefuseMessage(w) ==
  /\ pc[w] = "price"
  /\ Net[CardOf(w)] <= 0
  /\ FailEarly(w)
  /\ UNCHANGED cardVars

PriceUnavailable(w) ==
  /\ pc[w] = "price"
  /\ Net[CardOf(w)] > 0
  /\ Failed \in Quotes
  /\ FailEarly(w)
  /\ UNCHANGED cardVars

\* The amount is worth less than one satoshi: acknowledged and dropped.
DropMessage(w) ==
  /\ pc[w] = "price"
  /\ Net[CardOf(w)] > 0
  /\ \E q \in Quotes : Usable(q) /\ Sats(CardOf(w), q) = 0
  /\ Returns(w, TRUE)
  /\ Goto(w, "finish")
  /\ UNCHANGED <<streamVars, cardVars, lndVars, lock, want, seen, attempt>>

FetchPrice(w) ==
  /\ pc[w] = "price"
  /\ \E q \in Quotes : /\ Sats(CardOf(w), q) > 0
                       /\ want' = [want EXCEPT ![w] = Sats(CardOf(w), q)]
  /\ Goto(w, "load")
  /\ UNCHANGED <<streamVars, cardVars, lndVars, lock, seen, attempt, ok>>

-----------------------------------------------------------------------------
(* Service.FundCard, steps 1 and 2.                                        *)

LoadFailed(w) ==
  /\ pc[w] = "load"
  /\ "fault" \in Env
  /\ FailEarly(w)
  /\ UNCHANGED cardVars

\* "Card already processed, skipping".
SkipCard(w) ==
  /\ pc[w] = "load"
  /\ status[CardOf(w)] # "created"
  /\ Returns(w, TRUE)
  /\ Goto(w, "finish")
  /\ UNCHANGED <<streamVars, cardVars, lndVars, lock, want, seen, attempt>>

\* Mutant: the status is not looked at.
MutLoadAnyCard(w) ==
  /\ pc[w] = "load"
  /\ Goto(w, "mark")
  /\ UNCHANGED <<streamVars, cardVars, lndVars, lock, workVars>>

LoadCard(w) ==
  /\ pc[w] = "load"
  /\ status[CardOf(w)] = "created"
  /\ Goto(w, "mark")
  /\ UNCHANGED <<streamVars, cardVars, lndVars, lock, workVars>>

\* The UPDATE does not look at the status it replaces.
MarkFunding(w) ==
  /\ pc[w] = "mark"
  /\ UpdateCard(CardOf(w), "funding", sats[CardOf(w)])
  /\ Goto(w, "lock")
  /\ UNCHANGED <<streamVars, funds, lndVars, lock, workVars>>

MarkFailed(w) ==
  /\ pc[w] = "mark"
  /\ \/ "fault" \in Env /\ UNCHANGED cardVars
     \/ "lost" \in Env /\ UpdateCard(CardOf(w), "funding", sats[CardOf(w)]) /\ UNCHANGED funds
  /\ FailEarly(w)

-----------------------------------------------------------------------------
(* Steps 3 and 4: the treasury lock and the three reads under it.          *)

AcquireTreasuryLock(w) ==
  /\ pc[w] = "lock"
  /\ lock = None
  /\ lock' = w
  /\ Goto(w, "channel")
  /\ UNCHANGED <<streamVars, cardVars, lndVars, workVars>>

\* Busy, or SetNX failed; if only its reply was lost the key stays behind.
TreasuryLockRefused(w) ==
  /\ pc[w] = "lock"
  /\ \/ (lock # None \/ "fault" \in Env) /\ UNCHANGED lock
     \/ "lost" \in Env /\ lock = None /\ lock' = w
  /\ Goto(w, "undo")
  /\ UNCHANGED <<streamVars, cardVars, lndVars, workVars>>

GetChannelBalance(w) ==
  /\ pc[w] = "channel"
  /\ seen' = [seen EXCEPT ![w] = channel]
  /\ Goto(w, "wallet")
  /\ UNCHANGED <<streamVars, cardVars, lndVars, lock, want, attempt, ok>>

GetWalletBalance(w) ==
  /\ pc[w] = "wallet"
  /\ seen' = [seen EXCEPT ![w] = @ + wallet]
  /\ Goto(w, "reserved")
  /\ UNCHANGED <<streamVars, cardVars, lndVars, lock, want, attempt, ok>>

\* Mutant: the balance is compared without the amount to reserve.
MutReserveAnything(w) ==
  /\ pc[w] = "reserved"
  /\ seen[w] - reserved >= 0
  /\ attempt' = [attempt EXCEPT ![w] = 0]
  /\ Goto(w, "activate")
  /\ UNCHANGED <<streamVars, cardVars, lndVars, lock, want, seen, ok>>

\* GetTotalReservedBalance, and the comparison with what is left.
CheckAvailable(w) ==
  /\ pc[w] = "reserved"
  /\ seen[w] - reserved >= want[w]
  /\ attempt' = [attempt EXCEPT ![w] = 0]
  /\ Goto(w, "activate")
  /\ UNCHANGED <<streamVars, cardVars, lndVars, lock, want, seen, ok>>

\* Not enough left (a negative balance included), or one of the reads failed.
TreasuryRefused(w) ==
  /\ \/ pc[w] = "reserved" /\ seen[w] - reserved < want[w]
     \/ pc[w] \in {"channel", "wallet", "reserved"} /\ "fault" \in Env
  /\ Goto(w, "revert")
  /\ UNCHANGED <<streamVars, cardVars, lndVars, lock, workVars>>

-----------------------------------------------------------------------------
(* Steps 5 and 6: retryWithBackoff around RunInTx{UPDATE card, INSERT      *)
(* fund transaction}.                                                      *)

\* The fund row has a fresh id and neither tx_hash nor payment_hash, so no
\* constraint notices a second one.
Activate(w) ==
  /\ funds[CardOf(w)] < MaxFunds
  /\ UpdateCard(CardOf(w), "active", want[w])
  /\ funds' = [funds EXCEPT ![CardOf(w)] = @ + 1]

\* Mutant: one attempt too many.
MutAttemptOffByOne(w) ==
  /\ attempt' = [attempt EXCEPT ![w] = @ + 1]
  /\ Goto(w, IF attempt[w] <= MaxAttempts THEN "activate" ELSE "revert")

AttemptFailed(w) ==
  /\ attempt' = [attempt EXCEPT ![w] = @ + 1]
  /\ Goto(w, IF attempt[w] + 1 < MaxAttempts THEN "activate" ELSE "revert")

ActivateCard(w) ==
  /\ pc[w] = "activate"
  /\ Activate(w)
  /\ Returns(w, TRUE)
  /\ Goto(w, "release")
  /\ UNCHANGED <<streamVars, lndVars, lock, want, seen, attempt>>

ActivateFailed(w) ==
  /\ pc[w] = "activate"
  /\ \/ "fault" \in Env /\ UNCHANGED cardVars
     \/ "lost" \in Env /\ Activate(w)
  /\ AttemptFailed(w)
  /\ UNCHANGED <<streamVars, lndVars, lock, want, seen, ok>>

-----------------------------------------------------------------------------
(* revertCardToCreated, the deferred ReleaseTreasuryLock, and the return   *)
(* to the queue.                                                           *)

\* Mutant: the error path leaves the card in status funding.
MutNoRevert(w) ==
  /\ pc[w] \in {"undo", "revert"}
  /\ UNCHANGED cardVars
  /\ Returns(w, FALSE)
  /\ Goto(w, IF pc[w] = "undo" THEN "finish" ELSE "release")
  /\ UNCHANGED <<streamVars, lndVars, lock, want, seen, attempt>>

\* The UPDATE does not look at the status it replaces; its error is logged.
\* "undo" is the revert of a worker that does not hold the lock.
RevertCardToCreated(w) ==
  /\ pc[w] \in {"undo", "revert"}
  /\ \/ UpdateCard(CardOf(w), "created", sats[CardOf(w)]) /\ UNCHANGED funds
     \/ "fault" \in Env /\ UNCHANGED cardVars
  /\ Returns(w, FALSE)
  /\ Goto(w, IF pc[w] = "undo" THEN "finish" ELSE "release")
  /\ UNCHANGED <<streamVars, lndVars, lock, want, seen, attempt>>

\* The key is deleted whoever set it; an error is logged.
ReleaseTreasuryLock(w) ==
  /\ pc[w] = "release"
  /\ lock' = None \/ ("fault" \in Env /\ UNCHANGED lock)
  /\ Goto(w, "finish")
  /\ UNCHANGED <<streamVars, cardVars, lndVars, workVars>>

\* The locals of processMessage go out of scope.
Forget(w) ==
  /\ want' = [want EXCEPT ![w] = 0]
  /\ seen' = [seen EXCEPT ![w] = 0]
  /\ attempt' = [attempt EXCEPT ![w] = 0]
  /\ ok' = [ok EXCEPT ![w] = FALSE]

FinishMessage(w) ==
  /\ pc[w] = "finish"
  /\ Finish(w, ok[w])
  /\ Goto(w, IF batch'[w] = {} THEN "idle" ELSE "price")
  /\ Forget(w)
  /\ UNCHANGED <<stream, cardVars, lndVars, lock>>

Crash(w) ==
  /\ Die(w)
  /\ Goto(w, "idle")
  /\ Forget(w)
  /\ UNCHANGED <<stream, cardVars, lndVars, lock>>

\* A panic takes the process down, with the rest of the batch.
PricePanics(w) ==
  /\ pc[w] = "price"
  /\ Net[CardOf(w)] > 0
  /\ Panicked \in Quotes
  /\ Abandon(w)
  /\ Goto(w, "idle")
  /\ Forget(w)
  /\ UNCHANGED <<stream, cardVars, lndVars, lock>>

\* Mutant: the TTL is shorter than a reservation.
MutLockExpiresEarly ==
  /\ lock # None
  /\ lock' = None
  /\ UNCHANGED <<streamVars, cardVars, lndVars, pc, workVars>>

\* The key expires after 5 s; under its holder only if reservations are
\* that slow.
TreasuryLockExpires ==
  /\ lock # None
  /\ "lapse" \in Env \/ pc[lock] \notin HoldingLock
  /\ lock' = None
  /\ UNCHANGED <<streamVars, cardVars, lndVars, pc, workVars>>

-----------------------------------------------------------------------------
(* The rest of the system, as far as it moves what the workers read.       *)

PublishMessage(c) ==
  /\ Publish
  /\ stream' = Append(stream, c)
  /\ UNCHANGED <<cardVars, lndVars, lock, pc, workVars>>

Messages(c) == {m \in DOMAIN stream : stream[m] = c}

\* The webhook publishes a card (see Checkout).
CardPaid(c) ==
  /\ Cardinality(Messages(c)) < MaxCopies[c]
  /\ PublishMessage(c)

\* Service.RedeemCard (see RedeemCard) pays from the channels, without the
\* treasury lock, ...
PayOut(c) ==
  /\ "redeem" \in Env
  /\ status[c] = "active" /\ owed[c] = 0
  /\ \E a \in 1..sats[c] : /\ channel >= a + RoutingFee
                           /\ owed' = [owed EXCEPT ![c] = a]
                           /\ left' = [left EXCEPT ![c] = sats[c] - a]
                           /\ channel' = channel - a - RoutingFee
  /\ UNCHANGED <<streamVars, cardVars, lock, pc, workVars, wallet, opening>>

\* ... and debits the card afterwards, from the balance it had read.
DebitCard(c) ==
  /\ owed[c] > 0
  /\ UpdateCard(c, IF left[c] = 0 THEN "redeemed" ELSE "active", left[c])
  /\ owed' = [owed EXCEPT ![c] = 0]
  /\ UNCHANGED <<streamVars, funds, lock, pc, workVars, channel, wallet, opening, left>>

\* The treasury worker opens a channel with on-chain sats: they are spent
\* at once, and in the channel when its transaction is confirmed.
OpenChannel ==
  /\ "channel" \in Env
  /\ opening = 0
  /\ \E a \in 1..wallet : wallet' = wallet - a /\ opening' = a
  /\ UNCHANGED <<streamVars, cardVars, lock, pc, workVars, channel, owed, left>>

ChannelConfirmed ==
  /\ opening > 0
  /\ channel' = channel + opening
  /\ opening' = 0
  /\ UNCHANGED <<streamVars, cardVars, lock, pc, workVars, wallet, owed, left>>

-----------------------------------------------------------------------------

Price(w) == RefuseMessage(w) \/ PriceUnavailable(w) \/ DropMessage(w) \/ FetchPrice(w)
Load(w) == LoadFailed(w) \/ SkipCard(w) \/ LoadCard(w)
Mark(w) == MarkFunding(w) \/ MarkFailed(w)
Lock(w) == AcquireTreasuryLock(w) \/ TreasuryLockRefused(w)

\* Mutant: the wallet is read before the channels.
MutWalletFirst(w) ==
  \/ /\ pc[w] = "channel"
     /\ seen' = [seen EXCEPT ![w] = wallet]
     /\ Goto(w, "wallet")
     /\ UNCHANGED <<streamVars, cardVars, lndVars, lock, want, attempt, ok>>
  \/ /\ pc[w] = "wallet"
     /\ seen' = [seen EXCEPT ![w] = @ + channel]
     /\ Goto(w, "reserved")
     /\ UNCHANGED <<streamVars, cardVars, lndVars, lock, want, attempt, ok>>
  \/ CheckAvailable(w) \/ TreasuryRefused(w)

Compute(w) ==
  GetChannelBalance(w) \/ GetWalletBalance(w) \/ CheckAvailable(w) \/ TreasuryRefused(w)
Write(w) == ActivateCard(w) \/ ActivateFailed(w)

\* What a worker does with the message at hand.
Work(w) ==
  \/ Price(w) \/ Load(w) \/ Mark(w) \/ Lock(w) \/ Compute(w) \/ Write(w)
  \/ RevertCardToCreated(w) \/ ReleaseTreasuryLock(w) \/ FinishMessage(w)

Funding == \E w \in Workers : Read(w) \/ Work(w) \/ Crash(w) \/ PricePanics(w)

Environment ==
  \/ TreasuryLockExpires \/ OpenChannel \/ ChannelConfirmed
  \/ \E c \in Cards : PayOut(c) \/ DebitCard(c)

Next == Funding \/ Environment \/ \E c \in Cards : CardPaid(c)

Spec == Init /\ [][Next]_vars

\* A live worker goes on with its message and with its loop, and so does a
\* redemption that has paid; an abandoned message is claimed in the end, a
\* provider that is asked again and again has a price in the end, and Redis
\* expires the lock.
WorkersAreFair ==
  /\ \A w \in Workers : WF_vars(Work(w)) /\ WF_vars(Read(w)) /\ SF_vars(FetchPrice(w))
  /\ \A m \in Msgs : SF_vars(\E w \in Workers : Read(w) /\ m \in batch'[w])
  /\ \A c \in Cards : WF_vars(DebitCard(c))
  /\ WF_vars(TreasuryLockExpires)

FairSpec == Spec /\ WorkersAreFair

-----------------------------------------------------------------------------

(* No overselling: between payments, what the cards may claim never        *)
(* exceeds what the node owns.                                             *)
Solvent == (\A c \in Cards : owed[c] = 0) => reserved <= channel + wallet + opening

(* "prevent concurrent workers from overselling": at most one worker is    *)
(* between the check of the treasury and the reservation.                  *)
OneReserver ==
  \A v, w \in Workers : (v # w /\ pc[v] \in HoldingLock) => pc[w] \notin HoldingLock

(* A card is funded once: its fund transactions are what corrects the      *)
(* books, and a second one counts sats that were never reserved.           *)
FundedOnce == \A c \in Cards : funds[c] <= 1

Dropped(c) == Net[c] > 0 /\ \E q \in Quotes : Usable(q) /\ Sats(c, q) = 0

(* A paid card is not forgotten: when its last message has been            *)
(* acknowledged and nobody is at work on it, the card is funded, or was    *)
(* dropped for good as worth less than a satoshi.                          *)
AcknowledgedIsFunded ==
  \A c \in {stream[m] : m \in handled} :
    (\A m \in Messages(c) :
        m \in handled /\ m \notin pending /\ \A w \in Workers : m \notin batch[w]) =>
      status[c] \in {"active", "redeemed"} \/ Dropped(c)

(* An activated card keeps its sats: only a redemption lowers its balance, *)
(* and nothing takes it out of use.                                        *)
ActiveStays ==
  [][\A c \in Cards :
       status[c] = "active" =>
         /\ status'[c] \in {"active", "redeemed"}
         /\ sats'[c] = sats[c] \/ sats'[c] = sats[c] - owed[c]]_vars

(* Every card whose message is published and whose value the treasury can  *)
(* cover is funded, however the workers get in each other's way, whatever  *)
(* is redeemed meanwhile, and although a message that does not validate is *)
(* claimed and refused for ever.                                           *)
EveryCardFunded ==
  \A c \in Cards : Net[c] > 0 =>
    (Messages(c) # {} ~> status[c] \in {"active", "redeemed"})
=============================================================================
