# A TLA+ model of btc-giftcard

Gift cards are sold for fiat and hold a claim, in satoshis, on one shared Lightning
node. The program moves money that cannot be called back (Lightning payments, SEPA
transfers, OTC deals) around a database, two kinds of Redis locks and a Redis stream.
The questions worth asking of it are therefore about interleavings, lost replies,
crashes and retries. This directory states those questions in TLA+, checks them with
TLC on small instances, and proves the most important ones with TLAPS.

Paths below are relative to `src/`.

## 1. Inventory

| component | state | operations | talks to |
|---|---|---|---|
| Card redemption (`internal/card/service.go` RedeemCard) | `cards`, `transactions` (redeem rows), key `card:lock:{code}` | `POST /api/cards/{code}/redeem` | PostgreSQL, Redis, LND |
| Card funding worker (`cmd/worker/fund_card`, FundCard) | `cards.status`, fund rows, key `treasury:lock` | one message of the `fund_card` stream | stream, price provider, PostgreSQL, Redis, LND |
| Stream queue (`pkg/queue/redis.go`) | stream, consumer group with its pending list | Publish, Consume, reclaim, XACK | Redis |
| Checkout (`CreateCard`, `HandleCheckoutEvent`) | Stripe session, `cards`, `payment_status` | `POST /api/cards`, `POST /webhook/stripe` | Stripe, PostgreSQL, stream |
| Treasury cache (`GetTreasuryAvailableBalance`) | key with the available balance, 10 s TTL | cached read, invalidation | Redis, LND, PostgreSQL |
| Rate limiter (`cmd/api/middleware.go`) | key `ratelimit:{host}` | INCR, EXPIRE | Redis |
| Treasury monitor (`cmd/worker/treasury_monitor`, `internal/treasury`) | none of its own; a pipeline in local variables | poll, SEPA transfer, quote, deal, withdrawal, channel | Qonto, Crypto.com, LND |
| OTC client (`internal/otc`) | websocket session, deal and withdrawal statuses | quote, deal, withdraw | Crypto.com |
| Bank client (`internal/qonto`) | none | account, payee check, transfer | Qonto |
| Price provider (`internal/exchange`) | none | one HTTP call | price APIs |
| Fees (`internal/fees`) | none | a pure function | none |
| LND client (`internal/lnd`) | gRPC connection | PayInvoice, DecodeInvoice, balances, channels | LND |
| API server (`cmd/api`) | none of its own | handlers, middleware | all of the above |
| Database (`internal/database`) | `cards`, `transactions` | the SQL statements, RunInTx | PostgreSQL |
| Encryption, configuration, logging | none | start-up, or unused | none |

How the parts meet: `POST /api/cards` opens a Stripe session and stores cards in status
*created*, payment *pending*. Stripe's webhook marks the order paid and publishes one
message per card. A worker takes the message, fetches a price, and reserves sats for the
card under the treasury lock: *funding*, then *active*. A redemption takes the card's
lock, pays a Lightning invoice and debits the card; at zero it is *redeemed*. The
treasury monitor refills the node. PostgreSQL, Redis and LND are shared by all of them,
and no lock covers two of these components at once: redemptions do not take the treasury
lock and funding does not take card locks.

What makes them hard, and what correct means:

* **Redemption.** The payment is irreversible and the write after it may fail; the stream
  may break while the payment is in flight; the lock has a TTL shorter than a payment and
  is deleted by whoever finishes. Correct: at most one request per card, no payment
  without balance, balance plus recorded spending equals the face value, every settled
  payment can be traced to a record or to an answer that says so.
* **Funding.** Check-then-set on the status, a TTL on the treasury lock, three reads of
  moving balances, a retried transaction, a crash between two statuses, redelivery, a
  price adapter that may panic. Correct: cards never claim more than the node owns, a
  paid card is funded once and is not forgotten.
* **Stream.** Redelivery after crashes, claims from consumers that are alive, trimming.
  Correct: nothing is forgotten, one handler at a time, everything is handled in the end.
* **Checkout.** Events delivered several times and at once, a session that exists before
  the cards, a completed session whose payment has not settled, messages published after
  the status was set. Correct: orders are whole, whoever completes a session has its cards
  stored, only paid cards are funded, each once, and none is left out.
* **Treasury cache and rate limiter.** A read computed before a write may be stored after
  it; INCR and EXPIRE are two calls. Correct: a value is stale for at most one TTL and one
  computation, a change deletes what it makes stale, a window admits a bounded number of
  requests and ends.
* **Purchase pipeline.** Progress exists only in memory across six external steps.
  Correct: no deal without its transfer, nothing moved twice, balances to retain are
  retained, and a purchase that fails never blocks the next one.

`PROJECT.json` lists every hazard at its line with the properties that cover it.

## 2. Modules

| module | models | state and code |
|---|---|---|
| `CardLedger` | what the holder of a card is promised | abstract: `status`, `sats`, `spent`, one action `Spend` |
| `RedeemCard` | Service.RedeemCard with its lock, PayInvoice, the retried transaction | `pc` is the next call of each request; `read` is the balance it read; `row`/`spent` the redeem rows; `payment`/`payer` belong to LND |
| `StreamQueue` | `pkg/queue/redis.go` | `pending` is the group's PEL, `batch` what a consumer has read and not handled |
| `PriceProvider` | the four adapters of `internal/exchange` | no state: what GetPrice makes of a reply (a price, an error, NaN, a panic) |
| `FundCard` | processMessage and Service.FundCard on top of `StreamQueue` | `pc`, `want`, `seen`, `attempt` are the worker's locals; `reserved` is what GetTotalReservedBalance returns; `channel`, `wallet`, `opening` belong to LND |
| `Checkout` | CreateCard, cardPayment, HandleCheckoutEvent | `buying`/`drawn` are CreateCard's locals, `at`/`of`/`event`/`next` the webhook handler's; `session`, `deliveries`, `acked` belong to Stripe |
| `CardLife` | what the buyer and the treasury are promised about a card, from offer to redemption | abstract: `order`, `status`, `sats` |
| `GiftCards` | `Checkout` and `FundCard` over the stream they share | the state of both; what `Checkout` has published *is* the stream of `FundCard` |
| `Fees` | `internal/fees/calculator.go` | no state: what of a price buys bitcoin |
| `RateLimit` | rateLimitMiddleware | `count`, `life` are the Redis key and its TTL; `recent[h][i]` is history: requests of `h` admitted in this tick and the i-1 before it |
| `TreasuryCache` | GetTreasuryAvailableBalance, InvalidateTreasuryCache, the balance endpoint behind `RateLimit` | `cached` is the Redis key; `age`, `raced` belong to the computations under way; `funding`, `redeeming` are where FundCard and RedeemCard are with respect to it |
| `PurchasePipeline` | the treasury monitor with its bank, exchange and channel calls, and the operator's openChannel | `pc` and the locals (`spend`, `quoted`, `amount`, `wd`, `polls`, `size`) are executePurchasePipeline's; `bank`, `wired` belong to Qonto, `requests` to `withdrawals` to the exchange, `wallet`, `unconfirmed` to LND; `dealt`, `sent`, `opened` are sums for the properties |
| `RedeemCardProofs`, `StreamQueueProofs`, `FundCardProofs`, `CheckoutProofs`, `PurchasePipelineProofs`, `TreasuryCacheProofs`, `FeesProofs`, `GiftCardsProofs` | theorems about the module of that name | |
| `MC...` | instances for TLC | |

An action is one call to an external service (a SQL statement or transaction, a Redis
command, an LND or Stripe call) with the code around it up to the next call. Every such
call also has its failures: without effect, or with the effect and a lost reply. `FundCard`
EXTENDS `StreamQueue` and conjoins its actions (`ReadGroup`, `Reclaim`, `Finish`,
`Abandon`) with the handler's steps; the handler's locals go out of scope at the end of a
message. `FundCard` has the parts of redemption (`PayOut`, `DebitCard`) and of the
treasury monitor (`OpenChannel`, `ChannelConfirmed`) that move what it reads.
`TreasuryCache` EXTENDS `RateLimit`: a request that the limiter lets through is the one
that asks for the balance. `GiftCards` EXTENDS `FundCard` and INSTANCEs `Checkout` with
the stream substituted for its count of published messages: the step in which the webhook
publishes is a step of both.

In `StreamQueue`, `FundCard`, `Checkout`, `GiftCards` and `TreasuryCache` the constant
`Env` (`ShopEnv`) names what may go wrong, so each run and each theorem says under which
circumstances it holds. `RedeemCard` and `PurchasePipeline` have every fault always,
except that `TtlMayLapse` decides in the first if a lock key may expire under the request
that set it.

Operators whose name begins with `Mut` are not part of the model: each is a wrong variant
of the definition after it, kept to confirm that the property it is paired with in
`PROJECT.json` can fail.

Abstractions: amounts are small integers; an invoice is its payment hash and amount; a
card of `RedeemCard` and `FundCard` is its row; a reply of a price provider is its kind and
a number, and a card is worth its net amount divided by it; codes are model values.
Deadlines are not clocked, except in `RateLimit` and `TreasuryCache`, where time passes in
ticks: elsewhere a key or a pending message may reach its age whenever the code allows it.
A session in `Checkout` is *open*, then *expired* or completed; a completed one is *paid*,
or, with `"delayed"` in `Env`, *unpaid* until its payment settles, which may be never. That a
completed session is paid at once is an assumption on the payment methods enabled in the
Stripe account: the code does not restrict them and drops the session's `payment_status`
(`internal/payment/stripe.go:95`). `checkout_core` goes without the assumption, the run of
`GiftCards` makes it. Events of other types change nothing (`service.go:923`) and are left
out; so is that Stripe may give up sending an event, except for the bound `MaxDeliveries`.
`reserved` is a variable although the code computes it by a query; `ReservedIsTheSum` (part
of `FundCard`'s `TypeOK`) says the two agree. A fund row is only counted. A cached balance is its age
and what has happened to the treasury since, not its amount. `PurchasePipeline` counts fiat
and the BTC it buys at the quoted price in one unit, lets the exchange honour a firm quote
before the wire has arrived, and does not follow fiat beyond the bank; an accepted transfer
stays accepted. Miner fees and LND's minimal channel size are left out. `Fees` has exact
rates where the code multiplies floats.

## 3. Runs

Each run finishes within two and a half minutes with two workers, most within one. Bounds
are the smallest in which each interesting case happens: two of everything that contends,
amounts that let one or two of the claims fit but not all, and the code's three attempts
where retries matter.

| run | instance | shows |
|---|---|---|
| `redeem_core` | 2 cards (2 sats, 1 sat), 2 requests, 3 invoices; every fault but an early expiry; fairness; no symmetry | lock, books, cover, traceability, true answers, refinement of `CardLedger`; every request answers; every lock is freed |
| `queue` | 4 entries, 2 consumers, batches of 2, stream trimmed to 3; faults, lost replies, crashes; fairness | nothing forgotten, one handler per entry, every entry handled or trimmed |
| `fund_core` | 2 cards worth 2 or 1 and 1 or 0 sats, a treasury of 2, 2 workers; five kinds of price reply; faults, crashes, channels opened between the reads | the reserved total is the sum the query computes; solvency, one reserver, one fund record, active cards stay active |
| `fund_live` | 3 cards, the net amount of one is zero, a treasury for the others, batches of 1; replies that are a price or an empty list; redemptions meanwhile; fairness | every card that can be funded is funded, past a message that is never acknowledged and replies that panic the worker; none is left out when its messages are gone |
| `checkout_core` | orders of 2, 1 and 0 cards, 4 codes, 2 handlers, 2 deliveries; faults (refused deliveries too), lost replies, crashes, delayed payments | whole orders and no code in two cards, completed sessions have their cards, at most one message per card |
| `gift_cards` | one order of 2 cards priced by `Fees`, 2 webhook handlers that get one event at once, 1 worker, redemptions; fairness of both parts | no sats for unpaid cards; refinement of `CardLife`; every paid card becomes active |
| `treasury_cache` | 2 requests of one host, limit 2, windows of 2 ticks, cached for 1, a computation of at most 1; faults, lost replies, restarts | no more than two limits in any window's time, recent answers, announced staleness; a blocked host is freed |
| `purchase` | two purchases, 3 and 2 or 2 and 2 cents, a balance of 2 sats at the threshold, 2 polls, a crash, channels opened by hand; every fault; fairness | no deal without its wire, balances to retain retained, channels only for sats that were sent; the loop never blocks, fiat and sats above their thresholds move on, also those of abandoned purchases |

`fund_core` has a card whose value may round to no satoshi (price 2), two cards the
treasury cannot always cover together, and replies that are zero, NaN or none.

In `gift_cards` two handlers publish each message up to twice (`duplicate`), so the worker
meets the second message of a card at every stage of the first. One worker runs, as in
`docker-compose.yml`: with two of them a second message may be funded twice (below). The
API does not crash and no call fails there: `EveryPaidCardActive` would be false for the
reason `checkout_forgotten` shows. `OnlyPaidIsReserved` also holds with them, as its theorem
says and as TLC confirms for this instance with faults and crashes on both sides. The net amounts, 70 and 37 cents of 100 and 65, are what `Fees`
leaves, and are worth 2 sats and 1.

In `purchase` the order of the two payouts decides the amounts, so a late quote of the
first purchase may be for more than the second has wired, and what it withdraws lifts the
node over the channel threshold. Two polls are enough for a withdrawal to be confirmed on
the first, on the last, or after the worker has given up.

In `treasury_cache` one request more than the limit comes in one window because a request
begins again when it is answered; a window of two ticks has a border inside it, so a burst
can straddle it; and two requests compute at once, so that one may store over the other.

Deadlock is checked in `purchase` and `treasury_cache`, which never end, and not in the
other runs: their instances end when the requests, messages or orders are used up.

Bounds that are not in the code: `NumMsgs`, `MaxCopies` (messages of a card), `MaxFunds`
(fund rows of a card), `MaxDeliveries` (deliveries of an event), `MaxDeposits`,
`OperatorSizes` (channels opened by hand) and `MaxCrashes` (of the treasury monitor),
`MaxCompute` (ticks a computation takes: the code sets no deadline). `MaxFunds` is 2, one
more than `FundedOnce` allows.

### Fairness

* `RedeemCard`: three assumptions, named in the module. `PaymentHasDeadline`: a request gets
  past its payment, which the code guarantees by payCtx (30 s), whatever LND does.
  `ServicesAnswer`: the other calls, DecodePayReq of LND and those to PostgreSQL and Redis,
  answer or fail. That is assumed: the code gives them no deadline, they run on the request's
  context, and the server's WriteTimeout does not cancel it. `RedisExpiresKeys`. Nothing is
  assumed of outcomes, nor that LND ever settles or fails a payment.
* `StreamQueue`: the consume loop never ends, a handler called again and again for an
  entry succeeds in the end, a message left idle is claimed in the end (strong fairness:
  the loop reclaims on every tenth turn), and crashes stop.
* `FundCard`: a worker goes on with its message, pending messages are claimed in the end,
  the treasury lock expires, a redemption that has paid debits its card, and the price
  provider does not fail every time (strong fairness of `FetchPrice`). No call is assumed to
  succeed; `fund_live` has no failing calls, and refusals among workers are not failures.
* `Checkout`, in `GiftCards`: requests run to their end and Stripe delivers an event until
  it is answered. `GiftCards` assumes this and the fairness of `FundCard`, nothing more.
* `TreasuryCache`: time passes, and a handler that has begun runs to its end. Clients are
  free to go on asking.
* `PurchasePipeline`: the ticker ticks and the worker goes on (HTTP calls and quotes have
  deadlines; that LND answers is an assumption, its calls have none); reading the balances,
  the transfer and the opening of a channel do not fail every time. `FiatIsSpent` rests on
  that of the transfer, which a comment in the code denies (below). Nothing is assumed of
  the exchange, the payouts or the operator.

### Disagreements found

Each is a run of its own that TLC is expected to refute, one property each:

| run | what the code says | what happens |
|---|---|---|
| `redeem_double_spend` | the card lock prevents double-spends | it lives 10 s, a payment may take 30 s |
| `fund_oversell_redeem` | authoritative read inside the lock | redemptions do not take that lock: what they paid is counted as still there, and their debit as done |
| `fund_stuck` | unacknowledged messages are recovered after a crash | the card is in funding by then, and the message is skipped and acknowledged |
| `checkout_forgotten` | the webhook handler publishes the messages | a failed XADD is logged and Stripe is told 200 |

The same instances show more when their constants are changed:

* `FundedOnce` fails in `fund_core` with two messages for one card: the status is checked
  and set to funding by two statements, so both workers may read *created* and both fund
  the card. It also fails with `"lost"`: the retry after a lost commit acknowledgment adds
  a second fund row, since the UNIQUE columns are empty in fund rows.
* `OneReserver` and then `Solvent` fail in `fund_core` with `"lapse"` in `Env`: the treasury
  lock lives 5 s.
* `AcknowledgedIsFunded` fails in `fund_live` with `"slow"`: a message claimed from a
  consumer that is still at work is acknowledged because the card is in funding, and the
  first consumer then reverts it. It fails with `"fault"` or `"lost"` as well: a revert that
  fails is logged, and the card stays in funding while its message is acknowledged.
* `ImplementsCardLife` fails in `gift_cards` with `"lost"`: the write that is retried after a
  lost reply gives a card back the sats that were redeemed in between, or fails for good and
  takes an active card back to *created*.
* `PublishedOnce` fails in `checkout_core` with `"duplicate"`: two completed events handled
  at once. `gift_cards` shows that one worker makes up for it.
* `ReserveKept` fails in `purchase` with `OperatorRaces`: a channel opened by hand after the
  worker has read the balance is paid from the sats to keep. It also fails when stated for
  every channel: step 6 of a purchase opens one when the exchange reports its withdrawal
  completed, which means broadcast, and LND may pay it from the confirmed sats
  `LNDChannelTargetSats` says to keep.

Five more the properties are stated around:

* `FiatIsSpent` needs transfers that succeed. `cmd/worker/treasury_monitor/main.go:190` says
  "step 1 (SEPA transfer) currently returns an error because SendTransfer in the Qonto client
  is not yet implemented with SCA proof tokens". `internal/qonto/client.go:255` contradicts
  it: SendTransfer obtains the payee's proof token and posts the transfer, and fails only if
  one of these calls does; so the model lets the transfer succeed and the pipeline go on.
  Whether the bank demands SCA for such a transfer is not visible in the source
  (`ROADMAP.md:1552`: none for a trusted beneficiary). If it does, the comment is right about
  the effect, and no fiat is ever spent; the safety properties hold either way.
* `OnlyPaidIsReserved` needs payments that settle when their session is completed.
  `internal/card/service.go:263` says that messages are published "after Stripe confirms
  payment"; the webhook publishes after a completed session, without reading whether it is
  paid. With a method that settles later (`"delayed"`) sats are reserved for money that may
  never come: then `OnlyPaidIsReserved` fails in `gift_cards`, and `OnlyCollectedIsPublished`
  of `Checkout`, its counterpart for messages, in the instance of `checkout_core`.

* `BlockedIsFreed` is about counters that have a TTL. When EXPIRE fails or the server dies
  before it, the counter has none, and the host is locked out for good:
  `cmd/api/middleware.go:162` says "worst case the key has no TTL and resets on next
  restart", but Redis is run with `--appendonly yes` (`docker-compose.yml:154`) and keeps it.
* `StaleIsAnnounced` leaves out values that were being computed during the change: the DEL
  comes before the SET. InvalidateTreasuryCache is said "to force a fresh computation on
  the next call"; the next call may be answered with the old value for one more TTL.
* `AcknowledgedIsFunded` leaves out cards whose message was dropped for good. One of the
  replies that lead there is a price of NaN, which ParseFloat takes and which is not below
  or equal to zero: the card is then worth a negative number of satoshis, and is taken for a
  permanent failure.

A request that reports CRITICAL may have been recorded, and a request that reports an
error may leave its payment in flight (`RecordAckLost` and `StreamBroken` of
`RedeemCard`).

## 4. Proofs

Eight modules, proved from the ASSUMEs of the modules they extend alone: for any cards,
orders, workers, requests, amounts, prices and bounds. A hypothesis about `Env` or another
constant is part of the theorem. Those with a * state a property that a run checks. With
them every invariant and every action property of the passing runs is proved, under
hypotheses that the instance of its run meets.

| theorem | module | statement | hypotheses |
|---|---|---|---|
| `TypeCorrect` * | `RedeemCardProofs` | types; balances never go negative | |
| `HolderNeverLoses` | | balance plus spending never below face value | |
| `PaymentsAreTraceable` * | | `SettledIsAccounted` | |
| `SuccessesAreTrue` * | | `SuccessIsTrue` | |
| `RefusalsAreFree` * | | `RefusalIsFree` | |
| `LockIsExclusive` * | | `MutualExclusion` | no lock lapses |
| `BooksBalance` * | | `Conservation` and `RedeemedIffEmpty` | no lock lapses |
| `ImplementsLedger` * | | refinement of `CardLedger` | no lock lapses |
| `ClosedForGood`, `NoUncoveredPayment` * | | `RedeemedIsFinal`, `PaymentIsCovered` | no lock lapses |
| `QueueForgetsNothing` * | `StreamQueueProofs` | `NothingForgotten` | |
| `QueueHasOneHandler` * | | `HandledByOne` | no slow batch |
| `FundTypes` * | `FundCardProofs` | types; no balance negative; `reserved` is the sum over the cards | |
| `OneReserverAtATime` * | | `OneReserver` | the treasury lock does not lapse |
| `NoCardIsFundedTwice` * | | `FundedOnce` | undisturbed, no lost replies |
| `ActiveCardsStay` * | | `ActiveStays` | the same |
| `WorkersNeverOversell` * | | `Solvent` | the same, no lapse, no redemptions meanwhile |
| `AcknowledgedCardsAreFunded` * | | `AcknowledgedIsFunded` | no failing call, no crash; no slow batch, or one worker |
| `OrderTypes` * | `CheckoutProofs` | types; no card gets more messages than its event has deliveries | |
| `StoredAsAWhole` * | | `OrdersAreWhole` | |
| `ChargedForStoredCards` * | | `CompletedIsStored` | |
| `NothingForUnpaidOrders` | | `OnlyCollectedIsPublished` | no delayed payments |
| `OneMessagePerCard` * | | `PublishedOnce` | deliveries of an event do not overlap |
| `PurchaseTypeCorrect` * | `PurchasePipelineProofs` | types; no balance negative, the worker polls a withdrawal that exists | |
| `NoUnwiredDeal` * | | `DealsAreWired` | |
| `TargetIsRetained` * | | `TargetRetained` | |
| `OpeningsAreBacked` * | | `OpensWhatWasSent` | |
| `ReserveIsKept` * | | `ReserveKept` | the operator does not race |
| `CacheTypes` * | `TreasuryCacheProofs` | types; counters, TTLs and ages within their bounds | |
| `NoOldAnswer` * | | `AnswersAreRecent` | |
| `StaleValuesGo` * | | `StaleIsAnnounced` | |
| `TwoLimitsAtMost` * | | `BurstIsBounded` | |
| `NoSatsForUnpaidCards` * | `GiftCardsProofs` | `OnlyPaidIsReserved` | no delayed payments |
| `CardsLiveAsPromised` * | | refinement of `CardLife` | calm, no lost replies, no delayed payments |
| `FlatFeesEatSmallCards` | `FeesProofs` | a card not above the flat fees is worth nothing | |
| `LargerCardsAreWorthSomething` | | from a face value on cards are worth something | |

The hypotheses: "no lock lapses" is `~TtlMayLapse`, "slow", "lost" and the like are members
of `Env`, and "no delayed payments" is that `"delayed"` is none of the shop's. *Undisturbed* means a single worker, however many messages a card has, or one
message for each card and no batch slower than MinIdle. *Calm* is its counterpart for the
whole: a single worker, or a Stripe that waits for its answers and no slow batch.
`docker-compose.yml` runs one worker, which is one of the two ways to meet either.
Section 3 has the counterexamples that TLC finds without the hypotheses (for
`~TtlMayLapse`, `redeem_double_spend`; for "no redemptions", `fund_oversell_redeem`; for
"no crash", `fund_stuck`, of which a revert that fails is a variant). What a theorem adds to
its run is also that faults the run does not have do no harm: `NoCardIsFundedTwice` holds
even if the treasury lock lapses, and `NoSatsForUnpaidCards` with every fault of shop and
workers at once, crashes of the API among them, for any number of messages and deliveries;
all it asks is that a completed session is a paid one.

The arguments. None of the properties is inductive; each module strengthens them in layers,
proved to be preserved with the help of those before.

* `RedeemCardProofs`. `TypeInv`: types, and a request past validation asks for a positive
  amount not above what it read (so the debit cannot go negative), and has attempts left
  while it works. `CreditInv`: what a request read, plus what is recorded, is at least the
  face value; this survives lapses, as a stale write can only restore sats. `LockInv`: a
  request in its critical section owns the key of its card; this is where `~TtlMayLapse`
  enters. `BooksInv`: while a request holds the lock the balance it read is the balance
  stored, hence its debit is exactly the ledger's `Spend`. `TraceInv`: who started a payment
  and what it has recorded of it so far. `FreeInv`: a request that has not come to its
  payment has none, so whatever refuses it there refuses for free.
* `StreamQueueProofs`. `InOrder`: what is at hand or pending was delivered, what is
  delivered was published. `OldestInBatch`: a batch that is not empty has an oldest entry, so
  what a worker handles is what it was given. `AckedOnce`: when no XACK fails, what is
  handled is pending for nobody. All are stated for `QueueStep`, which covers the steps of
  any handler, so `FundCardProofs` uses them by showing that each of its steps is a step of
  the queue (`NextIsQueueStep`).
* `FundCardProofs`. The lemmas are about `FundStep`, in which any card may get a message at
  any time; what limits the messages is a matter of who publishes. `FlowInv`: the queue's
  invariant and where workers may be. `LockInv`: who is past the lock holds it. `Apart`: no
  two workers are at one card, for either of the reasons in `Undisturbed`. `CardsInv`: given
  that, a card a worker is about to fund is blank (no sats, no fund row, nothing owed), so
  what its UPDATE overwrites is known. `SatsInv`: the node's sats are in channels, in the
  wallet or on their way, a worker about to reserve has seen no more than that and as much
  as it wants, and with `LockInv` nobody else reserves in between. `AckInv`: a card in
  status funding has somebody at it who will change that, and a card with messages that is
  neither funded nor dropped has one left that leads to another attempt. `NumbersOK`: an
  UPDATE of a card changes the sum over the cards by what the model adds to `reserved`.
* Sums. `SumFunctionOnSet` is the value of a recursive function that is only said to exist.
  `FoldsExist` builds it, one size of subset after the other; `SumRemoves` says that any
  element may be taken out first. The provers cannot use the library's induction rules, whose
  induction hypothesis is an operator; each of these lemmas is proved instead from a smallest
  set (`MinimalSubset`) or number (`Smallest`) for which it is false.
* `CheckoutProofs`. `SessionInv`: a session ends only when the request that opened it is
  over, only ended ones have events, and an event has the type of how its session ended.
  `StoredInv`: only the answer *created* tells the buyer of the session, and it follows the
  transaction. `DrawnInv`: what is inserted has the size of the order. `OfferInv`: what is
  published was stored and its session completed. `StatusInv`: an order
  is marked paid or expired only if its session was completed or has expired. `DeliveryInv`: the messages
  of a card and the handlers that may still publish one are together no more than the
  deliveries of its event. `Alone`: no two handlers have events of one order. `PublishInv`:
  nothing of an order is published before it is marked paid, and nothing from the handler's
  next card on.
* `PurchasePipelineProofs`. `Budget`: from the transfer on, what the purchase may still deal
  on fits between what was dealt and what was wired; the quote a worker waits for is the
  last one requested; the size of the channel about to be opened leaves the target.
  `Backed`: when the withdrawal a worker polls is on the chain, its sats are sent and not
  yet opened, whatever earlier and abandoned purchases have opened.
* `TreasuryCacheProofs`. `CacheInv`: the age of a cached value and the life of its key add
  up to no more than the TTL and one computation, though values are stored out of order.
  `HostOK`, for the limiter: what was admitted before a window began is at most one limit,
  and what was admitted since its TTL was set is at most what the key has counted; so the
  time of one window, which may straddle the border of two, sees at most two limits.
* `GiftCardsProofs`. A step of the whole is a step of the shop, with what is in the stream
  as what it has published, and a `FundStep` of the workers: both keep their own invariants
  (`ShopInv`, `FlowInv`), and the stream is where they meet. `Touched`: nothing happens to a
  card without a message, and by `OfferInv` a message is of an order whose session was
  completed, which `SettledInv` makes a paid one. For the refinement
  `CalmInv` gives `Apart`, hence `CardsInv`: the step that activates a card finds it blank,
  the step that debits it finds the balance that was read; `WorthInv`: what is reserved is
  what the price made of the net amount.
* `FeesProofs`. `PctOfBounds`: rounding is off by at most half a cent.

Only model-checked, because fairness and ENABLED are out of the prover's reach: the liveness
properties, which are `EveryRequestAnswers`, `CardLockIsFreed`, `EveryMessageHandled`,
`EveryCardFunded`, `LoopReturns`, `FiatIsSpent`, `ExcessIsOpened`, `BlockedIsFreed` and
`EveryPaidCardActive`. Of the four runs that refute something, two have a property that is
proved under a hypothesis which the instance of the run does not meet (`Solvent`,
`AcknowledgedIsFunded`).

## 5. Plan

Done, in this order: `CardLedger` and `RedeemCard` with their proofs, `StreamQueue`,
`FundCard`, `Checkout`, `PurchasePipeline`; then `PriceProvider`, `CardLife` and
`GiftCards`, `RateLimit` and `TreasuryCache`, `Fees`, and the proofs of the other modules,
`GiftCards` last.

What remains, in order of worth:

1. The hypotheses of the theorems about `FundCard`, where they can be weakened: what still
   holds of a card's sats when workers meet at it, and of `Solvent` with redemptions (the
   debt of payments under way bounds by how much it fails).
2. Functional facts about the code's pure parts that no run states: what `GetPrice` accepts,
   and that the net amount of a card never exceeds its price.
3. The step properties behind the liveness ones: that a request, a message and a purchase
   can only go forward, from a rank that each step lowers.

## 6. Not modelled

* URLs, headers, authentication, signing and JSON of the HTTP and websocket clients; calls
  nobody makes (transaction list, instrument list, `ManualTrigger`); connection set-up and
  macaroons; `pkg/cache`'s EXISTS and PING.
* Request ids, access logging, CORS and panic recovery of the API; its other read-only
  endpoints; connecting peers and drawing addresses, whose effects the program never reads.
* Which of several channel peers is taken; a second treasury worker (one is deployed).
* CRUD helpers and listings of the repositories nobody calls; the connection pool.
* `internal/crypto` (called by nothing), configuration, logging and scripts.
* The bound of 100 entries on a reclaim: no number of entries TLC can reach tells it from
  none (`PROJECT.json` has the hazard).
* The on-chain redemption method is rejected by the code and so is no action. The SEPA
  branch of CreateCard and status *expired* of a card exist in docs and enums only; no code
  sets them.
