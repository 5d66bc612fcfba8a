----------------------------- MODULE RedeemCard -----------------------------
(***************************************************************************)
(* Service.RedeemCard (internal/card/service.go): a request spends part of *)
(* a card by paying a Lightning invoice.  Requests run concurrently in the *)
(* API server; they share the card rows and the transactions table in      *)
(* PostgreSQL, the per-card lock in Redis and the LND node.  One action    *)
(* is one call to one of those services, in the order the code makes them. *)
(*                                                                         *)
(* Faults: a call may fail before or after it took effect, the payment     *)
(* stream may break while the payment is in flight, the lock key may       *)
(* expire, and a request may die at any point (a crash of the server).     *)
(***************************************************************************)
EXTENDS Integers

CONSTANTS
  Cards,         \* gift cards
  Requests,      \* calls of RedeemCard
  Invoices,      \* BOLT11 invoices; one invoice has one payment hash
  Amounts,       \* values of RedeemCardRequest.AmountSats
  Face,          \* sats on each card when it became active
  InvoiceSats,   \* amount of each invoice; 0 for an amountless one
  MaxAttempts,   \* attempts of retryWithBackoff (3 in the code)
  TtlMayLapse,   \* TRUE: the lock key may expire under a running request
  None           \* no request, no card

ASSUME RedeemAssumption ==
  /\ Face \in [Cards -> Nat \ {0}]
  /\ InvoiceSats \in [Invoices -> Nat]
  /\ Amounts \subseteq Int
  /\ MaxAttempts \in Nat \ {0}
  /\ TtlMayLapse \in BOOLEAN
  /\ None \notin Requests
  /\ None \notin Cards

VARIABLES
  status,    \* cards.status
  sats,      \* cards.btc_amount_sats
  row,       \* transactions: the card_id recorded for a payment_hash (UNIQUE)
  spent,     \* transactions: SUM(btc_amount_sats) of a card's redeem rows
  lock,      \* Redis key card:lock:{code}: the request that set it
  payment,   \* LND: the state of the payment of an invoice
  payer,     \* LND: the request whose SendPaymentV2 started it
  pc,        \* the next call each request makes
  req,       \* the request: card code, amount and invoice
  read,      \* card.BTCAmountSats as the request read it
  attempt,   \* failed attempts of the database write
  result     \* what the request returns

dbVars == <<status, sats, row, spent>>
lndVars == <<payment, payer>>
vars == <<dbVars, lndVars, lock, pc, req, read, attempt, result>>

Redemption == [card : Cards, invoice : Invoices, amount : Amounts]

Locations == {"lock", "validate", "pay", "paying", "record", "unlock", "done", "crashed"}

\* "refused": an error before any money moved; "unknown": PayInvoice failed
\* without a terminal status; "critical": paid, but recording it failed.
Results == {"none", "ok", "refused", "unknown", "critical"}

TypeOK ==
  /\ status \in [Cards -> {"active", "redeemed"}]
  /\ sats \in [Cards -> Nat]
  /\ row \in [Invoices -> Cards \cup {None}]
  /\ spent \in [Cards -> Nat]
  /\ lock \in [Cards -> Requests \cup {None}]
  /\ payment \in [Invoices -> {"none", "inflight", "settled", "failed"}]
  /\ payer \in [Invoices -> Requests \cup {None}]
  /\ pc \in [Requests -> Locations]
  /\ req \in [Requests -> Redemption]
  /\ read \in [Requests -> Nat]
  /\ attempt \in [Requests -> 0..MaxAttempts]
  /\ result \in [Requests -> Results]

Init ==
  /\ status = [c \in Cards |-> "active"]
  /\ sats = Face
  /\ row = [i \in Invoices |-> None]
  /\ spent = [c \in Cards |-> 0]
  /\ lock = [c \in Cards |-> None]
  /\ payment = [i \in Invoices |-> "none"]
  /\ payer = [i \in Invoices |-> None]
  /\ pc = [r \in Requests |-> "lock"]
  /\ req \in [Requests -> Redemption]
  /\ read = [r \in Requests |-> 0]
  /\ attempt = [r \in Requests |-> 0]
  /\ result = [r \in Requests |-> "none"]

CardOf(r) == req[r].card
InvoiceOf(r) == req[r].invoice
AmountOf(r) == req[r].amount

Goto(r, to) == pc' = [pc EXCEPT ![r] = to]
Answer(r, answer) == result' = [result EXCEPT ![r] = answer]

-----------------------------------------------------------------------------
(* Steps 1 and 2: validateRedeemRequest, then SetNX on the card lock.      *)

\* The amount is not positive: no call is made.
RejectRequest(r) ==
  /\ pc[r] = "lock"
  /\ AmountOf(r) <= 0
  /\ Answer(r, "refused")
  /\ Goto(r, "done")
  /\ UNCHANGED <<dbVars, lock, lndVars, req, read, attempt>>

\* Mutant: SET instead of SETNX.
MutAcquireAlways(r) ==
  /\ pc[r] = "lock"
  /\ AmountOf(r) > 0
  /\ lock' = [lock EXCEPT ![CardOf(r)] = r]
  /\ Goto(r, "validate")
  /\ UNCHANGED <<dbVars, lndVars, req, read, attempt, result>>

AcquireCardLock(r) ==
  /\ pc[r] = "lock"
  /\ AmountOf(r) > 0
  /\ lock[CardOf(r)] = None
  /\ lock' = [lock EXCEPT ![CardOf(r)] = r]
  /\ Goto(r, "validate")
  /\ UNCHANGED <<dbVars, lndVars, req, read, attempt, result>>

\* The key exists, or SetNX failed.  A SetNX whose reply is lost leaves the
\* key behind and nobody to delete it.
CardLockRefused(r) ==
  /\ pc[r] = "lock"
  /\ AmountOf(r) > 0
  /\ \/ UNCHANGED lock
     \/ /\ lock[CardOf(r)] = None
        /\ lock' = [lock EXCEPT ![CardOf(r)] = r]
  /\ Answer(r, "refused")
  /\ Goto(r, "done")
  /\ UNCHANGED <<dbVars, lndVars, req, read, attempt>>

-----------------------------------------------------------------------------
(* Step 3: validateCardForRedemption reads the card row.                   *)

\* Mutant: the balance is not compared with the amount.
MutSpendableUnchecked(r) == status[CardOf(r)] = "active"

Spendable(r) == /\ status[CardOf(r)] = "active"
                /\ AmountOf(r) <= sats[CardOf(r)]

ValidateCard(r) ==
  /\ pc[r] = "validate"
  /\ Spendable(r)
  /\ read' = [read EXCEPT ![r] = sats[CardOf(r)]]
  /\ Goto(r, "pay")
  /\ UNCHANGED <<dbVars, lock, lndVars, req, attempt, result>>

\* The card is not active, the balance is too small, or the read failed.
CardRefused(r) ==
  /\ pc[r] = "validate"
  /\ Answer(r, "refused")
  /\ Goto(r, "unlock")
  /\ UNCHANGED <<dbVars, lock, lndVars, req, read, attempt>>

-----------------------------------------------------------------------------
(* Step 4: executeLightningPayment and lnd.PayInvoice.                     *)

InvoiceMatches(r) == /\ InvoiceSats[InvoiceOf(r)] # 0
                     /\ InvoiceSats[InvoiceOf(r)] = AmountOf(r)

\* The invoice does not decode, has no amount, has expired, asks for another
\* amount, or SendPaymentV2 could not be called.
InvoiceRefused(r) ==
  /\ pc[r] = "pay"
  /\ Answer(r, "refused")
  /\ Goto(r, "unlock")
  /\ UNCHANGED <<dbVars, lock, lndVars, req, read, attempt>>

SendPayment(r) ==
  /\ pc[r] = "pay"
  /\ InvoiceMatches(r)
  /\ payment[InvoiceOf(r)] \in {"none", "failed"}
  /\ payment' = [payment EXCEPT ![InvoiceOf(r)] = "inflight"]
  /\ payer' = [payer EXCEPT ![InvoiceOf(r)] = r]
  /\ Goto(r, "paying")
  /\ UNCHANGED <<dbVars, lock, req, read, attempt, result>>

\* LND refuses a second payment of a hash that is in flight or settled; the
\* error reaches PayInvoice on the stream.
AlreadyPaid(r) ==
  /\ pc[r] = "pay"
  /\ InvoiceMatches(r)
  /\ payment[InvoiceOf(r)] \in {"inflight", "settled"}
  /\ Answer(r, "unknown")
  /\ Goto(r, "unlock")
  /\ UNCHANGED <<dbVars, lock, lndVars, req, read, attempt>>

\* Mutant: result.Status is not compared with Succeeded.
MutAnyStatusSucceeds(r) ==
  /\ pc[r] = "paying"
  /\ payer[InvoiceOf(r)] = r
  /\ Goto(r, "record")
  /\ UNCHANGED <<dbVars, lock, lndVars, req, read, attempt, result>>

\* The stream delivers SUCCEEDED.
PaymentSucceeded(r) ==
  /\ pc[r] = "paying"
  /\ payment[InvoiceOf(r)] = "settled"
  /\ payer[InvoiceOf(r)] = r
  /\ Goto(r, "record")
  /\ UNCHANGED <<dbVars, lock, lndVars, req, read, attempt, result>>

\* The stream delivers FAILED.  (When another request has paid the invoice
\* since, this stream still ends with the failure of its own payment.)
PaymentFailed(r) ==
  /\ pc[r] = "paying"
  /\ payment[InvoiceOf(r)] = "failed" \/ payer[InvoiceOf(r)] # r
  /\ Answer(r, "refused")
  /\ Goto(r, "unlock")
  /\ UNCHANGED <<dbVars, lock, lndVars, req, read, attempt>>

\* Mutant: a broken stream is taken for a failed payment.
MutBrokenIsFailed(r) ==
  /\ pc[r] = "paying"
  /\ Answer(r, "refused")
  /\ Goto(r, "unlock")
  /\ UNCHANGED <<dbVars, lock, lndVars, req, read, attempt>>

\* payCtx times out, the client goes away or the stream breaks: PayInvoice
\* returns an error and the payment goes on.
StreamBroken(r) ==
  /\ pc[r] = "paying"
  /\ Answer(r, "unknown")
  /\ Goto(r, "unlock")
  /\ UNCHANGED <<dbVars, lock, lndVars, req, read, attempt>>

\* LND (external) brings a payment to its end, whoever is still waiting.
ResolvePayment(i) ==
  /\ payment[i] = "inflight"
  /\ \E end \in {"settled", "failed"} : payment' = [payment EXCEPT ![i] = end]
  /\ UNCHANGED <<dbVars, payer, lock, pc, req, read, attempt, result>>

-----------------------------------------------------------------------------
(* Steps 5 and 6: retryWithBackoff around RunInTx{INSERT transaction,      *)
(* UPDATE card}.                                                           *)

\* Mutant: payment_hash is not UNIQUE.
MutDebitNotUnique(r) ==
  /\ row' = [row EXCEPT ![InvoiceOf(r)] = CardOf(r)]
  /\ spent' = [spent EXCEPT ![CardOf(r)] = @ + AmountOf(r)]
  /\ sats' = [sats EXCEPT ![CardOf(r)] = read[r] - AmountOf(r)]
  /\ status' = [status EXCEPT ![CardOf(r)] =
                  IF read[r] = AmountOf(r) THEN "redeemed" ELSE "active"]

\* Mutant: the card is not updated in the transaction of the INSERT.
MutDebitOnlyInserts(r) ==
  /\ row[InvoiceOf(r)] = None
  /\ row' = [row EXCEPT ![InvoiceOf(r)] = CardOf(r)]
  /\ spent' = [spent EXCEPT ![CardOf(r)] = @ + AmountOf(r)]
  /\ UNCHANGED <<sats, status>>

\* The two writes of the database transaction, as its COMMIT publishes
\* them: the balance written is computed from the balance read in step 3.
Debit(r) ==
  /\ row[InvoiceOf(r)] = None
  /\ row' = [row EXCEPT ![InvoiceOf(r)] = CardOf(r)]
  /\ spent' = [spent EXCEPT ![CardOf(r)] = @ + AmountOf(r)]
  /\ sats' = [sats EXCEPT ![CardOf(r)] = read[r] - AmountOf(r)]
  /\ status' = [status EXCEPT ![CardOf(r)] =
                  IF read[r] = AmountOf(r) THEN "redeemed" ELSE "active"]

\* Mutant: one attempt too many.
MutAttemptOffByOne(r) ==
  /\ attempt' = [attempt EXCEPT ![r] = @ + 1]
  /\ IF attempt[r] < MaxAttempts
       THEN UNCHANGED <<pc, result>>
       ELSE Answer(r, "critical") /\ Goto(r, "unlock")

\* Mutant: the error of the last attempt is dropped.
MutAttemptErrorDropped(r) ==
  /\ attempt' = [attempt EXCEPT ![r] = @ + 1]
  /\ IF attempt[r] + 1 < MaxAttempts
       THEN UNCHANGED <<pc, result>>
       ELSE Answer(r, "ok") /\ Goto(r, "unlock")

\* An attempt returned an error; after the last one the request reports
\* CRITICAL.
AttemptFailed(r) ==
  /\ attempt' = [attempt EXCEPT ![r] = @ + 1]
  /\ IF attempt[r] + 1 < MaxAttempts
       THEN UNCHANGED <<pc, result>>
       ELSE Answer(r, "critical") /\ Goto(r, "unlock")

Record(r) ==
  /\ pc[r] = "record"
  /\ Debit(r)
  /\ Answer(r, "ok")
  /\ Goto(r, "unlock")
  /\ UNCHANGED <<lock, lndVars, req, read, attempt>>

\* The transaction commits and its acknowledgment is lost.
RecordAckLost(r) ==
  /\ pc[r] = "record"
  /\ Debit(r)
  /\ AttemptFailed(r)
  /\ UNCHANGED <<lock, lndVars, req, read>>

\* Rolled back: the database failed, or the payment hash is already there
\* (ErrTransactionExists, which is retried like any error).
RecordFailed(r) ==
  /\ pc[r] = "record"
  /\ AttemptFailed(r)
  /\ UNCHANGED <<dbVars, lock, lndVars, req, read>>

\* The client is gone (ctx.Done) while the retry waits.
RetryCancelled(r) ==
  /\ pc[r] = "record"
  /\ attempt[r] > 0
  /\ Answer(r, "critical")
  /\ Goto(r, "unlock")
  /\ UNCHANGED <<dbVars, lock, lndVars, req, read, attempt>>

-----------------------------------------------------------------------------
(* The deferred Delete of the lock key, which looks at neither the key's   *)
(* value nor its own error; expiry of the key; death of the server.        *)

ReleaseCardLock(r) ==
  /\ pc[r] = "unlock"
  /\ \/ lock' = [lock EXCEPT ![CardOf(r)] = None]
     \/ UNCHANGED lock
  /\ Goto(r, "done")
  /\ UNCHANGED <<dbVars, lndVars, req, read, attempt, result>>

Running(r) == pc[r] \notin {"lock", "done", "crashed"}

\* Mutant: the TTL is shorter than a redemption.
MutLockExpiresEarly(c) ==
  /\ lock[c] # None
  /\ lock' = [lock EXCEPT ![c] = None]
  /\ UNCHANGED <<dbVars, lndVars, pc, req, read, attempt, result>>

\* Mutant: SetNX without a TTL.
MutLockNeverExpires(c) == FALSE

\* A key whose request has ended always expires; one whose request is
\* running expires only if the TTL (10 s) is shorter than the request.
CardLockExpires(c) ==
  /\ lock[c] # None
  /\ TtlMayLapse \/ ~Running(lock[c])
  /\ lock' = [lock EXCEPT ![c] = None]
  /\ UNCHANGED <<dbVars, lndVars, pc, req, read, attempt, result>>

Crash(r) ==
  /\ Running(r)
  /\ Goto(r, "crashed")
  /\ UNCHANGED <<dbVars, lock, lndVars, req, read, attempt, result>>

-----------------------------------------------------------------------------

Lock(r) == RejectRequest(r) \/ AcquireCardLock(r) \/ CardLockRefused(r)
Validate(r) == ValidateCard(r) \/ CardRefused(r)
Pay(r) == InvoiceRefused(r) \/ SendPayment(r) \/ AlreadyPaid(r)
\* Mutant: PayInvoice has no deadline (no payCtx).
MutAwaitForever(r) == PaymentSucceeded(r) \/ PaymentFailed(r)

AwaitPayment(r) == PaymentSucceeded(r) \/ PaymentFailed(r) \/ StreamBroken(r)
Write(r) == Record(r) \/ RecordAckLost(r) \/ RecordFailed(r) \/ RetryCancelled(r)

RequestStep(r) ==
  Lock(r) \/ Validate(r) \/ Pay(r) \/ AwaitPayment(r) \/ Write(r) \/ ReleaseCardLock(r)

Next ==
  \/ \E r \in Requests : RequestStep(r) \/ Crash(r)
  \/ \E i \in Invoices : ResolvePayment(i)
  \/ \E c \in Cards : CardLockExpires(c)

Spec == Init /\ [][Next]_vars

\* The payment is the one call with a deadline of its own (payCtx, 30 s):
\* whatever LND does, its answer, its failure or its timeout comes.
PaymentHasDeadline == \A r \in Requests : WF_vars(AwaitPayment(r))

\* Assumed: the other calls, DecodePayReq of LND among them, answer or fail.
\* The code bounds none of them; they run on the request's context, which
\* ends when the client goes away and not at the server's WriteTimeout.
ServicesAnswer ==
  \A r \in Requests :
    /\ WF_vars(Pay(r))                                  \* LND: DecodePayReq
    /\ WF_vars(Lock(r)) /\ WF_vars(ReleaseCardLock(r))  \* Redis
    /\ WF_vars(Validate(r)) /\ WF_vars(Write(r))        \* PostgreSQL

RedisExpiresKeys == \A c \in Cards : WF_vars(CardLockExpires(c))

\* Nothing is assumed of the outcome of any call, nor that LND ever settles
\* or fails a payment (ResolvePayment).
Fairness == PaymentHasDeadline /\ ServicesAnswer /\ RedisExpiresKeys

FairSpec == Spec /\ Fairness

-----------------------------------------------------------------------------
(* Properties.                                                             *)

\* A request between the acquisition of the card lock and its release.
InCriticalSection(r) == pc[r] \in {"validate", "pay", "paying", "record", "unlock"}

(* "a per-card Redis lock prevents double-spend from concurrent requests": *)
(* two requests are never both past the lock of one card.                  *)
MutualExclusion ==
  \A r, s \in Requests :
    (r # s /\ CardOf(r) = CardOf(s)) => ~(InCriticalSection(r) /\ InCriticalSection(s))

(* No sat is lost or created: the balance a card still shows and what its  *)
(* redeem transactions record add up to what it was funded with.           *)
Conservation == \A c \in Cards : sats[c] + spent[c] = Face[c]

(* Even when the lock key expires under a running request, the stale       *)
(* balance a request writes back never costs the holder anything: lost     *)
(* updates only err in the card's favour.                                  *)
NeverUndercredited == \A c \in Cards : sats[c] + spent[c] >= Face[c]

(* What the lock is for: a card never spends more than its face value.     *)
SpentWithinFace == \A c \in Cards : spent[c] <= Face[c]

(* A card is redeemed exactly when its balance is zero.                    *)
RedeemedIffEmpty == \A c \in Cards : status[c] = "redeemed" <=> sats[c] = 0

(* Ghost payments are always traceable: sats that left the node are        *)
(* recorded against the card of the request that paid, or that request is  *)
(* still at work, or it died, or its error says the outcome is not known   *)
(* (the CRITICAL log line, the stream error).                              *)
SettledIsAccounted ==
  \A i \in Invoices :
    payment[i] = "settled" =>
      \E r \in Requests : /\ payer[i] = r
                          /\ \/ row[i] = CardOf(r)
                             \/ pc[r] \in {"paying", "record", "crashed"}
                             \/ result[r] \in {"unknown", "critical"}

(* A request that answers 200 has paid its own invoice, and the payment is *)
(* recorded against its own card.                                          *)
SuccessIsTrue ==
  \A r \in Requests :
    result[r] = "ok" => /\ payment[InvoiceOf(r)] = "settled"
                        /\ payer[InvoiceOf(r)] = r
                        /\ row[InvoiceOf(r)] = CardOf(r)

(* A request that answers with a plain refusal has moved no money.         *)
RefusalIsFree ==
  \A r \in Requests :
    result[r] = "refused" =>
      ~(payer[InvoiceOf(r)] = r /\ payment[InvoiceOf(r)] \in {"inflight", "settled"})

(* At the instant sats leave the treasury for a card, the balance in the   *)
(* database, not the one the request read earlier, covers them.            *)
PaymentIsCovered ==
  [][\A r \in Requests :
       (pc[r] = "pay" /\ pc'[r] = "paying") =>
         status[CardOf(r)] = "active" /\ AmountOf(r) <= sats[CardOf(r)]]_vars

(* A fully spent card stays closed.                                        *)
RedeemedIsFinal ==
  [][\A c \in Cards : status[c] = "redeemed" => status'[c] = "redeemed"]_vars

(* Every call of RedeemCard answers, or died with the server, whatever     *)
(* becomes of its payment; see ServicesAnswer for what this assumes.       *)
EveryRequestAnswers ==
  \A r \in Requests : <>(pc[r] \in {"done", "crashed"})

(* No failure locks a card for ever: neither a failed Delete, nor a SetNX  *)
(* whose reply was lost, nor a crash.                                      *)
CardLockIsFreed == \A c \in Cards : lock[c] # None ~> lock[c] = None

(* The card, as its holder sees it, behaves as the abstract ledger.        *)
Ledger == INSTANCE CardLedger
            WITH status <- status, sats <- sats, spent <- spent
LedgerSpec == Ledger!Spec
=============================================================================
