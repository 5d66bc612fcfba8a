------------------------------ MODULE Checkout ------------------------------
(***************************************************************************)
(* Buying gift cards: POST /api/cards (Service.CreateCard) opens a Stripe  *)
(* session and stores the cards of the order, Stripe's webhook             *)
(* (cardPayment, Service.HandleCheckoutEvent) settles the order and        *)
(* publishes one fund_card message per card.                               *)
(*                                                                         *)
(* An order is identified with its request and its session; its cards are  *)
(* numbered, and carry the codes their buyer redeems.  Several deliveries  *)
(* of Stripe's events are handled at once, each by its own handler.  One   *)
(* action is one call to Stripe, PostgreSQL or Redis.                      *)
(***************************************************************************)
EXTENDS Integers, Sequences, FiniteSets

CONSTANTS
  Orders,         \* requests to POST /api/cards
  Size,           \* cards of each order; 0 stands for an invalid request
  Codes,          \* codes generateCardCode may draw
  Handlers,       \* webhook requests in flight at once
  MaxDeliveries,  \* bound: deliveries of one event
  Env,            \* what may go wrong, see CheckoutFlags
  None            \* no order

CheckoutFlags == {
  "fault",      \* a call fails without effect
  "lost",       \* a call takes effect and its reply is lost
  "crash",      \* the API process dies in the middle of a request
  "duplicate",  \* Stripe delivers an event again without waiting for an answer
  "delayed"}    \* a payment method that settles after the session is completed

ASSUME CheckoutAssumption ==
  /\ Size \in [Orders -> Nat]
  /\ MaxDeliveries \in Nat
  /\ Env \subseteq CheckoutFlags
  /\ None \notin Orders

VARIABLES
  session,    \* Stripe: the checkout session of each order; one that is
              \* completed is "unpaid" until its payment is settled
  rows,       \* cards: the codes of the cards of each order
  payment,    \* cards.payment_status, the same for all cards of an order
  published,  \* fund_card messages published for each card of an order
  buying,     \* the next call of each CreateCard
  drawn,      \* codes CreateCard has generated so far
  answer,     \* what POST /api/cards answered
  deliveries, \* times Stripe has sent the event of each order
  acked,      \* whether Stripe has seen a 200 for it
  at,         \* the next call of each handler
  of,         \* the order each handler works on
  event,      \* the type of the event it handles
  next        \* the card it publishes next

dbVars == <<rows, payment>>
buyVars == <<buying, drawn, answer>>
stripeVars == <<session, deliveries, acked>>
handlerVars == <<at, of, event, next>>
vars == <<dbVars, published, buyVars, stripeVars, handlerVars>>

TypeOK ==
  /\ session \in [Orders -> {"none", "open", "unpaid", "paid", "expired"}]
  /\ rows \in [Orders -> Seq(Codes)]
  /\ payment \in [Orders -> {"none", "pending", "paid", "expired"}]
  /\ \A o \in Orders : published[o] \in [1..Size[o] -> 0..MaxDeliveries]
  /\ buying \in [Orders -> {"session", "codes", "insert", "over"}]
  /\ drawn \in [Orders -> Seq(Codes)] /\ \A o \in Orders : Len(drawn[o]) <= Size[o]
  /\ answer \in [Orders -> {"none", "created", "error"}]
  /\ deliveries \in [Orders -> 0..MaxDeliveries]
  /\ acked \in [Orders -> BOOLEAN]
  /\ at \in [Handlers -> {"idle", "load", "update", "publish", "respond"}]
  /\ of \in [Handlers -> Orders \cup {None}]
  /\ event \in [Handlers -> {"none", "completed", "expired"}]
  /\ \A h \in Handlers :
       /\ at[h] = "idle" <=> of[h] = None
       /\ at[h] = "idle" <=> event[h] = "none"
       /\ at[h] = "publish" => next[h] \in 1..Size[of[h]]

Init ==
  /\ session = [o \in Orders |-> "none"]
  /\ rows = [o \in Orders |-> <<>>]
  /\ payment = [o \in Orders |-> "none"]
  /\ published = [o \in Orders |-> [i \in 1..Size[o] |-> 0]]
  /\ buying = [o \in Orders |-> "session"]
  /\ drawn = [o \in Orders |-> <<>>]
  /\ answer = [o \in Orders |-> "none"]
  /\ deliveries = [o \in Orders |-> 0]
  /\ acked = [o \in Orders |-> FALSE]
  /\ at = [h \in Handlers |-> "idle"]
  /\ of = [h \in Handlers |-> None]
  /\ event = [h \in Handlers |-> "none"]
  /\ next = [h \in Handlers |-> 1]

Elements(s) == {s[i] : i \in DOMAIN s}
Stored == UNION {Elements(rows[o]) : o \in Orders}
Fault == "fault" \in Env
Lost == "lost" \in Env

-----------------------------------------------------------------------------
(* Service.CreateCard.                                                     *)

Answers(o, what) ==
  /\ answer' = [answer EXCEPT ![o] = what]
  /\ buying' = [buying EXCEPT ![o] = "over"]

RejectOrder(o) ==
  /\ buying[o] = "session"
  /\ Size[o] = 0
  /\ Answers(o, "error")
  /\ UNCHANGED <<dbVars, published, drawn, stripeVars, handlerVars>>

\* The session is opened before anything is stored.
CreateSession(o) ==
  /\ buying[o] = "session"
  /\ Size[o] > 0
  /\ session' = [session EXCEPT ![o] = "open"]
  /\ buying' = [buying EXCEPT ![o] = "codes"]
  /\ UNCHANGED <<dbVars, published, drawn, answer, deliveries, acked, handlerVars>>

SessionFailed(o) ==
  /\ buying[o] = "session"
  /\ Size[o] > 0
  /\ \/ Fault /\ UNCHANGED session
     \/ Lost /\ session' = [session EXCEPT ![o] = "open"]
  /\ Answers(o, "error")
  /\ UNCHANGED <<dbVars, published, drawn, deliveries, acked, handlerVars>>

\* generateCardCode checks the code against the stored ones only, neither
\* against those of the same order nor of an order still being created.
GenerateCode(o) ==
  /\ buying[o] = "codes"
  /\ \E k \in Codes \ Stored : drawn' = [drawn EXCEPT ![o] = Append(@, k)]
  /\ buying' = [buying EXCEPT ![o] = IF Len(drawn'[o]) = Size[o] THEN "insert" ELSE "codes"]
  /\ UNCHANGED <<dbVars, published, answer, stripeVars, handlerVars>>

\* Five draws were taken already, or the check failed.
CodeFailed(o) ==
  /\ buying[o] = "codes"
  /\ Stored # {} \/ Fault
  /\ Answers(o, "error")
  /\ UNCHANGED <<dbVars, published, drawn, stripeVars, handlerVars>>

\* Mutant: codes are compared with the stored ones only.
MutUnique(codes) == Elements(codes) \cap Stored = {}

\* cards.code is UNIQUE, within the order and beyond it.
Unique(codes) ==
  /\ \A i, j \in DOMAIN codes : codes[i] = codes[j] => i = j
  /\ Elements(codes) \cap Stored = {}

\* Mutant: the inserts are not in one transaction.
MutBulkCreate(o) ==
  /\ payment' = [payment EXCEPT ![o] = "pending"]
  /\ \E n \in 1..Size[o] : rows' = [rows EXCEPT ![o] = SubSeq(drawn[o], 1, n)]

BulkCreate(o) ==
  /\ rows' = [rows EXCEPT ![o] = drawn[o]]
  /\ payment' = [payment EXCEPT ![o] = "pending"]

InsertCards(o) ==
  /\ buying[o] = "insert"
  /\ Unique(drawn[o])
  /\ BulkCreate(o)
  /\ Answers(o, "created")
  /\ UNCHANGED <<published, drawn, stripeVars, handlerVars>>

\* Mutant: the error of the transaction is not returned.
MutInsertFailed(o) ==
  /\ buying[o] = "insert"
  /\ \/ (~Unique(drawn[o]) \/ Fault) /\ UNCHANGED dbVars
     \/ Lost /\ Unique(drawn[o]) /\ BulkCreate(o)
  /\ Answers(o, "created")
  /\ UNCHANGED <<published, drawn, stripeVars, handlerVars>>

InsertFailed(o) ==
  /\ buying[o] = "insert"
  /\ \/ (~Unique(drawn[o]) \/ Fault) /\ UNCHANGED dbVars
     \/ Lost /\ Unique(drawn[o]) /\ BulkCreate(o)
  /\ Answers(o, "error")
  /\ UNCHANGED <<published, drawn, stripeVars, handlerVars>>

CrashCreate(o) ==
  /\ "crash" \in Env
  /\ buying[o] # "over"
  /\ buying' = [buying EXCEPT ![o] = "over"]
  /\ UNCHANGED <<dbVars, published, drawn, answer, stripeVars, handlerVars>>

-----------------------------------------------------------------------------
(* Stripe and the buyer.  A session is completed or expires, never both.   *)

\* The answer to POST /api/cards holds the only link to the session.  With
\* most payment methods a completed session is a paid one; with one that
\* settles later its payment_status is unpaid.  CreateCheckoutSession does
\* not restrict the methods and ConstructEvent drops that status.
PayOrder(o) ==
  /\ answer[o] = "created"
  /\ session[o] = "open"
  /\ \/ session' = [session EXCEPT ![o] = "paid"]
     \/ "delayed" \in Env /\ session' = [session EXCEPT ![o] = "unpaid"]
  /\ UNCHANGED <<dbVars, published, buyVars, deliveries, acked, handlerVars>>

\* The money arrives; it may never.  Stripe's events about that are none
\* of the two the shop knows.
SettleOrder(o) ==
  /\ session[o] = "unpaid"
  /\ session' = [session EXCEPT ![o] = "paid"]
  /\ UNCHANGED <<dbVars, published, buyVars, deliveries, acked, handlerVars>>

\* A session lives 24 h, CreateCard is over by then.
ExpireSession(o) ==
  /\ session[o] = "open"
  /\ buying[o] = "over"
  /\ session' = [session EXCEPT ![o] = "expired"]
  /\ UNCHANGED <<dbVars, published, buyVars, deliveries, acked, handlerVars>>

Completed(o) == session[o] \in {"unpaid", "paid"}
InFlight(o) == \E h \in Handlers : of[h] = o

\* POST /webhook/stripe: an event is sent again until it is answered with a
\* 200.  A body that is not read or not verified is refused.
DeliverEvent(h, o) ==
  /\ at[h] = "idle"
  /\ Completed(o) \/ session[o] = "expired"
  /\ deliveries[o] < MaxDeliveries
  /\ "duplicate" \in Env \/ (~acked[o] /\ ~InFlight(o))
  /\ deliveries' = [deliveries EXCEPT ![o] = @ + 1]
  /\ \/ /\ at' = [at EXCEPT ![h] = "load"]
        /\ of' = [of EXCEPT ![h] = o]
        /\ event' = [event EXCEPT ![h] = IF Completed(o) THEN "completed" ELSE "expired"]
     \/ Fault /\ UNCHANGED <<at, of, event>>
  /\ UNCHANGED <<dbVars, published, buyVars, session, acked, next>>

-----------------------------------------------------------------------------
(* Service.HandleCheckoutEvent, which branches on the type of the event.   *)

HandlerAt(h, where) == at' = [at EXCEPT ![h] = where]

\* Mutant: the completed event does not look at the payment status.
MutNothingToDo(h) == rows[of[h]] = <<>>

\* No cards, or a completed event for an order that is not pending.
NothingToDo(h) ==
  \/ rows[of[h]] = <<>>
  \/ event[h] = "completed" /\ payment[of[h]] # "pending"

LoadCards(h) ==
  /\ at[h] = "load"
  /\ HandlerAt(h, IF NothingToDo(h) THEN "respond" ELSE "update")
  /\ UNCHANGED <<dbVars, published, buyVars, stripeVars, of, event, next>>

LoadFailed(h) ==
  /\ at[h] = "load"
  /\ Fault
  /\ HandlerAt(h, "respond")
  /\ UNCHANGED <<dbVars, published, buyVars, stripeVars, of, event, next>>

UpdatePaymentStatus(o, status) == payment' = [payment EXCEPT ![o] = status]

\* What each event makes of the order.
StatusAfter(e) == IF e = "completed" THEN "paid" ELSE "expired"

\* Mutant: an expired session is published like a completed one.
MutUpdatePayment(h) ==
  /\ at[h] = "update"
  /\ UpdatePaymentStatus(of[h], StatusAfter(event[h]))
  /\ HandlerAt(h, "publish")
  /\ next' = [next EXCEPT ![h] = 1]
  /\ UNCHANGED <<rows, published, buyVars, stripeVars, of, event>>

UpdatePayment(h) ==
  /\ at[h] = "update"
  /\ UpdatePaymentStatus(of[h], StatusAfter(event[h]))
  /\ HandlerAt(h, IF event[h] = "completed" THEN "publish" ELSE "respond")
  /\ next' = [next EXCEPT ![h] = 1]
  /\ UNCHANGED <<rows, published, buyVars, stripeVars, of, event>>

\* The event is given up; nothing is published even if the UPDATE is there.
UpdateFailed(h) ==
  /\ at[h] = "update"
  /\ \/ Fault /\ UNCHANGED payment
     \/ Lost /\ UpdatePaymentStatus(of[h], StatusAfter(event[h]))
  /\ HandlerAt(h, "respond")
  /\ UNCHANGED <<rows, published, buyVars, stripeVars, of, event, next>>

\* Mutant: the last card of the order is left out.
MutPublishCard(h) ==
  LET o == of[h] IN
  /\ at[h] = "publish"
  /\ published' = [published EXCEPT ![o][next[h]] = @ + 1]
  /\ IF next[h] + 1 < Size[o]
       THEN next' = [next EXCEPT ![h] = @ + 1] /\ UNCHANGED at
       ELSE HandlerAt(h, "respond") /\ UNCHANGED next
  /\ UNCHANGED <<dbVars, buyVars, stripeVars, of, event>>

\* Mutant: the loop runs past the last card.
MutPublishPastEnd(h) ==
  LET o == of[h] IN
  /\ at[h] = "publish"
  /\ published' = [published EXCEPT ![o][next[h]] = @ + 1]
  /\ IF next[h] <= Size[o]
       THEN next' = [next EXCEPT ![h] = @ + 1] /\ UNCHANGED at
       ELSE HandlerAt(h, "respond") /\ UNCHANGED next
  /\ UNCHANGED <<dbVars, buyVars, stripeVars, of, event>>

\* One message for one card; an error is logged and the loop goes on.
PublishCard(h) ==
  LET o == of[h] IN
  /\ at[h] = "publish"
  /\ \/ published' = [published EXCEPT ![o][next[h]] = @ + 1]
     \/ Fault /\ UNCHANGED published
  /\ IF next[h] < Size[o]
       THEN next' = [next EXCEPT ![h] = @ + 1] /\ UNCHANGED at
       ELSE HandlerAt(h, "respond") /\ UNCHANGED next
  /\ UNCHANGED <<dbVars, buyVars, stripeVars, of, event>>

\* A handled event is always answered 200; the answer may not reach Stripe.
Respond(h) ==
  /\ at[h] = "respond"
  /\ \/ acked' = [acked EXCEPT ![of[h]] = TRUE]
     \/ Lost /\ UNCHANGED acked
  /\ HandlerAt(h, "idle")
  /\ of' = [of EXCEPT ![h] = None]
  /\ event' = [event EXCEPT ![h] = "none"]
  /\ UNCHANGED <<dbVars, published, buyVars, session, deliveries, next>>

CrashHandler(h) ==
  /\ "crash" \in Env
  /\ at[h] # "idle"
  /\ HandlerAt(h, "idle")
  /\ of' = [of EXCEPT ![h] = None]
  /\ event' = [event EXCEPT ![h] = "none"]
  /\ UNCHANGED <<dbVars, published, buyVars, stripeVars, next>>

-----------------------------------------------------------------------------

Create(o) ==
  \/ RejectOrder(o) \/ CreateSession(o) \/ SessionFailed(o) \/ GenerateCode(o)
  \/ CodeFailed(o) \/ InsertCards(o) \/ InsertFailed(o)

HandleEvent(h) ==
  \/ LoadCards(h) \/ LoadFailed(h) \/ UpdatePayment(h) \/ UpdateFailed(h)
  \/ PublishCard(h) \/ Respond(h)

Next ==
  \/ \E o \in Orders :
       Create(o) \/ CrashCreate(o) \/ PayOrder(o) \/ SettleOrder(o) \/ ExpireSession(o)
  \/ \E h \in Handlers :
       HandleEvent(h) \/ CrashHandler(h) \/ \E o \in Orders : DeliverEvent(h, o)

Spec == Init /\ [][Next]_vars

-----------------------------------------------------------------------------

(* An order is stored as a whole or not at all, and no code opens two      *)
(* cards, of one order or of two (RunInTx around BulkCreate, UNIQUE code). *)
OrdersAreWhole ==
  /\ \A o \in Orders :
       /\ Len(rows[o]) \in {0, Size[o]}
       /\ \A i, j \in DOMAIN rows[o] : rows[o][i] = rows[o][j] => i = j
  /\ \A o, p \in Orders : o # p => Elements(rows[o]) \cap Elements(rows[p]) = {}

(* Nobody is charged for cards the shop does not have, although the        *)
(* session is opened before they are stored: a completed session has all   *)
(* its cards, with the codes its buyer was told (CreateCard answers with   *)
(* the link to the session after the transaction only).                    *)
CompletedIsStored ==
  \A o \in Orders : Completed(o) =>
    Size[o] > 0 /\ Len(rows[o]) = Size[o] /\ rows[o] = drawn[o]

(* A second completed "event for an already-paid session is a no-op": each *)
(* card has at most one message.                                           *)
PublishedOnce == \A o \in Orders : \A i \in 1..Size[o] : published[o][i] <= 1

(* "FundCardMessages are published by the webhook handler after Stripe     *)
(* confirms payment": a message stands for money that was collected.       *)
OnlyCollectedIsPublished ==
  \A o \in Orders : \A i \in 1..Size[o] : published[o][i] > 0 => session[o] = "paid"

(* "FundCardMessages are published by the respective webhook handler": an  *)
(* order that is marked paid and that nobody is at work on any more has    *)
(* all its messages.                                                       *)
PaidIsPublished ==
  \A o \in Orders :
    (payment[o] = "paid" /\ acked[o] /\ ~InFlight(o)) =>
      \A i \in 1..Size[o] : published[o][i] > 0
=============================================================================
