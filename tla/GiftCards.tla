------------------------------ MODULE GiftCards -----------------------------
(***************************************************************************)
(* From the order to the active card: Checkout publishes the cards of paid *)
(* orders on the stream from which FundCard reserves their sats.  The two  *)
(* share that stream; what is published in Checkout is what lies in it.    *)
(*                                                                         *)
(* A card has its place in FundCard from the start, in status created; its *)
(* row exists when Checkout has stored the order, and no message names it  *)
(* before.                                                                 *)
(***************************************************************************)
EXTENDS FundCard

CONSTANTS
  Orders,         \* requests to POST /api/cards
  CardsOf,        \* the cards of each order
  Codes,          \* codes generateCardCode may draw
  Handlers,       \* webhook requests in flight at once
  MaxDeliveries,  \* bound: deliveries of one event
  ShopEnv         \* what may go wrong in the shop, see CheckoutFlags

ASSUME GiftAssumption ==
  /\ CardsOf \in [Orders -> Seq(Cards)]
  /\ \A o, p \in Orders : \A i \in DOMAIN CardsOf[o], j \in DOMAIN CardsOf[p] :
       CardsOf[o][i] = CardsOf[p][j] => o = p /\ i = j
  /\ \A c \in Cards : \E o \in Orders : \E i \in DOMAIN CardsOf[o] : CardsOf[o][i] = c
  /\ None \notin Orders

VARIABLES
  session, rows, payment, buying, drawn, answer, deliveries, acked, at, of, event,
  next

\* HandleCheckoutEvent calls Publish on the stream the workers read.
PublishedOf ==
  [o \in Orders |-> [i \in DOMAIN CardsOf[o] |-> Cardinality(Messages(CardsOf[o][i]))]]

Shop == INSTANCE Checkout WITH
  Size <- [o \in Orders |-> Len(CardsOf[o])], Env <- ShopEnv, published <- PublishedOf

ASSUME ShopAssumption ==
  /\ MaxDeliveries \in Nat
  /\ ShopEnv \subseteq Shop!CheckoutFlags

shopVars == <<session, rows, payment, buying, drawn, answer, deliveries, acked, at, of,
  event, next>>
giftVars == <<vars, shopVars>>

GiftInit == Init /\ Shop!Init

-----------------------------------------------------------------------------

\* A handler puts the card it has come to on the stream, ...
PublishPaid(h) ==
  /\ at[h] = "publish"
  /\ PublishMessage(CardsOf[of[h]][next[h]])
  /\ Shop!PublishCard(h)

\* ... and everything else in the shop leaves the workers alone.
CreateCards(o) == UNCHANGED vars /\ Shop!Create(o)
DeliverTo(h, o) == UNCHANGED vars /\ Shop!DeliverEvent(h, o)
Handle(h) == PublishPaid(h) \/ (UNCHANGED vars /\ Shop!HandleEvent(h))

\* Stripe, the buyer, and whatever kills the API.
Outside ==
  /\ UNCHANGED vars
  /\ \/ \E o \in Orders : \/ Shop!PayOrder(o) \/ Shop!SettleOrder(o)
                           \/ Shop!ExpireSession(o) \/ Shop!CrashCreate(o)
     \/ \E h \in Handlers : Shop!CrashHandler(h)

FundCards == (Funding \/ Environment) /\ UNCHANGED shopVars

GiftNext ==
  \/ FundCards \/ Outside
  \/ \E o \in Orders : CreateCards(o)
  \/ \E h \in Handlers : Handle(h) \/ \E o \in Orders : DeliverTo(h, o)

GiftSpec == GiftInit /\ [][GiftNext]_giftVars

\* The fairness of the two parts.
GiftFairness ==
  /\ WorkersAreFair
  /\ \A o \in Orders : /\ WF_giftVars(CreateCards(o))
                       /\ SF_giftVars(\E h \in Handlers : DeliverTo(h, o))
  /\ \A h \in Handlers : WF_giftVars(Handle(h))

FairGiftSpec == GiftSpec /\ GiftFairness

-----------------------------------------------------------------------------

OrderOf == [c \in Cards |-> CHOOSE o \in Orders : \E i \in DOMAIN CardsOf[o] : CardsOf[o][i] = c]

(* No sats for unpaid cards: what touches the treasury, be it a status, a  *)
(* reservation or a message that leads to one, belongs to an order that    *)
(* Stripe has been paid for.  With a method that settles later it may not  *)
(* have been (OnlyCollectedIsPublished of Checkout).                       *)
OnlyPaidIsReserved ==
  \A c \in Cards :
    (Messages(c) # {} \/ status[c] # "created" \/ funds[c] > 0) => session[OrderOf[c]] = "paid"

\* A card that is being funded is still blank, and so is one whose funding
\* is given up.
Outcome == [open |-> "offered", unpaid |-> "offered", paid |-> "paid", expired |-> "lapsed"]
Life == INSTANCE CardLife WITH
  Worth <- [c \in Cards |-> {Sats(c, q) : q \in Quotes} \ {0}],
  order <- [o \in Orders |-> IF rows[o] = <<>> THEN "none" ELSE Outcome[session[o]]],
  status <- [c \in Cards |-> IF status[c] \in {"active", "redeemed"} THEN status[c] ELSE "blank"],
  sats <- [c \in Cards |-> IF status[c] \in {"active", "redeemed"} THEN sats[c] ELSE 0]

(* The shop and the worker together keep what CardLife promises: whatever  *)
(* is delivered twice or handled at once, a card becomes active once, only *)
(* if paid, and with what it was worth.                                    *)
ImplementsCardLife == Life!Spec

(* Who has paid gets a card: every card of a paid order is active in the   *)
(* end, unless its fees left nothing of its price (see Fees).              *)
EveryPaidCardActive ==
  \A c \in Cards : Net[c] > 0 =>
    (session[OrderOf[c]] = "paid" ~> status[c] \in {"active", "redeemed"})
=============================================================================
