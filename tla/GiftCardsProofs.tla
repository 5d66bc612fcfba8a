--------------------------- MODULE GiftCardsProofs --------------------------
(***************************************************************************)
(* Proofs about GiftCards, the webshop and the funding workers together:   *)
(* for any orders, cards, workers and handlers.  Each part keeps its own   *)
(* invariants, since a step of the whole is a step of Checkout (ShopP) and *)
(* a step of FundCard in which any card may get a message.                 *)
(***************************************************************************)
EXTENDS GiftCards, FundCardProofs

ShopP == INSTANCE CheckoutProofs WITH
  Size <- [o \in Orders |-> Len(CardsOf[o])], Env <- ShopEnv, published <- PublishedOf

-----------------------------------------------------------------------------
(* A step of the whole is a step of the shop.                              *)

LEMMA ShopConstants ==
  /\ [o \in Orders |-> Len(CardsOf[o])] \in [Orders -> Nat]
  /\ MaxDeliveries \in Nat
  /\ ShopEnv \subseteq ShopP!CheckoutFlags
  /\ None \notin Orders
<1>1. \A o \in Orders : Len(CardsOf[o]) \in Nat
  BY GiftAssumption
<1>2. ShopEnv \subseteq ShopP!CheckoutFlags
  BY ShopAssumption DEF Shop!CheckoutFlags, ShopP!CheckoutFlags
<1> QED
  BY <1>1, <1>2, GiftAssumption, ShopAssumption

LEMMA SameHandle == ASSUME NEW h \in Handlers, Shop!HandleEvent(h) PROVE ShopP!HandleEvent(h)
  BY DEF Shop!HandleEvent, Shop!LoadCards, Shop!LoadFailed, Shop!UpdatePayment, Shop!UpdateFailed,
    Shop!UpdatePaymentStatus, Shop!StatusAfter, Shop!NothingToDo, Shop!Respond, Shop!PublishCard, Shop!HandlerAt,
    Shop!Lost, Shop!Fault, Shop!dbVars, Shop!stripeVars, Shop!buyVars,
    ShopP!HandleEvent, ShopP!LoadCards, ShopP!LoadFailed, ShopP!UpdatePayment, ShopP!UpdateFailed,
    ShopP!UpdatePaymentStatus, ShopP!StatusAfter, ShopP!NothingToDo, ShopP!Respond, ShopP!PublishCard, ShopP!HandlerAt,
    ShopP!Lost, ShopP!Fault, ShopP!dbVars, ShopP!stripeVars, ShopP!buyVars

LEMMA SameCreate == ASSUME NEW o \in Orders, Shop!Create(o) PROVE ShopP!Create(o)
  BY DEF Shop!Create, Shop!RejectOrder, Shop!CreateSession, Shop!SessionFailed, Shop!GenerateCode,
    Shop!CodeFailed, Shop!InsertCards, Shop!InsertFailed, Shop!BulkCreate, Shop!Unique, Shop!Elements,
    Shop!Stored, Shop!Answers, Shop!Lost, Shop!Fault, Shop!dbVars, Shop!stripeVars, Shop!handlerVars,
    ShopP!Create, ShopP!RejectOrder, ShopP!CreateSession, ShopP!SessionFailed, ShopP!GenerateCode,
    ShopP!CodeFailed, ShopP!InsertCards, ShopP!InsertFailed, ShopP!BulkCreate, ShopP!Unique, ShopP!Elements,
    ShopP!Stored, ShopP!Answers, ShopP!Lost, ShopP!Fault, ShopP!dbVars, ShopP!stripeVars, ShopP!handlerVars

LEMMA SameBuy ==
  ASSUME NEW o \in Orders, Shop!PayOrder(o) \/ Shop!SettleOrder(o) \/ Shop!ExpireSession(o)
  PROVE  ShopP!PayOrder(o) \/ ShopP!SettleOrder(o) \/ ShopP!ExpireSession(o)
  BY DEF Shop!PayOrder, Shop!SettleOrder, Shop!ExpireSession, Shop!dbVars, Shop!buyVars, Shop!handlerVars,
    ShopP!PayOrder, ShopP!SettleOrder, ShopP!ExpireSession, ShopP!dbVars, ShopP!buyVars, ShopP!handlerVars

LEMMA SameDeliver ==
  ASSUME NEW h \in Handlers, NEW o \in Orders, Shop!DeliverEvent(h, o)
  PROVE  ShopP!DeliverEvent(h, o)
  BY DEF Shop!DeliverEvent, Shop!InFlight, Shop!Completed, Shop!Fault, Shop!dbVars, Shop!buyVars,
    ShopP!DeliverEvent, ShopP!InFlight, ShopP!Completed, ShopP!Fault, ShopP!dbVars, ShopP!buyVars

LEMMA SameCrashes ==
  /\ \A o \in Orders : Shop!CrashCreate(o) => ShopP!CrashCreate(o)
  /\ \A h \in Handlers : Shop!CrashHandler(h) => ShopP!CrashHandler(h)
  BY DEF Shop!CrashCreate, Shop!CrashHandler, Shop!HandlerAt, Shop!dbVars, Shop!buyVars, Shop!stripeVars,
    Shop!handlerVars, ShopP!CrashCreate, ShopP!CrashHandler, ShopP!HandlerAt, ShopP!dbVars, ShopP!buyVars,
    ShopP!stripeVars, ShopP!handlerVars

LEMMA SameInit == ASSUME Shop!Init PROVE ShopP!Init
  BY DEF Shop!Init, ShopP!Init

LEMMA SameMessages ==
  ASSUME UNCHANGED stream
  PROVE  PublishedOf' = PublishedOf /\ \A c \in Cards : Messages(c)' = Messages(c)
  BY DEF PublishedOf, Messages

LEMMA GiftIsShopStep ==
  ASSUME [GiftNext]_giftVars
  PROVE  [ShopP!Next]_(ShopP!vars)
<1> USE DEF ShopP!Next
<1>1. ASSUME UNCHANGED <<stream, shopVars>>  PROVE UNCHANGED ShopP!vars
  BY <1>1, SameMessages DEF shopVars, ShopP!vars, ShopP!dbVars, ShopP!buyVars, ShopP!stripeVars, ShopP!handlerVars
<1>2. CASE FundCards
  BY <1>1, <1>2, StreamUntouched DEF FundCards
<1>3. ASSUME NEW o \in Orders, CreateCards(o)  PROVE ShopP!Next
  BY <1>3, SameCreate DEF CreateCards
<1>4. CASE Outside
  BY <1>4, SameBuy, SameCrashes DEF Outside
<1>5. ASSUME NEW h \in Handlers, Handle(h)  PROVE ShopP!Next
  <2>1. Shop!HandleEvent(h)
    BY <1>5 DEF Handle, PublishPaid, Shop!HandleEvent
  <2> QED
    BY <2>1, SameHandle
<1>6. ASSUME NEW h \in Handlers, NEW o \in Orders, DeliverTo(h, o)  PROVE ShopP!Next
  BY <1>6, SameDeliver DEF DeliverTo
<1>7. CASE UNCHANGED giftVars
  BY <1>1, <1>7 DEF giftVars, vars, streamVars
<1> QED
  BY <1>2, <1>3, <1>4, <1>5, <1>6, <1>7 DEF GiftNext

-----------------------------------------------------------------------------
(* The stream is what they share.                                          *)

LEMMA PlaceOf ==
  ASSUME NEW c \in Cards
  PROVE  /\ OrderOf[c] \in Orders
         /\ \E i \in 1..Len(CardsOf[OrderOf[c]]) : CardsOf[OrderOf[c]][i] = c
<1>1. \E o \in Orders : \E i \in DOMAIN CardsOf[o] : CardsOf[o][i] = c
  BY GiftAssumption
<1>2. OrderOf[c] \in Orders /\ \E i \in DOMAIN CardsOf[OrderOf[c]] : CardsOf[OrderOf[c]][i] = c
  BY <1>1 DEF OrderOf
<1>3. \A o \in Orders : CardsOf[o] \in Seq(Cards)
  BY GiftAssumption
<1> QED
  BY <1>2, <1>3

LEMMA MessagesAreFinite == ASSUME StreamOK, NEW c PROVE IsFiniteSet(Messages(c))
<1>1. IsFiniteSet(1..Len(stream))
  BY FS_Interval DEF StreamOK
<1> QED
  BY <1>1, FS_Subset DEF Messages, StreamOK

\* What a handler puts on the stream is a message for a card.
LEMMA GiftIsFundStep ==
  ASSUME ShopP!ShopInv, [GiftNext]_giftVars
  PROVE  [FundStep]_vars
<1>1. CASE FundCards
  BY <1>1 DEF FundCards, FundStep
<1>2. ASSUME NEW h \in Handlers, PublishPaid(h)  PROVE FundStep
  <2>1. of[h] \in Orders /\ next[h] \in 1..Len(CardsOf[of[h]])
    <3>1. of[h] \in Orders /\ next[h] \in 1..[o \in Orders |-> Len(CardsOf[o])][of[h]]
      BY <1>2 DEF PublishPaid, ShopP!ShopInv, ShopP!SessionInv, ShopP!OfferInv
    <3> QED
      BY <3>1
  <2>2. CardsOf[of[h]] \in Seq(Cards)
    BY <2>1, GiftAssumption
  <2>3. CardsOf[of[h]][next[h]] \in Cards
    BY <2>1, <2>2
  <2> QED
    BY <1>2, <2>3 DEF PublishPaid, FundStep
<1>3. CASE UNCHANGED vars
  BY <1>3
<1> QED
  BY <1>1, <1>2, <1>3 DEF GiftNext, CreateCards, Outside, Handle, DeliverTo, giftVars

LEMMA MessagesArePaid ==
  ASSUME StreamOK, ShopP!ShopInv, ShopP!SettledInv, NEW c \in Cards, Messages(c) # {}
  PROVE  session[OrderOf[c]] = "paid" /\ rows[OrderOf[c]] # <<>>
<1> DEFINE o == OrderOf[c]
<1>1. o \in Orders
  BY PlaceOf
<1>2. PICK i \in 1..Len(CardsOf[o]) : CardsOf[o][i] = c
  BY PlaceOf
<1>3. Cardinality(Messages(c)) > 0
  BY MessagesAreFinite, FS_EmptySet, FS_CardinalityType
<1>4. i \in DOMAIN CardsOf[o]
  BY <1>1, <1>2, GiftAssumption
<1> HIDE DEF o
<1>5. PublishedOf[o][i] > 0
  BY <1>1, <1>2, <1>3, <1>4 DEF PublishedOf
<1>6. \A k \in 1..[p \in Orders |-> Len(CardsOf[p])][o] :
         PublishedOf[o][k] > 0 => rows[o] # <<>> /\ session[o] = "paid"
  BY <1>1 DEF ShopP!ShopInv, ShopP!OfferInv, ShopP!Completed, ShopP!SettledInv
<1>7. [p \in Orders |-> Len(CardsOf[p])][o] = Len(CardsOf[o])
  BY <1>1
<1>8. rows[o] # <<>> /\ session[o] = "paid"
  BY <1>2, <1>5, <1>6, <1>7
<1> QED
  BY <1>8 DEF o

LEMMA MessagesStay ==
  ASSUME FlowInv, [FundStep]_vars, NEW c \in Cards
  PROVE  Messages(c) \subseteq Messages(c)'
<1>1. /\ Len(stream) = published /\ Len(stream') = published' /\ published \in Nat /\ published' \in Nat
      /\ stream \in Seq(Cards) /\ stream' \in Seq(Cards)
      /\ published' >= published /\ \A m \in 1..published : stream'[m] = stream[m]
  BY StreamStep, FlowStep DEF FlowInv, StreamOK, QueueInv, QueueTypeOK
<1> QED
  BY <1>1 DEF Messages

\* Whoever is at work has a message for it.
LEMMA BusyHasMessage ==
  ASSUME FlowInv, NEW w \in Workers, batch[w] # {}
  PROVE  CardOf(w) \in Cards /\ Messages(CardOf(w)) # {}
  BY CardAtHand DEF FlowInv, Messages, CardOf, StreamOK

\* Nothing happens to a card without a message.
Touched ==
  \A c \in Cards : status[c] # "created" \/ funds[c] > 0 \/ owed[c] > 0 => Messages(c) # {}

LEMMA WhoTouches ==
  ASSUME FlowInv, [FundStep]_vars, NEW c \in Cards
  PROVE  \/ status'[c] = status[c] /\ funds'[c] = funds[c] /\ owed'[c] = owed[c]
         \/ \E w \in Workers : batch[w] # {} /\ CardOf(w) = c
         \/ status[c] # "created" \/ owed[c] > 0
<1> DEFINE Goal == \/ status'[c] = status[c] /\ funds'[c] = funds[c] /\ owed'[c] = owed[c]
                   \/ \E w \in Workers : batch[w] # {} /\ CardOf(w) = c
                   \/ status[c] # "created" \/ owed[c] > 0
<1>a. CardTypeOK /\ \A w \in Workers : pc[w] # "idle" => batch[w] # {}
  BY DEF FlowInv, Busy
<1> USE DEF cardVars, lndVars
<1>1. ASSUME NEW w \in Workers, Mark(w) \/ Write(w) \/ RevertCardToCreated(w)  PROVE Goal
  <2>1. /\ pc[w] # "idle" /\ UNCHANGED owed
        /\ \/ UNCHANGED cardVars
           \/ Activate(w)
           \/ UNCHANGED funds /\ \E st \in {"created", "funding"} : UpdateCard(CardOf(w), st, sats[CardOf(w)])
    BY <1>1 DEF Mark, MarkFunding, MarkFailed, FailEarly, Write, ActivateCard, ActivateFailed,
      RevertCardToCreated
  <2>2. CASE CardOf(w) = c
    BY <1>a, <2>1, <2>2
  <2>3. CASE CardOf(w) # c
    BY <1>a, <2>1, <2>3 DEF Activate, UpdateCard, CardTypeOK
  <2> QED
    BY <2>2, <2>3
<1>2. ASSUME NEW w \in Workers,
             Read(w) \/ Price(w) \/ Load(w) \/ Lock(w) \/ Compute(w) \/ ReleaseTreasuryLock(w)
      PROVE Goal
  BY <1>2 DEF Read, Price, RefuseMessage, PriceUnavailable, DropMessage, FetchPrice, FailEarly, Load,
    LoadFailed, SkipCard, LoadCard, Lock, AcquireTreasuryLock, TreasuryLockRefused, Compute,
    GetChannelBalance, GetWalletBalance, CheckAvailable, TreasuryRefused, ReleaseTreasuryLock
<1>3. ASSUME NEW w \in Workers, FinishMessage(w) \/ Crash(w) \/ PricePanics(w)  PROVE Goal
  BY <1>3 DEF FinishMessage, Crash, PricePanics
<1>4. CASE TreasuryLockExpires \/ OpenChannel \/ ChannelConfirmed
  BY <1>4 DEF TreasuryLockExpires, OpenChannel, ChannelConfirmed
<1>5. ASSUME NEW d \in Cards, PayOut(d) \/ DebitCard(d)  PROVE Goal
  BY <1>a, <1>5 DEF PayOut, DebitCard, UpdateCard, CardTypeOK
<1>6. ASSUME NEW d \in Cards, PublishMessage(d)  PROVE Goal
  BY <1>6 DEF PublishMessage
<1>7. CASE UNCHANGED vars
  BY <1>7 DEF vars
<1> QED
  BY <1>1, <1>2, <1>3, <1>4, <1>5, <1>6, <1>7 DEF FundStep, Funding, Work, Environment

LEMMA TouchedStep ==
  ASSUME FlowInv, Touched, [FundStep]_vars
  PROVE  Touched'
<1> SUFFICES ASSUME NEW c \in Cards, status'[c] # "created" \/ funds'[c] > 0 \/ owed'[c] > 0
             PROVE  Messages(c)' # {}
  BY DEF Touched
<1>1. Messages(c) # {}
  BY WhoTouches, BusyHasMessage DEF Touched
<1> QED
  BY <1>1, MessagesStay

\* Payments settle when their session is completed.
PaidAtOnce == "delayed" \notin ShopEnv

GiftInv == FlowInv /\ ShopP!ShopInv /\ Touched /\ (PaidAtOnce => ShopP!SettledInv)

LEMMA InitGift == ASSUME GiftInit PROVE GiftInv
<1>1. ShopP!ShopInv
  BY ShopConstants, SameInit, ShopP!InitShop DEF GiftInit
<1>2. ShopP!SettledInv
  BY DEF GiftInit, Shop!Init, ShopP!SettledInv
<1> QED
  BY <1>1, <1>2, InitFlow DEF GiftInit, GiftInv, Touched, Init

LEMMA GiftStep == ASSUME GiftInv, [GiftNext]_giftVars PROVE GiftInv' /\ [FundStep]_vars
<1>1. ShopP!ShopInv'
  BY ShopConstants, GiftIsShopStep, ShopP!ShopStep DEF GiftInv
<1>2. [FundStep]_vars
  BY GiftIsFundStep DEF GiftInv
<1>3. PaidAtOnce => ShopP!SettledInv'
  BY ShopConstants, GiftIsShopStep, ShopP!SettledStep DEF GiftInv, PaidAtOnce, ShopP!ShopInv
<1> QED
  BY <1>1, <1>2, <1>3, FlowStep, TouchedStep DEF GiftInv, PaidAtOnce

(* No sats for unpaid cards: as long as payments settle when their session *)
(* is completed, whatever fails, is lost, slow or delivered twice, and     *)
(* wherever a worker or the server dies, a card has a message, another     *)
(* status than created or a fund transaction only after Stripe was paid    *)
(* for its order (HandleCheckoutEvent, Service.FundCard).                  *)
THEOREM NoSatsForUnpaidCards == PaidAtOnce => (GiftSpec => []OnlyPaidIsReserved)
<1> SUFFICES ASSUME PaidAtOnce PROVE GiftSpec => []OnlyPaidIsReserved
  OBVIOUS
<1>1. GiftInit => GiftInv
  BY InitGift
<1>2. GiftInv /\ [GiftNext]_giftVars => GiftInv'
  BY GiftStep
<1>3. GiftInv => OnlyPaidIsReserved
  BY MessagesArePaid DEF GiftInv, OnlyPaidIsReserved, Touched, FlowInv
<1> QED
  BY <1>1, <1>2, <1>3, PTL DEF GiftSpec

-----------------------------------------------------------------------------
(* The refinement.  Who is at work on a card is alone, so that the status  *)
(* it saw is the status it replaces.                                       *)

\* Stripe waits for answers and no batch is slower than MinIdle, or there is
\* a single worker.
Calm == SingleWorker \/ ("duplicate" \notin ShopEnv /\ "slow" \notin Env)

CalmInv == SingleWorker \/ (ShopP!OnceInv /\ HandledByOne)

LEMMA OneForEach ==
  ASSUME StreamOK, ShopP!PublishedOnce
  PROVE  OneEach
<1> SUFFICES ASSUME NEW c \in Cards, NEW m \in Messages(c), NEW n \in Messages(c), m # n
             PROVE  FALSE
  BY DEF OneEach
<1>1. PICK o \in Orders : \E i \in 1..Len(CardsOf[o]) : CardsOf[o][i] = c
  BY PlaceOf
<1>2. PICK i \in 1..Len(CardsOf[o]) : CardsOf[o][i] = c
  BY <1>1
<1>3. i \in DOMAIN CardsOf[o]
  BY <1>2, GiftAssumption
<1>4. PublishedOf[o][i] = Cardinality(Messages(c))
  BY <1>2, <1>3 DEF PublishedOf
<1>5. [p \in Orders |-> Len(CardsOf[p])][o] = Len(CardsOf[o])
  BY <1>1
<1>6. Cardinality(Messages(c)) <= 1
  BY <1>2, <1>4, <1>5 DEF ShopP!PublishedOnce
<1>7. IsFiniteSet(Messages(c)) /\ IsFiniteSet(Messages(c) \ {m}) /\ n \in Messages(c) \ {m}
  BY MessagesAreFinite, FS_RemoveElement
<1>8. /\ Cardinality(Messages(c) \ {m}) = Cardinality(Messages(c)) - 1
      /\ Cardinality(Messages(c) \ {m}) \in Nat /\ Cardinality(Messages(c)) \in Nat
      /\ Cardinality(Messages(c) \ {m}) # 0
  BY <1>7, FS_RemoveElement, FS_CardinalityType, FS_EmptySet
<1> QED
  BY <1>6, <1>8

LEMMA CalmIsApart == ASSUME GiftInv, CalmInv PROVE Apart
<1>1. CASE SingleWorker
  BY <1>1, OneIsApart
<1>2. CASE ShopP!OnceInv /\ HandledByOne
  BY <1>2, OneForEach, CardsApart DEF GiftInv, FlowInv, ShopP!OnceInv
<1> QED
  BY <1>1, <1>2 DEF CalmInv

LEMMA InitCalm == ASSUME GiftInit, Calm PROVE CalmInv
  BY ShopConstants, SameInit, ShopP!InitOnce, InitFlow DEF GiftInit, CalmInv, Calm

LEMMA CalmStep ==
  ASSUME GiftInv, CalmInv, Calm, [GiftNext]_giftVars
  PROVE  CalmInv'
<1>1. CASE SingleWorker
  BY <1>1 DEF CalmInv
<1>2. CASE ~SingleWorker
  <2>1. ShopP!OnceInv'
    BY <1>2, ShopConstants, GiftIsShopStep, ShopP!OnceStep DEF CalmInv, Calm
  <2>2. HandledByOne'
    BY <1>2, GiftStep, OneHandlerStep DEF GiftInv, CalmInv, Calm, Prompt
  <2> QED
    BY <2>1, <2>2 DEF CalmInv
<1> QED
  BY <1>1, <1>2

\* What a worker is about to reserve is what its card is worth.
WorthOf(c) == {Sats(c, q) : q \in Quotes} \ {0}
Priced == {"load", "mark", "lock", "channel", "wallet", "reserved", "activate"}
WorthInv == \A w \in Workers : pc[w] \in Priced => want[w] \in WorthOf(CardOf(w))

LEMMA WorthStep ==
  ASSUME FlowInv, WorthInv, [FundStep]_vars
  PROVE  WorthInv'
<1> SUFFICES ASSUME NEW w \in Workers, pc'[w] \in Priced
             PROVE  want'[w] \in WorthOf(CardOf(w)')
  BY DEF WorthInv, WorthOf, Quotes, Sats
<1>a. WorkTypeOK /\ CardTypeOK /\ QueueTypeOK
  BY DEF FlowInv, QueueInv
<1>1. pc[w] # "idle" /\ batch'[w] = batch[w]
  BY <1>a, WhoSteps, OthersUntouched, NobodyWorks, WhereNext DEF Priced
<1>2. CardOf(w)' = CardOf(w) /\ CardOf(w) \in Cards
  BY <1>1, SameCard DEF FlowInv, Busy
<1> DEFINE Goal == want'[w] \in WorthOf(CardOf(w))
<1>3. ASSUME pc[w] \in Priced, want'[w] = want[w]  PROVE Goal
  BY <1>3 DEF WorthInv
<1>4. ASSUME WorkerStep(w)  PROVE Goal
  <2> USE <1>a DEF WorkTypeOK, CardTypeOK, Goto, Priced
  <2>1. CASE Read(w) \/ FinishMessage(w) \/ Crash(w) \/ PricePanics(w)
    BY <2>1 DEF Read, FinishMessage, Crash, PricePanics
  <2>2. CASE FetchPrice(w)
    <3>1. PICK q \in Quotes : Sats(CardOf(w), q) > 0 /\ want' = [want EXCEPT ![w] = Sats(CardOf(w), q)]
      BY <2>2 DEF FetchPrice
    <3> QED
      BY <3>1, <1>2, SatsAreInt DEF WorthOf
  <2>3. CASE RefuseMessage(w) \/ PriceUnavailable(w) \/ DropMessage(w) \/ LoadFailed(w) \/ SkipCard(w)
             \/ RevertCardToCreated(w) \/ ReleaseTreasuryLock(w)
    BY <2>3 DEF RefuseMessage, PriceUnavailable, DropMessage, LoadFailed, SkipCard, FailEarly,
      RevertCardToCreated, ReleaseTreasuryLock
  <2>4. CASE LoadCard(w) \/ Mark(w) \/ Lock(w)
    BY <1>3, <2>4 DEF LoadCard, Mark, MarkFunding, MarkFailed, FailEarly, Lock, AcquireTreasuryLock,
      TreasuryLockRefused, workVars
  <2>5. CASE Compute(w) \/ Write(w)
    BY <1>3, <2>5 DEF Compute, GetChannelBalance, GetWalletBalance, CheckAvailable, TreasuryRefused,
      Write, ActivateCard, ActivateFailed, AttemptFailed, workVars
  <2> QED
    BY <1>4, <2>1, <2>2, <2>3, <2>4, <2>5 DEF WorkerStep, Work, Price, Load
<1>5. ASSUME NEW v \in Workers, v # w, WorkerStep(v)  PROVE Goal
  BY <1>a, <1>3, <1>5, OthersUntouched
<1>6. ASSUME Environment \/ (\E c \in Cards : PublishMessage(c)) \/ UNCHANGED vars  PROVE Goal
  BY <1>3, <1>6, NobodyWorks
<1> QED
  BY <1>2, <1>4, <1>5, <1>6, WhoSteps

\* What CardLife sees of the state.
lifeOrder == [o \in Orders |-> IF rows[o] = <<>> THEN "none" ELSE Outcome[session[o]]]
lifeStatus == [c \in Cards |-> IF status[c] \in {"active", "redeemed"} THEN status[c] ELSE "blank"]
lifeSats == [c \in Cards |-> IF status[c] \in {"active", "redeemed"} THEN sats[c] ELSE 0]

\* An order is stored while its session is open, and decided afterwards.
LEMMA OrderLife ==
  ASSUME ShopP!ShopInv, [ShopP!Next]_(ShopP!vars)
  PROVE  \/ UNCHANGED lifeOrder
         \/ \E o \in Orders :
              \/ lifeOrder[o] = "none" /\ lifeOrder' = [lifeOrder EXCEPT ![o] = "offered"]
              \/ /\ lifeOrder[o] = "offered"
                 /\ \E outcome \in {"paid", "lapsed"} : lifeOrder' = [lifeOrder EXCEPT ![o] = outcome]
<1> DEFINE Offered(o) == lifeOrder[o] = "none" /\ lifeOrder' = [lifeOrder EXCEPT ![o] = "offered"]
           Decided(o) == /\ lifeOrder[o] = "offered"
                         /\ \E outcome \in {"paid", "lapsed"} : lifeOrder' = [lifeOrder EXCEPT ![o] = outcome]
<1> USE DEF lifeOrder, Outcome, ShopP!ShopInv, ShopP!OrderTypeOK, ShopP!SessionInv, ShopP!DrawnInv, ShopP!OfferInv
<1>1. ASSUME UNCHANGED <<session, rows>>  PROVE UNCHANGED lifeOrder
  BY <1>1
<1>2. ASSUME NEW o \in Orders, rows[o] = <<>>, session' = [session EXCEPT ![o] = "open"], UNCHANGED rows
      PROVE  UNCHANGED lifeOrder
  BY <1>2
<1>3. ASSUME NEW o \in Orders, session[o] \in {"open", "unpaid"}, UNCHANGED rows,
             NEW outcome \in {"unpaid", "paid", "expired"}, session' = [session EXCEPT ![o] = outcome]
      PROVE  UNCHANGED lifeOrder \/ Decided(o)
  <2>1. CASE rows[o] = <<>>
    BY <1>3, <2>1
  <2>2. CASE rows[o] # <<>>
    <3>1. lifeOrder[o] = "offered"
      BY <1>3, <2>2
    <3>2. \A p \in Orders : lifeOrder'[p] = IF p = o THEN Outcome[outcome] ELSE lifeOrder[p]
      BY <1>3, <2>2
    <3>3. lifeOrder' = [lifeOrder EXCEPT ![o] = Outcome[outcome]]
      BY <3>2
    <3>4. CASE outcome = "unpaid"
      BY <3>1, <3>2, <3>4
    <3>5. CASE outcome # "unpaid"
      <4>1. Outcome[outcome] \in {"paid", "lapsed"}
        BY <1>3, <3>5
      <4> QED
        BY <3>1, <3>3, <4>1
    <3> QED
      BY <3>4, <3>5
  <2> QED
    BY <2>1, <2>2
<1>4. ASSUME NEW o \in Orders, ShopP!BulkCreate(o), buying[o] = "insert", UNCHANGED session
      PROVE  Offered(o)
  <2>1. rows[o] = <<>> /\ session[o] = "open"
    BY <1>4
  <2>2. drawn[o] # <<>>
    <3>1. Len(drawn[o]) > 0
      BY <1>4
    <3> QED
      BY <3>1
  <2>3. rows' = [rows EXCEPT ![o] = drawn[o]]
    BY <1>4 DEF ShopP!BulkCreate
  <2>4. \A p \in Orders : lifeOrder'[p] = IF p = o THEN "offered" ELSE lifeOrder[p]
    BY <1>4, <2>1, <2>2, <2>3
  <2>5. lifeOrder' = [lifeOrder EXCEPT ![o] = "offered"]
    BY <2>4
  <2> QED
    BY <2>1, <2>5
<1>5. ASSUME NEW o \in Orders, ShopP!Create(o)  PROVE UNCHANGED lifeOrder \/ Offered(o)
  <2> USE DEF ShopP!dbVars, ShopP!stripeVars
  <2>1. CASE ShopP!RejectOrder(o) \/ ShopP!GenerateCode(o) \/ ShopP!CodeFailed(o)
    BY <1>1, <2>1 DEF ShopP!RejectOrder, ShopP!GenerateCode, ShopP!CodeFailed
  <2>2. CASE ShopP!CreateSession(o)
    BY <1>2, <2>2 DEF ShopP!CreateSession
  <2>3. CASE ShopP!SessionFailed(o)
    BY <1>1, <1>2, <2>3 DEF ShopP!SessionFailed
  <2>4. CASE ShopP!InsertCards(o)
    BY <1>4, <2>4 DEF ShopP!InsertCards
  <2>5. CASE ShopP!InsertFailed(o)
    BY <1>1, <1>4, <2>5 DEF ShopP!InsertFailed
  <2> QED
    BY <1>5, <2>1, <2>2, <2>3, <2>4, <2>5 DEF ShopP!Create
<1>6. ASSUME NEW o \in Orders, ShopP!PayOrder(o) \/ ShopP!SettleOrder(o) \/ ShopP!ExpireSession(o)
      PROVE  UNCHANGED lifeOrder \/ Decided(o)
  BY <1>3, <1>6 DEF ShopP!PayOrder, ShopP!SettleOrder, ShopP!ExpireSession, ShopP!dbVars
<1>7. ASSUME NEW o \in Orders, ShopP!CrashCreate(o)  PROVE UNCHANGED lifeOrder
  BY <1>1, <1>7 DEF ShopP!CrashCreate, ShopP!dbVars, ShopP!stripeVars
<1>8. ASSUME NEW h \in Handlers,
             ShopP!HandleEvent(h) \/ ShopP!CrashHandler(h) \/ \E o \in Orders : ShopP!DeliverEvent(h, o)
      PROVE  UNCHANGED lifeOrder
  BY <1>1, <1>8 DEF ShopP!HandleEvent, ShopP!LoadCards, ShopP!LoadFailed, ShopP!UpdatePayment,
    ShopP!UpdateFailed, ShopP!PublishCard, ShopP!Respond, ShopP!CrashHandler, ShopP!DeliverEvent,
    ShopP!dbVars, ShopP!stripeVars
<1>9. CASE UNCHANGED ShopP!vars
  BY <1>1, <1>9 DEF ShopP!vars, ShopP!dbVars, ShopP!stripeVars
<1> HIDE DEF lifeOrder, Outcome, ShopP!ShopInv
<1> QED
  BY <1>5, <1>6, <1>7, <1>8, <1>9 DEF ShopP!Next

\* A card is activated for the one message it has, and redeemed for what it
\* holds.
LEMMA CardLifeStep ==
  ASSUME GiftInv, CardsInv, WorthInv, [FundStep]_vars, PaidAtOnce, "lost" \notin Env
  PROVE  \/ UNCHANGED <<lifeStatus, lifeSats>>
         \/ \E c \in Cards :
              /\ lifeOrder[OrderOf[c]] = "paid" /\ lifeStatus[c] = "blank"
              /\ lifeStatus' = [lifeStatus EXCEPT ![c] = "active"]
              /\ \E amount \in WorthOf(c) : lifeSats' = [lifeSats EXCEPT ![c] = amount]
         \/ \E c \in Cards :
              /\ lifeStatus[c] = "active"
              /\ \E amount \in 1..lifeSats[c] :
                   /\ lifeSats' = [lifeSats EXCEPT ![c] = @ - amount]
                   /\ lifeStatus' = [lifeStatus EXCEPT ![c] = IF amount = lifeSats[c] THEN "redeemed" ELSE @]
<1>a. CardTypeOK /\ StreamOK /\ \A c \in Cards : Books(c)
  BY DEF GiftInv, FlowInv, CardsInv
<1> USE <1>a DEF lifeStatus, lifeSats, CardTypeOK
<1> DEFINE Activated(c) == /\ lifeOrder[OrderOf[c]] = "paid" /\ lifeStatus[c] = "blank"
                           /\ lifeStatus' = [lifeStatus EXCEPT ![c] = "active"]
                           /\ \E amount \in WorthOf(c) : lifeSats' = [lifeSats EXCEPT ![c] = amount]
           Redeemed(c) == /\ lifeStatus[c] = "active"
                          /\ \E amount \in 1..lifeSats[c] :
                               /\ lifeSats' = [lifeSats EXCEPT ![c] = @ - amount]
                               /\ lifeStatus' = [lifeStatus EXCEPT ![c] = IF amount = lifeSats[c] THEN "redeemed" ELSE @]
<1>1. ASSUME UNCHANGED cardVars  PROVE UNCHANGED <<lifeStatus, lifeSats>>
  BY <1>1 DEF cardVars
<1>2. ASSUME NEW w \in Workers, Resets(w)  PROVE UNCHANGED <<lifeStatus, lifeSats>>
  <2>1. PICK st \in {"created", "funding"} : UpdateCard(CardOf(w), st, sats[CardOf(w)])
    BY <1>2 DEF Resets
  <2>2. PICK c \in Cards : c = CardOf(w) /\ Blank(c)
    BY <1>2, BusyHasMessage DEF Resets, Unfunded, CardsInv, GiftInv, FlowInv, Busy
  <2>3. status' = [status EXCEPT ![c] = st] /\ sats' = [sats EXCEPT ![c] = sats[c]]
    BY <2>1, <2>2 DEF UpdateCard
  <2> QED
    BY <2>2, <2>3 DEF Blank
<1>3. ASSUME NEW w \in Workers, Funds(w)  PROVE \E c \in Cards : Activated(c)
  <2>1. PICK c \in Cards : c = CardOf(w) /\ Blank(c) /\ Messages(c) # {}
    BY <1>3, BusyHasMessage DEF Funds, Unfunded, CardsInv, GiftInv, FlowInv, Busy
  <2>2. status' = [status EXCEPT ![c] = "active"] /\ sats' = [sats EXCEPT ![c] = want[w]]
    BY <1>3, <2>1 DEF Funds, Activate, UpdateCard
  <2>3. want[w] \in WorthOf(c)
    BY <1>3, <2>1 DEF Funds, WorthInv, Priced
  <2>4. lifeOrder[OrderOf[c]] = "paid"
    BY <2>1, MessagesArePaid, PlaceOf DEF lifeOrder, Outcome, GiftInv
  <2>5. lifeStatus[c] = "blank" /\ lifeStatus' = [lifeStatus EXCEPT ![c] = "active"]
    BY <2>1, <2>2 DEF Blank
  <2>6. lifeSats' = [lifeSats EXCEPT ![c] = want[w]]
    BY <2>1, <2>2 DEF Blank
  <2> QED
    BY <2>3, <2>4, <2>5, <2>6
<1>4. ASSUME NEW c \in Cards, PayOut(c)  PROVE UNCHANGED cardVars
  BY <1>4 DEF PayOut
<1>5. ASSUME NEW c \in Cards, DebitCard(c)  PROVE Redeemed(c)
  <2>1. owed[c] > 0 /\ status[c] = "active" /\ owed[c] <= sats[c] /\ left[c] = sats[c] - owed[c]
    BY <1>5 DEF DebitCard, Books
  <2>2. /\ status' = [status EXCEPT ![c] = IF left[c] = 0 THEN "redeemed" ELSE "active"]
        /\ sats' = [sats EXCEPT ![c] = left[c]]
    BY <1>5 DEF DebitCard, UpdateCard
  <2>3. owed[c] \in 1..lifeSats[c] /\ lifeStatus[c] = "active" /\ lifeSats[c] = sats[c]
    BY <2>1
  <2>4. lifeSats' = [lifeSats EXCEPT ![c] = lifeSats[c] - owed[c]]
    BY <2>1, <2>2, <2>3
  <2>5. lifeStatus' = [lifeStatus EXCEPT ![c] = IF owed[c] = lifeSats[c] THEN "redeemed" ELSE "active"]
    <3>1. left[c] = 0 <=> owed[c] = sats[c]
      BY <2>1
    <3>2. PICK to \in {"redeemed", "active"} :
            to = (IF left[c] = 0 THEN "redeemed" ELSE "active") /\ to = (IF owed[c] = lifeSats[c] THEN "redeemed" ELSE "active")
      BY <2>3, <3>1
    <3>3. status' = [status EXCEPT ![c] = to]
      BY <2>2, <3>2
    <3>4. lifeStatus' = [lifeStatus EXCEPT ![c] = to]
      BY <3>3
    <3> QED
      BY <3>2, <3>4
  <2> QED
    BY <2>3, <2>4, <2>5
<1> HIDE DEF lifeStatus, lifeSats
<1> QED
  BY <1>1, <1>2, <1>3, <1>4, <1>5, WhoChangesCards DEF cardVars

LEMMA LifeStep ==
  ASSUME GiftInv, CardsInv, WorthInv, [GiftNext]_giftVars, PaidAtOnce, "lost" \notin Env
  PROVE  [Life!Next]_(Life!vars)
<1> USE DEF lifeOrder, lifeStatus, lifeSats, WorthOf
<1>1. ASSUME UNCHANGED <<session, rows>>  PROVE UNCHANGED lifeOrder
  BY <1>1
<1>2. ASSUME UNCHANGED <<status, sats>>  PROVE UNCHANGED <<lifeStatus, lifeSats>>
  BY <1>2
<1>3. ASSUME UNCHANGED lifeOrder  PROVE [Life!Next]_(Life!vars)
  BY <1>3, CardLifeStep, GiftStep DEF Life!Next, Life!Activate, Life!Redeem, Life!vars
<1>4. ASSUME UNCHANGED <<lifeStatus, lifeSats>>  PROVE [Life!Next]_(Life!vars)
  BY <1>4, OrderLife, GiftIsShopStep DEF Life!Next, Life!Offer, Life!Decide, Life!vars, GiftInv
<1>5. UNCHANGED <<session, rows>> \/ UNCHANGED <<status, sats>>
  BY DEF GiftNext, FundCards, CreateCards, Outside, Handle, DeliverTo, PublishPaid,
    PublishMessage, shopVars, giftVars, vars, cardVars
<1> QED
  BY <1>1, <1>2, <1>3, <1>4, <1>5

(* The shop and the workers together keep what CardLife promises: with     *)
(* payments that settle when their session is completed, and with Stripe   *)
(* waiting for answers and batches that are not slower than MinIdle, or    *)
(* with a single worker, a card becomes active once, only if its order was *)
(* paid and with what its price was worth, and only redemptions change it  *)
(* from then on, whichever worker or handler dies and even if the treasury *)
(* lock lapses (CreateCard, HandleCheckoutEvent, FundCard).                *)
THEOREM CardsLiveAsPromised ==
  PaidAtOnce /\ Calm /\ "lost" \notin Env => (GiftSpec => ImplementsCardLife)
<1> SUFFICES ASSUME PaidAtOnce, Calm, "lost" \notin Env PROVE GiftSpec => ImplementsCardLife
  OBVIOUS
<1> DEFINE Inv == GiftInv /\ CalmInv /\ CardsInv /\ WorthInv
<1>1. GiftInit => Inv /\ Life!Init
  <2>1. GiftInit => GiftInv /\ CalmInv
    BY InitGift, InitCalm
  <2>2. GiftInit => CardsInv
    BY InitCards DEF GiftInit
  <2>3. GiftInit => WorthInv
    BY DEF GiftInit, Init, WorthInv, Priced
  <2>4. GiftInit => Life!Init
    BY DEF GiftInit, Init, Shop!Init, Life!Init
  <2> QED
    BY <2>1, <2>2, <2>3, <2>4
<1>2. Inv /\ [GiftNext]_giftVars => Inv' /\ [Life!Next]_(Life!vars)
  <2> SUFFICES ASSUME Inv, [GiftNext]_giftVars PROVE Inv' /\ [Life!Next]_(Life!vars)
    OBVIOUS
  <2>1. GiftInv' /\ [FundStep]_vars
    BY GiftStep
  <2>2. CalmInv'
    BY CalmStep
  <2>3. CardsInv'
    BY <2>1, CalmIsApart, CardsStep DEF GiftInv
  <2>4. WorthInv'
    BY <2>1, WorthStep DEF GiftInv
  <2>5. [Life!Next]_(Life!vars)
    BY LifeStep
  <2> QED
    BY <2>1, <2>2, <2>3, <2>4, <2>5
<1> QED
  BY <1>1, <1>2, PTL DEF GiftSpec, ImplementsCardLife, Life!Spec
=============================================================================
