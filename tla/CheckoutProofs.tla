---------------------------- MODULE CheckoutProofs --------------------------
(***************************************************************************)
(* Proofs about Checkout, for any number of orders, codes, webhook         *)
(* handlers and deliveries.                                                *)
(***************************************************************************)
EXTENDS Checkout, TLAPS, FiniteSetTheorems

\* The types of what an order and its events are about.
OrderTypeOK ==
  /\ session \in [Orders -> {"none", "open", "unpaid", "paid", "expired"}]
  /\ rows \in [Orders -> Seq(Codes)]
  /\ payment \in [Orders -> {"none", "pending", "paid", "expired"}]
  /\ buying \in [Orders -> {"session", "codes", "insert", "over"}]
  /\ drawn \in [Orders -> Seq(Codes)]
  /\ answer \in [Orders -> {"none", "created", "error"}]
  /\ at \in [Handlers -> {"idle", "load", "update", "publish", "respond"}]
  /\ of \in [Handlers -> Orders \cup {None}]
  /\ event \in [Handlers -> {"none", "completed", "expired"}]
  /\ next \in [Handlers -> Nat]

Ended(o) == Completed(o) \/ session[o] = "expired"

\* A session ends when its request is over, and only then has an event, of
\* the type that fits its end.
SessionInv ==
  /\ \A o \in Orders : /\ buying[o] = "session" => session[o] = "none"
                       /\ Ended(o) \/ answer[o] = "created" => buying[o] = "over"
  /\ \A h \in Handlers :
       IF at[h] = "idle" THEN of[h] = None /\ event[h] = "none"
       ELSE of[h] \in Orders /\ Ended(of[h]) /\ event[h] = IF Completed(of[h]) THEN "completed" ELSE "expired"

\* Codes are drawn up to the number that is inserted.
DrawnInv ==
  \A o \in Orders : /\ buying[o] = "session" => drawn[o] = <<>>
                    /\ buying[o] = "codes" => Len(drawn[o]) < Size[o]
                    /\ buying[o] = "insert" => Len(drawn[o]) = Size[o]
                    /\ buying[o] # "over" => rows[o] = <<>>

LEMMA Shape ==
  /\ Size \in [Orders -> Nat] /\ None \notin Orders
  BY CheckoutAssumption

\* A delivery is refused, or it has its event.
Begun(h, o) ==
  /\ at' = [at EXCEPT ![h] = "load"] /\ of' = [of EXCEPT ![h] = o]
  /\ event' = [event EXCEPT ![h] = IF Completed(o) THEN "completed" ELSE "expired"]

LEMMA TypeStep == ASSUME OrderTypeOK, SessionInv, [Next]_vars PROVE OrderTypeOK'
<1> USE Shape DEF OrderTypeOK, SessionInv, dbVars, buyVars, stripeVars, handlerVars, Answers, HandlerAt, Ended, Completed
<1>1. ASSUME NEW o \in Orders, RejectOrder(o)  PROVE OrderTypeOK'
  BY <1>1 DEF RejectOrder
<1>2. ASSUME NEW o \in Orders, CreateSession(o)  PROVE OrderTypeOK'
  BY <1>2 DEF CreateSession
<1>3. ASSUME NEW o \in Orders, SessionFailed(o)  PROVE OrderTypeOK'
  <2>1. session' = session \/ session' = [session EXCEPT ![o] = "open"]
    BY <1>3 DEF SessionFailed
  <2> QED
    BY <1>3, <2>1 DEF SessionFailed
<1>4. ASSUME NEW o \in Orders, GenerateCode(o)  PROVE OrderTypeOK'
  BY <1>4 DEF GenerateCode
<1>5. ASSUME NEW o \in Orders, CodeFailed(o)  PROVE OrderTypeOK'
  BY <1>5 DEF CodeFailed
<1>6. ASSUME NEW o \in Orders, InsertCards(o)  PROVE OrderTypeOK'
  BY <1>6 DEF InsertCards, BulkCreate
<1>7. ASSUME NEW o \in Orders, InsertFailed(o)  PROVE OrderTypeOK'
  <2>1. CASE UNCHANGED dbVars
    BY <1>7, <2>1 DEF InsertFailed
  <2>2. CASE BulkCreate(o)
    BY <1>7, <2>2 DEF InsertFailed, BulkCreate
  <2> QED
    BY <1>7, <2>1, <2>2 DEF InsertFailed
<1>8. ASSUME NEW o \in Orders, CrashCreate(o)  PROVE OrderTypeOK'
  BY <1>8 DEF CrashCreate
<1>9. ASSUME NEW o \in Orders, PayOrder(o)  PROVE OrderTypeOK'
  <2>1. PICK end \in {"unpaid", "paid"} : session' = [session EXCEPT ![o] = end]
    BY <1>9 DEF PayOrder
  <2> QED
    BY <1>9, <2>1 DEF PayOrder
<1>10. ASSUME NEW o \in Orders, ExpireSession(o)  PROVE OrderTypeOK'
  BY <1>10 DEF ExpireSession
<1>11. ASSUME NEW h \in Handlers, LoadCards(h)  PROVE OrderTypeOK'
  BY <1>11 DEF LoadCards, NothingToDo
<1>12. ASSUME NEW h \in Handlers, LoadFailed(h)  PROVE OrderTypeOK'
  BY <1>12 DEF LoadFailed
<1>13. ASSUME NEW h \in Handlers, UpdatePayment(h)  PROVE OrderTypeOK'
  BY <1>13 DEF UpdatePayment, UpdatePaymentStatus, StatusAfter
<1>14. ASSUME NEW h \in Handlers, UpdateFailed(h)  PROVE OrderTypeOK'
  <2>1. CASE UNCHANGED payment
    BY <1>14, <2>1 DEF UpdateFailed
  <2>2. CASE UpdatePaymentStatus(of[h], StatusAfter(event[h]))
    BY <1>14, <2>2 DEF UpdateFailed, UpdatePaymentStatus, StatusAfter
  <2> QED
    BY <1>14, <2>1, <2>2 DEF UpdateFailed
<1>15. ASSUME NEW h \in Handlers, PublishCard(h)  PROVE OrderTypeOK'
  <2>1. /\ next \in [Handlers -> Nat] /\ next[h] + 1 \in Nat
        /\ at \in [Handlers -> {"idle", "load", "update", "publish", "respond"}]
    OBVIOUS
  <2>2. \/ next' = [next EXCEPT ![h] = next[h] + 1] /\ UNCHANGED at
        \/ at' = [at EXCEPT ![h] = "respond"] /\ UNCHANGED next
    BY <1>15 DEF PublishCard
  <2>3. next' \in [Handlers -> Nat] /\ at' \in [Handlers -> {"idle", "load", "update", "publish", "respond"}]
    <3> HIDE DEF OrderTypeOK, SessionInv
    <3> QED
      BY <2>1, <2>2
  <2> QED
    BY <1>15, <2>3 DEF PublishCard
<1>16. ASSUME NEW h \in Handlers, Respond(h)  PROVE OrderTypeOK'
  BY <1>16 DEF Respond
<1>17. ASSUME NEW h \in Handlers, CrashHandler(h)  PROVE OrderTypeOK'
  BY <1>17 DEF CrashHandler
<1>18. ASSUME NEW h \in Handlers, NEW o \in Orders, DeliverEvent(h, o)  PROVE OrderTypeOK'
  <2>1. CASE UNCHANGED <<at, of, event>>
    BY <1>18, <2>1 DEF DeliverEvent
  <2>2. CASE Begun(h, o)
    BY <1>18, <2>2 DEF DeliverEvent, InFlight, Begun
  <2> QED
    BY <1>18, <2>1, <2>2 DEF DeliverEvent, Begun
<1>19. CASE UNCHANGED vars
  BY <1>19 DEF vars
<1>20. ASSUME NEW o \in Orders, SettleOrder(o)  PROVE OrderTypeOK'
  BY <1>20 DEF SettleOrder
<1> QED
  BY <1>1, <1>2, <1>3, <1>4, <1>5, <1>6, <1>7, <1>8, <1>9, <1>10, <1>11, <1>12, <1>13, <1>14,
    <1>15, <1>16, <1>17, <1>18, <1>19, <1>20
  DEF Next, Create, HandleEvent

LEMMA SessionStep == ASSUME OrderTypeOK, SessionInv, [Next]_vars PROVE SessionInv'
<1> USE Shape DEF OrderTypeOK, SessionInv, dbVars, buyVars, stripeVars, handlerVars, Answers, HandlerAt, Ended, Completed
<1>1. ASSUME NEW o \in Orders, RejectOrder(o)  PROVE SessionInv'
  BY <1>1 DEF RejectOrder
<1>2. ASSUME NEW o \in Orders, CreateSession(o)  PROVE SessionInv'
  BY <1>2 DEF CreateSession
<1>3. ASSUME NEW o \in Orders, SessionFailed(o)  PROVE SessionInv'
  <2>1. \A p \in Orders : buying'[p] = IF p = o THEN "over" ELSE buying[p]
    BY <1>3 DEF SessionFailed
  <2>2. \A p \in Orders : session'[p] = session[p] \/ (p = o /\ session'[p] = "open")
    BY <1>3 DEF SessionFailed
  <2>3. \A p \in Orders : answer'[p] = answer[p] \/ p = o
    BY <1>3 DEF SessionFailed
  <2>4. session[o] = "none"
    BY <1>3 DEF SessionFailed
  <2>5. UNCHANGED handlerVars
    BY <1>3 DEF SessionFailed
  <2>6. ASSUME NEW p \in Orders
        PROVE  /\ buying'[p] = "session" => session'[p] = "none"
               /\ Ended(p)' \/ answer'[p] = "created" => buying'[p] = "over"
    BY <2>1, <2>2, <2>3, <2>4
  <2>7. ASSUME NEW h \in Handlers
        PROVE  IF at'[h] = "idle" THEN of'[h] = None /\ event'[h] = "none"
               ELSE /\ of'[h] \in Orders /\ Ended(of[h])'
                    /\ event'[h] = IF Completed(of[h])' THEN "completed" ELSE "expired"
    BY <2>2, <2>4, <2>5
  <2> QED
    BY <2>6, <2>7
<1>4. ASSUME NEW o \in Orders, GenerateCode(o)  PROVE SessionInv'
  BY <1>4 DEF GenerateCode
<1>5. ASSUME NEW o \in Orders, CodeFailed(o)  PROVE SessionInv'
  BY <1>5 DEF CodeFailed
<1>6. ASSUME NEW o \in Orders, InsertCards(o)  PROVE SessionInv'
  BY <1>6 DEF InsertCards, BulkCreate
<1>7. ASSUME NEW o \in Orders, InsertFailed(o)  PROVE SessionInv'
  BY <1>7 DEF InsertFailed, BulkCreate
<1>8. ASSUME NEW o \in Orders, CrashCreate(o)  PROVE SessionInv'
  BY <1>8 DEF CrashCreate
<1>9. ASSUME NEW o \in Orders, PayOrder(o)  PROVE SessionInv'
  <2>1. PICK end \in {"unpaid", "paid"} : session' = [session EXCEPT ![o] = end]
    BY <1>9 DEF PayOrder
  <2> QED
    BY <1>9, <2>1 DEF PayOrder
<1>10. ASSUME NEW o \in Orders, ExpireSession(o)  PROVE SessionInv'
  BY <1>10 DEF ExpireSession
<1>11. ASSUME NEW h \in Handlers, LoadCards(h)  PROVE SessionInv'
  BY <1>11 DEF LoadCards, NothingToDo
<1>12. ASSUME NEW h \in Handlers, LoadFailed(h)  PROVE SessionInv'
  BY <1>12 DEF LoadFailed
<1>13. ASSUME NEW h \in Handlers, UpdatePayment(h)  PROVE SessionInv'
  BY <1>13 DEF UpdatePayment, UpdatePaymentStatus, StatusAfter
<1>14. ASSUME NEW h \in Handlers, UpdateFailed(h)  PROVE SessionInv'
  BY <1>14 DEF UpdateFailed, UpdatePaymentStatus, StatusAfter
<1>15. ASSUME NEW h \in Handlers, PublishCard(h)  PROVE SessionInv'
  BY <1>15 DEF PublishCard
<1>16. ASSUME NEW h \in Handlers, Respond(h)  PROVE SessionInv'
  BY <1>16 DEF Respond
<1>17. ASSUME NEW h \in Handlers, CrashHandler(h)  PROVE SessionInv'
  BY <1>17 DEF CrashHandler
<1>18. ASSUME NEW h \in Handlers, NEW o \in Orders, DeliverEvent(h, o)  PROVE SessionInv'
  <2>1. CASE UNCHANGED <<at, of, event>>
    BY <1>18, <2>1 DEF DeliverEvent
  <2>2. CASE Begun(h, o)
    BY <1>18, <2>2 DEF DeliverEvent, InFlight, Begun
  <2> QED
    BY <1>18, <2>1, <2>2 DEF DeliverEvent, Begun
<1>19. CASE UNCHANGED vars
  BY <1>19 DEF vars
<1>20. ASSUME NEW o \in Orders, SettleOrder(o)  PROVE SessionInv'
  BY <1>20 DEF SettleOrder
<1> QED
  BY <1>1, <1>2, <1>3, <1>4, <1>5, <1>6, <1>7, <1>8, <1>9, <1>10, <1>11, <1>12, <1>13, <1>14,
    <1>15, <1>16, <1>17, <1>18, <1>19, <1>20
  DEF Next, Create, HandleEvent

LEMMA DrawnStep == ASSUME OrderTypeOK, DrawnInv, [Next]_vars PROVE DrawnInv'
<1> USE Shape DEF OrderTypeOK, DrawnInv, dbVars, buyVars, stripeVars, handlerVars, Answers, HandlerAt
<1>1. ASSUME NEW o \in Orders, RejectOrder(o)  PROVE DrawnInv'
  BY <1>1 DEF RejectOrder
<1>2. ASSUME NEW o \in Orders, CreateSession(o)  PROVE DrawnInv'
  BY <1>2 DEF CreateSession
<1>3. ASSUME NEW o \in Orders, SessionFailed(o)  PROVE DrawnInv'
  BY <1>3 DEF SessionFailed
<1>4. ASSUME NEW o \in Orders, GenerateCode(o)  PROVE DrawnInv'
  BY <1>4 DEF GenerateCode
<1>5. ASSUME NEW o \in Orders, CodeFailed(o)  PROVE DrawnInv'
  BY <1>5 DEF CodeFailed
<1>6. ASSUME NEW o \in Orders, InsertCards(o)  PROVE DrawnInv'
  BY <1>6 DEF InsertCards, BulkCreate
<1>7. ASSUME NEW o \in Orders, InsertFailed(o)  PROVE DrawnInv'
  BY <1>7 DEF InsertFailed, BulkCreate
<1>8. ASSUME NEW o \in Orders, CrashCreate(o)  PROVE DrawnInv'
  BY <1>8 DEF CrashCreate
<1>9. ASSUME NEW o \in Orders, PayOrder(o)  PROVE DrawnInv'
  BY <1>9 DEF PayOrder
<1>10. ASSUME NEW o \in Orders, ExpireSession(o)  PROVE DrawnInv'
  BY <1>10 DEF ExpireSession
<1>11. ASSUME NEW h \in Handlers, LoadCards(h)  PROVE DrawnInv'
  BY <1>11 DEF LoadCards, NothingToDo
<1>12. ASSUME NEW h \in Handlers, LoadFailed(h)  PROVE DrawnInv'
  BY <1>12 DEF LoadFailed
<1>13. ASSUME NEW h \in Handlers, UpdatePayment(h)  PROVE DrawnInv'
  BY <1>13 DEF UpdatePayment, UpdatePaymentStatus, StatusAfter
<1>14. ASSUME NEW h \in Handlers, UpdateFailed(h)  PROVE DrawnInv'
  BY <1>14 DEF UpdateFailed, UpdatePaymentStatus, StatusAfter
<1>15. ASSUME NEW h \in Handlers, PublishCard(h)  PROVE DrawnInv'
  BY <1>15 DEF PublishCard
<1>16. ASSUME NEW h \in Handlers, Respond(h)  PROVE DrawnInv'
  BY <1>16 DEF Respond
<1>17. ASSUME NEW h \in Handlers, CrashHandler(h)  PROVE DrawnInv'
  BY <1>17 DEF CrashHandler
<1>18. ASSUME NEW h \in Handlers, NEW o \in Orders, DeliverEvent(h, o)  PROVE DrawnInv'
  BY <1>18 DEF DeliverEvent, InFlight, Completed
<1>19. CASE UNCHANGED vars
  BY <1>19 DEF vars
<1>20. ASSUME NEW o \in Orders, SettleOrder(o)  PROVE DrawnInv'
  BY <1>20 DEF SettleOrder
<1> QED
  BY <1>1, <1>2, <1>3, <1>4, <1>5, <1>6, <1>7, <1>8, <1>9, <1>10, <1>11, <1>12, <1>13, <1>14,
    <1>15, <1>16, <1>17, <1>18, <1>19, <1>20
  DEF Next, Create, HandleEvent

LEMMA InitOrders == ASSUME Init PROVE OrderTypeOK /\ SessionInv /\ DrawnInv
  BY Shape DEF Init, OrderTypeOK, SessionInv, DrawnInv, Ended, Completed

-----------------------------------------------------------------------------

\* The payment status follows the event that Stripe sends.
StatusInv ==
  \A o \in Orders : /\ payment[o] = "paid" => Completed(o)
                    /\ payment[o] = "expired" => session[o] = "expired"

LEMMA StatusStep ==
  ASSUME OrderTypeOK, SessionInv, StatusInv, [Next]_vars
  PROVE  StatusInv'
<1> USE Shape DEF OrderTypeOK, SessionInv, StatusInv, dbVars, buyVars, stripeVars, handlerVars,
     Answers, HandlerAt, Ended, Completed
<1>1. ASSUME NEW o \in Orders, RejectOrder(o)  PROVE StatusInv'
  BY <1>1 DEF RejectOrder
<1>2. ASSUME NEW o \in Orders, CreateSession(o)  PROVE StatusInv'
  BY <1>2 DEF CreateSession
<1>3. ASSUME NEW o \in Orders, SessionFailed(o)  PROVE StatusInv'
  BY <1>3 DEF SessionFailed
<1>4. ASSUME NEW o \in Orders, GenerateCode(o)  PROVE StatusInv'
  BY <1>4 DEF GenerateCode
<1>5. ASSUME NEW o \in Orders, CodeFailed(o)  PROVE StatusInv'
  BY <1>5 DEF CodeFailed
<1>6. ASSUME NEW o \in Orders, InsertCards(o)  PROVE StatusInv'
  BY <1>6 DEF InsertCards, BulkCreate
<1>7. ASSUME NEW o \in Orders, InsertFailed(o)  PROVE StatusInv'
  BY <1>7 DEF InsertFailed, BulkCreate
<1>8. ASSUME NEW o \in Orders, CrashCreate(o)  PROVE StatusInv'
  BY <1>8 DEF CrashCreate
<1>9. ASSUME NEW o \in Orders, PayOrder(o)  PROVE StatusInv'
  BY <1>9 DEF PayOrder
<1>10. ASSUME NEW o \in Orders, ExpireSession(o)  PROVE StatusInv'
  BY <1>10 DEF ExpireSession
<1>11. ASSUME NEW h \in Handlers, LoadCards(h)  PROVE StatusInv'
  BY <1>11 DEF LoadCards, NothingToDo
<1>12. ASSUME NEW h \in Handlers, LoadFailed(h)  PROVE StatusInv'
  BY <1>12 DEF LoadFailed
<1>13. ASSUME NEW h \in Handlers, UpdatePayment(h)  PROVE StatusInv'
  BY <1>13 DEF UpdatePayment, UpdatePaymentStatus, StatusAfter
<1>14. ASSUME NEW h \in Handlers, UpdateFailed(h)  PROVE StatusInv'
  BY <1>14 DEF UpdateFailed, UpdatePaymentStatus, StatusAfter
<1>15. ASSUME NEW h \in Handlers, PublishCard(h)  PROVE StatusInv'
  BY <1>15 DEF PublishCard
<1>16. ASSUME NEW h \in Handlers, Respond(h)  PROVE StatusInv'
  BY <1>16 DEF Respond
<1>17. ASSUME NEW h \in Handlers, CrashHandler(h)  PROVE StatusInv'
  BY <1>17 DEF CrashHandler
<1>18. ASSUME NEW h \in Handlers, NEW o \in Orders, DeliverEvent(h, o)  PROVE StatusInv'
  BY <1>18 DEF DeliverEvent, InFlight, Completed
<1>19. CASE UNCHANGED vars
  BY <1>19 DEF vars
<1>20. ASSUME NEW o \in Orders, SettleOrder(o)  PROVE StatusInv'
  BY <1>20 DEF SettleOrder
<1> QED
  BY <1>1, <1>2, <1>3, <1>4, <1>5, <1>6, <1>7, <1>8, <1>9, <1>10, <1>11, <1>12, <1>13, <1>14,
    <1>15, <1>16, <1>17, <1>18, <1>19, <1>20
  DEF Next, Create, HandleEvent

-----------------------------------------------------------------------------

LEMMA WholeStep ==
  ASSUME OrderTypeOK, DrawnInv, OrdersAreWhole, [Next]_vars
  PROVE  OrdersAreWhole'
<1> USE Shape DEF dbVars, OrderTypeOK
<1>1. ASSUME UNCHANGED rows  PROVE OrdersAreWhole'
  BY <1>1 DEF OrdersAreWhole
<1>2. ASSUME NEW o \in Orders, buying[o] = "insert", Unique(drawn[o]), rows' = [rows EXCEPT ![o] = drawn[o]]
      PROVE OrdersAreWhole'
  <2>1. Len(drawn[o]) = Size[o]
    BY <1>2 DEF DrawnInv
  <2>2. \A p \in Orders : Elements(drawn[o]) \cap Elements(rows[p]) = {}
    BY <1>2 DEF Unique, Stored
  <2>3. \A p \in Orders : rows'[p] = IF p = o THEN drawn[o] ELSE rows[p]
    BY <1>2
  <2>4. \A p \in Orders : Len(rows'[p]) \in {0, Size[p]}
    BY <2>1, <2>3 DEF OrdersAreWhole
  <2>5. \A p, q \in Orders : p # q => Elements(rows'[p]) \cap Elements(rows'[q]) = {}
    BY <2>2, <2>3 DEF OrdersAreWhole
  <2>6. \A p \in Orders : \A i, j \in DOMAIN rows'[p] : rows'[p][i] = rows'[p][j] => i = j
    BY <1>2, <2>3 DEF OrdersAreWhole, Unique
  <2> QED
    BY <2>4, <2>5, <2>6 DEF OrdersAreWhole, Elements
<1>3. ASSUME NEW o \in Orders, Create(o) \/ CrashCreate(o) \/ PayOrder(o) \/ SettleOrder(o) \/ ExpireSession(o)
      PROVE OrdersAreWhole'
  BY <1>1, <1>2, <1>3 DEF Create, RejectOrder, CreateSession, SessionFailed, GenerateCode, CodeFailed,
    InsertCards, InsertFailed, BulkCreate, CrashCreate, PayOrder, SettleOrder, ExpireSession
<1>4. ASSUME NEW h \in Handlers, HandleEvent(h) \/ CrashHandler(h) \/ \E o \in Orders : DeliverEvent(h, o)
      PROVE OrdersAreWhole'
  BY <1>1, <1>4 DEF HandleEvent, LoadCards, LoadFailed, UpdatePayment, UpdateFailed, PublishCard, Respond,
    CrashHandler, DeliverEvent
<1>5. CASE UNCHANGED vars
  BY <1>1, <1>5 DEF vars
<1> QED
  BY <1>3, <1>4, <1>5 DEF Next

(* An order is stored as a whole or not at all, and no code opens two      *)
(* cards, although codes are only compared with the stored ones when they  *)
(* are drawn (RunInTx around BulkCreate, the UNIQUE constraint).           *)
THEOREM StoredAsAWhole == Spec => []OrdersAreWhole
<1> DEFINE Inv == OrderTypeOK /\ SessionInv /\ DrawnInv /\ OrdersAreWhole
<1>1. Init => Inv
  BY InitOrders DEF Init, OrdersAreWhole, Elements
<1>2. Inv /\ [Next]_vars => Inv'
  BY TypeStep, SessionStep, DrawnStep, WholeStep
<1> QED
  BY <1>1, <1>2, PTL DEF Spec
-----------------------------------------------------------------------------
(* The messages, and the orders they are for.                              *)

CountOK ==
  /\ published = [o \in Orders |-> published[o]]
  /\ \A o \in Orders : published[o] \in [1..Size[o] -> Nat]

\* Cards are stored while the session of their order is open, and published
\* once it is completed.
OfferInv ==
  /\ \A o \in Orders :
       /\ buying[o] \in {"codes", "insert"} => session[o] = "open" /\ Size[o] > 0
       /\ rows[o] # <<>> => session[o] # "none"
       /\ \A i \in 1..Size[o] : published[o][i] > 0 => rows[o] # <<>> /\ Completed(o)
  /\ \A h \in Handlers :
       /\ at[h] \in {"update", "publish"} => rows[of[h]] # <<>>
       /\ at[h] = "publish" => event[h] = "completed" /\ next[h] \in 1..Size[of[h]]

ShopInv == OrderTypeOK /\ SessionInv /\ DrawnInv /\ OrdersAreWhole /\ CountOK /\ OfferInv

LEMMA CountStep ==
  ASSUME CountOK, [Next]_vars
  PROVE  /\ CountOK'
         /\ \/ UNCHANGED published
            \/ \E h \in Handlers : PublishCard(h)
<1> USE DEF CountOK
<1>1. ASSUME NEW h \in Handlers, PublishCard(h)  PROVE CountOK'
  <2> DEFINE o == of[h]
             k == next[h]
             more == [published[o] EXCEPT ![k] = @ + 1]
  <2>1. CASE UNCHANGED published
    BY <2>1
  <2>2. CASE published' = [published EXCEPT ![o] = more]
    <3>1. ASSUME NEW p \in Orders  PROVE published'[p] \in [1..Size[p] -> Nat]
      <4>1. CASE p # o
        BY <2>2, <4>1
      <4>2. CASE p = o
        <5>1. published[o] \in [1..Size[o] -> Nat]
          BY <4>2
        <5>2. more \in [1..Size[o] -> Nat]
          <6>1. PICK was, S : was = published[o] /\ S = 1..Size[o]
            OBVIOUS
          <6>2. was \in [S -> Nat] /\ more = [was EXCEPT ![k] = was[k] + 1]
            BY <5>1, <6>1
          <6>3. ASSUME NEW i \in S  PROVE [was EXCEPT ![k] = was[k] + 1][i] \in Nat
            BY <6>2, <6>3
          <6>4. [was EXCEPT ![k] = was[k] + 1] \in [S -> Nat]
            BY <6>2, <6>3
          <6> QED
            BY <6>1, <6>2, <6>4
        <5>3. published'[p] = more
          BY <2>2, <4>2
        <5> QED
          BY <4>2, <5>2, <5>3
      <4> QED
        BY <4>1, <4>2
    <3> QED
      BY <2>2, <3>1
  <2> QED
    BY <1>1, <2>1, <2>2 DEF PublishCard
<1>2. ASSUME NEW o \in Orders, Create(o) \/ CrashCreate(o) \/ PayOrder(o) \/ SettleOrder(o) \/ ExpireSession(o)
      PROVE  UNCHANGED published
  BY <1>2 DEF Create, RejectOrder, CreateSession, SessionFailed, GenerateCode, CodeFailed, InsertCards,
    InsertFailed, CrashCreate, PayOrder, SettleOrder, ExpireSession
<1>3. ASSUME NEW h \in Handlers, HandleEvent(h) \/ CrashHandler(h) \/ \E o \in Orders : DeliverEvent(h, o)
      PROVE  UNCHANGED published \/ PublishCard(h)
  BY <1>3 DEF HandleEvent, LoadCards, LoadFailed, UpdatePayment, UpdateFailed, Respond, CrashHandler,
    DeliverEvent
<1>4. CASE UNCHANGED vars
  BY <1>4 DEF vars
<1> QED
  BY <1>1, <1>2, <1>3, <1>4 DEF Next

LEMMA OfferStep ==
  ASSUME ShopInv, [Next]_vars
  PROVE  OfferInv'
<1> USE Shape DEF ShopInv, OrderTypeOK, SessionInv, OfferInv, dbVars, buyVars, stripeVars, handlerVars,
     Answers, HandlerAt, Ended, Completed
<1>1. ASSUME NEW o \in Orders, RejectOrder(o)  PROVE OfferInv'
  BY <1>1 DEF RejectOrder
<1>2. ASSUME NEW o \in Orders, CreateSession(o)  PROVE OfferInv'
  BY <1>2 DEF CreateSession
<1>3. ASSUME NEW o \in Orders, SessionFailed(o)  PROVE OfferInv'
  BY <1>3 DEF SessionFailed
<1>4. ASSUME NEW o \in Orders, GenerateCode(o)  PROVE OfferInv'
  BY <1>4 DEF GenerateCode
<1>5. ASSUME NEW o \in Orders, CodeFailed(o)  PROVE OfferInv'
  BY <1>5 DEF CodeFailed
<1>6. ASSUME NEW o \in Orders, InsertCards(o)  PROVE OfferInv'
  <2>1. /\ session[o] = "open" /\ buying'[o] = "over"
        /\ \A p \in Orders : p # o => buying'[p] = buying[p] /\ rows'[p] = rows[p]
        /\ UNCHANGED <<session, published, handlerVars>>
    BY <1>6 DEF InsertCards, BulkCreate
  <2>2. ~Ended(o)
    BY <2>1
  <2> QED
    BY <2>1, <2>2
<1>7. ASSUME NEW o \in Orders, InsertFailed(o)  PROVE OfferInv'
  BY <1>7 DEF InsertFailed, BulkCreate
<1>8. ASSUME NEW o \in Orders, CrashCreate(o)  PROVE OfferInv'
  BY <1>8 DEF CrashCreate
<1>9. ASSUME NEW o \in Orders, PayOrder(o)  PROVE OfferInv'
  BY <1>9 DEF PayOrder
<1>10. ASSUME NEW o \in Orders, ExpireSession(o)  PROVE OfferInv'
  BY <1>10 DEF ExpireSession
<1>11. ASSUME NEW h \in Handlers, LoadCards(h)  PROVE OfferInv'
  BY <1>11 DEF LoadCards, NothingToDo
<1>12. ASSUME NEW h \in Handlers, LoadFailed(h)  PROVE OfferInv'
  BY <1>12 DEF LoadFailed
<1>13. ASSUME NEW h \in Handlers, UpdatePayment(h)  PROVE OfferInv'
  <2>1. PICK o \in Orders : o = of[h] /\ rows[o] # <<>>
    BY <1>13 DEF UpdatePayment
  <2>2. 1 \in 1..Size[o]
    <3>1. Len(rows[o]) \in {0, Size[o]} /\ rows[o] \in Seq(Codes)
      BY DEF OrdersAreWhole
    <3> QED
      BY <2>1, <3>1
  <2>3. /\ next' = [next EXCEPT ![h] = 1]
        /\ at' = [at EXCEPT ![h] = IF event[h] = "completed" THEN "publish" ELSE "respond"]
        /\ UNCHANGED <<rows, published, session, of, event, buying>>
    BY <1>13, <2>1 DEF UpdatePayment
  <2>4. ASSUME NEW g \in Handlers
        PROVE  /\ at'[g] \in {"update", "publish"} => rows[of[g]] # <<>>
               /\ at'[g] = "publish" => event[g] = "completed" /\ next'[g] \in 1..Size[of[g]]
    <3>1. CASE g = h
      BY <2>1, <2>2, <2>3, <3>1
    <3>2. CASE g # h
      BY <2>3, <3>2
    <3> QED
      BY <3>1, <3>2
  <2> QED
    BY <2>3, <2>4
<1>14. ASSUME NEW h \in Handlers, UpdateFailed(h)  PROVE OfferInv'
  BY <1>14 DEF UpdateFailed
<1>15. ASSUME NEW h \in Handlers, PublishCard(h)  PROVE OfferInv'
  <2>1. PICK o \in Orders : o = of[h] /\ rows[o] # <<>> /\ Completed(o) /\ next[h] \in 1..Size[o]
    BY <1>15 DEF PublishCard
  <2>2. /\ UNCHANGED <<rows, session, of, event, buying>>
        /\ \/ next[h] < Size[o] /\ next' = [next EXCEPT ![h] = @ + 1] /\ UNCHANGED at
           \/ at' = [at EXCEPT ![h] = "respond"] /\ UNCHANGED next
        /\ \A p \in Orders : p # o => published'[p] = published[p]
    BY <1>15, <2>1 DEF PublishCard, CountOK
  <2>3. ASSUME NEW p \in Orders, NEW i \in 1..Size[p], published'[p][i] > 0
        PROVE  rows[p] # <<>> /\ Completed(p)
    BY <2>1, <2>2, <2>3
  <2>4. ASSUME NEW g \in Handlers
        PROVE  /\ at'[g] \in {"update", "publish"} => rows[of[g]] # <<>>
               /\ at'[g] = "publish" => event[g] = "completed" /\ next'[g] \in 1..Size[of[g]]
    <3>1. CASE g = h
      BY <2>1, <2>2, <3>1
    <3>2. CASE g # h
      BY <2>2, <3>2
    <3> QED
      BY <3>1, <3>2
  <2> QED
    BY <2>2, <2>3, <2>4
<1>16. ASSUME NEW h \in Handlers, Respond(h)  PROVE OfferInv'
  BY <1>16 DEF Respond
<1>17. ASSUME NEW h \in Handlers, CrashHandler(h)  PROVE OfferInv'
  BY <1>17 DEF CrashHandler
<1>18. ASSUME NEW h \in Handlers, NEW o \in Orders, DeliverEvent(h, o)  PROVE OfferInv'
  BY <1>18 DEF DeliverEvent, InFlight, Completed
<1>19. CASE UNCHANGED vars
  BY <1>19 DEF vars
<1>20. ASSUME NEW o \in Orders, SettleOrder(o)  PROVE OfferInv'
  BY <1>20 DEF SettleOrder
<1> QED
  BY <1>1, <1>2, <1>3, <1>4, <1>5, <1>6, <1>7, <1>8, <1>9, <1>10, <1>11, <1>12, <1>13, <1>14,
    <1>15, <1>16, <1>17, <1>18, <1>19, <1>20
  DEF Next, Create, HandleEvent

LEMMA ShopStep == ASSUME ShopInv, [Next]_vars PROVE ShopInv'
  BY TypeStep, SessionStep, DrawnStep, WholeStep, CountStep, OfferStep DEF ShopInv

LEMMA InitShop == ASSUME Init PROVE ShopInv
  BY InitOrders, Shape DEF Init, ShopInv, OrdersAreWhole, Elements, CountOK, OfferInv

-----------------------------------------------------------------------------
(* What a completed session stands for.                                    *)

\* Only the answer tells the buyer of the session, and it comes last.
StoredInv ==
  \A o \in Orders :
    /\ Completed(o) => answer[o] = "created"
    /\ answer[o] = "created" => Size[o] > 0 /\ Len(rows[o]) = Size[o] /\ rows[o] = drawn[o]

LEMMA StoredStep ==
  ASSUME ShopInv, StoredInv, [Next]_vars
  PROVE  StoredInv'
<1> USE Shape DEF ShopInv, OrderTypeOK, SessionInv, StoredInv, Completed
<1>1. ASSUME UNCHANGED <<session, answer, rows, drawn>>  PROVE StoredInv'
  BY <1>1
\* What becomes of one order while its request is at work.
<1>2. ASSUME NEW o \in Orders, answer[o] # "created",
             \A p \in Orders : p # o => /\ session'[p] = session[p] /\ answer'[p] = answer[p]
                                       /\ rows'[p] = rows[p] /\ drawn'[p] = drawn[p],
             session'[o] \notin {"unpaid", "paid"},
             answer'[o] = "created" => Size[o] > 0 /\ Len(rows'[o]) = Size[o] /\ rows'[o] = drawn'[o]
      PROVE  StoredInv'
  BY <1>2
<1>3. ASSUME NEW o \in Orders, Create(o)  PROVE StoredInv'
  <2> USE DEF dbVars, stripeVars, Answers
  <2>1. answer[o] # "created" /\ session[o] \notin {"unpaid", "paid"}
    BY <1>3 DEF Create, RejectOrder, CreateSession, SessionFailed, GenerateCode, CodeFailed, InsertCards,
      InsertFailed, Ended
  <2>2. CASE RejectOrder(o) \/ CreateSession(o) \/ SessionFailed(o) \/ GenerateCode(o) \/ CodeFailed(o)
    <3>1. /\ UNCHANGED rows /\ answer'[o] # "created" /\ session'[o] \notin {"unpaid", "paid"}
          /\ \A p \in Orders : p # o => session'[p] = session[p] /\ answer'[p] = answer[p] /\ drawn'[p] = drawn[p]
      BY <2>1, <2>2 DEF RejectOrder, CreateSession, SessionFailed, GenerateCode, CodeFailed
    <3>2. \A p \in Orders : p # o => /\ session'[p] = session[p] /\ answer'[p] = answer[p]
                                     /\ rows'[p] = rows[p] /\ drawn'[p] = drawn[p]
      BY <3>1
    <3> HIDE DEF StoredInv, ShopInv, OrderTypeOK, SessionInv, Completed
    <3> QED
      BY <1>2, <2>1, <3>1, <3>2
  <2>3. CASE InsertCards(o)
    <3>1. /\ Len(drawn[o]) = Size[o] /\ Size[o] > 0
      BY <2>3 DEF InsertCards, DrawnInv, OfferInv
    <3>2. /\ rows'[o] = drawn[o] /\ UNCHANGED <<session, drawn>>
          /\ \A p \in Orders : p # o => rows'[p] = rows[p] /\ answer'[p] = answer[p]
      BY <2>3 DEF InsertCards, BulkCreate
    <3> QED
      BY <1>2, <2>1, <3>1, <3>2
  <2>4. CASE InsertFailed(o)
    <3>1. /\ UNCHANGED <<session, drawn>> /\ answer'[o] # "created"
          /\ \A p \in Orders : p # o => rows'[p] = rows[p] /\ answer'[p] = answer[p]
      BY <2>4 DEF InsertFailed, BulkCreate
    <3> QED
      BY <1>2, <2>1, <3>1
  <2> QED
    BY <1>3, <2>2, <2>3, <2>4 DEF Create
<1>4. ASSUME NEW o \in Orders, PayOrder(o) \/ SettleOrder(o) \/ ExpireSession(o)  PROVE StoredInv'
  <2>1. /\ UNCHANGED <<answer, rows, drawn>>
        /\ \A p \in Orders : Completed(p)' => Completed(p) \/ answer[p] = "created"
    BY <1>4 DEF PayOrder, SettleOrder, ExpireSession, dbVars, buyVars
  <2> QED
    BY <2>1
<1>5. ASSUME NEW o \in Orders, CrashCreate(o)  PROVE StoredInv'
  BY <1>1, <1>5 DEF CrashCreate, dbVars, stripeVars
<1>6. ASSUME NEW h \in Handlers, HandleEvent(h) \/ CrashHandler(h) \/ \E o \in Orders : DeliverEvent(h, o)
      PROVE StoredInv'
  BY <1>1, <1>6 DEF HandleEvent, LoadCards, LoadFailed, UpdatePayment, UpdateFailed, PublishCard, Respond,
    CrashHandler, DeliverEvent, dbVars, buyVars, stripeVars
<1>7. CASE UNCHANGED vars
  BY <1>1, <1>7 DEF vars, dbVars, buyVars, stripeVars
<1> QED
  BY <1>3, <1>4, <1>5, <1>6, <1>7 DEF Next

(* Nobody is charged for cards the shop does not have: although the        *)
(* session is opened first, and whatever fails, is lost or crashes after   *)
(* that, a completed session has all its cards, with the codes the buyer   *)
(* was told (CreateCard).                                                  *)
THEOREM ChargedForStoredCards == Spec => []CompletedIsStored
<1> DEFINE Inv == ShopInv /\ StoredInv
<1>1. Init => Inv
  BY InitShop DEF Init, StoredInv, Completed
<1>2. Inv /\ [Next]_vars => Inv'
  BY ShopStep, StoredStep
<1>3. Inv => CompletedIsStored
  BY DEF StoredInv, CompletedIsStored
<1> QED
  BY <1>1, <1>2, <1>3, PTL DEF Spec

\* Every completed session is paid.
SettledInv == \A o \in Orders : session[o] # "unpaid"

LEMMA SettledStep ==
  ASSUME OrderTypeOK, SettledInv, [Next]_vars, "delayed" \notin Env
  PROVE  SettledInv'
<1> USE DEF OrderTypeOK, SettledInv, stripeVars
<1>1. ASSUME NEW o \in Orders, Create(o) \/ CrashCreate(o)  PROVE SettledInv'
  BY <1>1 DEF Create, RejectOrder, CreateSession, SessionFailed, GenerateCode, CodeFailed, InsertCards,
    InsertFailed, CrashCreate
<1>2. ASSUME NEW o \in Orders, PayOrder(o) \/ SettleOrder(o) \/ ExpireSession(o)  PROVE SettledInv'
  BY <1>2 DEF PayOrder, SettleOrder, ExpireSession
<1>3. ASSUME NEW h \in Handlers, HandleEvent(h) \/ CrashHandler(h) \/ \E o \in Orders : DeliverEvent(h, o)
      PROVE SettledInv'
  BY <1>3 DEF HandleEvent, LoadCards, LoadFailed, UpdatePayment, UpdateFailed, PublishCard, Respond,
    CrashHandler, DeliverEvent
<1>4. CASE UNCHANGED vars
  BY <1>4 DEF vars
<1> QED
  BY <1>1, <1>2, <1>3, <1>4 DEF Next

(* "after Stripe confirms payment": with payment methods that settle at    *)
(* once no message is published for an order that is not paid, whatever    *)
(* fails, is lost, delivered twice or crashes (HandleCheckoutEvent).       *)
THEOREM NothingForUnpaidOrders == "delayed" \notin Env => (Spec => []OnlyCollectedIsPublished)
<1> SUFFICES ASSUME "delayed" \notin Env PROVE Spec => []OnlyCollectedIsPublished
  OBVIOUS
<1> DEFINE Inv == ShopInv /\ SettledInv
<1>1. Init => Inv
  BY InitShop DEF Init, SettledInv
<1>2. Inv /\ [Next]_vars => Inv'
  BY ShopStep, SettledStep DEF ShopInv
<1>3. Inv => OnlyCollectedIsPublished
  BY DEF ShopInv, OfferInv, SettledInv, Completed, OnlyCollectedIsPublished
<1> QED
  BY <1>1, <1>2, <1>3, PTL DEF Spec

-----------------------------------------------------------------------------
(* How many messages a card gets.                                          *)

\* The handlers that may still publish this card.
Waiting(o, i) ==
  {h \in Handlers : /\ of[h] = o
                    /\ at[h] \in {"load", "update"} \/ (at[h] = "publish" /\ next[h] <= i)}

\* Each delivery of the event of an order publishes a card once or never.
DeliveryInv ==
  /\ deliveries \in [Orders -> 0..MaxDeliveries] /\ acked \in [Orders -> BOOLEAN]
  /\ \A o \in Orders : Len(drawn[o]) <= Size[o]
  /\ \A o \in Orders : \A i \in 1..Size[o] :
       /\ IsFiniteSet(Waiting(o, i))
       /\ published[o][i] + Cardinality(Waiting(o, i)) <= deliveries[o]

LEMMA DeliveryTypeStep ==
  ASSUME ShopInv, DeliveryInv, [Next]_vars
  PROVE  /\ deliveries' \in [Orders -> 0..MaxDeliveries] /\ acked' \in [Orders -> BOOLEAN]
         /\ \A o \in Orders : Len(drawn'[o]) <= Size[o]
<1> DEFINE Goal == /\ deliveries' \in [Orders -> 0..MaxDeliveries] /\ acked' \in [Orders -> BOOLEAN]
                   /\ \A o \in Orders : Len(drawn'[o]) <= Size[o]
<1> USE Shape, CheckoutAssumption DEF ShopInv, OrderTypeOK, DeliveryInv
<1>1. CASE UNCHANGED <<deliveries, acked, drawn>>
  BY <1>1
<1>2. ASSUME NEW o \in Orders, GenerateCode(o)  PROVE Goal
  <2>1. UNCHANGED <<deliveries, acked>> /\ \E k \in Codes : drawn' = [drawn EXCEPT ![o] = Append(@, k)]
    BY <1>2 DEF GenerateCode, stripeVars
  <2>2. Len(drawn[o]) < Size[o]
    BY <1>2 DEF GenerateCode, DrawnInv
  <2>3. \A k \in Codes : Len(Append(drawn[o], k)) = Len(drawn[o]) + 1
    OBVIOUS
  <2> QED
    BY <2>1, <2>2, <2>3
<1>3. ASSUME NEW h \in Handlers, Respond(h)  PROVE Goal
  BY <1>3 DEF Respond, buyVars
<1>4. ASSUME NEW h \in Handlers, NEW o \in Orders, DeliverEvent(h, o)  PROVE Goal
  BY <1>4 DEF DeliverEvent, buyVars
<1>5. ASSUME NEW o \in Orders, RejectOrder(o) \/ CreateSession(o) \/ SessionFailed(o) \/ CodeFailed(o)
             \/ InsertCards(o) \/ InsertFailed(o) \/ CrashCreate(o) \/ PayOrder(o) \/ SettleOrder(o) \/ ExpireSession(o)
      PROVE  UNCHANGED <<deliveries, acked, drawn>>
  BY <1>5 DEF RejectOrder, CreateSession, SessionFailed, CodeFailed, InsertCards, InsertFailed,
    CrashCreate, PayOrder, SettleOrder, ExpireSession, stripeVars, buyVars
<1>6. ASSUME NEW h \in Handlers, LoadCards(h) \/ LoadFailed(h) \/ UpdatePayment(h) \/ UpdateFailed(h)
             \/ PublishCard(h) \/ CrashHandler(h)
      PROVE  UNCHANGED <<deliveries, acked, drawn>>
  BY <1>6 DEF LoadCards, LoadFailed, UpdatePayment, UpdateFailed, PublishCard, CrashHandler, stripeVars,
    buyVars
<1>7. CASE UNCHANGED vars
  BY <1>7 DEF vars, stripeVars, buyVars
<1> QED
  BY <1>1, <1>2, <1>3, <1>4, <1>5, <1>6, <1>7 DEF Next, Create, HandleEvent

\* What becomes of a count when one in the sequence is raised.
LEMMA OneMore ==
  ASSUME NEW n, NEW was \in [1..n -> Nat], NEW k, NEW i \in 1..n, NEW is,
         is = [was EXCEPT ![k] = @ + 1]
  PROVE  is[i] = was[i] \/ (k = i /\ is[i] = was[i] + 1)
<1>1. CASE k = i
  BY <1>1
<1>2. CASE k # i
  BY <1>2
<1> QED
  BY <1>1, <1>2

LEMMA WaitingStep ==
  ASSUME ShopInv, DeliveryInv, [Next]_vars, NEW o \in Orders, NEW i \in 1..Size[o]
  PROVE  \/ /\ Waiting(o, i)' \subseteq Waiting(o, i)
            /\ published'[o][i] = published[o][i] /\ deliveries'[o] = deliveries[o]
         \/ \E h \in Waiting(o, i) :
              /\ Waiting(o, i)' \subseteq Waiting(o, i) \ {h}
              /\ published'[o][i] <= published[o][i] + 1 /\ deliveries'[o] = deliveries[o]
         \/ \E h \in Handlers :
              /\ Waiting(o, i)' \subseteq Waiting(o, i) \cup {h}
              /\ published'[o][i] = published[o][i] /\ deliveries'[o] = deliveries[o] + 1
<1> DEFINE Fewer == /\ Waiting(o, i)' \subseteq Waiting(o, i)
                    /\ published'[o][i] = published[o][i] /\ deliveries'[o] = deliveries[o]
           Publishes(h) == /\ h \in Waiting(o, i)
                           /\ Waiting(o, i)' \subseteq Waiting(o, i) \ {h}
                           /\ published'[o][i] <= published[o][i] + 1 /\ deliveries'[o] = deliveries[o]
           Begins(h) == /\ Waiting(o, i)' \subseteq Waiting(o, i) \cup {h}
                        /\ published'[o][i] = published[o][i] /\ deliveries'[o] = deliveries[o] + 1
<1> USE DEF ShopInv, OrderTypeOK, DeliveryInv, Waiting
<1>1. ASSUME UNCHANGED <<at, of, next, published, deliveries>>  PROVE Fewer
  BY <1>1
<1>2. ASSUME NEW p \in Orders, Create(p) \/ CrashCreate(p) \/ PayOrder(p) \/ SettleOrder(p) \/ ExpireSession(p)
      PROVE  UNCHANGED <<at, of, next, published, deliveries>>
  BY <1>2 DEF Create, RejectOrder, CreateSession, SessionFailed, GenerateCode, CodeFailed, InsertCards,
    InsertFailed, CrashCreate, PayOrder, SettleOrder, ExpireSession, stripeVars, handlerVars
<1>3. ASSUME NEW h \in Handlers, LoadCards(h) \/ LoadFailed(h) \/ UpdateFailed(h) \/ Respond(h) \/ CrashHandler(h)
      PROVE  Fewer
  <2>1. UNCHANGED <<next, published, deliveries>>
    BY <1>3 DEF LoadCards, LoadFailed, UpdateFailed, Respond, CrashHandler, stripeVars
  <2>2. \A g \in Handlers : g # h => at'[g] = at[g] /\ of'[g] = of[g]
    BY <1>3 DEF LoadCards, LoadFailed, UpdateFailed, Respond, CrashHandler, HandlerAt
  <2>3. \/ at'[h] \notin {"load", "update", "publish"}
        \/ at[h] = "load" /\ UNCHANGED of
    BY <1>3 DEF LoadCards, LoadFailed, UpdateFailed, Respond, CrashHandler, HandlerAt
  <2> QED
    BY <2>1, <2>2, <2>3
<1>4. ASSUME NEW h \in Handlers, UpdatePayment(h)  PROVE Fewer
  BY <1>4 DEF UpdatePayment, HandlerAt, stripeVars
<1>5. ASSUME NEW h \in Handlers, PublishCard(h)  PROVE Fewer \/ Publishes(h)
  <2>1. /\ at[h] = "publish" /\ UNCHANGED <<of, deliveries>>
        /\ \/ published' = [published EXCEPT ![of[h]][next[h]] = @ + 1]
           \/ UNCHANGED published
        /\ \/ next' = [next EXCEPT ![h] = next[h] + 1] /\ UNCHANGED at
           \/ at' = [at EXCEPT ![h] = "respond"] /\ UNCHANGED next
    BY <1>5 DEF PublishCard, HandlerAt, stripeVars
  <2>2. Waiting(o, i)' \subseteq Waiting(o, i)
    <3>1. SUFFICES ASSUME NEW g \in Waiting(o, i)'  PROVE g \in Waiting(o, i)
      OBVIOUS
    <3>2. CASE g = h
      <4>1. at'[h] = "publish" /\ next'[h] <= i /\ of[h] = o
        BY <2>1, <3>1, <3>2
      <4>2. next'[h] = next[h] \/ next'[h] = next[h] + 1
        BY <2>1
      <4>3. next[h] <= i
        BY <4>1, <4>2
      <4> QED
        BY <2>1, <3>2, <4>1, <4>3
    <3>3. CASE g # h
      BY <2>1, <3>1, <3>3
    <3> QED
      BY <3>2, <3>3
  <2>a. \/ published'[o] = published[o]
        \/ of[h] = o /\ published'[o] = [published[o] EXCEPT ![next[h]] = @ + 1]
    <3>1. DOMAIN published = Orders
      BY DEF CountOK
    <3>2. CASE UNCHANGED published
      BY <3>2
    <3>3. CASE published' = [published EXCEPT ![of[h]][next[h]] = @ + 1]
      <4>1. of[h] = o => published'[o] = [published[o] EXCEPT ![next[h]] = @ + 1]
        BY <3>1, <3>3
      <4>2. of[h] # o => published'[o] = published[o]
        BY <3>1, <3>3
      <4> QED
        BY <4>1, <4>2
    <3> QED
      BY <2>1, <3>2, <3>3
  <2>b. published[o] \in [1..Size[o] -> Nat]
    BY DEF CountOK
  <2>c. \/ published'[o][i] = published[o][i]
        \/ of[h] = o /\ next[h] = i /\ published'[o][i] = published[o][i] + 1
    <3>1. CASE published'[o] = published[o]
      BY <3>1
    <3>2. CASE of[h] = o /\ published'[o] = [published[o] EXCEPT ![next[h]] = @ + 1]
      <4>1. \/ published'[o][i] = published[o][i]
            \/ next[h] = i /\ published'[o][i] = published[o][i] + 1
        BY <2>b, <3>2, OneMore
      <4> QED
        BY <3>2, <4>1
    <3> QED
      BY <2>a, <3>1, <3>2
  <2>3. ASSUME ~(of[h] = o /\ next[h] = i)  PROVE published'[o][i] = published[o][i]
    BY <2>c, <2>3
  <2>4. ASSUME of[h] = o, next[h] = i  PROVE Publishes(h)
    <3>1. h \in Waiting(o, i) /\ h \notin Waiting(o, i)'
      BY <2>1, <2>4
    <3>2. published'[o][i] <= published[o][i] + 1
      <4>1. published[o][i] \in Nat
        BY <2>b
      <4> QED
        BY <2>c, <4>1
    <3> QED
      BY <2>1, <2>2, <3>1, <3>2
  <2> QED
    BY <2>1, <2>2, <2>3, <2>4
<1>6. ASSUME NEW h \in Handlers, NEW p \in Orders, DeliverEvent(h, p)  PROVE Fewer \/ Begins(h)
  <2>1. /\ \/ at' = [at EXCEPT ![h] = "load"] /\ of' = [of EXCEPT ![h] = p]
           \/ UNCHANGED <<at, of>>
        /\ deliveries' = [deliveries EXCEPT ![p] = @ + 1]
        /\ UNCHANGED <<published, next>>
    BY <1>6 DEF DeliverEvent
  <2>2. CASE p = o
    <3>1. \A g \in Handlers : g # h => at'[g] = at[g] /\ of'[g] = of[g]
      BY <2>1
    <3> QED
      BY <2>1, <2>2, <3>1
  <2>3. CASE p # o
    BY <2>1, <2>3
  <2> QED
    BY <2>2, <2>3
<1>7. CASE UNCHANGED vars
  BY <1>1, <1>7 DEF vars, stripeVars, handlerVars
<1>8. Fewer \/ \E h \in Handlers : Publishes(h) \/ Begins(h)
  BY <1>1, <1>2, <1>3, <1>4, <1>5, <1>6, <1>7 DEF Next, HandleEvent
<1> HIDE DEF Waiting
<1> QED
  BY <1>8

LEMMA DeliveryStep ==
  ASSUME ShopInv, DeliveryInv, [Next]_vars
  PROVE  DeliveryInv'
<1> SUFFICES ASSUME NEW o \in Orders, NEW i \in 1..Size[o]
             PROVE  /\ IsFiniteSet(Waiting(o, i)')
                    /\ published'[o][i] + Cardinality(Waiting(o, i)') <= deliveries'[o]
  BY DeliveryTypeStep DEF DeliveryInv
<1> DEFINE was == Waiting(o, i)
           is == Waiting(o, i)'
<1>1. /\ IsFiniteSet(was) /\ Cardinality(was) \in Nat
      /\ published[o][i] + Cardinality(was) <= deliveries[o]
  BY FS_CardinalityType DEF DeliveryInv
<1>2. published[o][i] \in Nat /\ published'[o][i] \in Nat /\ deliveries[o] \in Nat
  <2>1. published[o] \in [1..Size[o] -> Nat] /\ published'[o] \in [1..Size[o] -> Nat]
    BY CountStep DEF ShopInv, CountOK
  <2>2. deliveries[o] \in Nat
    BY CheckoutAssumption DEF DeliveryInv
  <2> QED
    BY <2>1, <2>2
<1> HIDE DEF was, is
<1>3. ASSUME NEW S, IsFiniteSet(S), is \subseteq S
      PROVE  IsFiniteSet(is) /\ Cardinality(is) \in Nat /\ Cardinality(S) \in Nat /\ Cardinality(is) <= Cardinality(S)
  BY <1>3, FS_Subset, FS_CardinalityType
<1>4. CASE is \subseteq was /\ published'[o][i] = published[o][i] /\ deliveries'[o] = deliveries[o]
  BY <1>1, <1>2, <1>3, <1>4 DEF is
<1>5. ASSUME NEW h \in was, is \subseteq was \ {h}, published'[o][i] <= published[o][i] + 1,
             deliveries'[o] = deliveries[o]
      PROVE  IsFiniteSet(is) /\ published'[o][i] + Cardinality(is) <= deliveries'[o]
  <2>1. IsFiniteSet(was \ {h}) /\ Cardinality(was \ {h}) = Cardinality(was) - 1
    BY <1>1, <1>5, FS_RemoveElement
  <2> QED
    BY <1>1, <1>2, <1>3, <1>5, <2>1
<1>6. ASSUME NEW h \in Handlers, is \subseteq was \cup {h}, published'[o][i] = published[o][i],
             deliveries'[o] = deliveries[o] + 1
      PROVE  IsFiniteSet(is) /\ published'[o][i] + Cardinality(is) <= deliveries'[o]
  <2>1. IsFiniteSet(was \cup {h}) /\ Cardinality(was \cup {h}) <= Cardinality(was) + 1
    <3>1. IsFiniteSet(was \cup {h}) /\ Cardinality(was \cup {h}) = IF h \in was THEN Cardinality(was) ELSE Cardinality(was) + 1
      BY <1>1, FS_AddElement
    <3> QED
      BY <1>1, <3>1
  <2> QED
    BY <1>1, <1>2, <1>3, <1>6, <2>1
<1> QED
  BY <1>4, <1>5, <1>6, WaitingStep DEF was, is

LEMMA InitDelivery == ASSUME Init PROVE DeliveryInv
<1>1. \A o \in Orders : \A i \in 1..Size[o] : Waiting(o, i) = {} /\ published[o][i] = 0
  BY Shape DEF Init, Waiting
<1>2. /\ deliveries \in [Orders -> 0..MaxDeliveries] /\ acked \in [Orders -> BOOLEAN]
      /\ \A o \in Orders : Len(drawn[o]) <= Size[o] /\ deliveries[o] = 0
  BY Shape, CheckoutAssumption DEF Init
<1>3. ASSUME NEW o \in Orders, NEW i \in 1..Size[o]
      PROVE  IsFiniteSet(Waiting(o, i)) /\ published[o][i] + Cardinality(Waiting(o, i)) <= deliveries[o]
  <2>1. Waiting(o, i) = {} /\ published[o][i] = 0 /\ deliveries[o] = 0
    BY <1>1, <1>2
  <2>2. IsFiniteSet({}) /\ Cardinality({}) = 0
    BY FS_EmptySet
  <2> QED
    BY <2>1, <2>2
<1>4. \A o \in Orders : Len(drawn[o]) <= Size[o]
  BY <1>2
<1> QED
  BY <1>2, <1>3, <1>4 DEF DeliveryInv

(* The variables keep their types: of these it takes work that each card   *)
(* gets at most as many messages as Stripe makes deliveries, that no more  *)
(* codes are drawn than cards were ordered, and that the publishing loop   *)
(* stays inside the order (HandleCheckoutEvent, CreateCard).               *)
THEOREM OrderTypes == Spec => []TypeOK
<1> DEFINE Inv == ShopInv /\ DeliveryInv
<1>1. Init => Inv
  BY InitShop, InitDelivery
<1>2. Inv /\ [Next]_vars => Inv'
  BY ShopStep, DeliveryStep
<1>3. Inv => TypeOK
  <2> SUFFICES ASSUME Inv PROVE TypeOK
    OBVIOUS
  <2>1. ASSUME NEW o \in Orders  PROVE published[o] \in [1..Size[o] -> 0..MaxDeliveries]
    <3>1. published[o] \in [1..Size[o] -> Nat]
      BY DEF ShopInv, CountOK
    <3>2. ASSUME NEW i \in 1..Size[o]  PROVE published[o][i] \in 0..MaxDeliveries
      <4>1. Cardinality(Waiting(o, i)) \in Nat /\ published[o][i] + Cardinality(Waiting(o, i)) <= deliveries[o]
        BY FS_CardinalityType DEF DeliveryInv
      <4>2. published[o][i] \in Nat /\ deliveries[o] \in 0..MaxDeliveries
        BY <3>1 DEF DeliveryInv
      <4> QED
        BY <4>1, <4>2, CheckoutAssumption
    <3> QED
      BY <3>1, <3>2
  <2> QED
    BY <2>1, Shape DEF TypeOK, ShopInv, DeliveryInv, OrderTypeOK, SessionInv, OfferInv
<1> QED
  BY <1>1, <1>2, <1>3, PTL DEF Spec

-----------------------------------------------------------------------------
(* One message for each card.                                              *)

\* Nobody else has an event of this order at hand.
Alone == \A g, h \in Handlers : g # h /\ of[g] = of[h] => of[g] = None

\* Messages are published after the order is marked paid, by the handler
\* that marks it, card after card.
PublishInv ==
  /\ \A o \in Orders : payment[o] # "paid" => \A i \in 1..Size[o] : published[o][i] = 0
  /\ \A h \in Handlers :
       /\ at[h] = "update" => /\ rows[of[h]] # <<>>
                              /\ event[h] = "completed" => payment[of[h]] = "pending"
       /\ at[h] = "publish" =>
            /\ payment[of[h]] = "paid"
            /\ next[h] \in 1..Size[of[h]]
            /\ \A i \in 1..Size[of[h]] : i >= next[h] => published[of[h]][i] = 0

OnceInv ==
  /\ OrderTypeOK /\ SessionInv /\ DrawnInv /\ StatusInv /\ OrdersAreWhole
  /\ CountOK /\ Alone /\ PublishInv /\ PublishedOnce

LEMMA AloneStep ==
  ASSUME OrderTypeOK, SessionInv, Alone, [Next]_vars, "duplicate" \notin Env
  PROVE  Alone'
<1> USE Shape DEF OrderTypeOK, SessionInv, Alone, dbVars, buyVars, stripeVars, handlerVars, Answers, HandlerAt
<1>1. ASSUME NEW o \in Orders, RejectOrder(o)  PROVE Alone'
  BY <1>1 DEF RejectOrder
<1>2. ASSUME NEW o \in Orders, CreateSession(o)  PROVE Alone'
  BY <1>2 DEF CreateSession
<1>3. ASSUME NEW o \in Orders, SessionFailed(o)  PROVE Alone'
  BY <1>3 DEF SessionFailed
<1>4. ASSUME NEW o \in Orders, GenerateCode(o)  PROVE Alone'
  BY <1>4 DEF GenerateCode
<1>5. ASSUME NEW o \in Orders, CodeFailed(o)  PROVE Alone'
  BY <1>5 DEF CodeFailed
<1>6. ASSUME NEW o \in Orders, InsertCards(o)  PROVE Alone'
  BY <1>6 DEF InsertCards, BulkCreate
<1>7. ASSUME NEW o \in Orders, InsertFailed(o)  PROVE Alone'
  BY <1>7 DEF InsertFailed, BulkCreate
<1>8. ASSUME NEW o \in Orders, CrashCreate(o)  PROVE Alone'
  BY <1>8 DEF CrashCreate
<1>9. ASSUME NEW o \in Orders, PayOrder(o)  PROVE Alone'
  BY <1>9 DEF PayOrder
<1>10. ASSUME NEW o \in Orders, ExpireSession(o)  PROVE Alone'
  BY <1>10 DEF ExpireSession
<1>11. ASSUME NEW h \in Handlers, LoadCards(h)  PROVE Alone'
  BY <1>11 DEF LoadCards, NothingToDo
<1>12. ASSUME NEW h \in Handlers, LoadFailed(h)  PROVE Alone'
  BY <1>12 DEF LoadFailed
<1>13. ASSUME NEW h \in Handlers, UpdatePayment(h)  PROVE Alone'
  BY <1>13 DEF UpdatePayment, UpdatePaymentStatus, StatusAfter
<1>14. ASSUME NEW h \in Handlers, UpdateFailed(h)  PROVE Alone'
  BY <1>14 DEF UpdateFailed, UpdatePaymentStatus, StatusAfter
<1>15. ASSUME NEW h \in Handlers, PublishCard(h)  PROVE Alone'
  BY <1>15 DEF PublishCard
<1>16. ASSUME NEW h \in Handlers, Respond(h)  PROVE Alone'
  BY <1>16 DEF Respond
<1>17. ASSUME NEW h \in Handlers, CrashHandler(h)  PROVE Alone'
  BY <1>17 DEF CrashHandler
<1>18. ASSUME NEW h \in Handlers, NEW o \in Orders, DeliverEvent(h, o)  PROVE Alone'
  <2>1. CASE UNCHANGED <<at, of, event>>
    BY <1>18, <2>1 DEF DeliverEvent
  <2>2. CASE Begun(h, o)
    BY <1>18, <2>2 DEF DeliverEvent, InFlight, Begun
  <2> QED
    BY <1>18, <2>1, <2>2 DEF DeliverEvent, Begun
<1>19. CASE UNCHANGED vars
  BY <1>19 DEF vars
<1>20. ASSUME NEW o \in Orders, SettleOrder(o)  PROVE Alone'
  BY <1>20 DEF SettleOrder
<1> QED
  BY <1>1, <1>2, <1>3, <1>4, <1>5, <1>6, <1>7, <1>8, <1>9, <1>10, <1>11, <1>12, <1>13, <1>14,
    <1>15, <1>16, <1>17, <1>18, <1>19, <1>20
  DEF Next, Create, HandleEvent

\* A step that publishes nothing.
LEMMA NothingPublished ==
  ASSUME CountOK, PublishedOnce, UNCHANGED published
  PROVE  CountOK' /\ PublishedOnce'
  BY DEF CountOK, PublishedOnce

LEMMA NothingMoves ==
  ASSUME PublishInv, CountOK, PublishedOnce, UNCHANGED <<rows, payment, published, session, at, of, event, next>>
  PROVE  PublishInv' /\ CountOK' /\ PublishedOnce'
  BY DEF PublishInv, CountOK, PublishedOnce

LEMMA PublishStep ==
  ASSUME OnceInv, [Next]_vars
  PROVE  PublishInv' /\ CountOK' /\ PublishedOnce'
<1> DEFINE Goal == PublishInv' /\ CountOK' /\ PublishedOnce'
<1> USE Shape DEF OnceInv
<1> USE DEF dbVars, buyVars, stripeVars, handlerVars, Answers, HandlerAt
<1>1. ASSUME NEW o \in Orders, RejectOrder(o)  PROVE Goal
  BY <1>1, NothingMoves DEF RejectOrder
<1>4. ASSUME NEW o \in Orders, GenerateCode(o)  PROVE Goal
  BY <1>4, NothingMoves DEF GenerateCode
<1>5. ASSUME NEW o \in Orders, CodeFailed(o)  PROVE Goal
  BY <1>5, NothingMoves DEF CodeFailed
<1>8. ASSUME NEW o \in Orders, CrashCreate(o)  PROVE Goal
  BY <1>8, NothingMoves DEF CrashCreate
<1> USE DEF OrderTypeOK, SessionInv, PublishInv
<1>2. ASSUME NEW o \in Orders, CreateSession(o)  PROVE Goal
  BY <1>2, NothingPublished DEF CreateSession
<1>3. ASSUME NEW o \in Orders, SessionFailed(o)  PROVE Goal
  BY <1>3, NothingPublished DEF SessionFailed
<1>6. ASSUME NEW o \in Orders, InsertCards(o)  PROVE Goal
  <2>1. payment[o] # "paid" /\ \A h \in Handlers : at[h] # "idle" => of[h] # o
    BY <1>6 DEF InsertCards, StatusInv, Ended, Completed
  <2> QED
    BY <1>6, <2>1, NothingPublished DEF InsertCards, BulkCreate
<1>7. ASSUME NEW o \in Orders, InsertFailed(o)  PROVE Goal
  <2>1. payment[o] # "paid" /\ \A h \in Handlers : at[h] # "idle" => of[h] # o
    BY <1>7 DEF InsertFailed, StatusInv, Ended, Completed
  <2>2. CASE UNCHANGED dbVars
    BY <1>7, <2>2, NothingPublished DEF InsertFailed
  <2>3. CASE BulkCreate(o)
    BY <1>7, <2>1, <2>3, NothingPublished DEF InsertFailed, BulkCreate
  <2> QED
    BY <1>7, <2>2, <2>3 DEF InsertFailed
<1>9. ASSUME NEW o \in Orders, PayOrder(o)  PROVE Goal
  <2>1. \A h \in Handlers : at[h] # "idle" => of[h] # o
    BY <1>9 DEF PayOrder, Ended, Completed
  <2>2. \A p \in Orders : p # o => session'[p] = session[p]
    BY <1>9 DEF PayOrder
  <2>3. UNCHANGED <<rows, payment, published, at, of, event, next>>
    BY <1>9 DEF PayOrder
  <2> QED
    BY <2>1, <2>2, <2>3, NothingPublished
<1>10. ASSUME NEW o \in Orders, ExpireSession(o)  PROVE Goal
  BY <1>10, NothingPublished DEF ExpireSession
<1>11. ASSUME NEW h \in Handlers, LoadCards(h)  PROVE Goal
  BY <1>11, NothingPublished DEF LoadCards, NothingToDo, Ended
<1>12. ASSUME NEW h \in Handlers, LoadFailed(h)  PROVE Goal
  BY <1>12, NothingPublished DEF LoadFailed
<1>13. ASSUME NEW h \in Handlers, UpdatePayment(h)  PROVE Goal
  <2>1. at[h] = "update" /\ of[h] \in Orders /\ Ended(of[h])
    BY <1>13 DEF UpdatePayment
  <2>2. PICK o \in Orders : o = of[h]
    BY <2>1
  <2>3. \A g \in Handlers : g # h /\ at[g] # "idle" => of[g] # o
    BY <2>1, <2>2 DEF Alone
  <2>4. payment[o] # "paid"
    BY <2>1, <2>2 DEF StatusInv, Ended, Completed
  <2>5. 1 \in 1..Size[o]
    <3>1. Len(rows[o]) \in {0, Size[o]} /\ rows[o] \in Seq(Codes) /\ rows[o] # <<>>
      BY <2>1, <2>2 DEF OrdersAreWhole
    <3> QED
      BY <3>1
  <2>6. /\ payment' = [payment EXCEPT ![o] = StatusAfter(event[h])] /\ next' = [next EXCEPT ![h] = 1]
        /\ at' = [at EXCEPT ![h] = IF event[h] = "completed" THEN "publish" ELSE "respond"]
        /\ UNCHANGED <<rows, published, session, of, event>>
    BY <1>13, <2>2 DEF UpdatePayment, UpdatePaymentStatus, StatusAfter
  <2>7. \A i \in 1..Size[o] : published[o][i] = 0
    BY <2>4
  <2>8. ASSUME NEW p \in Orders, payment'[p] # "paid"
        PROVE  \A i \in 1..Size[p] : published'[p][i] = 0
    <3>1. CASE p = o
      BY <2>6, <2>7, <3>1
    <3>2. CASE p # o
      BY <2>6, <2>8, <3>2
    <3> QED
      BY <3>1, <3>2
  <2>9. ASSUME NEW g \in Handlers, at'[g] = "publish", g = h
        PROVE payment'[of'[g]] = "paid" /\ next'[g] \in 1..Size[of'[g]]
              /\ \A i \in 1..Size[of'[g]] : i >= next'[g] => published'[of'[g]][i] = 0
    <3>1. next'[h] = 1 /\ of'[h] = o /\ published' = published
      BY <2>2, <2>6
    <3>2. event[h] = "completed"
      BY <2>6, <2>9
    <3>3. payment'[o] = "paid"
      BY <2>6, <3>2 DEF StatusAfter
    <3> QED
      BY <2>5, <2>7, <2>9, <3>1, <3>3
  <2>10. ASSUME NEW g \in Handlers, g # h
         PROVE  at'[g] = at[g] /\ next'[g] = next[g] /\ (at[g] # "idle" => payment'[of[g]] = payment[of[g]])
    <3>1. at'[g] = at[g] /\ next'[g] = next[g]
      BY <2>6, <2>10
    <3>2. ASSUME at[g] # "idle"  PROVE payment'[of[g]] = payment[of[g]]
      BY <2>3, <2>6, <2>10, <3>2
    <3> QED
      BY <3>1, <3>2
  <2>11. at'[h] # "update"
    BY <2>6
  <2>12. ASSUME NEW g \in Handlers
         PROVE  /\ at'[g] = "update" => /\ rows'[of'[g]] # <<>>
                                        /\ event'[g] = "completed" => payment'[of'[g]] = "pending"
                /\ at'[g] = "publish" =>
                     /\ payment'[of'[g]] = "paid"
                     /\ next'[g] \in 1..Size[of'[g]]
                     /\ \A i \in 1..Size[of'[g]] : i >= next'[g] => published'[of'[g]][i] = 0
    <3>1. CASE g = h
      BY <2>9, <2>11, <3>1
    <3>2. CASE g # h
      <4>1. /\ at'[g] = at[g] /\ next'[g] = next[g] /\ of'[g] = of[g] /\ event'[g] = event[g]
            /\ rows'[of'[g]] = rows[of[g]] /\ published'[of'[g]] = published[of[g]]
        BY <2>6, <2>10, <3>2
      <4>2. at[g] # "idle" => payment'[of'[g]] = payment[of[g]]
        BY <2>10, <3>2, <4>1
      <4>3. /\ at[g] = "update" => /\ rows[of[g]] # <<>>
                                   /\ event[g] = "completed" => payment[of[g]] = "pending"
            /\ at[g] = "publish" =>
                 /\ payment[of[g]] = "paid" /\ next[g] \in 1..Size[of[g]]
                 /\ \A i \in 1..Size[of[g]] : i >= next[g] => published[of[g]][i] = 0
        OBVIOUS
      <4> HIDE DEF OnceInv, PublishInv
      <4> QED
        BY <4>1, <4>2, <4>3
    <3> QED
      BY <3>1, <3>2
  <2>13. PublishInv'
    BY <2>8, <2>12
  <2>14. UNCHANGED published
    BY <2>6
  <2> QED
    BY <2>13, <2>14, NothingPublished
<1>14. ASSUME NEW h \in Handlers, UpdateFailed(h)  PROVE Goal
  <2>1. at[h] = "update" /\ of[h] \in Orders /\ Ended(of[h])
    BY <1>14 DEF UpdateFailed
  <2>2. PICK o \in Orders : o = of[h]
    BY <2>1
  <2>3. \A g \in Handlers : g # h /\ at[g] # "idle" => of[g] # o
    BY <2>1, <2>2 DEF Alone
  <2>4. payment[o] # "paid"
    BY <2>1, <2>2 DEF StatusInv, Ended, Completed
  <2>5. at' = [at EXCEPT ![h] = "respond"] /\ UNCHANGED <<rows, published, session, of, event, next>>
    BY <1>14 DEF UpdateFailed
  <2>6. CASE UNCHANGED payment
    BY <2>5, <2>6, NothingPublished
  <2>7. CASE payment' = [payment EXCEPT ![o] = StatusAfter(event[h])]
    <3>1. \A p \in Orders : payment'[p] # "paid" => payment[p] # "paid"
      BY <2>4, <2>7
    <3> QED
      BY <2>2, <2>3, <2>5, <2>7, <3>1, NothingPublished
  <2> QED
    BY <1>14, <2>2, <2>6, <2>7 DEF UpdateFailed, UpdatePaymentStatus, StatusAfter
<1>15. ASSUME NEW h \in Handlers, PublishCard(h)  PROVE Goal
  <2>1. at[h] = "publish" /\ of[h] \in Orders /\ Ended(of[h])
    BY <1>15 DEF PublishCard
  <2>2. PICK o \in Orders : o = of[h]
    BY <2>1
  <2>3. \A g \in Handlers : g # h /\ at[g] # "idle" => of[g] # o
    BY <2>1, <2>2 DEF Alone
  <2>4. /\ payment[o] = "paid" /\ next[h] \in 1..Size[o]
        /\ \A i \in 1..Size[o] : i >= next[h] => published[o][i] = 0
    BY <2>1, <2>2
  <2>5. /\ UNCHANGED <<rows, payment, session, of, event>>
        /\ \/ published' = [published EXCEPT ![o][next[h]] = @ + 1]
           \/ UNCHANGED published
        /\ \/ next[h] < Size[o] /\ next' = [next EXCEPT ![h] = @ + 1] /\ UNCHANGED at
           \/ at' = [at EXCEPT ![h] = "respond"] /\ UNCHANGED next
    BY <1>15, <2>2 DEF PublishCard
  <2> DEFINE k == next[h]
             more == [published[o] EXCEPT ![k] = @ + 1]
  <2>6. CountOK' /\ \A p \in Orders : \A i \in 1..Size[p] :
          \/ published'[p][i] = published[p][i]
          \/ p = o /\ i = k /\ published'[p][i] = 1
    <3>1. published[o] \in [1..Size[o] -> Nat] /\ k \in 1..Size[o] /\ published[o][k] = 0
      BY <2>4 DEF CountOK
    <3>2. /\ more \in [1..Size[o] -> Nat] /\ more[k] = 1
          /\ \A i \in 1..Size[o] : i # k => more[i] = published[o][i]
      BY <3>1
    <3>3. CASE UNCHANGED published
      BY <3>3 DEF CountOK
    <3>4. CASE published' = [published EXCEPT ![o][k] = @ + 1]
      <4>1. \A p \in Orders : published'[p] = IF p = o THEN more ELSE published[p]
        BY <3>4 DEF CountOK
      <4>2. published' = [p \in Orders |-> published'[p]]
        BY <3>4 DEF CountOK
      <4> HIDE DEF more, k
      <4>3. ASSUME NEW p \in Orders  PROVE published'[p] \in [1..Size[p] -> Nat]
        <5>1. CASE p = o
          BY <3>2, <4>1, <5>1
        <5>2. CASE p # o
          BY <4>1, <5>2 DEF CountOK
        <5> QED
          BY <5>1, <5>2
      <4> QED
        BY <3>2, <4>1, <4>2, <4>3 DEF CountOK
    <3> QED
      BY <2>5, <3>3, <3>4
  <2> HIDE DEF more
  <2>7. CountOK'
    BY <2>6
  <2>8. PublishedOnce'
    <3>1. ASSUME NEW p \in Orders, NEW i \in 1..Size[p]  PROVE published'[p][i] <= 1
      <4>1. published'[p][i] = published[p][i] \/ published'[p][i] = 1
        BY <2>6
      <4>2. published[p][i] <= 1
        BY DEF PublishedOnce
      <4> QED
        BY <4>1, <4>2
    <3> QED
      BY <3>1 DEF PublishedOnce
  <2>9. ASSUME NEW p \in Orders, payment'[p] # "paid", NEW i \in 1..Size[p]
        PROVE  published'[p][i] = 0
    <3>1. p # o /\ payment[p] # "paid"
      BY <2>4, <2>5, <2>9
    <3>2. published'[p][i] = published[p][i]
      BY <2>6, <3>1
    <3> QED
      BY <3>1, <3>2
  <2>10. ASSUME NEW g \in Handlers, g # h, at[g] # "idle"
         PROVE  /\ at'[g] = at[g] /\ next'[g] = next[g] /\ of'[g] = of[g] /\ of[g] \in Orders
                /\ \A i \in 1..Size[of[g]] : published'[of[g]][i] = published[of[g]][i]
    BY <2>3, <2>5, <2>6, <2>10
  <2>11. ASSUME NEW i \in 1..Size[o], i >= next'[h], at'[h] = "publish"
         PROVE  published'[o][i] = 0
    <3>1. next'[h] = next[h] + 1 /\ next[h] < Size[o]
      BY <2>1, <2>5, <2>11
    <3>2. i # next[h] /\ i >= next[h]
      BY <2>4, <2>11, <3>1
    <3>3. published'[o][i] = published[o][i]
      BY <2>6, <3>2
    <3> QED
      BY <2>4, <3>2, <3>3
  <2>12. at'[h] = "publish" => next'[h] \in 1..Size[o]
    BY <2>1, <2>4, <2>5
  <2>13. at'[h] # "update"
    BY <2>1, <2>5
  <2>14. ASSUME NEW g \in Handlers, g # h
         PROVE  at'[g] = at[g]
    BY <2>5, <2>14
  <2>15. ASSUME NEW g \in Handlers
         PROVE  /\ at'[g] = "update" => /\ rows'[of'[g]] # <<>>
                                        /\ event'[g] = "completed" => payment'[of'[g]] = "pending"
                /\ at'[g] = "publish" =>
                     /\ payment'[of'[g]] = "paid"
                     /\ next'[g] \in 1..Size[of'[g]]
                     /\ \A i \in 1..Size[of'[g]] : i >= next'[g] => published'[of'[g]][i] = 0
    <3>1. CASE g = h
      BY <2>2, <2>4, <2>5, <2>11, <2>12, <2>13, <3>1
    <3>2. CASE g # h /\ at[g] = "idle"
      BY <2>14, <3>2
    <3>3. CASE g # h /\ at[g] # "idle"
      <4>1. /\ at'[g] = at[g] /\ next'[g] = next[g] /\ of'[g] = of[g]
            /\ \A i \in 1..Size[of[g]] : published'[of[g]][i] = published[of[g]][i]
        BY <2>10, <3>3
      <4>2. /\ at[g] = "update" => /\ rows[of[g]] # <<>>
                                   /\ event[g] = "completed" => payment[of[g]] = "pending"
            /\ at[g] = "publish" =>
                 /\ payment[of[g]] = "paid" /\ next[g] \in 1..Size[of[g]]
                 /\ \A i \in 1..Size[of[g]] : i >= next[g] => published[of[g]][i] = 0
        OBVIOUS
      <4>3. /\ rows'[of'[g]] = rows[of[g]] /\ event'[g] = event[g]
            /\ payment'[of'[g]] = payment[of[g]]
        BY <2>5, <4>1
      <4> HIDE DEF OnceInv
      <4>4. ASSUME at'[g] = "publish"
            PROVE  \A i \in 1..Size[of'[g]] : i >= next'[g] => published'[of'[g]][i] = 0
        BY <4>1, <4>2, <4>4
      <4> QED
        BY <4>1, <4>2, <4>3, <4>4
    <3> QED
      BY <3>1, <3>2, <3>3
  <2> QED
    BY <2>7, <2>8, <2>9, <2>15
<1>16. ASSUME NEW h \in Handlers, Respond(h)  PROVE Goal
  <2>1. /\ UNCHANGED <<dbVars, published, session, next>>
        /\ at' = [at EXCEPT ![h] = "idle"]
        /\ \A g \in Handlers : g # h => of'[g] = of[g] /\ event'[g] = event[g]
    BY <1>16 DEF Respond
  <2> QED
    BY <2>1, NothingPublished
<1>17. ASSUME NEW h \in Handlers, CrashHandler(h)  PROVE Goal
  BY <1>17, NothingPublished DEF CrashHandler
<1>18. ASSUME NEW h \in Handlers, NEW o \in Orders, DeliverEvent(h, o)  PROVE Goal
  <2>1. CASE UNCHANGED <<at, of, event>>
    BY <1>18, <2>1, NothingMoves DEF DeliverEvent
  <2>2. CASE Begun(h, o)
    BY <1>18, <2>2, NothingPublished DEF DeliverEvent, Begun
  <2> QED
    BY <1>18, <2>1, <2>2 DEF DeliverEvent, Begun
<1>19. CASE UNCHANGED vars
  BY <1>19, NothingPublished DEF vars
<1>20. ASSUME NEW o \in Orders, SettleOrder(o)  PROVE Goal
  BY <1>20, NothingPublished DEF SettleOrder
<1> QED
  BY <1>1, <1>2, <1>3, <1>4, <1>5, <1>6, <1>7, <1>8, <1>9, <1>10, <1>11, <1>12, <1>13, <1>14,
    <1>15, <1>16, <1>17, <1>18, <1>19, <1>20
  DEF Next, Create, HandleEvent

LEMMA InitOnce == ASSUME Init PROVE OnceInv
  BY InitOrders, Shape DEF Init, OnceInv, OrdersAreWhole, Elements, StatusInv, CountOK, Alone,
    PublishInv, PublishedOnce

LEMMA OnceStep == ASSUME OnceInv, [Next]_vars, "duplicate" \notin Env PROVE OnceInv'
<1>1. OrderTypeOK' /\ SessionInv' /\ DrawnInv' /\ StatusInv' /\ OrdersAreWhole'
  BY TypeStep, SessionStep, DrawnStep, StatusStep, WholeStep DEF OnceInv
<1>2. Alone'
  BY AloneStep DEF OnceInv
<1>3. PublishInv' /\ CountOK' /\ PublishedOnce'
  BY PublishStep
<1> QED
  BY <1>1, <1>2, <1>3 DEF OnceInv

(* "an already-paid session is a no-op": as long as Stripe waits for the   *)
(* answer before it sends an event again, no card gets two messages,       *)
(* whatever fails, crashes or goes unanswered (HandleCheckoutEvent).       *)
THEOREM OneMessagePerCard == "duplicate" \notin Env => (Spec => []PublishedOnce)
<1> SUFFICES ASSUME "duplicate" \notin Env PROVE Spec => []PublishedOnce
  OBVIOUS
<1>1. Init => OnceInv
  BY InitOnce
<1>2. OnceInv /\ [Next]_vars => OnceInv'
  BY OnceStep
<1>3. OnceInv => PublishedOnce
  BY DEF OnceInv
<1> QED
  BY <1>1, <1>2, <1>3, PTL DEF Spec
=============================================================================
