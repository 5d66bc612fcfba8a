--------------------------- MODULE FundCardProofs ---------------------------
(***************************************************************************)
(* Proofs about FundCard, for any cards, workers, prices and treasury.     *)
(* The invariants build on each other: the queue underneath and who is at  *)
(* work, the treasury lock, the cards, the sats, and the messages that     *)
(* were acknowledged.                                                      *)
(*                                                                         *)
(* The lemmas are about FundStep, in which any card may get a message at   *)
(* any time, so that GiftCardsProofs can use them.                         *)
(***************************************************************************)
EXTENDS FundCard, StreamQueueProofs

FundStep == Funding \/ Environment \/ \E c \in Cards : PublishMessage(c)

LEMMA NextIsFundStep == ASSUME [Next]_vars PROVE [FundStep]_vars
  BY DEF Next, FundStep, CardPaid

\* The values the control state and the lock take.
WorkTypeOK ==
  /\ pc \in [Workers -> Locations]
  /\ ok \in [Workers -> BOOLEAN]
  /\ lock \in Workers \cup {None}

\* Every entry of the stream is about a card.
StreamOK == stream \in Seq(Cards) /\ Len(stream) = published

CardTypeOK ==
  /\ status \in [Cards -> {"created", "funding", "active", "redeemed"}]
  /\ sats \in [Cards -> Int] /\ funds \in [Cards -> Nat]
  /\ owed \in [Cards -> Nat] /\ left \in [Cards -> Int]
  /\ want \in [Workers -> Int]

\* Who is not waiting has a message at hand.
Busy == \A w \in Workers : pc[w] # "idle" => batch[w] # {}

FlowInv == QueueInv /\ WorkTypeOK /\ StreamOK /\ CardTypeOK /\ Busy

\* Who is past AcquireTreasuryLock holds the lock.
LockInv == \A w \in Workers : pc[w] \in HoldingLock => lock = w

-----------------------------------------------------------------------------
(* The queue underneath, and who is at work.                               *)

LEMMA WorkStepType ==
  ASSUME WorkTypeOK, [FundStep]_vars
  PROVE  WorkTypeOK'
<1> USE FundAssumption DEF WorkTypeOK, Locations, HoldingLock, Goto, Returns
<1>1. ASSUME NEW w \in Workers, Read(w)  PROVE WorkTypeOK'
  BY <1>1 DEF Read, workVars
<1>2. ASSUME NEW w \in Workers, Price(w)  PROVE WorkTypeOK'
  BY <1>2 DEF Price, RefuseMessage, PriceUnavailable, DropMessage, FetchPrice, FailEarly
<1>3. ASSUME NEW w \in Workers, Load(w)  PROVE WorkTypeOK'
  BY <1>3 DEF Load, LoadFailed, SkipCard, LoadCard, FailEarly, workVars
<1>4. ASSUME NEW w \in Workers, Mark(w)  PROVE WorkTypeOK'
  BY <1>4 DEF Mark, MarkFunding, MarkFailed, FailEarly, workVars
<1>5. ASSUME NEW w \in Workers, Lock(w)  PROVE WorkTypeOK'
  BY <1>5 DEF Lock, AcquireTreasuryLock, TreasuryLockRefused, workVars
<1>6. ASSUME NEW w \in Workers, Compute(w)  PROVE WorkTypeOK'
  BY <1>6 DEF Compute, GetChannelBalance, GetWalletBalance, CheckAvailable, TreasuryRefused, workVars
<1>7. ASSUME NEW w \in Workers, Write(w)  PROVE WorkTypeOK'
  BY <1>7 DEF Write, ActivateCard, ActivateFailed, AttemptFailed
<1>8. ASSUME NEW w \in Workers, RevertCardToCreated(w) \/ ReleaseTreasuryLock(w)  PROVE WorkTypeOK'
  BY <1>8 DEF RevertCardToCreated, ReleaseTreasuryLock, workVars
<1>9. ASSUME NEW w \in Workers, FinishMessage(w) \/ Crash(w) \/ PricePanics(w)  PROVE WorkTypeOK'
  BY <1>9 DEF FinishMessage, Crash, PricePanics, Forget
<1>10. CASE Environment
  BY <1>10 DEF Environment, TreasuryLockExpires, OpenChannel, ChannelConfirmed, PayOut, DebitCard, workVars
<1>11. ASSUME NEW c \in Cards, PublishMessage(c)  PROVE WorkTypeOK'
  BY <1>11 DEF PublishMessage, workVars
<1>12. CASE UNCHANGED vars
  BY <1>12 DEF vars, workVars
<1> QED
  BY <1>1, <1>2, <1>3, <1>4, <1>5, <1>6, <1>7, <1>8, <1>9, <1>10, <1>11, <1>12
  DEF FundStep, Funding, Work

\* What the workers and the shop do to the queue is what StreamQueue does.
LEMMA NextIsQueueStep ==
  ASSUME WorkTypeOK, [FundStep]_vars
  PROVE  QueueStep \/ UNCHANGED queueVars
<1> USE DEF streamVars
<1>1. ASSUME NEW w \in Workers, Read(w)  PROVE QueueStep
  BY <1>1 DEF Read, QueueStep
<1>2. ASSUME NEW w \in Workers, Price(w)  PROVE UNCHANGED queueVars
  BY <1>2 DEF Price, RefuseMessage, PriceUnavailable, DropMessage, FetchPrice, FailEarly
<1>3. ASSUME NEW w \in Workers, Load(w)  PROVE UNCHANGED queueVars
  BY <1>3 DEF Load, LoadFailed, SkipCard, LoadCard, FailEarly
<1>4. ASSUME NEW w \in Workers, Mark(w)  PROVE UNCHANGED queueVars
  BY <1>4 DEF Mark, MarkFunding, MarkFailed, FailEarly
<1>5. ASSUME NEW w \in Workers, Lock(w)  PROVE UNCHANGED queueVars
  BY <1>5 DEF Lock, AcquireTreasuryLock, TreasuryLockRefused
<1>6. ASSUME NEW w \in Workers, Compute(w)  PROVE UNCHANGED queueVars
  BY <1>6 DEF Compute, GetChannelBalance, GetWalletBalance, CheckAvailable, TreasuryRefused
<1>7. ASSUME NEW w \in Workers, Write(w)  PROVE UNCHANGED queueVars
  BY <1>7 DEF Write, ActivateCard, ActivateFailed
<1>8. ASSUME NEW w \in Workers, RevertCardToCreated(w) \/ ReleaseTreasuryLock(w)  PROVE UNCHANGED queueVars
  BY <1>8 DEF RevertCardToCreated, ReleaseTreasuryLock
<1>9. ASSUME NEW w \in Workers, FinishMessage(w)  PROVE QueueStep
  <2>1. ok[w] \in BOOLEAN /\ Finish(w, ok[w])
    BY <1>9 DEF FinishMessage, WorkTypeOK
  <2> QED
    BY <2>1 DEF QueueStep
<1>10. ASSUME NEW w \in Workers, Crash(w) \/ PricePanics(w)  PROVE QueueStep
  BY <1>10 DEF Crash, PricePanics, Die, QueueStep
<1>11. CASE Environment
  BY <1>11 DEF Environment, TreasuryLockExpires, OpenChannel, ChannelConfirmed, PayOut, DebitCard
<1>12. ASSUME NEW c \in Cards, PublishMessage(c)  PROVE QueueStep
  BY <1>12 DEF PublishMessage, QueueStep
<1>13. CASE UNCHANGED vars
  BY <1>13 DEF vars
<1> QED
  BY <1>1, <1>2, <1>3, <1>4, <1>5, <1>6, <1>7, <1>8, <1>9, <1>10, <1>11, <1>12, <1>13
  DEF FundStep, Funding, Work

LEMMA StreamUntouched ==
  ASSUME Funding \/ Environment \/ UNCHANGED vars
  PROVE  UNCHANGED <<stream, published>>
<1>1. ASSUME NEW w \in Workers, Read(w) \/ Price(w) \/ Load(w) \/ Mark(w) \/ Lock(w)
      PROVE  UNCHANGED <<stream, published>>
  BY <1>1 DEF Read, ReadGroup, Reclaim, Deliver, Price, RefuseMessage, PriceUnavailable, DropMessage,
    FetchPrice, FailEarly, Load, LoadFailed, SkipCard, LoadCard, Mark, MarkFunding, MarkFailed, Lock,
    AcquireTreasuryLock, TreasuryLockRefused, streamVars, queueVars
<1>2. ASSUME NEW w \in Workers, Compute(w) \/ Write(w) \/ RevertCardToCreated(w) \/ ReleaseTreasuryLock(w)
      PROVE  UNCHANGED <<stream, published>>
  BY <1>2 DEF Compute, GetChannelBalance, GetWalletBalance, CheckAvailable, TreasuryRefused, Write,
    ActivateCard, ActivateFailed, RevertCardToCreated, ReleaseTreasuryLock, streamVars, queueVars
<1>3. ASSUME NEW w \in Workers, FinishMessage(w) \/ Crash(w) \/ PricePanics(w)
      PROVE  UNCHANGED <<stream, published>>
  BY <1>3 DEF FinishMessage, Finish, Crash, Die, PricePanics, Abandon
<1>4. CASE Environment
  BY <1>4 DEF Environment, TreasuryLockExpires, OpenChannel, ChannelConfirmed, PayOut, DebitCard,
    streamVars, queueVars
<1>5. CASE UNCHANGED vars
  BY <1>5 DEF vars, streamVars, queueVars
<1> QED
  BY <1>1, <1>2, <1>3, <1>4, <1>5 DEF Funding, Work

LEMMA StreamStep ==
  ASSUME QueueTypeOK, StreamOK, [FundStep]_vars
  PROVE  /\ StreamOK'
         /\ published' >= published /\ \A m \in 1..published : stream'[m] = stream[m]
<1>0. published \in Nat
  BY QueueAssumption DEF QueueTypeOK
<1>1. CASE UNCHANGED <<stream, published>>
  BY <1>0, <1>1 DEF StreamOK
<1>2. ASSUME NEW c \in Cards, PublishMessage(c)
      PROVE  /\ StreamOK'
             /\ published' >= published /\ \A m \in 1..published : stream'[m] = stream[m]
  BY <1>0, <1>2 DEF PublishMessage, Publish, StreamOK
<1> QED
  BY <1>1, <1>2, StreamUntouched DEF FundStep

LEMMA CardAtHand ==
  ASSUME QueueInv, StreamOK, NEW w \in Workers, batch[w] # {}
  PROVE  Oldest(w) \in batch[w] /\ Oldest(w) \in 1..published /\ CardOf(w) \in Cards
<1>1. Oldest(w) \in batch[w]
  BY OldestInBatch DEF QueueInv
<1>2. Oldest(w) \in 1..published
  BY <1>1 DEF QueueInv, QueueTypeOK, InOrder, Msgs
<1> QED
  BY <1>1, <1>2 DEF StreamOK, CardOf

\* A step of one worker.
WorkerStep(w) == Read(w) \/ Work(w) \/ Crash(w) \/ PricePanics(w)

LEMMA OthersUntouched ==
  ASSUME QueueTypeOK, WorkTypeOK, CardTypeOK, NEW w \in Workers, WorkerStep(w), NEW v \in Workers, v # w
  PROVE  pc'[v] = pc[v] /\ batch'[v] = batch[v] /\ want'[v] = want[v] /\ ok'[v] = ok[v]
<1> DEFINE Same == pc'[v] = pc[v] /\ batch'[v] = batch[v] /\ want'[v] = want[v] /\ ok'[v] = ok[v]
<1> USE DEF QueueTypeOK, WorkTypeOK, CardTypeOK, Goto, Returns, workVars, streamVars, queueVars
<1>1. CASE Read(w)
  BY <1>1 DEF Read, ReadGroup, Reclaim, Deliver
<1>2. CASE Price(w)
  BY <1>2 DEF Price, RefuseMessage, PriceUnavailable, DropMessage, FetchPrice, FailEarly
<1>3. CASE Load(w) \/ Mark(w)
  BY <1>3 DEF Load, LoadFailed, SkipCard, LoadCard, FailEarly, Mark, MarkFunding, MarkFailed
<1>4. CASE Lock(w) \/ Compute(w)
  BY <1>4 DEF Lock, AcquireTreasuryLock, TreasuryLockRefused, Compute, GetChannelBalance,
    GetWalletBalance, CheckAvailable, TreasuryRefused
<1>5. CASE Write(w)
  BY <1>5 DEF Write, ActivateCard, ActivateFailed, AttemptFailed
<1>6. CASE RevertCardToCreated(w) \/ ReleaseTreasuryLock(w)
  BY <1>6 DEF RevertCardToCreated, ReleaseTreasuryLock
<1>7. CASE FinishMessage(w)
  BY <1>7 DEF FinishMessage, Finish, Forget
<1>8. CASE Crash(w) \/ PricePanics(w)
  BY <1>8 DEF Crash, Die, PricePanics, Abandon, Forget
<1> QED
  BY <1>1, <1>2, <1>3, <1>4, <1>5, <1>6, <1>7, <1>8 DEF WorkerStep, Work

LEMMA NobodyWorks ==
  ASSUME Environment \/ (\E c \in Cards : PublishMessage(c)) \/ UNCHANGED vars
  PROVE  UNCHANGED <<pc, batch, want, ok, handled, pending>>
<1>1. CASE Environment
  BY <1>1 DEF Environment, TreasuryLockExpires, OpenChannel, ChannelConfirmed, PayOut, DebitCard,
    streamVars, queueVars, workVars
<1>2. ASSUME NEW c \in Cards, PublishMessage(c)  PROVE UNCHANGED <<pc, batch, want, ok, handled, pending>>
  BY <1>2 DEF PublishMessage, Publish, workVars
<1>3. CASE UNCHANGED vars
  BY <1>3 DEF vars, streamVars, queueVars, workVars
<1> QED
  BY <1>1, <1>2, <1>3

LEMMA WhoSteps ==
  ASSUME [FundStep]_vars
  PROVE  \/ \E w \in Workers : WorkerStep(w)
         \/ Environment \/ (\E c \in Cards : PublishMessage(c)) \/ UNCHANGED vars
  BY DEF FundStep, Funding, WorkerStep

\* Where a worker can be after a step of its own: at the message it had, or
\* at the start of the next.
LEMMA WhereNext ==
  ASSUME QueueTypeOK, WorkTypeOK, NEW w \in Workers, WorkerStep(w)
  PROVE  \/ batch'[w] = {} /\ pc'[w] = "idle"
         \/ batch'[w] # {} /\ pc'[w] = "price" /\ pc[w] \in {"idle", "finish"}
         \/ UNCHANGED batch /\ pc[w] # "idle" /\ pc'[w] # "idle" /\ pc'[w] # "price"
<1> DEFINE Goal == \/ batch'[w] = {} /\ pc'[w] = "idle"
                   \/ batch'[w] # {} /\ pc'[w] = "price" /\ pc[w] \in {"idle", "finish"}
                   \/ UNCHANGED batch /\ pc[w] # "idle" /\ pc'[w] # "idle" /\ pc'[w] # "price"
<1> USE DEF QueueTypeOK, WorkTypeOK, Goto, streamVars, queueVars
<1>1. CASE Read(w) \/ FinishMessage(w)
  BY <1>1 DEF Read, FinishMessage
<1>2. CASE Price(w)
  BY <1>2 DEF Price, RefuseMessage, PriceUnavailable, DropMessage, FetchPrice, FailEarly
<1>3. CASE Load(w) \/ Mark(w)
  BY <1>3 DEF Load, LoadFailed, SkipCard, LoadCard, FailEarly, Mark, MarkFunding, MarkFailed
<1>4. CASE Lock(w) \/ Compute(w)
  BY <1>4 DEF Lock, AcquireTreasuryLock, TreasuryLockRefused, Compute, GetChannelBalance,
    GetWalletBalance, CheckAvailable, TreasuryRefused
<1>5. CASE Write(w)
  BY <1>5 DEF Write, ActivateCard, ActivateFailed, AttemptFailed
<1>6. CASE RevertCardToCreated(w) \/ ReleaseTreasuryLock(w)
  BY <1>6 DEF RevertCardToCreated, ReleaseTreasuryLock
<1>7. CASE Crash(w) \/ PricePanics(w)
  <2>1. Abandon(w) /\ Goto(w, "idle")
    BY <1>7 DEF Crash, Die, PricePanics
  <2> QED
    BY <2>1 DEF Abandon
<1> QED
  BY <1>1, <1>2, <1>3, <1>4, <1>5, <1>6, <1>7 DEF WorkerStep, Work

LEMMA BusyStep ==
  ASSUME QueueTypeOK, WorkTypeOK, CardTypeOK, Busy, [FundStep]_vars
  PROVE  Busy'
<1>1. ASSUME NEW w \in Workers, WorkerStep(w)  PROVE Busy'
  BY <1>1, OthersUntouched, WhereNext DEF Busy
<1>2. CASE Environment \/ (\E c \in Cards : PublishMessage(c)) \/ UNCHANGED vars
  BY <1>2, NobodyWorks DEF Busy
<1> QED
  BY <1>1, <1>2, WhoSteps

\* What is worth something is an integral number of sats.
LEMMA SatsAreInt ==
  ASSUME NEW c \in Cards, NEW q \in Quotes
  PROVE  Sats(c, q) \in Int
<1>1. PICK reply \in Reply : q = GetPrice(Provider, reply)
  BY FundAssumption DEF Quotes
<1>2. q \in Quote
  BY <1>1 DEF GetPrice, FirstPrice, LookedUpPrice, ParsedPrice, Validated, Failed, Panicked,
    NotANumber, Quoted, Quote, Reply
<1>3. q.kind = "price" => q.price \in Nat \ {0}
  BY <1>2 DEF Quote, Failed, Panicked, NotANumber, Quoted
<1> QED
  BY <1>3, FundAssumption DEF Sats

LEMMA CardTypeStep ==
  ASSUME QueueInv, StreamOK, Busy, CardTypeOK, WorkTypeOK, [FundStep]_vars
  PROVE  CardTypeOK'
<1>a. \A w \in Workers : pc[w] # "idle" => CardOf(w) \in Cards
  BY CardAtHand DEF Busy
<1>u. ASSUME NEW c \in Cards, NEW st \in {"created", "funding", "active", "redeemed"}, NEW amount \in Int,
             UpdateCard(c, st, amount)
      PROVE  /\ status' \in [Cards -> {"created", "funding", "active", "redeemed"}]
             /\ sats' \in [Cards -> Int]
  BY <1>u DEF UpdateCard, CardTypeOK
<1> USE DEF CardTypeOK, cardVars, lndVars, workVars
<1>1. ASSUME NEW w \in Workers, Read(w)  PROVE CardTypeOK'
  BY <1>1 DEF Read
<1>2. ASSUME NEW w \in Workers, Price(w)  PROVE CardTypeOK'
  <2>1. pc[w] = "price" /\ UNCHANGED <<cardVars, lndVars>>
    BY <1>2 DEF Price, RefuseMessage, PriceUnavailable, DropMessage, FetchPrice, FailEarly
  <2>2. want' \in [Workers -> Int]
    <3>1. CardOf(w) \in Cards
      BY <1>a, <2>1
    <3> QED
      BY <1>2, <3>1, SatsAreInt DEF Price, RefuseMessage, PriceUnavailable, DropMessage, FetchPrice, FailEarly
  <2> QED
    BY <2>1, <2>2
<1>3. ASSUME NEW w \in Workers, Load(w)  PROVE CardTypeOK'
  BY <1>3 DEF Load, LoadFailed, SkipCard, LoadCard, FailEarly
<1>4. ASSUME NEW w \in Workers, Mark(w)  PROVE CardTypeOK'
  <2>1. pc[w] = "mark" /\ UNCHANGED <<funds, lndVars, want>>
        /\ (UNCHANGED <<status, sats>> \/ UpdateCard(CardOf(w), "funding", sats[CardOf(w)]))
    BY <1>4 DEF Mark, MarkFunding, MarkFailed, FailEarly
  <2>2. CardOf(w) \in Cards
    BY <1>a, <2>1
  <2> QED
    BY <1>u, <2>1, <2>2
<1>5. ASSUME NEW w \in Workers, Lock(w) \/ Compute(w) \/ ReleaseTreasuryLock(w)  PROVE CardTypeOK'
  BY <1>5 DEF Lock, AcquireTreasuryLock, TreasuryLockRefused, Compute, GetChannelBalance,
    GetWalletBalance, CheckAvailable, TreasuryRefused, ReleaseTreasuryLock
<1>6. ASSUME NEW w \in Workers, Write(w)  PROVE CardTypeOK'
  <2>1. pc[w] = "activate" /\ UNCHANGED <<lndVars, want>>
        /\ (UNCHANGED cardVars \/ Activate(w))
    BY <1>6 DEF Write, ActivateCard, ActivateFailed
  <2>2. CardOf(w) \in Cards /\ want[w] \in Int
    BY <1>a, <2>1
  <2>3. CASE Activate(w)
    <3>1. UpdateCard(CardOf(w), "active", want[w]) /\ funds' = [funds EXCEPT ![CardOf(w)] = @ + 1]
      BY <2>3 DEF Activate
    <3> QED
      BY <1>u, <2>1, <2>2, <3>1
  <2> QED
    BY <2>1, <2>3
<1>7. ASSUME NEW w \in Workers, RevertCardToCreated(w)  PROVE CardTypeOK'
  <2>1. pc[w] # "idle" /\ UNCHANGED <<funds, lndVars, want>>
        /\ (UNCHANGED <<status, sats>> \/ UpdateCard(CardOf(w), "created", sats[CardOf(w)]))
    BY <1>7 DEF RevertCardToCreated
  <2>2. CardOf(w) \in Cards
    BY <1>a, <2>1
  <2> QED
    BY <1>u, <2>1, <2>2
<1>8. ASSUME NEW w \in Workers, FinishMessage(w) \/ Crash(w) \/ PricePanics(w)  PROVE CardTypeOK'
  BY <1>8 DEF FinishMessage, Crash, PricePanics, Forget
<1>9. CASE TreasuryLockExpires \/ OpenChannel \/ ChannelConfirmed
  BY <1>9 DEF TreasuryLockExpires, OpenChannel, ChannelConfirmed
<1>10. ASSUME NEW c \in Cards, PayOut(c)  PROVE CardTypeOK'
  BY <1>10 DEF PayOut
<1>11. ASSUME NEW c \in Cards, DebitCard(c)  PROVE CardTypeOK'
  BY <1>u, <1>11 DEF DebitCard
<1>12. ASSUME NEW c \in Cards, PublishMessage(c)  PROVE CardTypeOK'
  BY <1>12 DEF PublishMessage
<1>13. CASE UNCHANGED vars
  BY <1>13 DEF vars
<1> QED
  BY <1>1, <1>2, <1>3, <1>4, <1>5, <1>6, <1>7, <1>8, <1>9, <1>10, <1>11, <1>12, <1>13
  DEF FundStep, Funding, Work, Environment

LEMMA InitFlow == ASSUME Init PROVE FlowInv /\ LockInv /\ HandledByOne
<1>1. WorkTypeOK
  BY DEF Init, WorkTypeOK, Locations
<1>2. LockInv
  BY DEF Init, LockInv, HoldingLock
<1>3. StreamOK /\ CardTypeOK /\ Busy
  BY DEF Init, QueueInit, StreamOK, CardTypeOK, Busy
<1> QED
  BY <1>1, <1>2, <1>3, QueueInitInv DEF Init, FlowInv

LEMMA FlowStep == ASSUME FlowInv, [FundStep]_vars PROVE FlowInv'
<1>1. QueueInv' /\ WorkTypeOK'
  BY WorkStepType, NextIsQueueStep, QueueStepInv, QueueStutters DEF FlowInv
<1>2. StreamOK' /\ Busy' /\ CardTypeOK'
  BY StreamStep, BusyStep, CardTypeStep DEF FlowInv, QueueInv
<1> QED
  BY <1>1, <1>2 DEF FlowInv

LEMMA OneHandlerStep ==
  ASSUME FlowInv, HandledByOne, [FundStep]_vars, Prompt
  PROVE  HandledByOne'
  BY NextIsQueueStep, QueueStepOneHandler, QueueStutters DEF FlowInv

-----------------------------------------------------------------------------
(* The treasury lock.                                                      *)

LEMMA LockStep ==
  ASSUME WorkTypeOK, LockInv, [FundStep]_vars, "lapse" \notin Env
  PROVE  LockInv'
<1> USE FundAssumption DEF WorkTypeOK, LockInv, Locations, HoldingLock, Goto, Returns
<1>1. ASSUME NEW w \in Workers, Read(w)  PROVE LockInv'
  BY <1>1 DEF Read
<1>2. ASSUME NEW w \in Workers, Price(w)  PROVE LockInv'
  BY <1>2 DEF Price, RefuseMessage, PriceUnavailable, DropMessage, FetchPrice, FailEarly
<1>3. ASSUME NEW w \in Workers, Load(w)  PROVE LockInv'
  BY <1>3 DEF Load, LoadFailed, SkipCard, LoadCard, FailEarly
<1>4. ASSUME NEW w \in Workers, Mark(w)  PROVE LockInv'
  BY <1>4 DEF Mark, MarkFunding, MarkFailed, FailEarly
<1>5. ASSUME NEW w \in Workers, Lock(w)  PROVE LockInv'
  BY <1>5 DEF Lock, AcquireTreasuryLock, TreasuryLockRefused
<1>6. ASSUME NEW w \in Workers, Compute(w)  PROVE LockInv'
  BY <1>6 DEF Compute, GetChannelBalance, GetWalletBalance, CheckAvailable, TreasuryRefused
<1>7. ASSUME NEW w \in Workers, Write(w)  PROVE LockInv'
  BY <1>7 DEF Write, ActivateCard, ActivateFailed, AttemptFailed
<1>8. ASSUME NEW w \in Workers, RevertCardToCreated(w) \/ ReleaseTreasuryLock(w)  PROVE LockInv'
  BY <1>8 DEF RevertCardToCreated, ReleaseTreasuryLock
<1>9. ASSUME NEW w \in Workers, FinishMessage(w) \/ Crash(w) \/ PricePanics(w)  PROVE LockInv'
  BY <1>9 DEF FinishMessage, Crash, PricePanics
<1>10. CASE Environment
  BY <1>10 DEF Environment, TreasuryLockExpires, OpenChannel, ChannelConfirmed, PayOut, DebitCard
<1>11. ASSUME NEW c \in Cards, PublishMessage(c)  PROVE LockInv'
  BY <1>11 DEF PublishMessage
<1>12. CASE UNCHANGED vars
  BY <1>12 DEF vars
<1> QED
  BY <1>1, <1>2, <1>3, <1>4, <1>5, <1>6, <1>7, <1>8, <1>9, <1>10, <1>11, <1>12
  DEF FundStep, Funding, Work

(* As long as the key outlives the reservation it protects, at most one    *)
(* worker is between the check of the treasury and the reservation, though *)
(* the release deletes the key whoever holds it (Service.FundCard).        *)
THEOREM OneReserverAtATime == "lapse" \notin Env => (Spec => []OneReserver)
<1> SUFFICES ASSUME "lapse" \notin Env PROVE Spec => []OneReserver
  OBVIOUS
<1>1. Init => WorkTypeOK /\ LockInv
  BY InitFlow DEF FlowInv
<1>2. WorkTypeOK /\ LockInv /\ [Next]_vars => WorkTypeOK' /\ LockInv'
  BY WorkStepType, LockStep, NextIsFundStep
<1>3. LockInv => OneReserver
  BY DEF LockInv, OneReserver
<1> QED
  BY <1>1, <1>2, <1>3, PTL DEF Spec

-----------------------------------------------------------------------------
(* The cards and who works on them.                                        *)

\* No two workers are at the same card.
Apart ==
  \A v, w \in Workers : v # w /\ batch[v] # {} /\ batch[w] # {} => CardOf(v) # CardOf(w)

\* Each card has at most one entry in the stream.
OneEach == \A c \in Cards : \A m, n \in Messages(c) : m = n

LEMMA OneIsApart == ASSUME SingleWorker PROVE Apart
  BY DEF SingleWorker, Apart

LEMMA CardsApart == ASSUME FlowInv, OneEach, HandledByOne PROVE Apart
<1> SUFFICES ASSUME NEW v \in Workers, NEW w \in Workers, v # w, batch[v] # {}, batch[w] # {},
                    CardOf(v) = CardOf(w)
             PROVE  FALSE
  BY DEF Apart
<1>1. /\ Oldest(v) \in batch[v] /\ Oldest(v) \in 1..published /\ CardOf(v) \in Cards
      /\ Oldest(w) \in batch[w] /\ Oldest(w) \in 1..published
  BY CardAtHand DEF FlowInv
<1>2. Oldest(v) \in Messages(CardOf(v)) /\ Oldest(w) \in Messages(CardOf(v))
  BY <1>1 DEF Messages, CardOf, FlowInv, StreamOK
<1>3. Oldest(v) # Oldest(w)
  BY <1>1 DEF HandledByOne
<1> QED
  BY <1>1, <1>2, <1>3 DEF OneEach

\* A worker that goes on with its message is still at the same card.
LEMMA SameCard ==
  ASSUME FlowInv, [FundStep]_vars, NEW w \in Workers, batch[w] # {}, batch'[w] = batch[w]
  PROVE  Oldest(w)' = Oldest(w) /\ CardOf(w)' = CardOf(w) /\ CardOf(w) \in Cards
<1>1. Oldest(w) \in 1..published /\ CardOf(w) \in Cards
  BY CardAtHand DEF FlowInv
<1>2. Oldest(w)' = Oldest(w)
  BY DEF Oldest
<1>3. stream'[Oldest(w)] = stream[Oldest(w)]
  BY <1>1, StreamStep DEF FlowInv, QueueInv
<1> QED
  BY <1>1, <1>2, <1>3 DEF CardOf

Blank(c) == status[c] \in {"created", "funding"}

\* A card that was not activated holds nothing, and one that was has one
\* fund transaction and, between a payment and its debit, enough for it.
Books(c) ==
  /\ Blank(c) => sats[c] = 0 /\ funds[c] = 0
  /\ funds[c] <= 1
  /\ owed[c] > 0 => status[c] = "active" /\ owed[c] <= sats[c] /\ left[c] = sats[c] - owed[c]

Unfunded == {"mark", "lock", "undo", "channel", "wallet", "reserved", "activate", "revert"}

\* Until it has activated its card, a worker works on a blank one.
CardsInv ==
  /\ \A c \in Cards : Books(c)
  /\ \A w \in Workers : pc[w] \in Unfunded => Blank(CardOf(w))

LEMMA InitCards == ASSUME Init PROVE CardsInv
  BY DEF Init, CardsInv, Books, Blank, Unfunded

\* The two UPDATEs that set the status of a card and nothing else, and the
\* transaction that activates it.
Resets(w) ==
  /\ pc[w] \in {"mark", "undo", "revert"}
  /\ \/ UpdateCard(CardOf(w), "funding", sats[CardOf(w)]) /\ Goto(w, "lock")
     \/ /\ UpdateCard(CardOf(w), "created", sats[CardOf(w)]) /\ Returns(w, FALSE)
        /\ Goto(w, "finish") \/ Goto(w, "release")
  /\ UNCHANGED <<streamVars, funds, lndVars, want, seen>>

Funds(w) ==
  /\ pc[w] = "activate"
  /\ Activate(w) /\ Returns(w, TRUE) /\ Goto(w, "release")
  /\ UNCHANGED <<streamVars, lndVars, want, seen>>

\* What happens to the cards in a step, and to which.
LEMMA WhoChangesCards ==
  ASSUME [FundStep]_vars, "lost" \notin Env
  PROVE  \/ UNCHANGED <<cardVars, owed, left>>
         \/ \E w \in Workers : Resets(w) \/ Funds(w)
         \/ \E c \in Cards : PayOut(c) \/ DebitCard(c)
<1> DEFINE Goal == \/ UNCHANGED <<cardVars, owed, left>>
                   \/ \E w \in Workers : Resets(w) \/ Funds(w)
                   \/ \E c \in Cards : PayOut(c) \/ DebitCard(c)
<1>1. ASSUME NEW w \in Workers, Mark(w)  PROVE Goal
  <2>1. CASE MarkFunding(w)
    BY <2>1 DEF MarkFunding, Resets, workVars
  <2>2. CASE MarkFailed(w)
    BY <2>2 DEF MarkFailed, FailEarly, lndVars
  <2> QED
    BY <1>1, <2>1, <2>2 DEF Mark
<1>2. ASSUME NEW w \in Workers, Write(w)  PROVE Goal
  BY <1>2 DEF Write, ActivateCard, ActivateFailed, Funds, lndVars
<1>3. ASSUME NEW w \in Workers, RevertCardToCreated(w)  PROVE Goal
  <2>1. CASE UNCHANGED <<cardVars, lndVars>>
    BY <2>1 DEF lndVars
  <2>2. CASE UpdateCard(CardOf(w), "created", sats[CardOf(w)]) /\ UNCHANGED funds
    BY <1>3, <2>2 DEF RevertCardToCreated, Resets
  <2> QED
    BY <1>3, <2>1, <2>2 DEF RevertCardToCreated
<1>4. ASSUME NEW w \in Workers,
             Read(w) \/ Price(w) \/ Load(w) \/ Lock(w) \/ Compute(w) \/ ReleaseTreasuryLock(w)
      PROVE Goal
  BY <1>4 DEF Read, Price, RefuseMessage, PriceUnavailable, DropMessage, FetchPrice, FailEarly,
    Load, LoadFailed, SkipCard, LoadCard, Lock, AcquireTreasuryLock, TreasuryLockRefused, Compute,
    GetChannelBalance, GetWalletBalance, CheckAvailable, TreasuryRefused, ReleaseTreasuryLock, lndVars
<1>5. ASSUME NEW w \in Workers, FinishMessage(w) \/ Crash(w) \/ PricePanics(w)  PROVE Goal
  BY <1>5 DEF FinishMessage, Crash, PricePanics, lndVars
<1>6. CASE Environment
  BY <1>6 DEF Environment, TreasuryLockExpires, OpenChannel, ChannelConfirmed, lndVars
<1>7. ASSUME NEW c \in Cards, PublishMessage(c)  PROVE Goal
  BY <1>7 DEF PublishMessage, lndVars
<1>8. CASE UNCHANGED vars
  BY <1>8 DEF vars, lndVars
<1> QED
  BY <1>1, <1>2, <1>3, <1>4, <1>5, <1>6, <1>7, <1>8 DEF FundStep, Funding, Work

\* Only LoadCard brings a worker to a card, a created one, to fund it.
LEMMA WhoIsAtWork ==
  ASSUME FlowInv, [FundStep]_vars, NEW w \in Workers, pc'[w] \in Unfunded
  PROVE  /\ batch[w] # {} /\ CardOf(w)' = CardOf(w) /\ CardOf(w) \in Cards
         /\ \/ pc[w] \in Unfunded
            \/ status[CardOf(w)] = "created" /\ UNCHANGED <<cardVars, owed, left>>
<1>1. pc[w] # "idle" /\ batch'[w] = batch[w]
  BY WhoSteps, OthersUntouched, NobodyWorks, WhereNext DEF Unfunded, FlowInv, QueueInv
<1>2. batch[w] # {} /\ CardOf(w)' = CardOf(w) /\ CardOf(w) \in Cards
  BY <1>1, SameCard DEF FlowInv, Busy
<1> DEFINE Goal == \/ pc[w] \in Unfunded
                   \/ status[CardOf(w)] = "created" /\ UNCHANGED <<cardVars, owed, left>>
<1>3. ASSUME NEW v \in Workers, WorkerStep(v)  PROVE Goal
  <2>1. CASE v # w
    BY <1>3, <2>1, OthersUntouched DEF FlowInv, QueueInv
  <2>2. CASE v = w
    <3> USE DEF FlowInv, WorkTypeOK, Goto, Unfunded, workVars
    <3>1. CASE Read(w) \/ Price(w)
      BY <3>1 DEF Read, Price, RefuseMessage, PriceUnavailable, DropMessage, FetchPrice, FailEarly
    <3>2. CASE Load(w)
      BY <3>2 DEF Load, LoadFailed, SkipCard, LoadCard, FailEarly, lndVars
    <3>3. CASE Mark(w) \/ Lock(w) \/ Compute(w)
      BY <3>3 DEF Mark, MarkFunding, MarkFailed, Lock, AcquireTreasuryLock, TreasuryLockRefused,
        Compute, GetChannelBalance, GetWalletBalance, CheckAvailable, TreasuryRefused
    <3>4. CASE Write(w) \/ RevertCardToCreated(w) \/ ReleaseTreasuryLock(w)
      BY <3>4 DEF Write, ActivateCard, ActivateFailed, RevertCardToCreated, ReleaseTreasuryLock
    <3>5. CASE FinishMessage(w) \/ Crash(w) \/ PricePanics(w)
      BY <3>5 DEF FinishMessage, Crash, PricePanics
    <3> QED
      BY <1>3, <2>2, <3>1, <3>2, <3>3, <3>4, <3>5 DEF WorkerStep, Work
  <2> QED
    BY <2>1, <2>2
<1>4. ASSUME Environment \/ (\E c \in Cards : PublishMessage(c)) \/ UNCHANGED vars
      PROVE  Goal
  BY <1>4, NobodyWorks
<1> QED
  BY <1>2, <1>3, <1>4, WhoSteps

LEMMA CardsStep ==
  ASSUME FlowInv, Apart, CardsInv, [FundStep]_vars, "lost" \notin Env
  PROVE  CardsInv'
<1>a. CardTypeOK /\ WorkTypeOK /\ WorkTypeOK' /\ \A c \in Cards : Books(c)
  BY FlowStep DEF FlowInv, CardsInv
\* Who will be at work on a card is at a blank one.
<1>b. ASSUME NEW w \in Workers, pc'[w] \in Unfunded
      PROVE  /\ batch[w] # {} /\ CardOf(w)' = CardOf(w) /\ CardOf(w) \in Cards /\ Blank(CardOf(w))
             /\ pc[w] \in Unfunded \/ UNCHANGED <<cardVars, owed, left>>
  BY <1>b, WhoIsAtWork DEF CardsInv, Blank
<1>c. ASSUME \A c \in Cards : Books(c)', \A w \in Workers : pc'[w] \in Unfunded => status'[CardOf(w)] \in {"created", "funding"}
      PROVE  CardsInv'
  BY <1>b, <1>c DEF CardsInv, Blank
<1>1. CASE UNCHANGED <<cardVars, owed, left>>
  BY <1>a, <1>b, <1>c, <1>1 DEF cardVars, Books, Blank
<1>2. ASSUME NEW w \in Workers, Resets(w)  PROVE CardsInv'
  <2>1. PICK c \in Cards : c = CardOf(w) /\ Blank(c) /\ sats[c] = 0
    <3>1. CardOf(w) \in Cards /\ Blank(CardOf(w))
      BY <1>2, CardAtHand DEF FlowInv, Busy, CardsInv, Resets, Unfunded
    <3> QED
      BY <1>a, <3>1 DEF Books
  <2>2. /\ \E st \in {"created", "funding"} : status' = [status EXCEPT ![c] = st]
        /\ sats' = [sats EXCEPT ![c] = sats[c]] /\ UNCHANGED <<funds, owed, left>>
    BY <1>2, <2>1 DEF Resets, UpdateCard, lndVars
  <2>3. \A d \in Cards : Books(d)'
    BY <1>a, <2>1, <2>2 DEF Books, Blank, CardTypeOK
  <2>4. \A v \in Workers : pc'[v] \in Unfunded => status'[CardOf(v)] \in {"created", "funding"}
    BY <1>a, <1>b, <2>2 DEF Blank, CardTypeOK
  <2> QED
    BY <1>c, <2>3, <2>4
<1>3. ASSUME NEW w \in Workers, Funds(w)  PROVE CardsInv'
  <2>1. PICK c \in Cards : c = CardOf(w) /\ Blank(c) /\ funds[c] = 0 /\ batch[w] # {}
    <3>1. CardOf(w) \in Cards /\ Blank(CardOf(w)) /\ batch[w] # {}
      BY <1>3, CardAtHand DEF FlowInv, Busy, CardsInv, Funds, Unfunded
    <3> QED
      BY <1>a, <3>1 DEF Books
  <2>2. /\ status' = [status EXCEPT ![c] = "active"] /\ sats' = [sats EXCEPT ![c] = want[w]]
        /\ funds' = [funds EXCEPT ![c] = @ + 1] /\ UNCHANGED <<owed, left>>
    BY <1>3, <2>1 DEF Funds, Activate, UpdateCard, lndVars
  <2>3. ASSUME NEW d \in Cards  PROVE Books(d)'
    <3>1. CASE d = c
      <4>1. owed[c] = 0
        BY <1>a, <2>1 DEF Books, Blank, CardTypeOK
      <4> QED
        BY <1>a, <2>1, <2>2, <3>1, <4>1 DEF Books, Blank, CardTypeOK
    <3>2. CASE d # c
      BY <1>a, <2>2, <3>2 DEF Books, Blank, CardTypeOK
    <3> QED
      BY <3>1, <3>2
  <2>4. ASSUME NEW v \in Workers, pc'[v] \in Unfunded
        PROVE  status'[CardOf(v)] \in {"created", "funding"}
    <3>1. v # w
      BY <1>a, <1>3, <2>4 DEF Funds, Goto, WorkTypeOK, Unfunded
    <3>2. CardOf(v) # c
      BY <1>b, <2>1, <2>4, <3>1 DEF Apart
    <3> QED
      BY <1>a, <1>b, <2>2, <2>4, <3>2 DEF Blank, CardTypeOK
  <2> QED
    BY <1>c, <2>3, <2>4
<1>4. ASSUME NEW c \in Cards, PayOut(c)  PROVE CardsInv'
  <2>1. PICK a \in 1..sats[c] : owed' = [owed EXCEPT ![c] = a] /\ left' = [left EXCEPT ![c] = sats[c] - a]
    BY <1>4 DEF PayOut
  <2>2. UNCHANGED cardVars /\ status[c] = "active"
    BY <1>4 DEF PayOut
  <2>3. \A d \in Cards : Books(d)'
    BY <1>a, <2>1, <2>2 DEF Books, Blank, cardVars, CardTypeOK
  <2> QED
    BY <1>b, <1>c, <2>2, <2>3 DEF cardVars, Blank
<1>5. ASSUME NEW c \in Cards, DebitCard(c)  PROVE CardsInv'
  <2>1. /\ UNCHANGED <<funds, left>> /\ owed[c] > 0 /\ status[c] = "active"
        /\ owed' = [owed EXCEPT ![c] = 0] /\ sats' = [sats EXCEPT ![c] = left[c]]
        /\ \E to \in {"redeemed", "active"} : status' = [status EXCEPT ![c] = to]
    BY <1>a, <1>5 DEF DebitCard, UpdateCard, Books
  <2>2. \A d \in Cards : Books(d)'
    BY <1>a, <2>1 DEF Books, Blank, CardTypeOK
  <2>3. \A v \in Workers : pc'[v] \in Unfunded => status'[CardOf(v)] \in {"created", "funding"}
    BY <1>a, <1>b, <2>1 DEF Blank, CardTypeOK
  <2> QED
    BY <1>c, <2>2, <2>3
<1> QED
  BY <1>1, <1>2, <1>3, <1>4, <1>5, WhoChangesCards

ActiveKept ==
  \A c \in Cards :
    status[c] = "active" =>
      /\ status'[c] \in {"active", "redeemed"}
      /\ sats'[c] = sats[c] \/ sats'[c] = sats[c] - owed[c]

LEMMA ActiveKeptStep ==
  ASSUME FlowInv, CardsInv, [FundStep]_vars, "lost" \notin Env
  PROVE  ActiveKept
<1>a. CardTypeOK /\ \A c \in Cards : Books(c)
  BY DEF CardsInv, FlowInv
<1>1. CASE UNCHANGED <<cardVars, owed, left>>
  BY <1>1 DEF cardVars, ActiveKept
<1>2. ASSUME NEW w \in Workers, pc[w] \in Unfunded, NEW st, NEW amount, UpdateCard(CardOf(w), st, amount)
      PROVE ActiveKept
  <2>1. status[CardOf(w)] # "active"
    BY <1>2 DEF CardsInv, Blank
  <2> QED
    BY <1>a, <1>2, <2>1 DEF UpdateCard, ActiveKept, CardTypeOK
<1>3. ASSUME NEW c \in Cards, DebitCard(c)  PROVE ActiveKept
  <2>1. left[c] = sats[c] - owed[c]
    BY <1>a, <1>3 DEF DebitCard, Books
  <2> QED
    BY <1>a, <1>3, <2>1 DEF DebitCard, UpdateCard, ActiveKept, CardTypeOK
<1>4. ASSUME NEW c \in Cards, PayOut(c)  PROVE ActiveKept
  BY <1>4 DEF PayOut, cardVars, ActiveKept
<1> QED
  BY <1>1, <1>2, <1>3, <1>4, WhoChangesCards DEF Resets, Funds, Activate, Unfunded

-----------------------------------------------------------------------------
(* Who gets in whose way, when FundCard runs on its own.                   *)

OneMessageEach == \A c \in Cards : MaxCopies[c] <= 1

\* Nobody gets in anybody's way at a card: there is a single worker, or each
\* card has one message, and no batch is slower than MinIdle.
Undisturbed == SingleWorker \/ (OneMessageEach /\ "slow" \notin Env)

ApartInv == SingleWorker \/ (OneEach /\ HandledByOne)

LEMMA OneEachStep ==
  ASSUME FlowInv, OneEach, OneMessageEach, [Next]_vars
  PROVE  OneEach'
<1>1. CASE UNCHANGED <<stream, published>>
  BY <1>1 DEF OneEach, Messages
<1>2. ASSUME NEW c \in Cards, CardPaid(c)  PROVE OneEach'
  <2>1. published \in Nat /\ stream \in Seq(Cards) /\ Len(stream) = published
    BY DEF FlowInv, QueueInv, QueueTypeOK, StreamOK
  <2>2. Cardinality(Messages(c)) < MaxCopies[c] /\ stream' = Append(stream, c)
    BY <1>2 DEF CardPaid, PublishMessage
  <2>3. Messages(c) = {}
    <3>1. IsFiniteSet(Messages(c))
      <4>1. Messages(c) \subseteq 1..published /\ IsFiniteSet(1..published)
        BY <2>1, FS_Interval DEF Messages
      <4> QED
        BY <4>1, FS_Subset
    <3>2. Cardinality(Messages(c)) \in Nat
      BY <3>1, FS_CardinalityType
    <3>3. MaxCopies[c] \in Nat /\ MaxCopies[c] <= 1
      BY FundAssumption DEF OneMessageEach
    <3>4. Cardinality(Messages(c)) = 0
      BY <2>2, <3>2, <3>3
    <3> QED
      BY <3>1, <3>4, FS_EmptySet
  <2>4. ASSUME NEW d \in Cards, NEW m \in Messages(d)'
        PROVE  IF m = published + 1 THEN d = c ELSE m \in Messages(d)
    BY <2>1, <2>2, <2>4 DEF Messages
  <2> QED
    BY <2>1, <2>3, <2>4 DEF OneEach
<1> QED
  BY <1>1, <1>2, StreamUntouched DEF Next

LEMMA InitApart == ASSUME Init, Undisturbed PROVE ApartInv
  BY InitFlow DEF Init, Undisturbed, ApartInv, OneEach, Messages

LEMMA ApartStep ==
  ASSUME FlowInv, ApartInv, Undisturbed, [Next]_vars
  PROVE  ApartInv' /\ Apart
<1>1. [FundStep]_vars
  BY NextIsFundStep
<1>2. Apart
  BY OneIsApart, CardsApart DEF ApartInv
<1>3. CASE SingleWorker
  BY <1>2, <1>3 DEF ApartInv, SingleWorker
<1>4. CASE ~SingleWorker
  BY <1>1, <1>2, <1>4, OneEachStep, OneHandlerStep DEF ApartInv, Undisturbed, Prompt
<1> QED
  BY <1>3, <1>4

(* With one message for each card and batches that are not slower than     *)
(* MinIdle, or with a single worker, no card has two fund transactions,    *)
(* whichever worker crashes where and even if the treasury lock lapses     *)
(* (Service.FundCard).                                                     *)
THEOREM NoCardIsFundedTwice ==
  Undisturbed /\ "lost" \notin Env => (Spec => []FundedOnce)
<1> SUFFICES ASSUME Undisturbed, "lost" \notin Env  PROVE Spec => []FundedOnce
  OBVIOUS
<1> DEFINE Inv == FlowInv /\ ApartInv /\ CardsInv
<1>1. Init => Inv
  BY InitFlow, InitApart, InitCards
<1>2. Inv /\ [Next]_vars => Inv'
  BY FlowStep, ApartStep, CardsStep, NextIsFundStep
<1>3. Inv => FundedOnce
  BY DEF CardsInv, Books, FundedOnce
<1> QED
  BY <1>1, <1>2, <1>3, PTL DEF Spec

(* Under the same conditions nothing takes an active card out of use but   *)
(* a redemption, which takes what it paid (revertCardToCreated and the     *)
(* UPDATE to funding do not look at the status they replace).              *)
THEOREM ActiveCardsStay ==
  Undisturbed /\ "lost" \notin Env => (Spec => ActiveStays)
<1> SUFFICES ASSUME Undisturbed, "lost" \notin Env  PROVE Spec => ActiveStays
  OBVIOUS
<1> DEFINE Inv == FlowInv /\ ApartInv /\ CardsInv
<1>1. Init => Inv
  BY InitFlow, InitApart, InitCards
<1>2. Inv /\ [Next]_vars => Inv' /\ [ActiveKept]_vars
  BY FlowStep, ApartStep, CardsStep, ActiveKeptStep, NextIsFundStep
<1> QED
  BY <1>1, <1>2, PTL DEF Spec, ActiveStays, ActiveKept

-----------------------------------------------------------------------------
(* The sats, while nothing is paid out.                                    *)

\* What a worker has read is never more than the node owns, and who is about
\* to reserve has seen enough for it: nobody else reserves meanwhile.
Covered(w) ==
  /\ pc[w] = "wallet" => seen[w] <= channel
  /\ pc[w] = "reserved" => seen[w] <= Treasury
  /\ pc[w] = "activate" => seen[w] <= Treasury /\ want[w] <= seen[w] - reserved

SatsTypeOK ==
  /\ channel \in Int /\ wallet \in Nat /\ opening \in Nat
  /\ reserved \in Int /\ seen \in [Workers -> Int]

SatsInv ==
  /\ SatsTypeOK
  /\ channel + wallet + opening = Treasury
  /\ reserved <= Treasury
  /\ \A w \in Workers : Covered(w)

LEMMA InitSats == ASSUME Init PROVE SatsInv
  BY FundAssumption DEF Init, SatsInv, SatsTypeOK, Covered

LEMMA SatsStep ==
  ASSUME FlowInv, LockInv, CardsInv, SatsInv, [FundStep]_vars, Env \cap {"lost", "redeem"} = {},
         \A c \in Cards : owed[c] = 0
  PROVE  SatsInv'
<1>a. CardTypeOK /\ WorkTypeOK /\ SatsTypeOK /\ Treasury \in Nat
  BY FundAssumption DEF FlowInv, CardsInv, SatsInv
<1> USE DEF SatsInv
<1>1. ASSUME NEW w \in Workers, Resets(w)  PROVE SatsInv'
  <2>1. reserved' = reserved
    <3>1. CardOf(w) \in Cards /\ Blank(CardOf(w)) /\ sats[CardOf(w)] = 0
      BY <1>1, CardAtHand DEF CardsInv, Resets, Unfunded, Books, FlowInv, Busy
    <3>2. \E st \in {"created", "funding"} :
            reserved' = reserved - Reserves(status[CardOf(w)], 0) + Reserves(st, 0)
      BY <1>1, <3>1 DEF Resets, UpdateCard
    <3> QED
      BY <1>a, <3>2 DEF Reserves, SatsTypeOK
  <2> QED
    BY <1>a, <1>1, <2>1 DEF Resets, lndVars, Goto, WorkTypeOK, SatsTypeOK, Covered
<1>2. ASSUME NEW w \in Workers, Funds(w)  PROVE SatsInv'
  <2>1. reserved' = reserved + want[w]
    <3>1. CardOf(w) \in Cards /\ Blank(CardOf(w)) /\ sats[CardOf(w)] = 0
      BY <1>2, CardAtHand DEF CardsInv, Funds, Unfunded, Books, FlowInv, Busy
    <3> QED
      BY <1>a, <1>2, <3>1 DEF Funds, Activate, UpdateCard, Reserves, SatsTypeOK, CardTypeOK
  <2>2. \A v \in Workers : v # w => pc[v] # "activate"
    BY <1>2 DEF Funds, LockInv, HoldingLock
  <2> QED
    BY <1>a, <1>2, <2>1, <2>2 DEF Funds, lndVars, Goto, WorkTypeOK, SatsTypeOK, CardTypeOK, Covered
<1>3. \A c \in Cards : ~DebitCard(c) /\ ~PayOut(c)
  BY DEF DebitCard, PayOut
<1>4. CASE UNCHANGED cardVars
  <2> USE DEF SatsTypeOK, Covered, WorkTypeOK, CardTypeOK, cardVars, lndVars, workVars, Goto
  <2>1. ASSUME NEW w \in Workers, Read(w)  PROVE SatsInv'
    BY <1>a, <2>1 DEF Read
  <2>2. ASSUME NEW w \in Workers, Price(w)  PROVE SatsInv'
    <3>1. CASE FetchPrice(w)
      BY <1>a, <1>4, <2>2, <3>1 DEF FetchPrice
    <3>2. CASE RefuseMessage(w) \/ PriceUnavailable(w) \/ DropMessage(w)
      BY <1>a, <1>4, <3>2 DEF RefuseMessage, PriceUnavailable, DropMessage, FailEarly
    <3> QED
      BY <2>2, <3>1, <3>2 DEF Price
  <2>3. ASSUME NEW w \in Workers, Load(w) \/ Mark(w)  PROVE SatsInv'
    BY <1>a, <1>4, <2>3 DEF Load, LoadFailed, SkipCard, LoadCard, FailEarly, Mark, MarkFunding, MarkFailed
  <2>4. ASSUME NEW w \in Workers, Lock(w)  PROVE SatsInv'
    BY <1>a, <1>4, <2>4 DEF Lock, AcquireTreasuryLock, TreasuryLockRefused
  <2>5. ASSUME NEW w \in Workers, GetChannelBalance(w)  PROVE SatsInv'
    BY <1>a, <1>4, <2>5 DEF GetChannelBalance
  <2>6. ASSUME NEW w \in Workers, GetWalletBalance(w)  PROVE SatsInv'
    BY <1>a, <1>4, <2>6 DEF GetWalletBalance
  <2>7. ASSUME NEW w \in Workers, CheckAvailable(w) \/ TreasuryRefused(w)  PROVE SatsInv'
    BY <1>a, <1>4, <2>7 DEF CheckAvailable, TreasuryRefused
  <2>8. ASSUME NEW w \in Workers, Write(w)  PROVE SatsInv'
    BY <1>a, <1>4, <2>8 DEF Write, ActivateCard, ActivateFailed, AttemptFailed
  <2>9. ASSUME NEW w \in Workers, RevertCardToCreated(w) \/ ReleaseTreasuryLock(w)  PROVE SatsInv'
    BY <1>a, <1>4, <2>9 DEF RevertCardToCreated, ReleaseTreasuryLock
  <2>10. ASSUME NEW w \in Workers, FinishMessage(w) \/ Crash(w) \/ PricePanics(w)  PROVE SatsInv'
    BY <1>a, <1>4, <2>10 DEF FinishMessage, Crash, PricePanics, Forget
  <2>11. CASE TreasuryLockExpires \/ OpenChannel
    BY <1>a, <1>4, <2>11 DEF TreasuryLockExpires, OpenChannel
  <2>12. CASE ChannelConfirmed
    BY <1>a, <1>4, <2>12 DEF ChannelConfirmed
  <2>13. ASSUME NEW c \in Cards, PublishMessage(c)  PROVE SatsInv'
    BY <1>a, <2>13 DEF PublishMessage
  <2>14. CASE UNCHANGED vars
    BY <1>a, <2>14 DEF vars
  <2> QED
    BY <1>3, <2>1, <2>2, <2>3, <2>4, <2>5, <2>6, <2>7, <2>8, <2>9, <2>10, <2>11, <2>12, <2>13, <2>14
    DEF FundStep, Funding, Work, Compute, Environment
<1> QED
  BY <1>1, <1>2, <1>3, <1>4, WhoChangesCards

NothingOwed == \A c \in Cards : owed[c] = 0

LEMMA NothingOwedStep ==
  ASSUME NothingOwed, [FundStep]_vars, "redeem" \notin Env
  PROVE  NothingOwed'
<1>1. \A c \in Cards : ~DebitCard(c) /\ ~PayOut(c)
  BY DEF DebitCard, PayOut, NothingOwed
<1> USE DEF lndVars
<1>2. ASSUME NEW w \in Workers, Work(w) \/ Read(w)  PROVE UNCHANGED owed
  <2>1. ASSUME Read(w) \/ Price(w) \/ Load(w)  PROVE UNCHANGED owed
    BY <2>1 DEF Read, Price, RefuseMessage, PriceUnavailable, DropMessage, FetchPrice, FailEarly,
      Load, LoadFailed, SkipCard, LoadCard
  <2>2. ASSUME Mark(w) \/ Lock(w) \/ Compute(w)  PROVE UNCHANGED owed
    BY <2>2 DEF Mark, MarkFunding, MarkFailed, FailEarly, Lock, AcquireTreasuryLock,
      TreasuryLockRefused, Compute, GetChannelBalance, GetWalletBalance, CheckAvailable, TreasuryRefused
  <2>3. ASSUME Write(w) \/ RevertCardToCreated(w) \/ ReleaseTreasuryLock(w) \/ FinishMessage(w)
        PROVE  UNCHANGED owed
    BY <2>3 DEF Write, ActivateCard, ActivateFailed, RevertCardToCreated, ReleaseTreasuryLock, FinishMessage
  <2> QED
    BY <1>2, <2>1, <2>2, <2>3 DEF Work
<1>3. ASSUME NEW w \in Workers, Crash(w) \/ PricePanics(w)  PROVE UNCHANGED owed
  BY <1>3 DEF Crash, PricePanics
<1>4. ASSUME NEW c \in Cards, PublishMessage(c)  PROVE UNCHANGED owed
  BY <1>4 DEF PublishMessage
<1>5. ASSUME TreasuryLockExpires \/ ChannelConfirmed  PROVE UNCHANGED owed
  BY <1>5 DEF TreasuryLockExpires, ChannelConfirmed
<1>6. ASSUME OpenChannel  PROVE UNCHANGED owed
  BY <1>6 DEF OpenChannel
<1>7. ASSUME UNCHANGED vars  PROVE UNCHANGED owed
  BY <1>7 DEF vars
<1>8. UNCHANGED owed
  <2>1. CASE FundStep
    BY <1>1, <1>2, <1>3, <1>4, <1>5, <1>6, <2>1 DEF FundStep, Funding, Environment
  <2> QED
    BY <1>7, <2>1
<1> QED
  BY <1>8 DEF NothingOwed

(* Workers alone never sell more than the node owns, as long as the lock   *)
(* outlives a reservation, nobody gets in the way at a card and nothing is *)
(* paid out meanwhile: channels may open and workers crash, restart and    *)
(* wait for each other (Service.FundCard, steps 3 to 5).                   *)
THEOREM WorkersNeverOversell ==
  Undisturbed /\ Env \cap {"lost", "lapse", "redeem"} = {} => (Spec => []Solvent)
<1> SUFFICES ASSUME Undisturbed, Env \cap {"lost", "lapse", "redeem"} = {}
             PROVE  Spec => []Solvent
  OBVIOUS
<1> DEFINE Inv == FlowInv /\ ApartInv /\ LockInv /\ CardsInv /\ NothingOwed /\ SatsInv
<1>1. Init => Inv
  BY InitFlow, InitApart, InitCards, InitSats DEF Init, NothingOwed
<1>2. Inv /\ [Next]_vars => Inv'
  <2> SUFFICES ASSUME Inv, [Next]_vars PROVE Inv'
    OBVIOUS
  <2>1. [FundStep]_vars /\ FlowInv' /\ ApartInv' /\ Apart
    BY FlowStep, ApartStep, NextIsFundStep
  <2>2. LockInv'
    BY <2>1, LockStep DEF FlowInv
  <2>3. CardsInv'
    BY <2>1, CardsStep
  <2>4. NothingOwed'
    BY <2>1, NothingOwedStep
  <2>5. SatsInv'
    BY <2>1, SatsStep DEF NothingOwed
  <2> QED
    BY <2>1, <2>2, <2>3, <2>4, <2>5
<1>3. Inv => Solvent
  BY FundAssumption DEF SatsInv, SatsTypeOK, Solvent
<1> QED
  BY <1>1, <1>2, <1>3, PTL DEF Spec

-----------------------------------------------------------------------------
(* The messages that were acknowledged, while no call fails and no worker  *)
(* is killed.  A card may have several messages, and several workers at    *)
(* once that mark, activate and revert it under each other.                *)

Tending == {"lock", "undo", "channel", "wallet", "reserved", "activate", "revert"}

\* A card is left in status funding only by somebody who will change it.
FundingIsTended ==
  \A c \in Cards : status[c] = "funding" =>
    \E w \in Workers : pc[w] \in Tending /\ CardOf(w) = c

Settled(c) == status[c] \in {"active", "redeemed"} \/ Dropped(c)

\* The worker is going to acknowledge the message at hand.
Done(w) == pc[w] \in {"release", "finish"} /\ ok[w]

\* The message is not acknowledged, and nobody is about to.
Open(m) ==
  /\ m \notin handled
  /\ \A w \in Workers : batch[w] # {} /\ Oldest(w) = m => ~Done(w)

\* A card that is neither funded nor dropped has a message left that leads
\* to another attempt.
MessageLeft == \A c \in Cards : Messages(c) # {} => Settled(c) \/ \E m \in Messages(c) : Open(m)

AckInv == HandledByOne /\ AckedOnce /\ FundingIsTended /\ MessageLeft

NoFailure == Env \cap {"fault", "lost", "crash"} = {}

LEMMA InitAck == ASSUME Init PROVE AckInv
  BY InitFlow DEF Init, QueueInit, AckInv, AckedOnce, FundingIsTended, MessageLeft, Messages

\* Who tends a card goes on tending it until it activates or reverts it.
LEMMA GoesOnTending ==
  ASSUME FlowInv, [FundStep]_vars, NoFailure, NEW w \in Workers, pc[w] \in Tending
  PROVE  \/ pc'[w] \in Tending /\ CardOf(w)' = CardOf(w)
         \/ Resets(w) /\ UpdateCard(CardOf(w), "created", sats[CardOf(w)])
         \/ Funds(w)
<1> DEFINE Goal == \/ pc'[w] \in Tending /\ UNCHANGED batch
                   \/ Resets(w) /\ UpdateCard(CardOf(w), "created", sats[CardOf(w)])
                   \/ Funds(w)
<1>1. ASSUME NEW v \in Workers, WorkerStep(v), v # w  PROVE pc'[w] \in Tending /\ batch'[w] = batch[w]
  BY <1>1, OthersUntouched DEF FlowInv, QueueInv
<1>2. ASSUME WorkerStep(w)  PROVE Goal
  <2> USE DEF FlowInv, WorkTypeOK, Goto, Tending, NoFailure, streamVars, queueVars
  <2>1. CASE Read(w) \/ Price(w) \/ Load(w) \/ Mark(w) \/ ReleaseTreasuryLock(w) \/ FinishMessage(w) \/ PricePanics(w)
    BY <2>1 DEF Read, Price, RefuseMessage, PriceUnavailable, DropMessage, FetchPrice, Load, LoadFailed,
      SkipCard, LoadCard, Mark, MarkFunding, MarkFailed, ReleaseTreasuryLock, FinishMessage, PricePanics
  <2>2. CASE Lock(w) \/ Compute(w)
    BY <2>2 DEF Lock, AcquireTreasuryLock, TreasuryLockRefused, Compute, GetChannelBalance,
      GetWalletBalance, CheckAvailable, TreasuryRefused
  <2>3. CASE Write(w)
    BY <2>3 DEF Write, ActivateCard, ActivateFailed, Funds
  <2>4. CASE RevertCardToCreated(w)
    BY <2>4 DEF RevertCardToCreated, Resets
  <2>5. CASE Crash(w)
    BY <2>5 DEF Crash, Die
  <2> QED
    BY <1>2, <2>1, <2>2, <2>3, <2>4, <2>5 DEF WorkerStep, Work
<1>3. ASSUME Environment \/ (\E c \in Cards : PublishMessage(c)) \/ UNCHANGED vars
      PROVE  pc'[w] \in Tending /\ batch'[w] = batch[w]
  BY <1>3, NobodyWorks
<1>4. batch[w] # {}
  BY DEF FlowInv, Busy, Tending
<1>5. batch'[w] = batch[w] => CardOf(w)' = CardOf(w)
  BY <1>4, SameCard
<1> QED
  BY <1>1, <1>2, <1>3, <1>5, WhoSteps

LEMMA TendedStep ==
  ASSUME FlowInv, FundingIsTended, [FundStep]_vars, NoFailure
  PROVE  FundingIsTended'
<1> SUFFICES ASSUME NEW c \in Cards, status'[c] = "funding"
             PROVE  \E w \in Workers : pc'[w] \in Tending /\ CardOf(w)' = c
  BY DEF FundingIsTended
<1>a. CardTypeOK /\ WorkTypeOK /\ "lost" \notin Env
  BY DEF FlowInv, NoFailure
<1>1. CASE status[c] = "funding"
  <2>1. PICK w \in Workers : pc[w] \in Tending /\ CardOf(w) = c
    BY <1>1 DEF FundingIsTended
  <2>2. ~UpdateCard(c, "created", sats[c]) /\ ~Funds(w)
    BY <1>a, <2>1 DEF UpdateCard, Funds, Activate, CardTypeOK
  <2> QED
    BY <2>1, <2>2, GoesOnTending
<1>2. CASE status[c] # "funding"
  <2>1. PICK w \in Workers : Resets(w) \/ Funds(w)
    <3>1. \A d \in Cards : ~PayOut(d) /\ ~DebitCard(d)
      BY <1>a, <1>2 DEF PayOut, DebitCard, UpdateCard, cardVars, CardTypeOK
    <3> QED
      BY <1>a, <1>2, <3>1, WhoChangesCards DEF cardVars
  <2>2. pc[w] # "idle" /\ UNCHANGED batch
    BY <2>1 DEF Resets, Funds, streamVars, queueVars
  <2>3. CardOf(w)' = CardOf(w)
    BY <2>2, SameCard DEF FlowInv, Busy
  <2>4. CardOf(w) = c /\ Goto(w, "lock")
    BY <1>a, <1>2, <2>1 DEF Resets, Funds, Activate, UpdateCard, CardTypeOK
  <2> QED
    BY <1>a, <2>3, <2>4 DEF Goto, Tending, WorkTypeOK
<1> QED
  BY <1>1, <1>2

\* A worker comes to acknowledge its message because the card is settled, or
\* because somebody else is funding it.
LEMMA WhyDone ==
  ASSUME FlowInv, [FundStep]_vars, NEW w \in Workers, batch[w] # {}, ~Done(w), Done(w)', "lost" \notin Env
  PROVE  /\ UNCHANGED <<queueVars, stream>>
         /\ \/ Settled(CardOf(w))'
            \/ pc[w] = "load" /\ status[CardOf(w)] = "funding"
<1>a. WorkTypeOK /\ CardTypeOK /\ CardOf(w) \in Cards
  BY CardAtHand DEF FlowInv
<1> DEFINE Goal == /\ UNCHANGED <<queueVars, stream>>
                   /\ \/ status'[CardOf(w)] \in {"active", "redeemed"} \/ Dropped(CardOf(w))
                      \/ pc[w] = "load" /\ status[CardOf(w)] = "funding"
<1>1. WorkerStep(w)
  BY WhoSteps, OthersUntouched, NobodyWorks DEF Done, FlowInv, QueueInv
<1>2. Goal
  <2> USE <1>a DEF WorkTypeOK, Goto, Returns, Done, streamVars, queueVars
  <2>1. CASE Read(w) \/ Crash(w) \/ PricePanics(w) \/ FinishMessage(w)
    BY <2>1 DEF Read, Crash, PricePanics, FinishMessage
  <2>2. CASE Price(w)
    BY <2>2 DEF Price, RefuseMessage, PriceUnavailable, DropMessage, FetchPrice, FailEarly, Dropped
  <2>3. CASE Load(w)
    BY <2>3 DEF Load, LoadFailed, SkipCard, LoadCard, FailEarly, CardTypeOK, cardVars
  <2>4. CASE Mark(w) \/ Lock(w) \/ Compute(w)
    BY <2>4 DEF Mark, MarkFunding, MarkFailed, FailEarly, Lock, AcquireTreasuryLock, TreasuryLockRefused,
      Compute, GetChannelBalance, GetWalletBalance, CheckAvailable, TreasuryRefused
  <2>5. CASE Write(w)
    BY <2>5 DEF Write, ActivateCard, ActivateFailed, AttemptFailed, Activate, UpdateCard, CardTypeOK
  <2>6. CASE RevertCardToCreated(w) \/ ReleaseTreasuryLock(w)
    BY <2>6 DEF RevertCardToCreated, ReleaseTreasuryLock, workVars
  <2> QED
    BY <1>1, <2>1, <2>2, <2>3, <2>4, <2>5, <2>6 DEF WorkerStep, Work
<1>3. CardOf(w)' = CardOf(w)
  BY <1>2, SameCard DEF queueVars
<1> QED
  BY <1>2, <1>3 DEF Settled, Dropped, Quotes

LEMMA WhatIsHandled ==
  ASSUME FlowInv, [FundStep]_vars
  PROVE  \/ UNCHANGED handled
         \/ \E w \in Workers : batch[w] # {} /\ Done(w) /\ handled' = handled \cup {Oldest(w)}
<1> DEFINE Goal == \/ UNCHANGED handled
                   \/ \E w \in Workers : batch[w] # {} /\ Done(w) /\ handled' = handled \cup {Oldest(w)}
<1>1. ASSUME NEW w \in Workers, WorkerStep(w)  PROVE Goal
  <2> USE DEF streamVars, queueVars
  <2>1. CASE Read(w) \/ Price(w) \/ Load(w) \/ Mark(w)
    BY <2>1 DEF Read, ReadGroup, Reclaim, Deliver, Price, RefuseMessage, PriceUnavailable, DropMessage,
      FetchPrice, FailEarly, Load, LoadFailed, SkipCard, LoadCard, Mark, MarkFunding, MarkFailed
  <2>2. CASE Lock(w) \/ Compute(w) \/ Write(w)
    BY <2>2 DEF Lock, AcquireTreasuryLock, TreasuryLockRefused, Compute, GetChannelBalance,
      GetWalletBalance, CheckAvailable, TreasuryRefused, Write, ActivateCard, ActivateFailed
  <2>3. CASE RevertCardToCreated(w) \/ ReleaseTreasuryLock(w) \/ Crash(w) \/ PricePanics(w)
    BY <2>3 DEF RevertCardToCreated, ReleaseTreasuryLock, Crash, Die, PricePanics, Abandon
  <2>4. CASE FinishMessage(w)
    BY <2>4 DEF FinishMessage, Finish, Done
  <2> QED
    BY <1>1, <2>1, <2>2, <2>3, <2>4 DEF WorkerStep, Work
<1>2. ASSUME Environment \/ (\E c \in Cards : PublishMessage(c)) \/ UNCHANGED vars  PROVE Goal
  BY <1>2, NobodyWorks
<1> QED
  BY <1>1, <1>2, WhoSteps

LEMMA OpenStays ==
  ASSUME FlowInv, [FundStep]_vars, NEW m, Open(m)
  PROVE  \/ Open(m)'
         \/ \E w \in Workers : batch[w] # {} /\ Oldest(w) = m /\ ~Done(w) /\ Done(w)'
<1>1. m \notin handled'
  BY WhatIsHandled DEF Open
<1>2. ASSUME NEW w \in Workers, Done(w)'
      PROVE  batch[w] # {} /\ Oldest(w)' = Oldest(w)
  <2>1. pc[w] # "idle" /\ batch'[w] = batch[w]
    BY <1>2, WhoSteps, OthersUntouched, NobodyWorks, WhereNext DEF Done, FlowInv, QueueInv
  <2> QED
    BY <2>1, SameCard DEF FlowInv, Busy
<1> QED
  BY <1>1, <1>2 DEF Open

LEMMA MessageLeftStep ==
  ASSUME FlowInv, AckInv, [FundStep]_vars, NoFailure
  PROVE  MessageLeft'
<1>a. /\ CardTypeOK /\ WorkTypeOK /\ "lost" \notin Env /\ FlowInv'
      /\ HandledByOne /\ AckedOnce /\ FundingIsTended /\ MessageLeft
  BY FlowStep DEF FlowInv, NoFailure, AckInv
<1> SUFFICES ASSUME NEW c \in Cards, Messages(c)' # {}, ~Settled(c)'
             PROVE  \E m \in Messages(c)' : Open(m)'
  BY DEF MessageLeft
\* The message of a worker that resets or funds a card is not acknowledged yet.
<1>b. ASSUME NEW w \in Workers, pc[w] # "idle", CardOf(w) = c, UNCHANGED <<streamVars, batch>>, ~Done(w)',
             NEW m, m = Oldest(w)
      PROVE  m \in Messages(c)' /\ Open(m)'
  <2>1. Oldest(w) \in batch[w] /\ Oldest(w) \in 1..published /\ Len(stream) = published
    BY <1>b, CardAtHand DEF FlowInv, StreamOK, Busy
  <2>2. m \in Messages(c)'
    BY <1>b, <2>1 DEF Messages, CardOf, streamVars, FlowInv, StreamOK
  <2>3. m \notin handled'
    BY <1>a, <1>b, <2>1 DEF AckedOnce, streamVars, queueVars
  <2>4. ASSUME NEW v \in Workers, v # w, batch'[v] # {}, Oldest(v)' = m  PROVE FALSE
    <3>1. batch[v] # {} /\ Oldest(v) = Oldest(w)
      BY <1>b, <2>4 DEF Oldest
    <3>2. Oldest(v) \in batch[v]
      BY <3>1, CardAtHand DEF FlowInv
    <3> QED
      BY <1>a, <2>1, <2>4, <3>1, <3>2 DEF HandledByOne
  <2> QED
    BY <1>b, <2>2, <2>3, <2>4 DEF Open
<1>1. CASE Settled(c)
  <2>1. PICK w \in Workers : Resets(w) /\ CardOf(w) = c
    <3>1. status[c] \in {"active", "redeemed"} /\ status'[c] \notin {"active", "redeemed"}
      BY <1>1 DEF Settled, Dropped, Quotes
    <3>2. \A d \in Cards : ~PayOut(d) /\ ~DebitCard(d)
      BY <1>a, <3>1 DEF PayOut, DebitCard, UpdateCard, cardVars, CardTypeOK
    <3>3. \A w \in Workers : ~Funds(w)
      BY <1>a, <3>1 DEF Funds, Activate, UpdateCard, CardTypeOK
    <3>4. PICK w \in Workers : Resets(w)
      BY <1>a, <3>1, <3>2, <3>3, WhoChangesCards DEF cardVars
    <3>5. CardOf(w) = c
      BY <1>a, <3>1, <3>4 DEF Resets, UpdateCard, CardTypeOK
    <3> QED
      BY <3>4, <3>5
  <2>2. pc[w] # "idle" /\ UNCHANGED <<streamVars, batch>> /\ ~Done(w)'
    BY <1>a, <2>1 DEF Resets, Goto, Returns, Done, WorkTypeOK, streamVars, queueVars
  <2> QED
    BY <1>b, <2>1, <2>2
<1>2. CASE ~Settled(c) /\ Messages(c) = {}
  <2>1. PICK m \in Messages(c)' : m \notin Messages(c)
    BY <1>2
  <2>2. PublishMessage(c) /\ m = published + 1
    <3>1. ~UNCHANGED <<stream, published>>
      BY <2>1 DEF Messages
    <3>2. PICK d \in Cards : PublishMessage(d)
      BY <3>1, StreamUntouched DEF FundStep
    <3> QED
      BY <2>1, <3>2 DEF PublishMessage, Messages, FlowInv, QueueInv, QueueTypeOK, StreamOK
  <2>3. m \notin handled'
    <3>1. UNCHANGED handled /\ \A k \in handled : k <= published
      BY <1>a, <2>2 DEF PublishMessage, Publish, AckedOnce, FlowInv, QueueInv, QueueTypeOK, InOrder, Msgs
    <3> QED
      BY <2>2, <3>1 DEF FlowInv, QueueInv, QueueTypeOK
  <2>4. ASSUME NEW w \in Workers, batch'[w] # {}, Oldest(w)' = m  PROVE FALSE
    <3>1. UNCHANGED batch
      BY <2>2 DEF PublishMessage, Publish
    <3>2. batch[w] # {} /\ Oldest(w) = m
      BY <2>4, <3>1 DEF Oldest
    <3>3. Oldest(w) \in 1..published
      BY <3>2, CardAtHand DEF FlowInv
    <3> QED
      BY <2>2, <3>2, <3>3 DEF FlowInv, QueueInv, QueueTypeOK
  <2> QED
    BY <2>1, <2>3, <2>4 DEF Open
<1>3. CASE ~Settled(c) /\ Messages(c) # {}
  <2>1. PICK m \in Messages(c) : Open(m)
    BY <1>a, <1>3 DEF MessageLeft
  <2>2. m \in Messages(c)'
    BY <1>a, StreamStep DEF Messages, FlowInv, QueueInv, QueueTypeOK, StreamOK
  <2>3. CASE Open(m)'
    BY <2>2, <2>3
  <2>4. ASSUME NEW w \in Workers, batch[w] # {}, Oldest(w) = m, ~Done(w), Done(w)'
        PROVE  \E k \in Messages(c)' : Open(k)'
    <3>1. CardOf(w) = c
      BY <2>1, <2>4 DEF CardOf, Messages
    <3>2. UNCHANGED <<queueVars, stream>> /\ pc[w] = "load" /\ status[c] = "funding"
      <4>0. UNCHANGED batch
        BY <1>a, <2>4, WhyDone DEF queueVars
      <4>1. CardOf(w)' = c
        BY <2>4, <3>1, <4>0, SameCard
      <4> QED
        BY <1>a, <2>4, <3>1, <4>1, WhyDone DEF Settled
    <3>3. PICK v \in Workers : pc[v] \in Tending /\ CardOf(v) = c
      BY <1>a, <3>2 DEF FundingIsTended
    <3>4. v # w /\ pc'[v] = pc[v]
      BY <2>4, <3>2, <3>3, WhoSteps, OthersUntouched, NobodyWorks DEF Tending, Done, FlowInv, QueueInv
    <3>5. ~Done(v)' /\ pc[v] # "idle" /\ UNCHANGED <<streamVars, batch>>
      BY <3>2, <3>3, <3>4 DEF Done, Tending, streamVars, queueVars
    <3> QED
      BY <1>b, <3>3, <3>5
  <2> QED
    BY <2>1, <2>3, <2>4, OpenStays
<1> QED
  BY <1>1, <1>2, <1>3

(* A message that was acknowledged has done its work: while no call fails  *)
(* and no worker is killed, a card whose messages are all handled is       *)
(* funded, or was dropped as worth nothing.  Neither a second message, nor *)
(* a lock that lapses, nor a price provider that panics breaks that        *)
(* (Service.FundCard, handleMessage).                                      *)
THEOREM AcknowledgedCardsAreFunded ==
  NoFailure /\ Prompt => (Spec => []AcknowledgedIsFunded)
<1> SUFFICES ASSUME NoFailure, Prompt PROVE Spec => []AcknowledgedIsFunded
  OBVIOUS
<1> DEFINE Inv == FlowInv /\ AckInv
<1>1. Init => Inv
  BY InitFlow, InitAck
<1>2. Inv /\ [Next]_vars => Inv'
  <2> SUFFICES ASSUME Inv, [Next]_vars PROVE Inv'
    OBVIOUS
  <2>1. [FundStep]_vars /\ FlowInv'
    BY FlowStep, NextIsFundStep
  <2>2. HandledByOne'
    BY <2>1, OneHandlerStep DEF AckInv
  <2>3. AckedOnce'
    BY <2>1, NextIsQueueStep, QueueStepAcks, QueueStutters DEF AckInv, FlowInv, NoFailure
  <2>4. FundingIsTended' /\ MessageLeft'
    BY <2>1, TendedStep, MessageLeftStep DEF AckInv
  <2> QED
    BY <2>1, <2>2, <2>3, <2>4 DEF AckInv
<1>3. Inv => AcknowledgedIsFunded
  <2> SUFFICES ASSUME Inv, NEW m \in handled, NEW c, c = stream[m], \A k \in Messages(c) : k \in handled
               PROVE  status[c] \in {"active", "redeemed"} \/ Dropped(c)
    BY DEF AcknowledgedIsFunded
  <2>1. m \in 1..published
    BY DEF AckInv, AckedOnce, FlowInv, QueueInv, QueueTypeOK, InOrder, Msgs
  <2>2. c \in Cards /\ m \in Messages(c)
    BY <2>1 DEF Messages, FlowInv, StreamOK
  <2> QED
    BY <2>2 DEF AckInv, MessageLeft, Settled, Open
<1> QED
  BY <1>1, <1>2, <1>3, PTL DEF Spec
-----------------------------------------------------------------------------
(* Sums over finite sets.  A sum is the value of a recursive function on   *)
(* the subsets, which exists, and what holds of sums holds because there   *)
(* is no smallest set of which it does not.                                *)

Chosen(s) == CHOOSE x \in s : TRUE
IsFold(g, f, S) ==
  g = [s \in SUBSET S |-> IF s = {} THEN 0 ELSE f[Chosen(s)] + g[s \ {Chosen(s)}]]

LEMMA SumIsFold ==
  ASSUME NEW f, NEW S
  PROVE  SumFunctionOnSet(f, S) = (CHOOSE g : IsFold(g, f, S))[S]
  BY DEF SumFunctionOnSet, FoldFunctionOnSet, MapThenFoldSet, IsFold, Chosen

LEMMA MinimalSubset ==
  ASSUME NEW R, IsFiniteSet(R), NEW B, B \subseteq SUBSET R, B # {}
  PROVE  \E s \in B : \A t \in B : t \subseteq s => t = s
<1>1. B \subseteq FiniteSubsetsOf(R)
  BY FS_Subset DEF FiniteSubsetsOf
<1>2. \E s \in B : \A t \in B : <<t, s>> \notin StrictSubsetOrdering(R)
  BY <1>1, FS_StrictSubsetOrderingWellFounded, WFMin
<1> QED
  BY <1>2 DEF StrictSubsetOrdering

LEMMA FoldsExist ==
  ASSUME NEW f, NEW S, IsFiniteSet(S)
  PROVE  \E g : IsFold(g, f, S)
<1> DEFINE N == Cardinality(S)
           Small(n) == {s \in SUBSET S : Cardinality(s) <= n}
           Part(g, n) == g = [s \in Small(n) |-> IF s = {} THEN 0 ELSE f[Chosen(s)] + g[s \ {Chosen(s)}]]
           Bad == {n \in 1..N : ~\E g : Part(g, n)}
<1>1. N \in Nat /\ \A s \in SUBSET S : /\ IsFiniteSet(s) /\ Cardinality(s) \in Nat /\ Cardinality(s) <= N
                                       /\ Cardinality(s) = 0 <=> s = {}
  BY FS_CardinalityType, FS_Subset, FS_EmptySet
<1>2. \E g : Part(g, 0)
  <2>1. \A s \in Small(0) : s = {}
    BY <1>1
  <2>2. Part([s \in Small(0) |-> 0], 0)
    BY <2>1
  <2> QED
    BY <2>2
<1>3. ASSUME NEW n \in 1..N, NEW g, Part(g, n - 1)  PROVE \E h : Part(h, n)
  <2> DEFINE h == [s \in Small(n) |-> IF s = {} THEN 0 ELSE f[Chosen(s)] + g[s \ {Chosen(s)}]]
  <2>1. ASSUME NEW s \in Small(n), s # {}  PROVE s \ {Chosen(s)} \in Small(n - 1)
    <3>1. Chosen(s) \in s
      BY <2>1 DEF Chosen
    <3>2. Cardinality(s \ {Chosen(s)}) = Cardinality(s) - 1
      BY <1>1, <3>1, FS_RemoveElement
    <3>3. Cardinality(s) <= n /\ Cardinality(s) \in Nat
      BY <1>1
    <3> QED
      BY <3>2, <3>3
  <2>2. ASSUME NEW s \in Small(n - 1)  PROVE s \in Small(n) /\ h[s] = g[s]
    <3>1. s \in Small(n)
      <4>1. Cardinality(s) \in Nat /\ Cardinality(s) <= n - 1
        BY <1>1
      <4> QED
        BY <4>1
    <3>2. g[s] = IF s = {} THEN 0 ELSE f[Chosen(s)] + g[s \ {Chosen(s)}]
      BY <1>3
    <3> QED
      BY <3>1, <3>2
  <2>3. Part(h, n)
    <3> HIDE DEF Small
    <3>1. \A s \in Small(n) : s # {} => h[s \ {Chosen(s)}] = g[s \ {Chosen(s)}]
      BY <2>1, <2>2
    <3> QED
      BY <3>1
  <2> QED
    BY <2>3
<1>4. Bad = {}
  <2> SUFFICES ASSUME Bad # {} PROVE FALSE
    OBVIOUS
  <2>1. PICK n \in Bad : \A k \in Bad : n <= k
    BY <1>1, Smallest
  <2>2. \E g : Part(g, n - 1)
    <3> HIDE DEF Part
    <3>1. CASE n = 1
      BY <1>2, <3>1
    <3>2. CASE n # 1
      BY <1>1, <2>1, <3>2
    <3> QED
      BY <3>1, <3>2
  <2> HIDE DEF Part
  <2> QED
    BY <1>3, <2>1, <2>2
<1>5. \E g : Part(g, N)
  <2> HIDE DEF Part
  <2>1. CASE N = 0
    BY <1>2, <2>1
  <2>2. CASE N # 0
    BY <1>1, <1>4, <2>2
  <2> QED
    BY <2>1, <2>2
<1>6. Small(N) = SUBSET S
  BY <1>1
<1> QED
  BY <1>5, <1>6 DEF IsFold

\* The value of a fold at a set depends on the values summed there alone.
LEMMA FoldsAgree ==
  ASSUME NEW R, IsFiniteSet(R), NEW S, R \subseteq S, NEW T, R \subseteq T,
         NEW d, NEW e, \A x \in R : d[x] = e[x],
         NEW g, IsFold(g, d, S), NEW h, IsFold(h, e, T)
  PROVE  g[R] = h[R]
<1> DEFINE Bad == {s \in SUBSET R : g[s] # h[s]}
<1> SUFFICES ASSUME Bad # {} PROVE FALSE
  OBVIOUS
<1>1. PICK s \in Bad : \A t \in Bad : t \subseteq s => t = s
  <2>1. Bad \subseteq SUBSET R
    OBVIOUS
  <2> HIDE DEF Bad
  <2> QED
    BY <2>1, MinimalSubset
<1>2. /\ g[s] = IF s = {} THEN 0 ELSE d[Chosen(s)] + g[s \ {Chosen(s)}]
      /\ h[s] = IF s = {} THEN 0 ELSE e[Chosen(s)] + h[s \ {Chosen(s)}]
  BY DEF IsFold
<1>3. CASE s = {}
  BY <1>2, <1>3
<1>4. CASE s # {}
  <2>1. Chosen(s) \in s
    BY <1>4 DEF Chosen
  <2>2. s \ {Chosen(s)} \notin Bad
    BY <1>1, <2>1
  <2>3. g[s \ {Chosen(s)}] = h[s \ {Chosen(s)}] /\ d[Chosen(s)] = e[Chosen(s)]
    BY <2>1, <2>2
  <2> QED
    BY <1>2, <1>4, <2>3
<1> QED
  BY <1>3, <1>4

LEMMA SumsAgree ==
  ASSUME NEW S, IsFiniteSet(S), NEW d, NEW e, \A x \in S : d[x] = e[x]
  PROVE  SumFunctionOnSet(d, S) = SumFunctionOnSet(e, S)
<1>1. IsFold(CHOOSE g : IsFold(g, d, S), d, S) /\ IsFold(CHOOSE g : IsFold(g, e, S), e, S)
  BY FoldsExist
<1> QED
  BY <1>1, FoldsAgree, SumIsFold

LEMMA SumUnfolds ==
  ASSUME NEW f, NEW S, IsFiniteSet(S)
  PROVE  SumFunctionOnSet(f, S) =
           IF S = {} THEN 0 ELSE f[Chosen(S)] + SumFunctionOnSet(f, S \ {Chosen(S)})
<1> DEFINE R == S \ {Chosen(S)}
           g == CHOOSE g : IsFold(g, f, S)
           h == CHOOSE h : IsFold(h, f, R)
<1>1. IsFiniteSet(R)
  BY FS_Subset
<1>2. IsFold(g, f, S) /\ IsFold(h, f, R)
  BY <1>1, FoldsExist
<1>3. SumFunctionOnSet(f, S) = g[S] /\ SumFunctionOnSet(f, R) = h[R]
  BY SumIsFold
<1> HIDE DEF g, h
<1>4. g[S] = IF S = {} THEN 0 ELSE f[Chosen(S)] + g[R]
  BY <1>2 DEF IsFold
<1>5. g[R] = h[R]
  BY <1>1, <1>2, FoldsAgree
<1> QED
  BY <1>3, <1>4, <1>5

LEMMA SumType ==
  ASSUME NEW S, IsFiniteSet(S), NEW f, \A x \in S : f[x] \in Nat
  PROVE  SumFunctionOnSet(f, S) \in Nat
<1> DEFINE Bad == {s \in SUBSET S : SumFunctionOnSet(f, s) \notin Nat}
<1> SUFFICES ASSUME Bad # {} PROVE FALSE
  OBVIOUS
<1>1. PICK s \in Bad : \A t \in Bad : t \subseteq s => t = s
  <2>1. Bad \subseteq SUBSET S
    OBVIOUS
  <2> HIDE DEF Bad
  <2> QED
    BY <2>1, MinimalSubset
<1>2. SumFunctionOnSet(f, s) = IF s = {} THEN 0 ELSE f[Chosen(s)] + SumFunctionOnSet(f, s \ {Chosen(s)})
  BY FS_Subset, SumUnfolds
<1>3. CASE s = {}
  BY <1>2, <1>3
<1>4. CASE s # {}
  <2>1. Chosen(s) \in s
    BY <1>4 DEF Chosen
  <2>2. s \ {Chosen(s)} \notin Bad
    BY <1>1, <2>1
  <2> QED
    BY <1>2, <1>4, <2>1, <2>2
<1> QED
  BY <1>3, <1>4

LEMMA SumRemoves ==
  ASSUME NEW S, IsFiniteSet(S), NEW f, \A x \in S : f[x] \in Nat, NEW c \in S
  PROVE  SumFunctionOnSet(f, S) = f[c] + SumFunctionOnSet(f, S \ {c})
<1> DEFINE Sum(s) == SumFunctionOnSet(f, s)
           Bad == {s \in SUBSET S : \E y \in s : Sum(s) # f[y] + Sum(s \ {y})}
<1>1. \A s \in SUBSET S : /\ IsFiniteSet(s) /\ Sum(s) \in Nat
                          /\ s # {} => Chosen(s) \in s /\ Sum(s) = f[Chosen(s)] + Sum(s \ {Chosen(s)})
  BY FS_Subset, SumUnfolds, SumType DEF Chosen
<1> HIDE DEF Sum
<1>2. ASSUME Bad # {}  PROVE FALSE
  <2>1. Bad \subseteq SUBSET S
    OBVIOUS
  <2>2. PICK s \in Bad : \A t \in Bad : t \subseteq s => t = s
    <3> HIDE DEF Bad
    <3> QED
      BY <1>2, <2>1, MinimalSubset
  <2>3. PICK y \in s : Sum(s) # f[y] + Sum(s \ {y})
    OBVIOUS
  <2>4. PICK x \in s : Sum(s) = f[x] + Sum(s \ {x}) /\ x # y
    BY <1>1, <2>3
  <2>5. s \ {x} \notin Bad /\ s \ {y} \notin Bad
    BY <2>2, <2>3, <2>4
  <2>6. /\ Sum(s \ {x}) = f[y] + Sum((s \ {x}) \ {y})
        /\ Sum(s \ {y}) = f[x] + Sum((s \ {y}) \ {x})
    BY <2>3, <2>4, <2>5
  <2>7. Sum((s \ {x}) \ {y}) = Sum((s \ {y}) \ {x})
    <3>1. (s \ {x}) \ {y} = (s \ {y}) \ {x}
      OBVIOUS
    <3> QED
      BY <3>1
  <2>8. f[x] \in Nat /\ f[y] \in Nat /\ Sum((s \ {y}) \ {x}) \in Nat
    BY <1>1
  <2> QED
    BY <2>3, <2>4, <2>6, <2>7, <2>8
<1> QED
  BY <1>2 DEF Sum
-----------------------------------------------------------------------------
(* The variables keep their types.                                         *)

\* No count or balance becomes negative, the retries are as many as they
\* should be, and the query returns what is reserved.
NumbersOK ==
  /\ sats \in [Cards -> Nat] /\ left \in [Cards -> Nat]
  /\ channel \in Nat /\ wallet \in Nat /\ opening \in Nat
  /\ want \in [Workers -> Nat] /\ seen \in [Workers -> Int]
  /\ attempt \in [Workers -> 0..MaxAttempts]
  /\ \A w \in Workers : pc[w] = "activate" => attempt[w] < MaxAttempts
  /\ ReservedIsTheSum

\* A card changes: the sum changes by what it adds.
LEMMA SumStep ==
  ASSUME sats \in [Cards -> Nat], CardTypeOK, ReservedIsTheSum,
         NEW c \in Cards, NEW st, NEW amount \in Nat, UpdateCard(c, st, amount)
  PROVE  sats' \in [Cards -> Nat] /\ ReservedIsTheSum'
<1> DEFINE S == {d \in Cards : status[d] \in {"active", "funding"}}
           T == {d \in Cards : status'[d] \in {"active", "funding"}}
<1>1. /\ status' = [status EXCEPT ![c] = st] /\ sats' = [sats EXCEPT ![c] = amount]
      /\ reserved' = reserved - Reserves(status[c], sats[c]) + Reserves(st, amount)
  BY DEF UpdateCard
<1>2. sats' \in [Cards -> Nat] /\ sats'[c] = amount /\ sats[c] \in Nat
  BY <1>1
<1>3. IsFiniteSet(S) /\ IsFiniteSet(T) /\ IsFiniteSet(S \ {c})
  BY FundAssumption, FS_Subset
<1>4. S \ {c} = T \ {c}
  BY <1>1 DEF CardTypeOK
<1>5. SumFunctionOnSet(sats, S \ {c}) = SumFunctionOnSet(sats', T \ {c})
  <2>1. \A x \in S \ {c} : sats[x] = sats'[x]
    BY <1>1
  <2> HIDE DEF S, T
  <2>2. SumFunctionOnSet(sats, S \ {c}) = SumFunctionOnSet(sats', S \ {c})
    BY <1>3, <2>1, SumsAgree
  <2> QED
    BY <1>4, <2>2
<1>6. SumFunctionOnSet(sats, S \ {c}) \in Nat
  <2>1. \A x \in S \ {c} : sats[x] \in Nat
    OBVIOUS
  <2> HIDE DEF S
  <2> QED
    BY <1>3, <2>1, SumType
<1>7. SumFunctionOnSet(sats, S) = Reserves(status[c], sats[c]) + SumFunctionOnSet(sats, S \ {c})
  <2>1. \A x \in S : sats[x] \in Nat
    OBVIOUS
  <2>2. CASE c \in S
    <3>1. Reserves(status[c], sats[c]) = sats[c]
      BY <2>2 DEF Reserves
    <3> HIDE DEF S
    <3> QED
      BY <1>3, <2>1, <2>2, <3>1, SumRemoves
  <2>3. CASE c \notin S
    <3>1. Reserves(status[c], sats[c]) = 0 /\ S \ {c} = S
      BY <2>3 DEF Reserves
    <3> HIDE DEF S
    <3> QED
      BY <1>6, <3>1
  <2> QED
    BY <2>2, <2>3
<1>8. SumFunctionOnSet(sats', T) = Reserves(st, amount) + SumFunctionOnSet(sats', T \ {c})
  <2>1. \A x \in T : sats'[x] \in Nat
    BY <1>2
  <2>2. c \in T <=> st \in {"active", "funding"}
    BY <1>1 DEF CardTypeOK
  <2>3. CASE c \in T
    <3>1. Reserves(st, amount) = sats'[c]
      BY <1>2, <2>2, <2>3 DEF Reserves
    <3> HIDE DEF T
    <3> QED
      BY <1>3, <2>1, <2>3, <3>1, SumRemoves
  <2>4. CASE c \notin T
    <3>1. Reserves(st, amount) = 0 /\ T \ {c} = T
      BY <2>2, <2>4 DEF Reserves
    <3> HIDE DEF T
    <3> QED
      BY <1>5, <1>6, <3>1
  <2> QED
    BY <2>3, <2>4
<1>9. reserved = SumFunctionOnSet(sats, S)
  BY DEF ReservedIsTheSum
<1>10. Reserves(status[c], sats[c]) \in Nat /\ Reserves(st, amount) \in Nat
  BY <1>2 DEF Reserves
<1>11. reserved' = SumFunctionOnSet(sats', T)
  <2> HIDE DEF S, T
  <2> QED
    BY <1>1, <1>5, <1>6, <1>7, <1>8, <1>9, <1>10
<1> QED
  BY <1>2, <1>11 DEF ReservedIsTheSum

LEMMA InitNumbers == ASSUME Init PROVE NumbersOK
<1>1. SumFunctionOnSet(sats, {c \in Cards : status[c] \in {"active", "funding"}}) = 0
  <2>1. {c \in Cards : status[c] \in {"active", "funding"}} = {}
    BY DEF Init
  <2> QED
    BY <2>1, FS_EmptySet, SumUnfolds
<1> QED
  BY <1>1, FundAssumption DEF Init, NumbersOK, ReservedIsTheSum, Locations

LEMMA NumbersStep ==
  ASSUME FlowInv, NumbersOK, [FundStep]_vars
  PROVE  NumbersOK'
<1>a. CardTypeOK /\ WorkTypeOK /\ MaxAttempts \in Nat \ {0} /\ RoutingFee \in Nat
  BY FundAssumption DEF FlowInv
<1>b. ASSUME UNCHANGED <<status, sats, reserved>>  PROVE sats' \in [Cards -> Nat] /\ ReservedIsTheSum'
  BY <1>b DEF NumbersOK, ReservedIsTheSum
<1>c. ASSUME NEW w \in Workers, pc[w] # "idle"  PROVE CardOf(w) \in Cards
  BY <1>c, CardAtHand DEF FlowInv, Busy
<1>d. ASSUME NEW w \in Workers, pc[w] # "idle", NEW st, NEW amount \in Nat, UpdateCard(CardOf(w), st, amount)
      PROVE  sats' \in [Cards -> Nat] /\ ReservedIsTheSum'
  BY <1>a, <1>c, <1>d, SumStep DEF NumbersOK
<1>1. ASSUME NEW w \in Workers, Read(w)  PROVE NumbersOK'
  BY <1>a, <1>b, <1>1 DEF NumbersOK, WorkTypeOK, Read, Goto, cardVars, lndVars, workVars
<1>2. ASSUME NEW w \in Workers, Price(w)  PROVE NumbersOK'
  <2>1. want' \in [Workers -> Nat]
    <3>1. CASE FetchPrice(w)
      <4>1. PICK q \in Quotes : Sats(CardOf(w), q) > 0 /\ want' = [want EXCEPT ![w] = Sats(CardOf(w), q)]
        BY <3>1 DEF FetchPrice
      <4>2. Sats(CardOf(w), q) \in Nat
        BY <1>c, <3>1, <4>1, SatsAreInt DEF FetchPrice
      <4> QED
        BY <4>1, <4>2 DEF NumbersOK
    <3> QED
      BY <1>2, <3>1 DEF Price, RefuseMessage, PriceUnavailable, DropMessage, FailEarly, NumbersOK
  <2> QED
    BY <1>a, <1>b, <1>2, <2>1 DEF NumbersOK, WorkTypeOK, Price, RefuseMessage, PriceUnavailable, DropMessage,
      FetchPrice, FailEarly, Goto, cardVars, lndVars
<1>3. ASSUME NEW w \in Workers, Load(w) \/ Lock(w) \/ ReleaseTreasuryLock(w)  PROVE NumbersOK'
  BY <1>a, <1>b, <1>3 DEF NumbersOK, WorkTypeOK, Load, LoadFailed, SkipCard, LoadCard, Lock, AcquireTreasuryLock,
    TreasuryLockRefused, ReleaseTreasuryLock, FailEarly, Goto, cardVars, lndVars, workVars
<1>4. ASSUME NEW w \in Workers, Compute(w)  PROVE NumbersOK'
  BY <1>a, <1>b, <1>4 DEF NumbersOK, WorkTypeOK, Compute, GetChannelBalance, GetWalletBalance, CheckAvailable,
    TreasuryRefused, Goto, cardVars, lndVars, workVars
<1>5. ASSUME NEW w \in Workers, Mark(w) \/ RevertCardToCreated(w)  PROVE NumbersOK'
  <2>1. sats' \in [Cards -> Nat] /\ ReservedIsTheSum'
    <3>1. pc[w] # "idle" /\ \/ UNCHANGED cardVars
                            \/ \E st \in {"created", "funding"} : UpdateCard(CardOf(w), st, sats[CardOf(w)])
      BY <1>5 DEF Mark, MarkFunding, MarkFailed, RevertCardToCreated
    <3>2. sats[CardOf(w)] \in Nat
      BY <1>c, <3>1 DEF NumbersOK
    <3> QED
      BY <1>b, <1>d, <3>1, <3>2 DEF cardVars
  <2> QED
    BY <1>a, <1>5, <2>1 DEF NumbersOK, WorkTypeOK, Mark, MarkFunding, MarkFailed, RevertCardToCreated, FailEarly,
      Goto, lndVars, workVars
<1>6. ASSUME NEW w \in Workers, Write(w)  PROVE NumbersOK'
  <2>1. sats' \in [Cards -> Nat] /\ ReservedIsTheSum'
    <3>1. pc[w] # "idle" /\ (UNCHANGED cardVars \/ UpdateCard(CardOf(w), "active", want[w]))
      BY <1>6 DEF Write, ActivateCard, ActivateFailed, Activate
    <3>2. want[w] \in Nat
      BY DEF NumbersOK
    <3> QED
      BY <1>b, <1>d, <3>1, <3>2 DEF cardVars
  <2>2. UNCHANGED <<left, channel, wallet, opening, want, seen>>
    BY <1>6 DEF Write, ActivateCard, ActivateFailed, lndVars
  <2>3. /\ attempt' \in [Workers -> 0..MaxAttempts]
        /\ \A v \in Workers : pc'[v] = "activate" => attempt'[v] < MaxAttempts
    <3>1. CASE ActivateCard(w)
      BY <1>a, <3>1 DEF NumbersOK, WorkTypeOK, ActivateCard, Goto
    <3>2. CASE ActivateFailed(w)
      BY <1>a, <3>2 DEF NumbersOK, WorkTypeOK, ActivateFailed, AttemptFailed, Goto
    <3> QED
      BY <1>6, <3>1, <3>2 DEF Write
  <2> QED
    BY <2>1, <2>2, <2>3 DEF NumbersOK
<1>7. ASSUME NEW w \in Workers, FinishMessage(w) \/ Crash(w) \/ PricePanics(w)  PROVE NumbersOK'
  BY <1>a, <1>b, <1>7 DEF NumbersOK, WorkTypeOK, FinishMessage, Crash, PricePanics, Forget, Goto, cardVars, lndVars
<1>8. CASE TreasuryLockExpires \/ OpenChannel \/ ChannelConfirmed
  BY <1>a, <1>b, <1>8 DEF NumbersOK, TreasuryLockExpires, OpenChannel, ChannelConfirmed, cardVars, lndVars, workVars
<1>9. ASSUME NEW c \in Cards, PayOut(c)  PROVE NumbersOK'
  <2>1. PICK a \in 1..sats[c] : /\ channel >= a + RoutingFee /\ channel' = channel - a - RoutingFee
                                /\ left' = [left EXCEPT ![c] = sats[c] - a]
    BY <1>9 DEF PayOut
  <2>2. sats[c] \in Nat /\ a \in Nat /\ a <= sats[c]
    BY DEF NumbersOK
  <2>3. channel' \in Nat /\ left' \in [Cards -> Nat]
    BY <1>a, <2>1, <2>2 DEF NumbersOK
  <2> QED
    BY <1>b, <1>9, <2>3 DEF NumbersOK, PayOut, cardVars, workVars
<1>10. ASSUME NEW c \in Cards, DebitCard(c)  PROVE NumbersOK'
  <2>1. sats' \in [Cards -> Nat] /\ ReservedIsTheSum'
    BY <1>a, <1>10, SumStep DEF DebitCard, NumbersOK
  <2> QED
    BY <1>10, <2>1 DEF NumbersOK, DebitCard, workVars
<1>11. CASE (\E c \in Cards : PublishMessage(c)) \/ UNCHANGED vars
  BY <1>b, <1>11 DEF NumbersOK, PublishMessage, vars, cardVars, lndVars, workVars
<1> QED
  BY <1>1, <1>2, <1>3, <1>4, <1>5, <1>6, <1>7, <1>8, <1>9, <1>10, <1>11 DEF FundStep, Funding, Work, Environment

(* The variables keep their types, whatever fails, lapses or is redeemed:  *)
(* no balance becomes negative, the write is tried no more often than      *)
(* retryWithBackoff says, and the reserved total that is compared with the *)
(* treasury is the sum over the cards (Service.FundCard).                  *)
THEOREM FundTypes == Spec => []TypeOK
<1> DEFINE Inv == FlowInv /\ NumbersOK
<1>1. Init => Inv
  BY InitFlow, InitNumbers
<1>2. Inv /\ [Next]_vars => Inv'
  BY NextIsFundStep, FlowStep, NumbersStep
<1>3. Inv => TypeOK
  <2> SUFFICES ASSUME Inv PROVE TypeOK
    OBVIOUS
  <2>1. reserved \in Nat
    <3> DEFINE S == {c \in Cards : status[c] \in {"active", "funding"}}
    <3>1. IsFiniteSet(S) /\ \A x \in S : sats[x] \in Nat
      BY FundAssumption, FS_Subset DEF NumbersOK
    <3>2. reserved = SumFunctionOnSet(sats, S)
      BY DEF NumbersOK, ReservedIsTheSum
    <3> HIDE DEF S
    <3> QED
      BY <3>1, <3>2, SumType
  <2> QED
    BY <2>1 DEF TypeOK, FlowInv, QueueInv, WorkTypeOK, StreamOK, CardTypeOK, NumbersOK
<1> HIDE DEF Inv
<1> QED
  BY <1>1, <1>2, <1>3, PTL DEF Spec
=============================================================================
