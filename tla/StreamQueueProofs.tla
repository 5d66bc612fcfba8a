------------------------- MODULE StreamQueueProofs --------------------------
(***************************************************************************)
(* Proofs about StreamQueue, for any number of workers and entries and any *)
(* batch size.  The lemmas are about a step of the queue whatever the      *)
(* handler does, so that FundCardProofs can use them.                      *)
(***************************************************************************)
EXTENDS StreamQueue, TLAPS, FiniteSetTheorems, WellFoundedInduction

\* A step of QueueNext, and what a panic does (Abandon outside of Die).
QueueStep ==
  \/ Publish
  \/ \E w \in Workers :
       ReadGroup(w) \/ Reclaim(w) \/ Abandon(w) \/ \E ok \in BOOLEAN : Finish(w, ok)

\* The order of the stream: entries are published before they are delivered,
\* and delivered before they are pending or handled.
InOrder ==
  /\ delivered <= published
  /\ \A m \in pending : m <= delivered
  /\ \A w \in Workers : \A m \in batch[w] : m <= delivered

QueueInv == QueueTypeOK /\ InOrder

LEMMA Smallest ==
  ASSUME NEW n \in Nat, NEW S, S \subseteq 1..n, S # {}
  PROVE  \E m \in S : \A k \in S : m <= k
<1> DEFINE Below(m) == {k \in S : k < m}
           Sets == {Below(m) : m \in S}
<1>1. Sets \subseteq FiniteSubsetsOf(S) /\ Sets # {}
  <2>1. IsFiniteSet(1..n)
    BY FS_Interval
  <2>2. \A m \in S : IsFiniteSet(Below(m))
    BY <2>1, FS_Subset
  <2> QED
    BY <2>2 DEF FiniteSubsetsOf
<1>2. PICK m \in S : \A k \in S : <<Below(k), Below(m)>> \notin StrictSubsetOrdering(S)
  <2>1. \E x \in Sets : \A y \in Sets : <<y, x>> \notin StrictSubsetOrdering(S)
    BY <1>1, FS_StrictSubsetOrderingWellFounded, WFMin
  <2> QED
    BY <2>1
<1>3. ASSUME NEW k \in S, k < m  PROVE FALSE
  <2>1. \A x \in S : x \in Nat
    OBVIOUS
  <2>2. k \in Below(m)
    BY <1>3
  <2>3. k \notin Below(k)
    BY <2>1
  <2>4. ASSUME NEW x \in Below(k)  PROVE x \in Below(m)
    <3>1. x \in Nat /\ k \in Nat /\ m \in Nat /\ x \in S
      BY <2>1
    <3>2. x < k
      OBVIOUS
    <3>3. x < m
      BY <1>3, <3>1, <3>2
    <3> QED
      BY <3>1, <3>3
  <2> QED
    BY <1>2, <2>2, <2>3, <2>4 DEF StrictSubsetOrdering
<1> QED
  BY <1>2, <1>3

-----------------------------------------------------------------------------

\* The worker that handles a message takes the oldest of its batch.
LEMMA OldestInBatch ==
  ASSUME QueueTypeOK, NEW w \in Workers, batch[w] # {}
  PROVE  Oldest(w) \in batch[w]
<1>1. batch[w] \subseteq 1..NumMsgs
  BY DEF QueueTypeOK, Msgs
<1>2. \E m \in batch[w] : \A k \in batch[w] : m <= k
  BY <1>1, QueueAssumption, Smallest
<1> QED
  BY <1>2 DEF Oldest

LEMMA QueueInitInv == ASSUME QueueInit PROVE QueueInv /\ NothingForgotten /\ HandledByOne
<1>1. QueueTypeOK
  BY QueueAssumption DEF QueueInit, QueueTypeOK
<1>2. InOrder
  BY QueueAssumption DEF QueueInit, InOrder
<1>3. NothingForgotten
  BY QueueAssumption DEF QueueInit, NothingForgotten, Msgs
<1>4. HandledByOne
  BY DEF QueueInit, HandledByOne
<1> QED
  BY <1>1, <1>2, <1>3, <1>4 DEF QueueInv

\* The bounds a read of new entries stays within.
LEMMA ReadBounds ==
  ASSUME QueueInv, NEW w \in Workers, ReadGroup(w)
  PROVE  \E upTo \in 0..NumMsgs : delivered <= upTo /\ upTo <= published /\ batch[w] = {}
                                /\ Deliver(w, upTo)
<1> DEFINE from == Greatest(delivered, first - 1)
           upTo == Least(published, from + BatchSize)
<1>1. /\ delivered \in Nat /\ published \in 0..NumMsgs /\ first \in Nat
      /\ NumMsgs \in Nat /\ BatchSize \in Nat
  BY QueueAssumption DEF QueueInv, QueueTypeOK
<1>2. from < published /\ Deliver(w, upTo) /\ batch[w] = {}
  BY DEF ReadGroup
<1>3. from \in Int /\ delivered <= from
  BY <1>1 DEF Greatest
<1> HIDE DEF from
<1>4. upTo \in 0..NumMsgs /\ delivered <= upTo /\ upTo <= published
  BY <1>1, <1>2, <1>3 DEF Least
<1> QED
  BY <1>2, <1>4

LEMMA QueueStepInv ==
  ASSUME QueueInv, QueueStep
  PROVE  QueueInv'
<1> USE DEF QueueInv
<1>0. QueueTypeOK /\ InOrder /\ NumMsgs \in Nat
  BY QueueAssumption
<1>1. CASE Publish
  BY <1>0, <1>1 DEF Publish, QueueTypeOK, InOrder, Msgs
<1>2. ASSUME NEW w \in Workers, ReadGroup(w)  PROVE QueueInv'
  <2>1. PICK upTo \in 0..NumMsgs : delivered <= upTo /\ upTo <= published /\ batch[w] = {}
                                  /\ Deliver(w, upTo)
    BY <1>2, ReadBounds
  <2> DEFINE new == {m \in Msgs : m > delivered /\ m <= upTo /\ m >= first}
  <2>2. /\ delivered' = upTo /\ pending' = pending \cup new
        /\ UNCHANGED <<published, first, handled>>
        /\ batch' = [batch EXCEPT ![w] = new] \/ UNCHANGED batch
    BY <2>1 DEF Deliver
  <2>3. new \subseteq Msgs /\ \A m \in new : m <= upTo
    OBVIOUS
  <2>4. \A m \in pending : m \in Nat /\ m <= delivered
    BY <1>0 DEF QueueTypeOK, InOrder, Msgs
  <2>5. \A v \in Workers : \A m \in batch[v] : m \in Nat /\ m <= delivered
    BY <1>0 DEF QueueTypeOK, InOrder, Msgs
  <2>6. delivered \in Nat /\ published \in Nat /\ upTo \in Nat
    BY <1>0 DEF QueueTypeOK
  <2> HIDE DEF new
  <2>7. QueueTypeOK'
    BY <1>0, <2>1, <2>2, <2>3 DEF QueueTypeOK
  <2>8. \A m \in pending' : m <= delivered'
    BY <2>1, <2>2, <2>3, <2>4, <2>6
  <2>9. ASSUME NEW v \in Workers, NEW m \in batch'[v]  PROVE m <= delivered'
    <3>1. m \in new \/ m \in batch[v]
      BY <1>0, <2>2, <2>9 DEF QueueTypeOK
    <3> QED
      BY <3>1, <2>1, <2>2, <2>3, <2>5, <2>6
  <2> QED
    BY <2>1, <2>2, <2>7, <2>8, <2>9 DEF InOrder
<1>3. ASSUME NEW w \in Workers, Reclaim(w)  PROVE QueueInv'
  BY <1>0, <1>3 DEF Reclaim, QueueTypeOK, InOrder
<1>4. ASSUME NEW w \in Workers, Abandon(w)  PROVE QueueInv'
  BY <1>0, <1>4 DEF Abandon, QueueTypeOK, InOrder
<1>5. ASSUME NEW w \in Workers, NEW ok \in BOOLEAN, Finish(w, ok)  PROVE QueueInv'
  <2>1. Oldest(w) \in batch[w]
    BY <1>0, <1>5, OldestInBatch DEF Finish
  <2>2. Oldest(w) \in Msgs
    BY <1>0, <2>1 DEF QueueTypeOK
  <2> QED
    BY <1>0, <1>5, <2>2 DEF Finish, QueueTypeOK, InOrder
<1> QED
  BY <1>1, <1>2, <1>3, <1>4, <1>5 DEF QueueStep

LEMMA QueueStepForgetsNothing ==
  ASSUME QueueInv, NothingForgotten, QueueStep
  PROVE  NothingForgotten'
<1> USE DEF QueueInv
<1>0. QueueTypeOK /\ InOrder /\ NumMsgs \in Nat
  BY QueueAssumption
<1>1. CASE Publish
  BY <1>0, <1>1 DEF Publish, QueueTypeOK, InOrder, Msgs, NothingForgotten
<1>2. ASSUME NEW w \in Workers, ReadGroup(w)  PROVE NothingForgotten'
  <2>1. PICK upTo \in 0..NumMsgs : delivered <= upTo /\ Deliver(w, upTo)
    BY <1>2, ReadBounds
  <2> QED
    BY <1>0, <2>1 DEF Deliver, NothingForgotten, Msgs, QueueTypeOK
<1>3. ASSUME NEW w \in Workers, Reclaim(w)  PROVE NothingForgotten'
  BY <1>0, <1>3 DEF Reclaim, NothingForgotten, Msgs, QueueTypeOK
<1>4. ASSUME NEW w \in Workers, Abandon(w)  PROVE NothingForgotten'
  BY <1>4 DEF Abandon, NothingForgotten
<1>5. ASSUME NEW w \in Workers, NEW ok \in BOOLEAN, Finish(w, ok)  PROVE NothingForgotten'
  BY <1>5 DEF Finish, NothingForgotten
<1> QED
  BY <1>1, <1>2, <1>3, <1>4, <1>5 DEF QueueStep

\* Nobody is given an entry that another worker has at hand.
SingleWorker == \E w : Workers = {w}
Prompt == SingleWorker \/ "slow" \notin Env

LEMMA QueueStepOneHandler ==
  ASSUME QueueInv, HandledByOne, QueueStep, Prompt
  PROVE  HandledByOne'
<1> SUFFICES ASSUME "slow" \notin Env PROVE HandledByOne'
  BY DEF Prompt, SingleWorker, HandledByOne
<1> USE DEF QueueInv
<1>0. QueueTypeOK /\ InOrder /\ NumMsgs \in Nat
  BY QueueAssumption
<1>1. CASE Publish
  BY <1>1 DEF Publish, HandledByOne
<1>2. ASSUME NEW w \in Workers, ReadGroup(w)  PROVE HandledByOne'
  <2>1. PICK upTo \in 0..NumMsgs : Deliver(w, upTo)
    BY <1>2, ReadBounds
  <2> DEFINE new == {m \in Msgs : m > delivered /\ m <= upTo /\ m >= first}
  <2>2. batch' = [batch EXCEPT ![w] = new] \/ UNCHANGED batch
    BY <2>1 DEF Deliver
  <2>3. \A v \in Workers : batch[v] \cap new = {}
    BY <1>0 DEF InOrder, QueueTypeOK, Msgs
  <2> HIDE DEF new
  <2> QED
    BY <1>0, <2>2, <2>3 DEF HandledByOne, QueueTypeOK
<1>3. ASSUME NEW w \in Workers, Reclaim(w)  PROVE HandledByOne'
  <2>1. PICK claimed \in SUBSET {m \in pending : Idle(m)} :
             batch' = [batch EXCEPT ![w] = {m \in claimed : m >= first}]
    BY <1>3 DEF Reclaim
  <2>2. \A v \in Workers : batch[v] \cap claimed = {}
    BY DEF Idle
  <2> QED
    BY <1>0, <2>1, <2>2 DEF HandledByOne, QueueTypeOK
<1>4. ASSUME NEW w \in Workers, Abandon(w)  PROVE HandledByOne'
  BY <1>0, <1>4 DEF Abandon, HandledByOne, QueueTypeOK
<1>5. ASSUME NEW w \in Workers, NEW ok \in BOOLEAN, Finish(w, ok)  PROVE HandledByOne'
  BY <1>0, <1>5 DEF Finish, HandledByOne, QueueTypeOK
<1> QED
  BY <1>1, <1>2, <1>3, <1>4, <1>5 DEF QueueStep

\* When no acknowledgement fails, a handled entry is out of the pending list
\* for good and at nobody's hand.
AckedOnce ==
  /\ \A w \in Workers : batch[w] \subseteq pending
  /\ handled \cap pending = {}
  /\ \A m \in handled : m <= delivered

LEMMA QueueStepAcks ==
  ASSUME QueueInv, HandledByOne, AckedOnce, QueueStep, "fault" \notin Env, Prompt
  PROVE  AckedOnce'
<1> USE DEF QueueInv
<1>0. QueueTypeOK /\ InOrder /\ NumMsgs \in Nat
  BY QueueAssumption
<1>1. CASE Publish
  BY <1>1 DEF Publish, AckedOnce
<1>2. ASSUME NEW w \in Workers, ReadGroup(w)  PROVE AckedOnce'
  <2>1. PICK upTo \in 0..NumMsgs : delivered <= upTo /\ Deliver(w, upTo)
    BY <1>2, ReadBounds
  <2> DEFINE new == {m \in Msgs : m > delivered /\ m <= upTo /\ m >= first}
  <2>2. /\ batch' = [batch EXCEPT ![w] = new] \/ UNCHANGED batch
        /\ pending' = pending \cup new /\ delivered' = upTo /\ UNCHANGED handled
    BY <2>1 DEF Deliver
  <2>3. new \cap handled = {}
    BY <1>0 DEF AckedOnce, QueueTypeOK, Msgs
  <2>4. \A m \in handled : m <= upTo
    BY <1>0, <2>1 DEF AckedOnce, QueueTypeOK, Msgs
  <2> HIDE DEF new
  <2> QED
    BY <1>0, <2>2, <2>3, <2>4 DEF AckedOnce, QueueTypeOK
<1>3. ASSUME NEW w \in Workers, Reclaim(w)  PROVE AckedOnce'
  <2>1. PICK claimed \in SUBSET {m \in pending : Idle(m)} :
          /\ pending' = pending \ {m \in claimed : m < first}
          /\ batch' = [batch EXCEPT ![w] = {m \in claimed : m >= first}]
    BY <1>3 DEF Reclaim
  <2>2. \A v \in Workers : v # w => batch[v] \cap claimed = {}
    <3>1. CASE SingleWorker
      BY <3>1 DEF SingleWorker
    <3>2. CASE "slow" \notin Env
      BY <3>2 DEF Idle
    <3> QED
      BY <3>1, <3>2 DEF Prompt
  <2>3. \A m \in claimed : m \in pending /\ m \in Int /\ first \in Int
    BY <1>0 DEF QueueTypeOK, Msgs
  <2>4. UNCHANGED <<handled, delivered>>
    BY <1>3 DEF Reclaim
  <2>5. ASSUME NEW v \in Workers  PROVE batch'[v] \subseteq pending'
    <3>1. CASE v = w
      BY <1>0, <2>1, <2>3, <3>1 DEF QueueTypeOK
    <3>2. CASE v # w
      BY <1>0, <2>1, <2>2, <3>2 DEF QueueTypeOK, AckedOnce
    <3> QED
      BY <3>1, <3>2
  <2> QED
    BY <2>1, <2>4, <2>5 DEF AckedOnce
<1>4. ASSUME NEW w \in Workers, Abandon(w)  PROVE AckedOnce'
  BY <1>0, <1>4 DEF Abandon, AckedOnce, QueueTypeOK
<1>5. ASSUME NEW w \in Workers, NEW ok \in BOOLEAN, Finish(w, ok)  PROVE AckedOnce'
  <2>1. Oldest(w) \in batch[w]
    BY <1>0, <1>5, OldestInBatch DEF Finish
  <2>2. \A v \in Workers : v # w => Oldest(w) \notin batch[v]
    BY <2>1 DEF HandledByOne
  <2>3. Oldest(w) <= delivered
    BY <1>0, <2>1 DEF InOrder
  <2>4. CASE ok
    <3>1. /\ batch' = [batch EXCEPT ![w] = @ \ {Oldest(w)}] /\ UNCHANGED delivered
          /\ handled' = handled \cup {Oldest(w)} /\ pending' = pending \ {Oldest(w)}
      BY <1>5, <2>4 DEF Finish
    <3> QED
      BY <1>0, <2>2, <2>3, <3>1 DEF AckedOnce, QueueTypeOK
  <2>5. CASE ~ok
    BY <1>0, <1>5, <2>5 DEF Finish, AckedOnce, QueueTypeOK
  <2> QED
    BY <2>4, <2>5
<1> QED
  BY <1>1, <1>2, <1>3, <1>4, <1>5 DEF QueueStep

LEMMA QueueNextIsStep == ASSUME QueueNext PROVE QueueStep
  BY DEF QueueNext, QueueStep, Die

LEMMA QueueStutters ==
  ASSUME UNCHANGED queueVars
  PROVE  /\ QueueInv => QueueInv'
         /\ NothingForgotten => NothingForgotten'
         /\ HandledByOne => HandledByOne'
         /\ AckedOnce => AckedOnce'
<1> USE DEF queueVars
<1>1. QueueInv => QueueInv'
  BY DEF QueueInv, QueueTypeOK, InOrder
<1>2. NothingForgotten => NothingForgotten'
  BY DEF NothingForgotten
<1>3. HandledByOne => HandledByOne'
  BY DEF HandledByOne
<1>4. AckedOnce => AckedOnce'
  BY DEF AckedOnce
<1> QED
  BY <1>1, <1>2, <1>3, <1>4

-----------------------------------------------------------------------------

(* However many workers there are and whatever goes wrong, an entry that   *)
(* is in the stream and has not been handled is still to be delivered or   *)
(* still pending (Publish, handleMessage).                                 *)
THEOREM QueueForgetsNothing == QueueSpec => []NothingForgotten
<1>1. QueueInit => QueueInv /\ NothingForgotten
  BY QueueInitInv
<1>2. QueueInv /\ NothingForgotten /\ [QueueNext]_queueVars => QueueInv' /\ NothingForgotten'
  BY QueueNextIsStep, QueueStepInv, QueueStepForgetsNothing, QueueStutters
<1> QED
  BY <1>1, <1>2, PTL DEF QueueSpec

(* As long as no batch is slower than MinIdle, no two workers of the group *)
(* have the same entry at hand, crashes and lost replies included          *)
(* (reclaimPendingMessages).                                               *)
THEOREM QueueHasOneHandler == "slow" \notin Env => (QueueSpec => []HandledByOne)
<1> SUFFICES ASSUME "slow" \notin Env PROVE QueueSpec => []HandledByOne
  OBVIOUS
<1>1. QueueInit => QueueInv /\ HandledByOne
  BY QueueInitInv
<1>2. QueueInv /\ HandledByOne /\ [QueueNext]_queueVars => QueueInv' /\ HandledByOne'
  BY QueueNextIsStep, QueueStepInv, QueueStepOneHandler, QueueStutters DEF Prompt
<1> QED
  BY <1>1, <1>2, PTL DEF QueueSpec
=============================================================================
