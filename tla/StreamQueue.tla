---------------------------- MODULE StreamQueue -----------------------------
(***************************************************************************)
(* pkg/queue/redis.go: a Redis stream read by one consumer group.  Entries *)
(* are identified by their position in the stream.  An entry handed to a   *)
(* consumer stays in the group's pending list until it is acknowledged;    *)
(* entries left pending are claimed again after five minutes.              *)
(*                                                                         *)
(* A worker handles its batch in stream order.  The spec below leaves the  *)
(* handler open (it succeeds or fails); FundCard supplies the real one.    *)
(***************************************************************************)
EXTENDS Integers

CONSTANTS
  Workers,    \* consumers of the group
  NumMsgs,    \* bound: entries ever published
  BatchSize,  \* Count of XREADGROUP (10 in the code)
  MaxLen,     \* MAXLEN of XADD (10000 in the code)
  Env         \* what may go wrong, see EnvFlags

EnvFlags == {
  "fault",    \* a call fails without effect
  "lost",     \* a call takes effect and its reply is lost
  "crash",    \* a worker dies; it restarts under a new consumer name
  "slow",     \* an entry is claimed while its consumer is still alive to handle it
  "lapse",    \* the treasury lock expires under its holder
  "redeem",   \* cards are redeemed while others are funded
  "channel"}  \* the treasury worker opens channels meanwhile

ASSUME QueueAssumption ==
  /\ NumMsgs \in Nat /\ BatchSize \in Nat \ {0} /\ MaxLen \in Nat \ {0}
  /\ Env \subseteq EnvFlags

Msgs == 1..NumMsgs

VARIABLES
  published,  \* entries published so far
  first,      \* oldest entry the stream retains
  delivered,  \* last entry delivered to the group
  pending,    \* entries delivered and not acknowledged (the PEL)
  batch,      \* what each worker still has to handle of what it read
  handled     \* entries for which a handler has returned nil

queueVars == <<published, first, delivered, pending, batch, handled>>

QueueTypeOK ==
  /\ published \in 0..NumMsgs
  /\ first \in 1..(NumMsgs + 1)
  /\ delivered \in 0..NumMsgs
  /\ pending \subseteq Msgs
  /\ batch \in [Workers -> SUBSET Msgs]
  /\ handled \subseteq Msgs

\* DeclareStream creates the group at the start of the stream ("0").
QueueInit ==
  /\ published = 0
  /\ first = 1
  /\ delivered = 0
  /\ pending = {}
  /\ batch = [w \in Workers |-> {}]
  /\ handled = {}

\* The entry a worker handles next.
Oldest(w) == CHOOSE m \in batch[w] : \A n \in batch[w] : m <= n

-----------------------------------------------------------------------------

\* XADD trims the stream to about MaxLen entries, delivered or not.
Publish ==
  /\ published < NumMsgs
  /\ published' = published + 1
  /\ first' \in {first} \cup {k \in 1..NumMsgs : k > first /\ published' - k + 1 >= MaxLen}
  /\ UNCHANGED <<delivered, pending, batch, handled>>

\* XREADGROUP ">": the next entries go to the pending list and to w, or only
\* to the pending list if the reply is lost.
Deliver(w, upTo) ==
  LET new == {m \in Msgs : m > delivered /\ m <= upTo /\ m >= first}
  IN  /\ delivered' = upTo
      /\ pending' = pending \cup new
      /\ \/ batch' = [batch EXCEPT ![w] = new]
         \/ "lost" \in Env /\ UNCHANGED batch
      /\ UNCHANGED <<published, first, handled>>

Least(a, b) == IF a < b THEN a ELSE b
Greatest(a, b) == IF a < b THEN b ELSE a

ReadGroup(w) ==
  LET from == Greatest(delivered, first - 1)
  IN  /\ batch[w] = {}
      /\ from < published
      /\ Deliver(w, Least(published, from + BatchSize))

\* Mutant: entries are claimed however recently they were delivered.
MutIdleAtOnce(m) == m \in pending

\* Entries that may have been idle for MinIdle (5 min): those no live worker
\* is going to handle, and, if batches can be that slow, any other.
Idle(m) ==
  /\ m \in pending
  /\ "slow" \in Env \/ \A w \in Workers : m \notin batch[w]

\* Mutant: pending entries are never claimed.
MutNoReclaim(w) == FALSE

\* reclaimPendingMessages (XAUTOCLAIM): entries trimmed from the stream are
\* dropped from the pending list, the others are handled again.
Reclaim(w) ==
  /\ batch[w] = {}
  /\ \E claimed \in SUBSET {m \in pending : Idle(m)} :
       /\ claimed # {}
       /\ pending' = pending \ {m \in claimed : m < first}
       /\ batch' = [batch EXCEPT ![w] = {m \in claimed : m >= first}]
  /\ UNCHANGED <<published, first, delivered, handled>>

\* Mutant: the entry is acknowledged whatever the handler returned.
MutAckAlways(w, ok) ==
  /\ batch[w] # {}
  /\ batch' = [batch EXCEPT ![w] = @ \ {Oldest(w)}]
  /\ handled' = IF ok THEN handled \cup {Oldest(w)} ELSE handled
  /\ pending' = pending \ {Oldest(w)}
  /\ UNCHANGED <<published, first, delivered>>

\* The end of handleMessage: XACK if the handler returned nil; its error is
\* ignored.
Finish(w, ok) ==
  /\ batch[w] # {}
  /\ batch' = [batch EXCEPT ![w] = @ \ {Oldest(w)}]
  /\ IF ok
       THEN /\ handled' = handled \cup {Oldest(w)}
            /\ \/ pending' = pending \ {Oldest(w)}
               \/ "fault" \in Env /\ UNCHANGED pending
       ELSE UNCHANGED <<handled, pending>>
  /\ UNCHANGED <<published, first, delivered>>

\* The worker dies with its batch unhandled, and comes back empty-handed.
Abandon(w) ==
  /\ batch[w] # {}
  /\ batch' = [batch EXCEPT ![w] = {}]
  /\ UNCHANGED <<published, first, delivered, pending, handled>>

Die(w) == "crash" \in Env /\ Abandon(w)

-----------------------------------------------------------------------------

QueueNext ==
  \/ Publish
  \/ \E w \in Workers : ReadGroup(w) \/ Reclaim(w) \/ Die(w) \/ \E ok \in BOOLEAN : Finish(w, ok)

QueueSpec == QueueInit /\ [][QueueNext]_queueVars

\* Consume loops for ever; an abandoned entry becomes idle and is claimed; a
\* handler that is called again and again for an entry succeeds in the end
\* (the handler's own progress is FundCard's concern); crashes stop.
QueueFairness ==
  /\ \A w \in Workers : /\ WF_queueVars(ReadGroup(w))
                        /\ WF_queueVars(\E ok \in BOOLEAN : Finish(w, ok))
  /\ \A m \in Msgs :
       /\ SF_queueVars(\E w \in Workers : Reclaim(w) /\ m \in batch'[w])
       /\ SF_queueVars(\E w \in Workers : batch[w] # {} /\ Oldest(w) = m /\ Finish(w, TRUE))
  /\ <>[][\A w \in Workers : ~Die(w)]_queueVars

FairQueueSpec == QueueSpec /\ QueueFairness

-----------------------------------------------------------------------------

(* No entry is forgotten: until a handler has returned nil for it, it is   *)
(* still to be delivered or still pending, unless the stream was trimmed   *)
(* past it (Publish, handleMessage).                                       *)
NothingForgotten ==
  \A m \in Msgs : m <= published =>
    m > delivered \/ m \in pending \/ m \in handled \/ m < first

(* Unless batches are slower than MinIdle, no two workers handle the same  *)
(* entry at the same time.                                                 *)
HandledByOne ==
  \A v, w \in Workers : v # w => batch[v] \cap batch[w] = {}

(* "recovers messages that were delivered but not acknowledged (e.g.,      *)
(* worker crashed before ACKing)": every entry is handled in the end.      *)
EveryMessageHandled ==
  \A m \in Msgs : m <= published ~> m \in handled \/ m < first
=============================================================================
