-------------------------- MODULE RedeemCardProofs --------------------------
(***************************************************************************)
(* Proofs about RedeemCard, for any number of cards, requests and invoices *)
(* and any amounts.                                                        *)
(***************************************************************************)
EXTENDS RedeemCard, TLAPS

(* Every variable keeps its type; in particular a balance is never         *)
(* negative, because what is spent was checked against the balance read.   *)
Reserved(r) ==
  pc[r] \in {"pay", "paying", "record"} => /\ AmountOf(r) > 0
                                           /\ AmountOf(r) <= read[r]

TypeInv ==
  /\ TypeOK
  /\ \A r \in Requests : Reserved(r)
  /\ \A r \in Requests : pc[r] = "validate" => AmountOf(r) > 0
  /\ \A r \in Requests :
       pc[r] \in {"lock", "validate", "pay", "paying", "record"} => attempt[r] < MaxAttempts

LEMMA RequestTypes ==
  ASSUME TypeInv, NEW r \in Requests
  PROVE  /\ CardOf(r) \in Cards
         /\ InvoiceOf(r) \in Invoices
         /\ AmountOf(r) \in Int
         /\ read[r] \in Nat
         /\ attempt[r] \in Nat
<1>1. req[r] \in [card : Cards, invoice : Invoices, amount : Amounts]
  BY DEF TypeInv, TypeOK, Redemption
<1>2. AmountOf(r) \in Amounts /\ CardOf(r) \in Cards /\ InvoiceOf(r) \in Invoices
  BY <1>1 DEF CardOf, InvoiceOf, AmountOf
<1>3. Amounts \subseteq Int /\ MaxAttempts \in Nat
  BY RedeemAssumption
<1>4. read[r] \in Nat /\ attempt[r] \in Nat
  BY <1>3 DEF TypeInv, TypeOK
<1> QED BY <1>2, <1>3, <1>4

\* A failed attempt keeps the types of what it changes.
LEMMA AttemptTypes ==
  ASSUME TypeInv, NEW r \in Requests, pc[r] = "record", AttemptFailed(r)
  PROVE  /\ attempt' \in [Requests -> 0..MaxAttempts]
         /\ pc' \in [Requests -> Locations]
         /\ result' \in [Requests -> Results]
         /\ \A s \in Requests \ {r} : pc'[s] = pc[s] /\ attempt'[s] = attempt[s]
         /\ \/ pc'[r] = "record" /\ attempt'[r] < MaxAttempts
            \/ pc'[r] = "unlock"
<1>1. attempt[r] \in Nat /\ attempt[r] < MaxAttempts /\ attempt[r] + 1 \in 0..MaxAttempts
  BY RedeemAssumption DEF TypeInv, TypeOK
<1>2. attempt' \in [Requests -> 0..MaxAttempts] /\ attempt'[r] = attempt[r] + 1
  BY <1>1 DEF AttemptFailed, TypeInv, TypeOK
<1>3. CASE attempt[r] + 1 < MaxAttempts
  BY <1>2, <1>3 DEF AttemptFailed, TypeInv, TypeOK
<1>4. CASE ~(attempt[r] + 1 < MaxAttempts)
  BY <1>2, <1>4 DEF AttemptFailed, TypeInv, TypeOK, Goto, Answer, Locations, Results
<1> QED BY <1>3, <1>4

LEMMA InitType == Init => TypeInv
BY RedeemAssumption DEF Init, TypeInv, TypeOK, Reserved, AmountOf, Redemption, Locations, Results

LEMMA NextType == TypeInv /\ [Next]_vars => TypeInv'
<1> SUFFICES ASSUME TypeInv, [Next]_vars PROVE TypeInv'
  OBVIOUS
<1> USE RedeemAssumption DEF TypeInv, TypeOK, Reserved, Redemption, Locations, Results,
        CardOf, InvoiceOf, AmountOf, Goto, Answer, vars, dbVars, lndVars
<1>1. ASSUME NEW r \in Requests, Lock(r) PROVE TypeInv'
  <2>1. CASE RejectRequest(r) BY <2>1 DEF RejectRequest
  <2>2. CASE AcquireCardLock(r) BY <2>2 DEF AcquireCardLock
  <2>3. CASE CardLockRefused(r) BY <2>3 DEF CardLockRefused
  <2> QED BY <1>1, <2>1, <2>2, <2>3 DEF Lock
<1>2. ASSUME NEW r \in Requests, Validate(r) PROVE TypeInv'
  <2>1. CASE ValidateCard(r) BY <2>1 DEF ValidateCard, Spendable
  <2>2. CASE CardRefused(r) BY <2>2 DEF CardRefused
  <2> QED BY <1>2, <2>1, <2>2 DEF Validate
<1>3. ASSUME NEW r \in Requests, Pay(r) PROVE TypeInv'
  <2>1. CASE InvoiceRefused(r) BY <2>1 DEF InvoiceRefused
  <2>2. CASE SendPayment(r) BY <2>2 DEF SendPayment
  <2>3. CASE AlreadyPaid(r) BY <2>3 DEF AlreadyPaid
  <2> QED BY <1>3, <2>1, <2>2, <2>3 DEF Pay
<1>4. ASSUME NEW r \in Requests, AwaitPayment(r) PROVE TypeInv'
  <2>1. CASE PaymentSucceeded(r) BY <2>1 DEF PaymentSucceeded
  <2>2. CASE PaymentFailed(r) BY <2>2 DEF PaymentFailed
  <2>3. CASE StreamBroken(r) BY <2>3 DEF StreamBroken
  <2> QED BY <1>4, <2>1, <2>2, <2>3 DEF AwaitPayment
<1>5. ASSUME NEW r \in Requests, Write(r) PROVE TypeInv'
  <2>1. CASE Record(r)
    <3>1. read[r] - AmountOf(r) \in Nat /\ AmountOf(r) \in Nat
      BY <2>1, RequestTypes DEF Record
    <3>2. /\ status' \in [Cards -> {"active", "redeemed"}] /\ sats' \in [Cards -> Nat]
          /\ row' \in [Invoices -> Cards \cup {None}] /\ spent' \in [Cards -> Nat]
      BY <2>1, <3>1 DEF Record, Debit
    <3> QED BY <2>1, <3>2 DEF Record
  <2>2. CASE RecordAckLost(r)
    <3>1. read[r] - AmountOf(r) \in Nat /\ AmountOf(r) \in Nat
      BY <2>2, RequestTypes DEF RecordAckLost
    <3>2. /\ status' \in [Cards -> {"active", "redeemed"}] /\ sats' \in [Cards -> Nat]
          /\ row' \in [Invoices -> Cards \cup {None}] /\ spent' \in [Cards -> Nat]
      BY <2>2, <3>1 DEF RecordAckLost, Debit
    <3>3. UNCHANGED <<lock, payment, payer, req, read>> /\ pc[r] = "record" /\ AttemptFailed(r)
      BY <2>2 DEF RecordAckLost
    <3>4. TypeOK'
      BY <3>2, <3>3, AttemptTypes
    <3>5. \A s \in Requests : Reserved(s)'
      BY <3>3, AttemptTypes
    <3> QED BY <3>3, <3>4, <3>5, AttemptTypes
  <2>3. CASE RecordFailed(r) BY <2>3, AttemptTypes DEF RecordFailed
  <2>4. CASE RetryCancelled(r) BY <2>4 DEF RetryCancelled
  <2> QED BY <1>5, <2>1, <2>2, <2>3, <2>4 DEF Write
<1>6. ASSUME NEW r \in Requests, ReleaseCardLock(r) PROVE TypeInv'
  BY <1>6 DEF ReleaseCardLock
<1>7. ASSUME NEW r \in Requests, Crash(r) PROVE TypeInv'
  BY <1>7 DEF Crash, Running
<1>8. ASSUME NEW i \in Invoices, ResolvePayment(i) PROVE TypeInv'
  BY <1>8 DEF ResolvePayment
<1>9. ASSUME NEW c \in Cards, CardLockExpires(c) PROVE TypeInv'
  BY <1>9 DEF CardLockExpires
<1>10. CASE UNCHANGED vars
  BY <1>10
<1> QED BY <1>1, <1>2, <1>3, <1>4, <1>5, <1>6, <1>7, <1>8, <1>9, <1>10 DEF Next, RequestStep

(* TypeOK holds in every reachable state.                                  *)
THEOREM TypeCorrect == Spec => []TypeOK
<1>1. TypeInv => TypeOK
  BY DEF TypeInv
<1> QED BY InitType, NextType, <1>1, PTL DEF Spec

-----------------------------------------------------------------------------
(* Only three kinds of step matter to the books: a request reads the       *)
(* balance, a request debits the card, and everything else.                *)

Spending == {"pay", "paying", "record"}

DebitStep(r) ==
  /\ pc[r] = "record"
  /\ Debit(r)
  /\ pc'[r] \in {"record", "unlock"}
  /\ \A s \in Requests \ {r} : pc'[s] = pc[s]
  /\ UNCHANGED <<lock, req, read>>

QuietStep ==
  /\ UNCHANGED <<status, sats, row, spent, req, read>>
  /\ \A s \in Requests :
       /\ pc'[s] \in Spending => pc[s] \in Spending
       /\ pc'[s] \in {"pay", "paying"} => pc[s] \in {"pay", "paying"}

LEMMA StepKinds ==
  ASSUME TypeInv, [Next]_vars
  PROVE  \/ QuietStep
         \/ \E r \in Requests : ValidateCard(r)
         \/ \E r \in Requests : DebitStep(r)
<1> USE DEF Goto, Answer, vars, dbVars, lndVars, Spending
<1>0. pc \in [Requests -> Locations]
  BY DEF TypeInv, TypeOK
<1>1. ASSUME NEW r \in Requests, Lock(r) PROVE QuietStep
  BY <1>0, <1>1 DEF QuietStep, Lock, RejectRequest, AcquireCardLock, CardLockRefused
<1>2. ASSUME NEW r \in Requests, CardRefused(r) PROVE QuietStep
  BY <1>0, <1>2 DEF QuietStep, CardRefused
<1>3. ASSUME NEW r \in Requests, Pay(r) PROVE QuietStep
  BY <1>0, <1>3 DEF QuietStep, Pay, InvoiceRefused, SendPayment, AlreadyPaid
<1>4. ASSUME NEW r \in Requests, AwaitPayment(r) PROVE QuietStep
  BY <1>0, <1>4 DEF QuietStep, AwaitPayment, PaymentSucceeded, PaymentFailed, StreamBroken
<1>5. ASSUME NEW r \in Requests, Record(r) PROVE DebitStep(r)
  BY <1>0, <1>5 DEF DebitStep, Record, Debit
<1>6. ASSUME NEW r \in Requests, RecordAckLost(r) PROVE DebitStep(r)
  BY <1>0, <1>6, AttemptTypes DEF DebitStep, RecordAckLost, Debit
<1>7. ASSUME NEW r \in Requests, RecordFailed(r) PROVE QuietStep
  BY <1>0, <1>7, AttemptTypes DEF QuietStep, RecordFailed
<1>8. ASSUME NEW r \in Requests, RetryCancelled(r) PROVE QuietStep
  BY <1>0, <1>8 DEF QuietStep, RetryCancelled
<1>9. ASSUME NEW r \in Requests, ReleaseCardLock(r) PROVE QuietStep
  BY <1>0, <1>9 DEF QuietStep, ReleaseCardLock
<1>10. ASSUME NEW r \in Requests, Crash(r) PROVE QuietStep
  BY <1>0, <1>10 DEF QuietStep, Crash
<1>11. ASSUME NEW i \in Invoices, ResolvePayment(i) PROVE QuietStep
  BY <1>11 DEF QuietStep, ResolvePayment
<1>12. ASSUME NEW c \in Cards, CardLockExpires(c) PROVE QuietStep
  BY <1>12 DEF QuietStep, CardLockExpires
<1>13. CASE UNCHANGED vars
  BY <1>13 DEF QuietStep
<1> QED
  BY <1>1, <1>2, <1>3, <1>4, <1>5, <1>6, <1>7, <1>8, <1>9, <1>10, <1>11, <1>12, <1>13
  DEF Next, RequestStep, Validate, Write

-----------------------------------------------------------------------------
(* Whatever the lock does, the holder of a card never loses value.         *)

\* The balance a request will write back was right, or too high, when the
\* card's spending is taken into account.
CreditInv ==
  /\ NeverUndercredited
  /\ \A r \in Requests : pc[r] \in Spending => read[r] + spent[CardOf(r)] >= Face[CardOf(r)]

LEMMA NextCredit == TypeInv /\ CreditInv /\ [Next]_vars => CreditInv'
<1> SUFFICES ASSUME TypeInv, CreditInv, [Next]_vars PROVE CreditInv'
  OBVIOUS
<1> USE RedeemAssumption DEF CreditInv, NeverUndercredited
<1>0. /\ Face \in [Cards -> Nat] /\ sats \in [Cards -> Nat] /\ spent \in [Cards -> Nat]
      /\ read \in [Requests -> Nat] /\ pc \in [Requests -> Locations]
  BY DEF TypeInv, TypeOK
<1>1. CASE QuietStep
  <2>1. \A r \in Requests : CardOf(r)' = CardOf(r) /\ read'[r] = read[r]
    BY <1>1 DEF QuietStep, CardOf
  <2> QED BY <1>1, <2>1 DEF QuietStep
<1>2. ASSUME NEW r \in Requests, ValidateCard(r) PROVE CreditInv'
  <2>1. UNCHANGED <<sats, spent, req>> /\ read'[r] = sats[CardOf(r)]
    BY <1>0, <1>2 DEF ValidateCard, dbVars
  <2>2. \A s \in Requests \ {r} : read'[s] = read[s] /\ pc'[s] = pc[s]
    BY <1>0, <1>2 DEF ValidateCard, Goto
  <2> QED BY <1>0, <2>1, <2>2, RequestTypes DEF CardOf
<1>3. ASSUME NEW r \in Requests, DebitStep(r) PROVE CreditInv'
  <2> DEFINE c == CardOf(r)
             a == AmountOf(r)
  <2>1. c \in Cards /\ a \in Nat /\ read[r] \in Nat /\ read[r] + spent[c] >= Face[c]
    BY <1>3, RequestTypes DEF DebitStep, TypeInv, Reserved, Spending
  <2>2. /\ sats'[c] = read[r] - a /\ spent'[c] = spent[c] + a
        /\ \A d \in Cards \ {c} : sats'[d] = sats[d] /\ spent'[d] = spent[d]
    BY <1>0, <1>3, <2>1 DEF DebitStep, Debit
  <2>3. \A d \in Cards : spent'[d] >= spent[d] /\ spent'[d] \in Nat
    <3> HIDE DEF c, a
    <3> QED BY <1>0, <2>1, <2>2
  <2>4. NeverUndercredited'
    <3> HIDE DEF c, a
    <3> QED BY <1>0, <2>1, <2>2
  <2>5. ASSUME NEW s \in Requests, pc'[s] \in Spending
        PROVE  read'[s] + spent'[CardOf(s)'] >= Face[CardOf(s)']
    <3>1. CardOf(s)' = CardOf(s) /\ read'[s] = read[s] /\ pc[s] \in Spending
      BY <1>3, <2>5 DEF DebitStep, CardOf, Spending
    <3>2. CardOf(s) \in Cards /\ read[s] \in Nat
      BY RequestTypes
    <3> QED BY <1>0, <2>3, <3>1, <3>2
  <2> QED BY <2>4, <2>5
<1> QED BY <1>1, <1>2, <1>3, StepKinds

(* NeverUndercredited, with or without expiry of the lock under a request. *)
THEOREM HolderNeverLoses == Spec => []NeverUndercredited
<1>1. Init => CreditInv
  BY RedeemAssumption DEF Init, CreditInv, NeverUndercredited, Spending
<1>2. CreditInv => NeverUndercredited
  BY DEF CreditInv
<1> QED BY InitType, NextType, NextCredit, <1>1, <1>2, PTL DEF Spec

-----------------------------------------------------------------------------
(* Mutual exclusion, when a key outlives the request that set it.          *)

\* Whoever is past the lock of a card still holds it.
LockInv ==
  \A r \in Requests : InCriticalSection(r) => lock[CardOf(r)] = r

LEMMA NextLock ==
  ASSUME ~TtlMayLapse, TypeInv, LockInv, [Next]_vars
  PROVE  LockInv'
<1> USE RedeemAssumption DEF LockInv, InCriticalSection
<1>0. /\ lock \in [Cards -> Requests \cup {None}]
      /\ pc \in [Requests -> Locations]
      /\ \A r \in Requests : CardOf(r) \in Cards
  BY RequestTypes DEF TypeInv, TypeOK
<1>1. ASSUME NEW r \in Requests, Lock(r) PROVE LockInv'
  <2>1. CASE RejectRequest(r)
    BY <1>0, <2>1 DEF RejectRequest, CardOf, Goto
  <2>2. CASE AcquireCardLock(r)
    BY <1>0, <2>2 DEF AcquireCardLock, CardOf, Goto
  <2>3. CASE CardLockRefused(r)
    BY <1>0, <2>3 DEF CardLockRefused, CardOf, Goto
  <2> QED BY <1>1, <2>1, <2>2, <2>3 DEF Lock
<1>2. ASSUME NEW r \in Requests, ReleaseCardLock(r) PROVE LockInv'
  BY <1>0, <1>2 DEF ReleaseCardLock, CardOf, Goto
<1>3. ASSUME NEW c \in Cards, CardLockExpires(c) PROVE LockInv'
  <2>1. lock[c] \in Requests /\ ~InCriticalSection(lock[c])
    BY <1>0, <1>3 DEF CardLockExpires, Running, Locations
  <2> QED BY <1>0, <1>3, <2>1 DEF CardLockExpires, CardOf
<1>4. ASSUME UNCHANGED <<lock, req>>,
             \A s \in Requests : InCriticalSection(s)' => InCriticalSection(s)
      PROVE  LockInv'
  BY <1>0, <1>4 DEF CardOf
<1>5. ASSUME NEW r \in Requests, Validate(r) PROVE LockInv'
  BY <1>0, <1>4, <1>5 DEF Validate, ValidateCard, CardRefused, Goto
<1>6. ASSUME NEW r \in Requests, Pay(r) PROVE LockInv'
  BY <1>0, <1>4, <1>6 DEF Pay, InvoiceRefused, SendPayment, AlreadyPaid, Goto
<1>7. ASSUME NEW r \in Requests, AwaitPayment(r) PROVE LockInv'
  BY <1>0, <1>4, <1>7 DEF AwaitPayment, PaymentSucceeded, PaymentFailed, StreamBroken, Goto
<1>8. ASSUME NEW r \in Requests, Write(r) PROVE LockInv'
  BY <1>0, <1>4, <1>8, AttemptTypes
  DEF Write, Record, RecordAckLost, RecordFailed, RetryCancelled, Goto
<1>9. ASSUME NEW r \in Requests, Crash(r) PROVE LockInv'
  BY <1>0, <1>4, <1>9 DEF Crash, Goto
<1>10. ASSUME NEW i \in Invoices, ResolvePayment(i) PROVE LockInv'
  BY <1>4, <1>10 DEF ResolvePayment
<1>11. CASE UNCHANGED vars
  BY <1>4, <1>11 DEF vars
<1> QED BY <1>1, <1>2, <1>3, <1>5, <1>6, <1>7, <1>8, <1>9, <1>10, <1>11 DEF Next, RequestStep

LEMMA InitLock == Init => LockInv
BY DEF Init, LockInv, InCriticalSection

LEMMA LockExcludes == LockInv => MutualExclusion
BY DEF LockInv, MutualExclusion

(* MutualExclusion.                                                        *)
THEOREM LockIsExclusive == ~TtlMayLapse => (Spec => []MutualExclusion)
<1> SUFFICES ASSUME ~TtlMayLapse PROVE Spec => []MutualExclusion
  OBVIOUS
<1>1. TypeInv /\ LockInv /\ [Next]_vars => LockInv'
  BY NextLock
<1> QED BY InitType, NextType, InitLock, LockExcludes, <1>1, PTL DEF Spec

-----------------------------------------------------------------------------
(* The books balance, when a key outlives the request that set it.         *)

\* The balance a request has read is still the balance of its card, until
\* its own debit is in the database.
Fresh(r) == read[r] = sats[CardOf(r)] /\ status[CardOf(r)] = "active"

BooksInv ==
  /\ Conservation
  /\ RedeemedIffEmpty
  /\ \A r \in Requests : pc[r] \in {"pay", "paying"} => Fresh(r)
  /\ \A r \in Requests : (pc[r] = "record" /\ row[InvoiceOf(r)] = None) => Fresh(r)

\* A debit by the holder of the lock is a Spend of the abstract ledger.
LEMMA DebitIsSpend ==
  ASSUME TypeInv, BooksInv, NEW r \in Requests, DebitStep(r)
  PROVE  /\ Ledger!Spend(CardOf(r), AmountOf(r))
         /\ AmountOf(r) \in 1..sats[CardOf(r)]
<1>1. /\ CardOf(r) \in Cards /\ AmountOf(r) \in Nat
      /\ AmountOf(r) > 0 /\ AmountOf(r) <= read[r]
  BY RequestTypes DEF DebitStep, TypeInv, Reserved
<1>2. Fresh(r)
  BY DEF DebitStep, Debit, BooksInv
<1>3. sats[CardOf(r)] \in Nat /\ status \in [Cards -> {"active", "redeemed"}]
  BY <1>1 DEF TypeInv, TypeOK
<1> QED BY <1>1, <1>2, <1>3 DEF Fresh, DebitStep, Debit, Ledger!Spend

LEMMA NextBooks ==
  ASSUME TypeInv, LockInv, BooksInv, [Next]_vars
  PROVE  BooksInv'
<1> USE RedeemAssumption
<1>0. /\ Face \in [Cards -> Nat] /\ sats \in [Cards -> Nat] /\ spent \in [Cards -> Nat]
      /\ status \in [Cards -> {"active", "redeemed"}]
      /\ row \in [Invoices -> Cards \cup {None}]
      /\ read \in [Requests -> Nat] /\ pc \in [Requests -> Locations]
      /\ \A r \in Requests : CardOf(r) \in Cards /\ InvoiceOf(r) \in Invoices
  BY RequestTypes DEF TypeInv, TypeOK
<1>1. CASE QuietStep
  <2>1. UNCHANGED <<sats, spent, status, row, read>>
    BY <1>1 DEF QuietStep
  <2>2. \A r \in Requests : CardOf(r)' = CardOf(r) /\ InvoiceOf(r)' = InvoiceOf(r)
    BY <1>1 DEF QuietStep, CardOf, InvoiceOf
  <2>3. ASSUME NEW r \in Requests PROVE Fresh(r)' <=> Fresh(r)
    <3>1. CardOf(r)' = CardOf(r)
      BY <2>2
    <3> QED BY <2>1, <3>1 DEF Fresh
  <2>4. Conservation' /\ RedeemedIffEmpty'
    BY <2>1 DEF BooksInv, Conservation, RedeemedIffEmpty
  <2>5. ASSUME NEW r \in Requests, pc'[r] \in {"pay", "paying"} PROVE Fresh(r)'
    BY <1>1, <2>3, <2>5 DEF BooksInv, QuietStep
  <2>6. ASSUME NEW r \in Requests, pc'[r] = "record", row'[InvoiceOf(r)'] = None PROVE Fresh(r)'
    <3>1. pc[r] \in Spending /\ row[InvoiceOf(r)] = None
      BY <1>1, <2>1, <2>2, <2>6 DEF QuietStep, Spending
    <3> QED BY <2>3, <3>1 DEF BooksInv, Spending
  <2> QED BY <2>4, <2>5, <2>6 DEF BooksInv
<1>2. ASSUME NEW r \in Requests, ValidateCard(r) PROVE BooksInv'
  <2>1. UNCHANGED <<sats, spent, status, row, req>> /\ read'[r] = sats[CardOf(r)] /\ pc'[r] = "pay"
    BY <1>0, <1>2 DEF ValidateCard, dbVars, Goto
  <2>2. \A s \in Requests \ {r} : read'[s] = read[s] /\ pc'[s] = pc[s]
    BY <1>0, <1>2 DEF ValidateCard, Goto
  <2>3. \A s \in Requests : CardOf(s)' = CardOf(s) /\ InvoiceOf(s)' = InvoiceOf(s)
    BY <2>1 DEF CardOf, InvoiceOf
  <2>4. Fresh(r)'
    BY <1>2, <2>1, <2>3 DEF Fresh, ValidateCard, Spendable
  <2>5. \A s \in Requests \ {r} : Fresh(s)' <=> Fresh(s)
    BY <2>1, <2>2, <2>3 DEF Fresh
  <2> QED BY <2>1, <2>2, <2>3, <2>4, <2>5 DEF BooksInv, Conservation, RedeemedIffEmpty
<1>3. ASSUME NEW r \in Requests, DebitStep(r) PROVE BooksInv'
  <2> DEFINE c == CardOf(r)
             a == AmountOf(r)
  <2>1. /\ c \in Cards /\ a \in 1..sats[c] /\ status[c] = "active"
        /\ sats' = [sats EXCEPT ![c] = @ - a]
        /\ spent' = [spent EXCEPT ![c] = @ + a]
        /\ status' = [status EXCEPT ![c] = IF sats[c] = a THEN "redeemed" ELSE @]
    BY <1>0, <1>3, DebitIsSpend DEF Ledger!Spend
  <2>2. Conservation' /\ RedeemedIffEmpty'
    <3> HIDE DEF c, a
    <3> QED BY <1>0, <2>1 DEF BooksInv, Conservation, RedeemedIffEmpty
  <2>3. row'[InvoiceOf(r)] # None /\ pc'[r] \notin {"pay", "paying"}
    BY <1>0, <1>3 DEF DebitStep, Debit
  <2>4. \A s \in Requests : CardOf(s)' = CardOf(s) /\ InvoiceOf(s)' = InvoiceOf(s)
    BY <1>3 DEF DebitStep, CardOf, InvoiceOf
  <2>5. ASSUME NEW s \in Requests \ {r}, pc[s] \in Spending PROVE Fresh(s)' <=> Fresh(s)
    <3>1. CardOf(s) # c
      BY <1>3, <2>5 DEF LockInv, InCriticalSection, DebitStep, Spending
    <3>2. sats'[CardOf(s)] = sats[CardOf(s)] /\ status'[CardOf(s)] = status[CardOf(s)]
      <4> HIDE DEF c, a
      <4> QED BY <1>0, <2>1, <3>1
    <3> QED BY <1>3, <2>4, <3>2 DEF Fresh, DebitStep
  <2>6. \A s \in Requests \ {r} : pc'[s] = pc[s] /\ (row'[InvoiceOf(s)] = None => row[InvoiceOf(s)] = None)
    BY <1>0, <1>3 DEF DebitStep, Debit
  <2>7. \A s \in Requests : pc'[s] \in {"pay", "paying"} => Fresh(s)'
    BY <2>3, <2>5, <2>6 DEF BooksInv, Spending
  <2>8. \A s \in Requests : (pc'[s] = "record" /\ row'[InvoiceOf(s)'] = None) => Fresh(s)'
    BY <2>3, <2>4, <2>5, <2>6 DEF BooksInv, Spending
  <2> QED BY <2>2, <2>7, <2>8 DEF BooksInv
<1> QED BY <1>1, <1>2, <1>3, StepKinds

LEMMA InitBooks == Init => BooksInv
BY RedeemAssumption DEF Init, BooksInv, Conservation, RedeemedIffEmpty

(* Conservation and RedeemedIffEmpty.                                      *)
THEOREM BooksBalance == ~TtlMayLapse => (Spec => [](Conservation /\ RedeemedIffEmpty))
<1> SUFFICES ASSUME ~TtlMayLapse PROVE Spec => [](Conservation /\ RedeemedIffEmpty)
  OBVIOUS
<1>1. TypeInv /\ LockInv /\ [Next]_vars => LockInv'
  BY NextLock
<1>2. TypeInv /\ LockInv /\ BooksInv /\ [Next]_vars => BooksInv'
  BY NextBooks
<1>3. BooksInv => Conservation /\ RedeemedIffEmpty
  BY DEF BooksInv
<1> QED BY InitType, NextType, InitLock, InitBooks, <1>1, <1>2, <1>3, PTL DEF Spec

(* The redemption protocol implements the abstract ledger.                 *)
THEOREM ImplementsLedger == ~TtlMayLapse => (Spec => LedgerSpec)
<1> SUFFICES ASSUME ~TtlMayLapse PROVE Spec => LedgerSpec
  OBVIOUS
<1>1. TypeInv /\ LockInv /\ [Next]_vars => LockInv'
  BY NextLock
<1>2. TypeInv /\ LockInv /\ BooksInv /\ [Next]_vars => BooksInv'
  BY NextBooks
<1>3. Init => Ledger!Init
  BY DEF Init, Ledger!Init
<1>4. ASSUME TypeInv, BooksInv, [Next]_vars PROVE [Ledger!Next]_(Ledger!vars)
  <2>1. CASE QuietStep
    BY <2>1 DEF QuietStep, Ledger!vars
  <2>2. ASSUME NEW r \in Requests, ValidateCard(r) PROVE UNCHANGED Ledger!vars
    BY <2>2 DEF ValidateCard, dbVars, Ledger!vars
  <2>3. ASSUME NEW r \in Requests, DebitStep(r) PROVE Ledger!Next
    BY <1>4, <2>3, DebitIsSpend, RequestTypes DEF Ledger!Next
  <2> QED BY <1>4, <2>1, <2>2, <2>3, StepKinds
<1>5. TypeInv /\ BooksInv /\ [Next]_vars => [Ledger!Next]_(Ledger!vars)
  BY <1>4
<1> QED
  BY InitType, NextType, InitLock, InitBooks, <1>1, <1>2, <1>3, <1>5, PTL
  DEF Spec, LedgerSpec, Ledger!Spec

(* RedeemedIsFinal.                                                        *)
THEOREM ClosedForGood == ~TtlMayLapse => (Spec => RedeemedIsFinal)
<1> SUFFICES ASSUME ~TtlMayLapse PROVE Spec => RedeemedIsFinal
  OBVIOUS
<1>1. TypeInv /\ LockInv /\ [Next]_vars => LockInv'
  BY NextLock
<1>2. TypeInv /\ LockInv /\ BooksInv /\ [Next]_vars => BooksInv'
  BY NextBooks
<1>3. ASSUME TypeInv, BooksInv, [Next]_vars, NEW c \in Cards, status[c] = "redeemed"
      PROVE  status'[c] = "redeemed"
  <2>1. CASE QuietStep
    BY <1>3, <2>1 DEF QuietStep
  <2>2. ASSUME NEW r \in Requests, ValidateCard(r) PROVE status'[c] = "redeemed"
    BY <1>3, <2>2 DEF ValidateCard, dbVars
  <2>3. ASSUME NEW r \in Requests, DebitStep(r) PROVE status'[c] = "redeemed"
    <3>1. Ledger!Spend(CardOf(r), AmountOf(r)) /\ status \in [Cards -> {"active", "redeemed"}]
      BY <1>3, <2>3, DebitIsSpend DEF TypeInv, TypeOK
    <3> QED BY <1>3, <3>1 DEF Ledger!Spend
  <2> QED BY <1>3, <2>1, <2>2, <2>3, StepKinds
<1>4. TypeInv /\ BooksInv /\ [Next]_vars
        => [\A c \in Cards : status[c] = "redeemed" => status'[c] = "redeemed"]_vars
  BY <1>3
<1> QED
  BY InitType, NextType, InitLock, InitBooks, <1>1, <1>2, <1>4, PTL DEF Spec, RedeemedIsFinal

(* PaymentIsCovered.                                                       *)
THEOREM NoUncoveredPayment == ~TtlMayLapse => (Spec => PaymentIsCovered)
<1> SUFFICES ASSUME ~TtlMayLapse PROVE Spec => PaymentIsCovered
  OBVIOUS
<1>1. TypeInv /\ LockInv /\ [Next]_vars => LockInv'
  BY NextLock
<1>2. TypeInv /\ LockInv /\ BooksInv /\ [Next]_vars => BooksInv'
  BY NextBooks
<1>3. ASSUME TypeInv, BooksInv, NEW r \in Requests, pc[r] = "pay"
      PROVE  status[CardOf(r)] = "active" /\ AmountOf(r) <= sats[CardOf(r)]
  BY <1>3 DEF BooksInv, Fresh, TypeInv, Reserved
<1>4. TypeInv /\ BooksInv /\ [Next]_vars
        => [\A r \in Requests :
              (pc[r] = "pay" /\ pc'[r] = "paying") =>
                status[CardOf(r)] = "active" /\ AmountOf(r) <= sats[CardOf(r)]]_vars
  BY <1>3
<1> QED
  BY InitType, NextType, InitLock, InitBooks, <1>1, <1>2, <1>4, PTL DEF Spec, PaymentIsCovered

-----------------------------------------------------------------------------
(* No payment is lost without a trace, with or without expiry of the lock. *)

\* Where the request that paid an invoice, or is paying it, can be.
Traced(r) ==
  \/ row[InvoiceOf(r)] = CardOf(r)
  \/ pc[r] \in {"paying", "record", "crashed"}
  \/ result[r] \in {"unknown", "critical"}

PaidBy(r) == payment[InvoiceOf(r)] = "settled" /\ payer[InvoiceOf(r)] = r

TraceInv ==
  /\ \A r \in Requests : result[r] # "none" => pc[r] \in {"unlock", "done", "crashed"}
  /\ \A i \in Invoices :
       payment[i] \in {"inflight", "settled"} =>
         payer[i] \in Requests /\ InvoiceOf(payer[i]) = i /\ Traced(payer[i])
  /\ \A r \in Requests : pc[r] = "record" => PaidBy(r)
  /\ \A r \in Requests : result[r] = "ok" => PaidBy(r) /\ row[InvoiceOf(r)] = CardOf(r)

LEMMA NextTrace ==
  ASSUME TypeInv, TraceInv, [Next]_vars
  PROVE  TraceInv'
<1> USE RedeemAssumption
<1>0. /\ row \in [Invoices -> Cards \cup {None}]
      /\ payment \in [Invoices -> {"none", "inflight", "settled", "failed"}]
      /\ payer \in [Invoices -> Requests \cup {None}]
      /\ pc \in [Requests -> Locations] /\ result \in [Requests -> Results]
      /\ \A r \in Requests : CardOf(r) \in Cards /\ InvoiceOf(r) \in Invoices
  BY RequestTypes DEF TypeInv, TypeOK
<1> USE <1>0 DEF TraceInv, Traced, PaidBy, CardOf, InvoiceOf, Goto, Answer, vars, dbVars, lndVars
<1>1. ASSUME NEW r \in Requests, Lock(r) PROVE TraceInv'
  BY <1>1 DEF Lock, RejectRequest, AcquireCardLock, CardLockRefused
<1>2. ASSUME NEW r \in Requests, Validate(r) PROVE TraceInv'
  BY <1>2 DEF Validate, ValidateCard, CardRefused
<1>3. ASSUME NEW r \in Requests, InvoiceRefused(r) PROVE TraceInv'
  BY <1>3 DEF InvoiceRefused
<1>4. ASSUME NEW r \in Requests, SendPayment(r) PROVE TraceInv'
  BY <1>4 DEF SendPayment
<1>5. ASSUME NEW r \in Requests, AlreadyPaid(r) PROVE TraceInv'
  BY <1>5 DEF AlreadyPaid
<1>6. ASSUME NEW r \in Requests, PaymentSucceeded(r) PROVE TraceInv'
  BY <1>6 DEF PaymentSucceeded
<1>7. ASSUME NEW r \in Requests, PaymentFailed(r) PROVE TraceInv'
  BY <1>7 DEF PaymentFailed
<1>8. ASSUME NEW r \in Requests, StreamBroken(r) PROVE TraceInv'
  BY <1>8 DEF StreamBroken
<1>9. ASSUME NEW r \in Requests, Record(r) PROVE TraceInv'
  BY <1>9 DEF Record, Debit
<1>10. ASSUME NEW r \in Requests, RecordAckLost(r) PROVE TraceInv'
  BY <1>10 DEF RecordAckLost, Debit, AttemptFailed
<1>11. ASSUME NEW r \in Requests, RecordFailed(r) PROVE TraceInv'
  BY <1>11 DEF RecordFailed, AttemptFailed
<1>12. ASSUME NEW r \in Requests, RetryCancelled(r) PROVE TraceInv'
  BY <1>12 DEF RetryCancelled
<1>13. ASSUME NEW r \in Requests, ReleaseCardLock(r) PROVE TraceInv'
  BY <1>13 DEF ReleaseCardLock
<1>14. ASSUME NEW r \in Requests, Crash(r) PROVE TraceInv'
  BY <1>14 DEF Crash
<1>15. ASSUME NEW i \in Invoices, ResolvePayment(i) PROVE TraceInv'
  BY <1>15 DEF ResolvePayment
<1>16. ASSUME NEW c \in Cards, CardLockExpires(c) PROVE TraceInv'
  BY <1>16 DEF CardLockExpires
<1>17. CASE UNCHANGED vars
  BY <1>17
<1> QED
  BY <1>1, <1>2, <1>3, <1>4, <1>5, <1>6, <1>7, <1>8, <1>9, <1>10, <1>11, <1>12,
     <1>13, <1>14, <1>15, <1>16, <1>17
  DEF Next, RequestStep, Pay, AwaitPayment, Write

LEMMA InitTrace == Init => TraceInv
BY DEF Init, TraceInv

(* SettledIsAccounted, with or without expiry of the lock.                 *)
THEOREM PaymentsAreTraceable == Spec => []SettledIsAccounted
<1>1. TypeInv /\ TraceInv /\ [Next]_vars => TraceInv'
  BY NextTrace
<1>2. TraceInv => SettledIsAccounted
  BY DEF TraceInv, Traced, SettledIsAccounted
<1> QED BY InitType, NextType, InitTrace, <1>1, <1>2, PTL DEF Spec

(* SuccessIsTrue, with or without expiry of the lock.                      *)
THEOREM SuccessesAreTrue == Spec => []SuccessIsTrue
<1>1. TypeInv /\ TraceInv /\ [Next]_vars => TraceInv'
  BY NextTrace
<1>2. TraceInv => SuccessIsTrue
  BY DEF TraceInv, PaidBy, SuccessIsTrue
<1> QED BY InitType, NextType, InitTrace, <1>1, <1>2, PTL DEF Spec

-----------------------------------------------------------------------------
(* A plain refusal has moved no money, with or without expiry of the lock. *)

\* A request that has not called SendPaymentV2 yet has paid nothing; one that
\* refuses after the call saw its own payment end in failure, or lost the
\* invoice to the payment of another request.
FreeInv ==
  /\ RefusalIsFree
  /\ \A r \in Requests : pc[r] \in {"lock", "validate", "pay"} => payer[InvoiceOf(r)] # r

LEMMA NextFree ==
  ASSUME TypeInv, TraceInv, FreeInv, [Next]_vars
  PROVE  FreeInv'
<1>0. /\ payment \in [Invoices -> {"none", "inflight", "settled", "failed"}]
      /\ payer \in [Invoices -> Requests \cup {None}]
      /\ pc \in [Requests -> Locations] /\ result \in [Requests -> Results]
      /\ \A r \in Requests : InvoiceOf(r) \in Invoices
      /\ \A r \in Requests : result[r] # "none" => pc[r] \in {"unlock", "done", "crashed"}
  BY RequestTypes DEF TypeInv, TypeOK, TraceInv
<1> USE <1>0 DEF FreeInv, RefusalIsFree, InvoiceOf, Goto, Answer, vars, dbVars, lndVars
<1>1. ASSUME NEW r \in Requests, Lock(r) PROVE FreeInv'
  BY <1>1 DEF Lock, RejectRequest, AcquireCardLock, CardLockRefused
<1>2. ASSUME NEW r \in Requests, Validate(r) PROVE FreeInv'
  BY <1>2 DEF Validate, ValidateCard, CardRefused
<1>3. ASSUME NEW r \in Requests, InvoiceRefused(r) PROVE FreeInv'
  BY <1>3 DEF InvoiceRefused
<1>4. ASSUME NEW r \in Requests, SendPayment(r) PROVE FreeInv'
  BY <1>4 DEF SendPayment
<1>5. ASSUME NEW r \in Requests, AlreadyPaid(r) PROVE FreeInv'
  BY <1>5 DEF AlreadyPaid
<1>6. ASSUME NEW r \in Requests, PaymentSucceeded(r) PROVE FreeInv'
  BY <1>6 DEF PaymentSucceeded
<1>7. ASSUME NEW r \in Requests, PaymentFailed(r) PROVE FreeInv'
  BY <1>7 DEF PaymentFailed
<1>8. ASSUME NEW r \in Requests, StreamBroken(r) PROVE FreeInv'
  BY <1>8 DEF StreamBroken
<1>9. ASSUME NEW r \in Requests, Write(r) PROVE FreeInv'
  BY <1>9 DEF Write, Record, RecordAckLost, RecordFailed, RetryCancelled, Debit, AttemptFailed
<1>10. ASSUME NEW r \in Requests, ReleaseCardLock(r) PROVE FreeInv'
  BY <1>10 DEF ReleaseCardLock
<1>11. ASSUME NEW r \in Requests, Crash(r) PROVE FreeInv'
  BY <1>11 DEF Crash, Running
<1>12. ASSUME NEW i \in Invoices, ResolvePayment(i) PROVE FreeInv'
  BY <1>12 DEF ResolvePayment
<1>13. ASSUME NEW c \in Cards, CardLockExpires(c) PROVE FreeInv'
  BY <1>13 DEF CardLockExpires
<1>14. CASE UNCHANGED vars
  BY <1>14
<1> QED
  BY <1>1, <1>2, <1>3, <1>4, <1>5, <1>6, <1>7, <1>8, <1>9, <1>10, <1>11, <1>12, <1>13, <1>14
  DEF Next, RequestStep, Pay, AwaitPayment

(* RefusalIsFree, with or without expiry of the lock.                      *)
THEOREM RefusalsAreFree == Spec => []RefusalIsFree
<1>1. Init => FreeInv
  BY RedeemAssumption DEF Init, FreeInv, RefusalIsFree, InvoiceOf, Redemption
<1>2. TypeInv /\ TraceInv /\ [Next]_vars => TraceInv'
  BY NextTrace
<1>3. TypeInv /\ TraceInv /\ FreeInv /\ [Next]_vars => FreeInv'
  BY NextFree
<1>4. FreeInv => RefusalIsFree
  BY DEF FreeInv
<1> QED BY InitType, NextType, InitTrace, <1>1, <1>2, <1>3, <1>4, PTL DEF Spec
=============================================================================
