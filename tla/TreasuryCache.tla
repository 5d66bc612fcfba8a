--------------------------- MODULE TreasuryCache ----------------------------
(***************************************************************************)
(* GET /treasury/balance behind the rate limiter: the available balance is *)
(* taken from a Redis key with a TTL or computed from three reads (channel *)
(* balance, wallet balance, reserved total) and then stored there          *)
(* (Service.GetTreasuryAvailableBalance).  FundCard and RedeemCard change  *)
(* what is read and delete the key afterwards (InvalidateTreasuryCache).   *)
(*                                                                         *)
(* A balance is abstracted to its age, counted from the first of its       *)
(* reads, and to what has happened to the treasury since.                  *)
(***************************************************************************)
EXTENDS RateLimit

CONSTANTS
  CacheTTL,    \* treasuryAvailableCacheTTL in ticks (10 s in the code)
  MaxCompute,  \* ticks a computation may take; the code sets no deadline
  NoValue      \* the key does not exist

ASSUME CacheAssumption == CacheTTL \in Nat \ {0} /\ MaxCompute \in Nat

VARIABLES
  cached,     \* Redis key treasury:available_sats
  age,        \* ticks since the first read of each computation
  raced,      \* whether the treasury changed during it
  funding,    \* FundCard: the call that follows its commit
  redeeming   \* RedeemCard: what follows its payment

cacheVars == <<cached, age, raced, funding, redeeming>>
vars == <<at, limitVars, cacheVars>>

Reading == {"channel", "wallet", "reserved"}
Computing == {"wallet", "reserved", "set"}
Locations == {"idle", "incr", "expire", "inside", "channel"} \cup Computing

\* What happened to the treasury since a cached balance was computed:
\* nothing; a change while it was computed; a change whose DEL is to come;
\* a change nobody deletes the key for.
Since == {"nothing", "raced", "changed", "missed"}

OldestAge == CacheTTL + MaxCompute
Value == [age : 0..(OldestAge + 1), life : 0..CacheTTL, since : Since]

TypeOK ==
  /\ LimitTypeOK
  /\ at \in [Requests -> Locations]
  /\ cached \in Value \cup {NoValue}
  /\ age \in [Requests -> 0..MaxCompute]
  /\ raced \in [Requests -> BOOLEAN]
  /\ funding \in {"commit", "delete"}
  /\ redeeming \in {"pay", "record", "delete"}

Init ==
  /\ LimitInit
  /\ cached = NoValue
  /\ age = [r \in Requests |-> 0]
  /\ raced = [r \in Requests |-> FALSE]
  /\ funding = "commit"
  /\ redeeming = "pay"

-----------------------------------------------------------------------------
(* Service.GetTreasuryAvailableBalance                                     *)

\* A hit is answered at once; a miss, like an error, is computed.
GetCached(r) ==
  /\ at[r] = "inside"
  /\ \/ cached # NoValue /\ Goto(r, "idle")
     \/ (cached = NoValue \/ Fault) /\ Goto(r, "channel")
  /\ UNCHANGED <<limitVars, cacheVars>>

AfterRead == [channel |-> "wallet", wallet |-> "reserved", reserved |-> "set"]

\* computeTreasuryBalance: the three reads, one after another.
ReadBalance(r) ==
  /\ at[r] \in Reading
  /\ Goto(r, AfterRead[at[r]])
  /\ UNCHANGED <<limitVars, cacheVars>>

\* A forgotten computation.
Forget(r) ==
  /\ age' = [age EXCEPT ![r] = 0]
  /\ raced' = [raced EXCEPT ![r] = FALSE]

\* A read fails, or the difference is negative: answered with an error, and
\* nothing is stored.
ReadFailed(r) ==
  /\ at[r] \in Reading
  /\ Fault \/ at[r] = "reserved"
  /\ Goto(r, "idle")
  /\ Forget(r)
  /\ UNCHANGED <<limitVars, cached, funding, redeeming>>

\* Mutant: the key is set with the TTL of the rate limiter.
MutComputedWindow(r) ==
  [age |-> age[r], life |-> Window, since |-> IF raced[r] THEN "raced" ELSE "nothing"]

\* Mutant: the key is set without an expiration.
MutComputed(r) ==
  [age |-> age[r], life |-> 0, since |-> IF raced[r] THEN "raced" ELSE "nothing"]

Computed(r) ==
  [age |-> age[r], life |-> CacheTTL, since |-> IF raced[r] THEN "raced" ELSE "nothing"]

\* SET, best effort; the value is answered whatever becomes of it.
StoreBalance(r) ==
  /\ at[r] = "set"
  /\ \/ cached' = Computed(r)
     \/ Fault /\ UNCHANGED cached
  /\ Goto(r, "idle")
  /\ Forget(r)
  /\ UNCHANGED <<limitVars, funding, redeeming>>

-----------------------------------------------------------------------------
(* The treasury changes.                                                   *)

Changes(what) ==
  /\ cached' = IF cached # NoValue /\ cached.since \in {"nothing", "raced"}
                 THEN [cached EXCEPT !.since = what] ELSE cached
  /\ raced' = [r \in Requests |-> raced[r] \/ at[r] \in Computing]

\* DEL; if it fails or is never sent, the cached value is not announced.
Delete == cached' = NoValue
Skip ==
  cached' = IF cached # NoValue /\ cached.since = "changed"
              THEN [cached EXCEPT !.since = "missed"] ELSE cached

\* FundCard, step 6: the reserved total is up.
CommitFunding ==
  /\ funding = "commit"
  /\ Changes("changed")
  /\ funding' = "delete"
  /\ UNCHANGED <<at, limitVars, age, redeeming>>

\* Mutant: FundCard forgets about the cache.
MutInvalidateFunding ==
  /\ funding = "delete"
  /\ funding' = "commit"
  /\ UNCHANGED <<cached, at, limitVars, age, raced, redeeming>>

\* FundCard, step 7; a worker may die before it.
InvalidateFunding ==
  /\ funding = "delete"
  /\ funding' = "commit"
  /\ Delete \/ ({"fault", "crash"} \cap Env # {} /\ Skip)
  /\ UNCHANGED <<at, limitVars, age, raced, redeeming>>

\* RedeemCard, step 4: the channel balance is down.
PayRedemption ==
  /\ redeeming = "pay"
  /\ Changes("changed")
  /\ redeeming' = "record"
  /\ UNCHANGED <<at, limitVars, age, funding>>

\* Step 6: the reserved total is down.
RecordRedemption ==
  /\ redeeming = "record"
  /\ Changes("changed")
  /\ redeeming' = "delete"
  /\ UNCHANGED <<at, limitVars, age, funding>>

\* CRITICAL: it returns before the invalidation.
RecordFailed ==
  /\ redeeming = "record"
  /\ Fault
  /\ Skip
  /\ redeeming' = "pay"
  /\ UNCHANGED <<at, limitVars, age, raced, funding>>

InvalidateRedemption ==
  /\ redeeming = "delete"
  /\ redeeming' = "pay"
  /\ Delete \/ ({"fault", "crash"} \cap Env # {} /\ Skip)
  /\ UNCHANGED <<at, limitVars, age, raced, funding>>

\* A channel is opened or a withdrawal arrives (see PurchasePipeline);
\* nobody deletes the key.
MoveFunds ==
  /\ Changes("missed")
  /\ UNCHANGED <<at, limitVars, age, funding, redeeming>>

-----------------------------------------------------------------------------

Older(v) ==
  IF v = NoValue \/ v.life = 1 THEN NoValue
  ELSE [v EXCEPT !.age = Min({@ + 1, OldestAge + 1}), !.life = Max({0, @ - 1})]

\* A computation is over within MaxCompute ticks.
Tick ==
  /\ \A r \in Requests : at[r] \in Computing => age[r] < MaxCompute
  /\ WindowTick
  /\ cached' = Older(cached)
  /\ age' = [r \in Requests |-> IF at[r] \in Computing THEN age[r] + 1 ELSE age[r]]
  /\ UNCHANGED <<at, raced, funding, redeeming>>

\* The server dies and restarts.
RestartServer ==
  /\ Restart
  /\ age' = [r \in Requests |-> 0]
  /\ raced' = [r \in Requests |-> FALSE]
  /\ UNCHANGED <<cached, funding, redeeming>>

Middleware(r) == Limiter(r) /\ UNCHANGED cacheVars
Handle(r) == GetCached(r) \/ ReadBalance(r) \/ ReadFailed(r) \/ StoreBalance(r)

Treasury ==
  \/ CommitFunding \/ InvalidateFunding \/ MoveFunds
  \/ PayRedemption \/ RecordRedemption \/ RecordFailed \/ InvalidateRedemption

Next ==
  \/ \E r \in Requests : Middleware(r) \/ Handle(r)
  \/ Treasury \/ Tick \/ RestartServer

Spec == Init /\ [][Next]_vars

\* Time passes, and a handler that has started runs to its end.
Fairness == WF_vars(Tick) /\ \A r \in Requests : WF_vars(Handle(r))

FairSpec == Spec /\ Fairness

-----------------------------------------------------------------------------

(* "Results are cached in Redis for 10s": no answer is older than the TTL  *)
(* and one computation, although a slow reader may store over a newer      *)
(* value and give it a new TTL.                                            *)
AnswersAreRecent == cached # NoValue => cached.age <= OldestAge

(* "Called after card funding or redemption to force a fresh computation": *)
(* a value that funding or redemption has made stale is going to be        *)
(* deleted, unless it was being computed when the change was made or the   *)
(* call that deletes it has failed.                                        *)
StaleIsAnnounced ==
  (cached # NoValue /\ cached.since = "changed") =>
    funding = "delete" \/ redeeming \in {"record", "delete"}
=============================================================================
