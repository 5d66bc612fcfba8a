------------------------ MODULE TreasuryCacheProofs -------------------------
(***************************************************************************)
(* Proofs about TreasuryCache, for any requests, hosts, TTLs and speed of  *)
(* a computation.                                                          *)
(***************************************************************************)
EXTENDS TreasuryCache, TLAPS

AgeOK == age \in [Requests -> 0..MaxCompute]

\* What a value may still live is taken off what it may still age.
CachedOK ==
  cached # NoValue =>
    /\ cached \in [age : Nat, life : Nat, since : Since]
    /\ cached.life > 0 /\ cached.life <= CacheTTL
    /\ cached.age + cached.life <= OldestAge

CacheInv == AgeOK /\ CachedOK /\ StaleIsAnnounced

LEMMA Times == CacheTTL \in Nat \ {0} /\ MaxCompute \in Nat
  BY CacheAssumption

LEMMA MinOfTwo ==
  ASSUME NEW a \in Int, NEW b \in Int
  PROVE  Min({a, b}) = IF a <= b THEN a ELSE b
<1>1. \E x \in {a, b} : \A y \in {a, b} : x <= y
  OBVIOUS
<1>2. Min({a, b}) \in {a, b} /\ \A y \in {a, b} : Min({a, b}) <= y
  BY <1>1 DEF Min
<1> QED
  BY <1>2

LEMMA MaxOfTwo ==
  ASSUME NEW a \in Int, NEW b \in Int
  PROVE  Max({a, b}) = IF a <= b THEN b ELSE a
<1>1. \E x \in {a, b} : \A y \in {a, b} : x >= y
  OBVIOUS
<1>2. Max({a, b}) \in {a, b} /\ \A y \in {a, b} : Max({a, b}) >= y
  BY <1>1 DEF Max
<1> QED
  BY <1>2

\* A change of the treasury, and a deletion that does not happen, leave the
\* value its times.
LEMMA SinceOnly ==
  ASSUME CachedOK, NEW what \in Since, Changes(what) \/ Skip
  PROVE  /\ CachedOK'
         /\ cached' # NoValue /\ cached'.since = "changed" =>
              cached # NoValue /\ (cached.since = "changed" \/ (what = "changed" /\ Changes(what)))
<1>1. CASE cached' = cached
  BY <1>1 DEF CachedOK
<1>2. CASE cached' = [cached EXCEPT !.since = what] /\ cached # NoValue /\ Changes(what)
  BY <1>2 DEF CachedOK
<1>3. CASE cached' = [cached EXCEPT !.since = "missed"] /\ cached # NoValue /\ Skip
  BY <1>3 DEF CachedOK, Since
<1> QED
  BY <1>1, <1>2, <1>3 DEF Changes, Skip

\* A step of the requests alone, other than storing.
LEMMA RequestStep ==
  ASSUME CacheInv, UNCHANGED <<cached, funding, redeeming>>, AgeOK'
  PROVE  CacheInv'
  BY DEF CacheInv, CachedOK, StaleIsAnnounced

LEMMA CacheStep == ASSUME CacheInv, [Next]_vars PROVE CacheInv'
<1> USE Times DEF cacheVars, limitVars
<1>a. AgeOK /\ CachedOK /\ StaleIsAnnounced
  BY DEF CacheInv
<1>1. ASSUME NEW r \in Requests, Middleware(r)  PROVE CacheInv'
  BY <1>a, <1>1, RequestStep DEF Middleware, AgeOK
<1>2. ASSUME NEW r \in Requests, GetCached(r) \/ ReadBalance(r) \/ ReadFailed(r)  PROVE CacheInv'
  BY <1>a, <1>2, RequestStep DEF GetCached, ReadBalance, ReadFailed, Forget, AgeOK
<1>3. ASSUME NEW r \in Requests, StoreBalance(r)  PROVE CacheInv'
  <2>1. AgeOK'
    BY <1>a, <1>3 DEF StoreBalance, Forget, AgeOK
  <2>2. CASE UNCHANGED cached
    BY <1>3, <2>1, <2>2, RequestStep DEF StoreBalance
  <2>3. CASE cached' = Computed(r)
    <3>1. age[r] \in Nat /\ age[r] <= MaxCompute
      BY <1>a DEF AgeOK
    <3>2. PICK since \in {"raced", "nothing"} :
               cached' = [age |-> age[r], life |-> CacheTTL, since |-> since]
      BY <2>3 DEF Computed
    <3>3. CachedOK' /\ StaleIsAnnounced'
      BY <3>1, <3>2 DEF CachedOK, StaleIsAnnounced, Since, OldestAge
    <3> QED
      BY <2>1, <3>3 DEF CacheInv
  <2> QED
    BY <1>3, <2>2, <2>3 DEF StoreBalance
<1>4. CASE CommitFunding \/ PayRedemption \/ RecordRedemption \/ MoveFunds
  <2>1. AgeOK'
    BY <1>a, <1>4 DEF CommitFunding, PayRedemption, RecordRedemption, MoveFunds, AgeOK
  <2>2. CASE MoveFunds
    BY <1>a, <2>1, <2>2, SinceOnly DEF MoveFunds, CacheInv, StaleIsAnnounced, Since
  <2>3. CASE CommitFunding \/ PayRedemption \/ RecordRedemption
    <3>1. Changes("changed") /\ (funding' = "delete" \/ redeeming' \in {"record", "delete"})
      BY <2>3 DEF CommitFunding, PayRedemption, RecordRedemption
    <3>2. CachedOK'
      BY <1>a, <3>1, SinceOnly DEF Since
    <3> QED
      BY <2>1, <3>1, <3>2 DEF CacheInv, StaleIsAnnounced
  <2> QED
    BY <1>4, <2>2, <2>3
<1>5. CASE InvalidateFunding \/ RecordFailed \/ InvalidateRedemption
  <2>1. AgeOK' /\ (Delete \/ Skip)
    BY <1>a, <1>5 DEF InvalidateFunding, RecordFailed, InvalidateRedemption, AgeOK
  <2>2. cached' = NoValue \/ (CachedOK' /\ cached'.since # "changed")
    <3>1. CASE Delete
      BY <3>1 DEF Delete
    <3>2. CASE Skip
      <4>1. CachedOK'
        BY <1>a, <3>2, SinceOnly DEF Since
      <4>2. cached' = NoValue \/ cached'.since # "changed"
        BY <1>a, <3>2 DEF Skip, CachedOK
      <4> QED
        BY <4>1, <4>2
    <3> QED
      BY <2>1, <3>1, <3>2
  <2>3. CachedOK' /\ StaleIsAnnounced'
    BY <2>2 DEF CachedOK, StaleIsAnnounced
  <2> QED
    BY <2>1, <2>3 DEF CacheInv
<1>6. CASE Tick
  <2>1. AgeOK'
    BY <1>a, <1>6 DEF Tick, AgeOK
  <2>2. cached' = NoValue \/ (/\ cached # NoValue
                              /\ cached' = [cached EXCEPT !.age = Min({@ + 1, OldestAge + 1}),
                                                          !.life = Max({0, @ - 1})]
                              /\ cached.life # 1)
    BY <1>6 DEF Tick, Older
  <2>3. CASE cached' = NoValue
    BY <2>1, <2>3 DEF CacheInv, CachedOK, StaleIsAnnounced
  <2>4. CASE cached' # NoValue
    <3>1. /\ cached.age \in Nat /\ cached.life \in Nat /\ cached.life > 1 /\ cached.since \in Since
          /\ cached.age + cached.life <= OldestAge /\ OldestAge \in Nat /\ cached.life <= CacheTTL
      BY <1>a, <2>2, <2>4 DEF CachedOK, OldestAge
    <3>2. Min({cached.age + 1, OldestAge + 1}) = cached.age + 1 /\ Max({0, cached.life - 1}) = cached.life - 1
      BY <3>1, MinOfTwo, MaxOfTwo
    <3>3. cached' = [age |-> cached.age + 1, life |-> cached.life - 1, since |-> cached.since]
      BY <1>a, <2>2, <2>4, <3>2 DEF CachedOK
    <3>4. CachedOK'
      BY <3>1, <3>3 DEF CachedOK, OldestAge
    <3>5. StaleIsAnnounced'
      BY <1>a, <1>6, <2>2, <2>4, <3>3 DEF StaleIsAnnounced, Tick
    <3> QED
      BY <2>1, <3>4, <3>5 DEF CacheInv
  <2> QED
    BY <2>3, <2>4
<1>7. CASE RestartServer
  BY <1>7, RequestStep DEF RestartServer, AgeOK
<1>8. CASE UNCHANGED vars
  BY <1>a, <1>8, RequestStep DEF vars, AgeOK
<1> QED
  BY <1>1, <1>2, <1>3, <1>4, <1>5, <1>6, <1>7, <1>8 DEF Next, Handle, Treasury

LEMMA CacheInvHolds == Spec => []CacheInv
<1>1. Init => CacheInv
  BY Times DEF Init, CacheInv, AgeOK, CachedOK, StaleIsAnnounced
<1>2. CacheInv /\ [Next]_vars => CacheInv'
  BY CacheStep
<1> QED
  BY <1>1, <1>2, PTL DEF Spec

(* No answer is older than the TTL of the key and one computation, however *)
(* many requests compute at once and store over each other's values        *)
(* (Service.GetTreasuryAvailableBalance).                                  *)
THEOREM NoOldAnswer == Spec => []AnswersAreRecent
<1>1. CacheInv => AnswersAreRecent
  BY Times DEF CacheInv, CachedOK, AnswersAreRecent, OldestAge
<1> QED
  BY <1>1, CacheInvHolds, PTL

(* A value that a funding or a redemption has made stale is going to be    *)
(* deleted, unless it was being computed at the time or the deletion has   *)
(* failed (FundCard, RedeemCard, InvalidateTreasuryCache).                 *)
THEOREM StaleValuesGo == Spec => []StaleIsAnnounced
<1>1. CacheInv => StaleIsAnnounced
  BY DEF CacheInv
<1> QED
  BY <1>1, CacheInvHolds, PTL

-----------------------------------------------------------------------------
(* The types, and the windows of the rate limiter.                         *)

LEMMA Limits ==
  /\ Host \in [Requests -> Hosts] /\ Limit \in Nat \ {0} /\ Window \in Nat \ {0}
  BY LimitAssumption

ControlTypeOK ==
  /\ at \in [Requests -> Locations]
  /\ raced \in [Requests -> BOOLEAN]
  /\ funding \in {"commit", "delete"}
  /\ redeeming \in {"pay", "record", "delete"}

LEMMA ControlStep == ASSUME ControlTypeOK, [Next]_vars PROVE ControlTypeOK'
<1> USE DEF ControlTypeOK, Locations, Computing, Goto, cacheVars
<1>1. ASSUME NEW r \in Requests, Middleware(r)  PROVE ControlTypeOK'
  BY <1>1 DEF Middleware, Limiter, Arrive, Incr, IncrFailed, SetWindow, Admit
<1>2. ASSUME NEW r \in Requests, GetCached(r)  PROVE ControlTypeOK'
  BY <1>2 DEF GetCached
<1>3. ASSUME NEW r \in Requests, ReadBalance(r)  PROVE ControlTypeOK'
  BY <1>3 DEF ReadBalance, AfterRead, Reading
<1>4. ASSUME NEW r \in Requests, ReadFailed(r) \/ StoreBalance(r)  PROVE ControlTypeOK'
  BY <1>4 DEF ReadFailed, StoreBalance, Forget
<1>5. CASE Treasury
  BY <1>5 DEF Treasury, CommitFunding, InvalidateFunding, MoveFunds, PayRedemption, RecordRedemption,
    RecordFailed, InvalidateRedemption, Changes
<1>6. CASE Tick
  BY <1>6 DEF Tick
<1>7. CASE RestartServer
  BY <1>7 DEF RestartServer, Restart
<1>8. CASE UNCHANGED vars
  BY <1>8 DEF vars
<1> QED
  BY <1>1, <1>2, <1>3, <1>4, <1>5, <1>6, <1>7, <1>8 DEF Next, Handle

\* A request that has started a window and not yet set its end.
Starting(h) == \E r \in Requests : at[r] = "expire" /\ Host[r] = h
Pend(h) == IF Starting(h) THEN 1 ELSE 0

\* As many of a window's requests as the limiter lets through.
Counted(h) == IF count[h] <= Limit THEN count[h] ELSE Limit

(* A counter without a TTL belongs to a window that has not ended: what was*)
(* admitted before it began is at most one limit.  With a TTL, what was    *)
(* admitted since the TTL was set is what the counter has counted since.   *)
HostOK(h) ==
  /\ \A i, j \in 1..Window : i <= j => recent[h][i] <= recent[h][j]
  /\ count[h] = 0 => life[h] = 0 /\ recent[h][Window] <= Limit
  /\ count[h] > 0 => recent[h][Window] + Pend(h) <= Limit + Counted(h)
  /\ life[h] \in 1..(Window - 1) => recent[h][Window - life[h]] <= Counted(h)

WindowInv ==
  /\ \A r \in Requests : at[r] = "expire" => count[Host[r]] > 0 /\ life[Host[r]] = 0
  /\ \A q, r \in Requests : at[q] = "expire" /\ at[r] = "expire" /\ Host[q] = Host[r] => q = r
  /\ \A h \in Hosts : HostOK(h)

LimitInv == LimitTypeOK /\ ControlTypeOK /\ WindowInv

\* One more counted.
LEMMA CountsUp ==
  ASSUME LimitTypeOK, NEW h \in Hosts, CountUp(h)
  PROVE  /\ count' \in [Hosts -> Counts] /\ count'[h] > 0 /\ count'[h] >= count[h]
         /\ count'[h] = IF count[h] <= Limit THEN count[h] + 1 ELSE count[h]
         /\ \A g \in Hosts : g # h => count'[g] = count[g]
<1>1. count[h] \in 0..(Limit + 1) /\ count \in [Hosts -> Counts]
  BY DEF LimitTypeOK, Counts
<1>2. Min({count[h] + 1, Limit + 1}) = IF count[h] <= Limit THEN count[h] + 1 ELSE count[h]
  BY <1>1, Limits, MinOfTwo
<1>3. count' = [count EXCEPT ![h] = IF count[h] <= Limit THEN count[h] + 1 ELSE count[h]]
  BY <1>2 DEF CountUp
<1> QED
  BY <1>1, <1>3, Limits DEF Counts

\* One more admitted.
LEMMA Admits ==
  ASSUME LimitTypeOK, NEW r \in Requests, Admit(r)
  PROVE  /\ recent' \in [Hosts -> [1..Window -> Nat]]
         /\ \A i \in 1..Window : recent'[Host[r]][i] = recent[Host[r]][i] + 1
         /\ \A g \in Hosts : g # Host[r] => recent'[g] = recent[g]
<1> DEFINE more == [i \in 1..Window |-> recent[Host[r]][i] + 1]
<1>1. Host[r] \in Hosts
  BY Limits
<1>2. recent \in [Hosts -> [1..Window -> Nat]]
  BY DEF LimitTypeOK
<1>3. \A i \in 1..Window : recent[Host[r]][i] \in Nat
  BY <1>1, <1>2
<1>4. more \in [1..Window -> Nat] /\ \A i \in 1..Window : more[i] = recent[Host[r]][i] + 1
  BY <1>3
<1>5. recent' = [recent EXCEPT ![Host[r]] = more]
  BY DEF Admit
<1> HIDE DEF more
<1> QED
  BY <1>1, <1>2, <1>4, <1>5

\* Nothing has happened to the window of a host.
LEMMA SameHost ==
  ASSUME NEW h \in Hosts, HostOK(h), count'[h] = count[h], life'[h] = life[h], recent'[h] = recent[h],
         Starting(h)' <=> Starting(h)
  PROVE  HostOK(h)'
  BY DEF HostOK, Pend, Counted

\* The request of another host.
LEMMA OtherHost ==
  ASSUME LimitInv, NEW r \in Requests, NEW to, at' = [at EXCEPT ![r] = to],
         NEW h \in Hosts, h # Host[r],
         count'[h] = count[h], life'[h] = life[h], recent'[h] = recent[h]
  PROVE  HostOK(h)'
<1>1. Starting(h)' <=> Starting(h)
  BY DEF Starting, LimitInv, ControlTypeOK
<1> QED
  BY <1>1, SameHost DEF LimitInv, WindowInv

\* Requests that neither start a window nor touch a counter.
LEMMA LimiterAtRest ==
  ASSUME LimitInv, UNCHANGED limitVars, \A r \in Requests : at'[r] = "expire" <=> at[r] = "expire"
  PROVE  LimitTypeOK' /\ WindowInv'
<1>1. \A h \in Hosts : Starting(h)' <=> Starting(h)
  BY DEF Starting
<1>2. \A h \in Hosts : HostOK(h)'
  BY <1>1, SameHost DEF LimitInv, WindowInv, limitVars
<1>3. LimitTypeOK'
  BY DEF LimitInv, LimitTypeOK, limitVars
<1> QED
  BY <1>2, <1>3 DEF LimitInv, WindowInv, limitVars

LEMMA IncrStep ==
  ASSUME LimitInv, NEW r \in Requests, Incr(r) \/ IncrFailed(r)
  PROVE  LimitTypeOK' /\ WindowInv'
<1> DEFINE h == Host[r]
<1>a. /\ LimitTypeOK /\ ControlTypeOK /\ WindowInv
      /\ h \in Hosts /\ Limit \in Nat \ {0} /\ Window \in Nat \ {0} /\ Window \in 1..Window
  BY Limits DEF LimitInv
<1>b. /\ count[h] \in Nat /\ count[h] <= Limit + 1 /\ life[h] \in 0..Window
      /\ recent[h] \in [1..Window -> Nat] /\ HostOK(h)
      /\ at[r] = "incr"
  BY <1>a DEF LimitTypeOK, Counts, WindowInv, Incr, IncrFailed
<1>c. UNCHANGED life /\ \E to : at' = [at EXCEPT ![r] = to]
  BY DEF Incr, IncrFailed, Admit, Goto
<1>d. \A g \in Hosts : g # h => count'[g] = count[g] /\ recent'[g] = recent[g]
  BY <1>a, CountsUp, Admits DEF Incr, IncrFailed
<1>e. \A g \in Hosts : g # h => HostOK(g)'
  BY <1>c, <1>d, OtherHost
\* The requests that are to set the end of a window are the same.
<1>f. ASSUME at'[r] # "expire"
      PROVE  \A q \in Requests : at'[q] = "expire" <=> at[q] = "expire"
  BY <1>a, <1>b, <1>c, <1>f DEF ControlTypeOK
<1>1. CASE UNCHANGED <<count, recent>> /\ at'[r] # "expire"
  BY <1>c, <1>f, <1>1, LimiterAtRest DEF limitVars
<1>2. CASE /\ CountUp(h) /\ count[h] = 0
           /\ at' = [at EXCEPT ![r] = "expire"] /\ UNCHANGED recent
  <2>1. ~Starting(h) /\ life[h] = 0 /\ recent[h][Window] <= Limit /\ recent[h][Window] \in Nat
    BY <1>a, <1>b, <1>2 DEF Starting, WindowInv, HostOK
  <2>2. /\ count'[h] = 1 /\ LimitTypeOK'
    BY <1>a, <1>c, <1>2, CountsUp DEF LimitTypeOK
  <2>3. HostOK(h)'
    BY <1>a, <1>b, <1>c, <1>2, <2>1, <2>2 DEF HostOK, Pend, Counted
  <2>4. \A q \in Requests : at'[q] = "expire" => q = r \/ (at[q] = "expire" /\ Host[q] # h)
    BY <1>a, <1>2, <2>1 DEF ControlTypeOK, Starting
  <2>5. \A q \in Requests : at'[q] = "expire" => count'[Host[q]] > 0 /\ life'[Host[q]] = 0
    BY <1>a, <1>c, <1>d, <2>1, <2>2, <2>4, Limits DEF WindowInv
  <2> QED
    BY <1>a, <1>e, <2>2, <2>3, <2>4, <2>5 DEF WindowInv
<1>3. CASE /\ CountUp(h) /\ at'[r] # "expire"
           /\ \/ UNCHANGED recent
              \/ count[h] > 0 /\ count[h] + 1 <= Limit /\ Admit(r)
  <2>1. \A g \in Hosts : Starting(g)' <=> Starting(g)
    BY <1>f, <1>3 DEF Starting
  <2>2. /\ count'[h] > 0 /\ count'[h] >= count[h] /\ count'[h] \in Nat
        /\ count'[h] = IF count[h] <= Limit THEN count[h] + 1 ELSE count[h]
        /\ count' \in [Hosts -> Counts]
    BY <1>a, <1>b, <1>3, CountsUp
  <2>3. LimitTypeOK'
    BY <1>a, <1>c, <1>3, <2>2, Admits DEF LimitTypeOK
  <2>4. count[h] = 0 => ~Starting(h) /\ life[h] = 0
    BY <1>a, <1>b DEF Starting, WindowInv, HostOK
  <2>5. HostOK(h)'
    <3>1. Pend(h)' = Pend(h) /\ Pend(h) \in {0, 1} /\ (count[h] = 0 => Pend(h) = 0)
      BY <1>a, <2>1, <2>4 DEF Pend
    <3>2. \A i \in 1..Window : recent[h][i] \in Nat
      BY <1>b
    <3>3. CASE UNCHANGED recent
      <4>1. Counted(h)' >= Counted(h) /\ Counted(h)' >= 1 /\ Counted(h) \in Nat /\ Counted(h)' \in Nat
        BY <1>a, <1>b, <2>2 DEF Counted
      <4>2. /\ \A i, j \in 1..Window : i <= j => recent[h][i] <= recent[h][j]
            /\ count[h] = 0 => life[h] = 0 /\ recent[h][Window] <= Limit
            /\ count[h] > 0 => recent[h][Window] + Pend(h) <= Limit + Counted(h)
            /\ life[h] \in 1..(Window - 1) => recent[h][Window - life[h]] <= Counted(h)
        BY <1>b DEF HostOK
      <4>3. recent[h][Window] + Pend(h) <= Limit + Counted(h)'
        <5>1. recent[h][Window] \in Nat /\ Limit \in Nat
          BY <1>a, <3>2
        <5>2. CASE count[h] = 0
          BY <3>1, <4>1, <4>2, <5>1, <5>2
        <5>3. CASE count[h] > 0
          BY <3>1, <4>1, <4>2, <5>1, <5>3
        <5> QED
          BY <1>b, <5>2, <5>3
      <4>4. ASSUME life[h] \in 1..(Window - 1)  PROVE recent[h][Window - life[h]] <= Counted(h)'
        <5>1. Window - life[h] \in 1..Window
          BY <1>a, <4>4
        <5>2. recent[h][Window - life[h]] \in Nat
          BY <3>2, <5>1
        <5> QED
          BY <4>1, <4>2, <4>4, <5>2
      <4> QED
        BY <1>c, <2>2, <3>1, <3>3, <4>2, <4>3, <4>4 DEF HostOK
    <3>4. CASE count[h] > 0 /\ count[h] + 1 <= Limit /\ Admit(r)
      <4>1. Counted(h)' = Counted(h) + 1 /\ Counted(h) \in Nat
        BY <1>a, <1>b, <2>2, <3>4 DEF Counted
      <4>2. \A i \in 1..Window : recent'[h][i] = recent[h][i] + 1
        BY <1>a, <3>4, Admits
      <4>3. /\ \A i, j \in 1..Window : i <= j => recent[h][i] <= recent[h][j]
            /\ recent[h][Window] + Pend(h) <= Limit + Counted(h)
            /\ life[h] \in 1..(Window - 1) => recent[h][Window - life[h]] <= Counted(h)
        BY <1>b, <3>4 DEF HostOK
      <4>4. \A i, j \in 1..Window : i <= j => recent'[h][i] <= recent'[h][j]
        BY <3>2, <4>2, <4>3
      <4>5. recent'[h][Window] + Pend(h)' <= Limit + Counted(h)'
        BY <1>a, <3>1, <3>2, <4>1, <4>2, <4>3
      <4>6. ASSUME life[h] \in 1..(Window - 1)  PROVE recent'[h][Window - life[h]] <= Counted(h)'
        <5>1. Window - life[h] \in 1..Window
          BY <1>a, <4>6
        <5> QED
          BY <3>2, <4>1, <4>2, <4>3, <4>6, <5>1
      <4> QED
        BY <1>c, <2>2, <4>4, <4>5, <4>6 DEF HostOK
    <3> QED
      BY <1>3, <3>3, <3>4
  <2>6. \A q \in Requests : at'[q] = "expire" => count'[Host[q]] > 0 /\ life'[Host[q]] = 0
    BY <1>a, <1>c, <1>d, <1>f, <1>3, <2>2, Limits DEF WindowInv
  <2> QED
    BY <1>a, <1>e, <1>f, <1>3, <2>3, <2>5, <2>6 DEF WindowInv
<1>4. \A to : at' = [at EXCEPT ![r] = to] => at'[r] = to
  BY <1>a DEF ControlTypeOK
<1>5. CASE Incr(r)
  <2>1. \/ CountUp(h) /\ count[h] = 0 /\ at' = [at EXCEPT ![r] = "expire"] /\ UNCHANGED recent
        \/ CountUp(h) /\ at' = [at EXCEPT ![r] = "idle"] /\ UNCHANGED recent
        \/ CountUp(h) /\ at' = [at EXCEPT ![r] = "inside"] /\ count[h] > 0 /\ count[h] + 1 <= Limit /\ Admit(r)
    BY <1>a, <1>b, <1>5 DEF Incr, Admit, Goto, Exceeds
  <2> QED
    BY <1>2, <1>3, <1>4, <2>1
<1>6. CASE IncrFailed(r)
  BY <1>1, <1>3, <1>4, <1>6 DEF IncrFailed, Goto
<1> QED
  BY <1>5, <1>6

LEMMA SetWindowStep ==
  ASSUME LimitInv, NEW r \in Requests, SetWindow(r)
  PROVE  LimitTypeOK' /\ WindowInv'
<1> DEFINE h == Host[r]
<1>a. /\ LimitTypeOK /\ ControlTypeOK /\ WindowInv
      /\ h \in Hosts /\ Limit \in Nat \ {0} /\ Window \in Nat \ {0} /\ Window \in 1..Window
  BY Limits DEF LimitInv
<1>b. /\ count[h] \in Nat /\ count[h] > 0 /\ life[h] = 0 /\ HostOK(h)
      /\ at[r] = "expire" /\ Starting(h)
  BY <1>a DEF LimitTypeOK, Counts, WindowInv, SetWindow, Starting
<1>c. /\ UNCHANGED count /\ at' = [at EXCEPT ![r] = "inside"] /\ Admit(r)
      /\ life' = [life EXCEPT ![h] = Window] \/ UNCHANGED life
  BY DEF SetWindow, Admit, Goto
<1>d. LimitTypeOK'
  <2>1. recent' \in [Hosts -> [1..Window -> Nat]]
    BY <1>a, <1>c, Admits
  <2>2. life' \in [Hosts -> 0..Window]
    <3>1. life \in [Hosts -> 0..Window] /\ Window \in 0..Window
      BY <1>a DEF LimitTypeOK
    <3> QED
      BY <1>c, <3>1
  <2>3. count' \in [Hosts -> Counts]
    BY <1>a, <1>c DEF LimitTypeOK
  <2> QED
    BY <2>1, <2>2, <2>3 DEF LimitTypeOK
<1>e. \A g \in Hosts : g # h => HostOK(g)'
  <2>1. \A g \in Hosts : g # h => life'[g] = life[g]
    BY <1>a, <1>c DEF LimitTypeOK
  <2>2. \A g \in Hosts : g # h => recent'[g] = recent[g]
    BY <1>a, <1>c, Admits
  <2> QED
    BY <1>c, <2>1, <2>2, OtherHost
<1>f. ~Starting(h)' /\ \A q \in Requests : at'[q] = "expire" => at[q] = "expire" /\ Host[q] # h
  BY <1>a, <1>b, <1>c DEF Starting, ControlTypeOK, WindowInv
<1>g. HostOK(h)'
  <2>1. \A i \in 1..Window : recent'[h][i] = recent[h][i] + 1 /\ recent[h][i] \in Nat
    BY <1>a, <1>c, Admits DEF LimitTypeOK
  <2>2. /\ \A i, j \in 1..Window : i <= j => recent[h][i] <= recent[h][j]
        /\ recent[h][Window] + 1 <= Limit + Counted(h)
    BY <1>b DEF HostOK, Pend
  <2>3. life'[h] \in {0, Window} /\ Counted(h)' = Counted(h) /\ Pend(h)' = 0 /\ Counted(h) \in Nat
    BY <1>a, <1>b, <1>c, <1>f DEF LimitTypeOK, Counted, Pend
  <2>4. life'[h] \notin 1..(Window - 1)
    BY <1>a, <2>3
  <2>5. \A i, j \in 1..Window : i <= j => recent'[h][i] <= recent'[h][j]
    BY <2>1, <2>2
  <2>6. recent'[h][Window] + Pend(h)' <= Limit + Counted(h)'
    BY <1>a, <2>1, <2>2, <2>3
  <2> QED
    BY <1>b, <1>c, <2>4, <2>5, <2>6 DEF HostOK
<1>h. \A q \in Requests : at'[q] = "expire" => life'[Host[q]] = life[Host[q]]
  BY <1>a, <1>c, <1>f, Limits DEF LimitTypeOK
<1> QED
  BY <1>a, <1>c, <1>d, <1>e, <1>f, <1>g, <1>h DEF WindowInv

\* What was admitted before a counter with a TTL leaves the last Window
\* ticks before the counter does.
LEMMA WindowTickStep ==
  ASSUME LimitInv, WindowTick, UNCHANGED at
  PROVE  LimitTypeOK' /\ WindowInv'
<1>a. /\ LimitTypeOK /\ ControlTypeOK /\ WindowInv
      /\ Limit \in Nat \ {0} /\ Window \in Nat \ {0} /\ Window \in 1..Window
  BY Limits DEF LimitInv
<1>1. ASSUME NEW h \in Hosts
      PROVE  /\ count'[h] = (IF life[h] = 1 THEN 0 ELSE count[h]) /\ count[h] \in Counts
             /\ life'[h] = (IF life[h] = 0 THEN 0 ELSE life[h] - 1) /\ life[h] \in 0..Window
             /\ recent[h] \in [1..Window -> Nat] /\ recent'[h] \in [1..Window -> Nat]
             /\ \A i \in 1..Window : recent'[h][i] = IF i = 1 THEN 0 ELSE recent[h][i - 1]
  <2>1. life[h] \in 0..Window /\ Max({0, life[h] - 1}) = IF life[h] = 0 THEN 0 ELSE life[h] - 1
    <3>1. life[h] \in 0..Window /\ life[h] - 1 \in Int
      BY <1>a DEF LimitTypeOK
    <3>2. Max({0, life[h] - 1}) = IF 0 <= life[h] - 1 THEN life[h] - 1 ELSE 0
      BY <3>1, MaxOfTwo
    <3> QED
      BY <3>1, <3>2
  <2>2. recent[h] \in [1..Window -> Nat] /\ count[h] \in Counts
    BY <1>a DEF LimitTypeOK
  <2> DEFINE older == [i \in 1..Window |-> IF i = 1 THEN 0 ELSE recent[h][i - 1]]
  <2>3. \A i \in 1..Window : i # 1 => i - 1 \in 1..Window
    BY <1>a
  <2>4. \A i \in 1..Window : (IF i = 1 THEN 0 ELSE recent[h][i - 1]) \in Nat
    BY <2>2, <2>3
  <2>5. older \in [1..Window -> Nat]
    BY <2>4
  <2>6. recent'[h] = older
    BY DEF WindowTick
  <2>7. recent'[h] \in [1..Window -> Nat]
    BY <2>5, <2>6
  <2>8. \A i \in 1..Window : recent'[h][i] = IF i = 1 THEN 0 ELSE recent[h][i - 1]
    BY <2>6
  <2>9. count'[h] = (IF life[h] = 1 THEN 0 ELSE count[h]) /\ life'[h] = (IF life[h] = 0 THEN 0 ELSE life[h] - 1)
    BY <2>1 DEF WindowTick
  <2> QED
    BY <2>1, <2>2, <2>7, <2>8, <2>9
<1>2. LimitTypeOK'
  <2>1. /\ count' = [h \in Hosts |-> count'[h]] /\ life' = [h \in Hosts |-> life'[h]]
        /\ recent' = [h \in Hosts |-> recent'[h]]
    BY DEF WindowTick
  <2>2. \A h \in Hosts : count'[h] \in Counts /\ life'[h] \in 0..Window
    <3> SUFFICES ASSUME NEW h \in Hosts PROVE count'[h] \in Counts /\ life'[h] \in 0..Window
      OBVIOUS
    <3>1. 0 \in Counts
      BY <1>a DEF Counts
    <3>2. count'[h] \in Counts
      BY <1>1, <3>1
    <3>3. life'[h] \in 0..Window
      BY <1>a, <1>1
    <3> QED
      BY <3>2, <3>3
  <2>3. \A h \in Hosts : recent'[h] \in [1..Window -> Nat]
    BY <1>1
  <2> QED
    BY <2>1, <2>2, <2>3 DEF LimitTypeOK
<1>3. ASSUME NEW h \in Hosts  PROVE HostOK(h)'
  <2> DEFINE R == recent[h]
             S == recent'[h]
  <2>1. /\ R \in [1..Window -> Nat] /\ \A i, j \in 1..Window : i <= j => R[i] <= R[j]
        /\ S \in [1..Window -> Nat] /\ \A i \in 1..Window : S[i] = IF i = 1 THEN 0 ELSE R[i - 1]
    BY <1>a, <1>1, <1>3 DEF WindowInv, HostOK
  <2>2. /\ count[h] = 0 => life[h] = 0 /\ R[Window] <= Limit
        /\ count[h] > 0 => R[Window] + Pend(h) <= Limit + Counted(h)
        /\ life[h] \in 1..(Window - 1) => R[Window - life[h]] <= Counted(h)
    BY <1>a, <1>3 DEF WindowInv, HostOK
  <2>3. /\ count'[h] = (IF life[h] = 1 THEN 0 ELSE count[h]) /\ count[h] \in 0..(Limit + 1)
        /\ life'[h] = (IF life[h] = 0 THEN 0 ELSE life[h] - 1) /\ life[h] \in 0..Window
    BY <1>1, <1>3 DEF Counts
  <2>4. Pend(h)' = Pend(h) /\ Pend(h) \in {0, 1} /\ (life[h] # 0 => Pend(h) = 0)
    BY <1>a DEF Pend, Starting, WindowInv
  <2>5. Counted(h) \in Nat /\ Counted(h) <= Limit /\ (life[h] # 1 => Counted(h)' = Counted(h))
    BY <1>a, <2>3 DEF Counted
  <2> HIDE DEF R, S
  <2>6. \A i, j \in 1..Window : i <= j => S[i] <= S[j]
    <3>1. SUFFICES ASSUME NEW i \in 1..Window, NEW j \in 1..Window, i <= j, j # 1, i # 1  PROVE S[i] <= S[j]
      BY <2>1
    <3>2. i - 1 \in 1..Window /\ j - 1 \in 1..Window /\ i - 1 <= j - 1
      BY <1>a, <3>1
    <3> QED
      BY <2>1, <3>1, <3>2
  <2>7. S[Window] <= R[Window]
    <3>1. CASE Window = 1
      BY <1>a, <2>1, <3>1
    <3>2. CASE Window # 1
      <4>1. Window - 1 \in 1..Window /\ Window - 1 <= Window
        BY <1>a, <3>2
      <4> QED
        BY <1>a, <2>1, <3>2, <4>1
    <3> QED
      BY <3>1, <3>2
  <2>8. R[Window] \in Nat /\ S[Window] \in Nat
    BY <1>a, <2>1
  <2>9. ASSUME count'[h] = 0  PROVE life'[h] = 0 /\ S[Window] <= Limit
    <3>1. CASE life[h] = 1
      <4>1. CASE Window = 1
        BY <1>a, <2>1, <2>3, <3>1, <4>1
      <4>2. CASE Window # 1
        <5>1. life[h] \in 1..(Window - 1) /\ Window - 1 \in 1..Window
          BY <1>a, <3>1, <4>2
        <5>2. S[Window] = R[Window - 1] /\ R[Window - 1] \in Nat
          BY <1>a, <2>1, <4>2, <5>1
        <5> QED
          BY <1>a, <2>2, <2>3, <2>5, <3>1, <5>1, <5>2
      <4> QED
        BY <4>1, <4>2
    <3>2. CASE life[h] # 1
      BY <1>a, <2>2, <2>3, <2>7, <2>8, <2>9, <3>2
    <3> QED
      BY <3>1, <3>2
  <2>10. ASSUME count'[h] > 0  PROVE S[Window] + Pend(h)' <= Limit + Counted(h)'
    BY <1>a, <2>2, <2>3, <2>4, <2>5, <2>7, <2>8, <2>10
  <2>11. ASSUME life'[h] \in 1..(Window - 1)  PROVE S[Window - life'[h]] <= Counted(h)'
    <3>1. /\ life[h] \in 2..Window /\ life'[h] = life[h] - 1 /\ Counted(h)' = Counted(h)
          /\ Window - life'[h] \in 1..Window
      BY <1>a, <2>3, <2>5, <2>11
    <3>2. CASE life[h] = Window
      BY <1>a, <2>1, <2>5, <3>1, <3>2
    <3>3. CASE life[h] # Window
      <4>1. /\ life[h] \in 1..(Window - 1) /\ Window - life'[h] # 1
            /\ (Window - life'[h]) - 1 = Window - life[h]
        BY <1>a, <3>1, <3>3
      <4> QED
        BY <2>1, <2>2, <3>1, <4>1
    <3> QED
      BY <3>2, <3>3
  <2> QED
    BY <2>6, <2>9, <2>10, <2>11 DEF HostOK, R, S
<1>4. \A r \in Requests : at[r] = "expire" => count'[Host[r]] > 0 /\ life'[Host[r]] = 0
  <2>1. ASSUME NEW r \in Requests, at[r] = "expire"  PROVE count'[Host[r]] > 0 /\ life'[Host[r]] = 0
    <3>1. Host[r] \in Hosts /\ count[Host[r]] > 0 /\ life[Host[r]] = 0
      BY <1>a, <2>1, Limits DEF WindowInv
    <3> QED
      BY <1>1, <3>1
  <2> QED
    BY <2>1
<1> QED
  BY <1>a, <1>2, <1>3, <1>4 DEF WindowInv

LEMMA RestartStep ==
  ASSUME LimitInv, Restart
  PROVE  LimitTypeOK' /\ WindowInv'
<1>1. LimitTypeOK' /\ \A r \in Requests : at'[r] = "idle"
  BY DEF Restart, limitVars, LimitInv, LimitTypeOK
<1>2. ASSUME NEW h \in Hosts  PROVE HostOK(h)'
  <2>1. HostOK(h) /\ UNCHANGED <<count, life, recent>>
    BY DEF Restart, limitVars, LimitInv, WindowInv
  <2>2. Pend(h)' = 0 /\ Pend(h) \in {0, 1} /\ Counted(h)' = Counted(h)
    BY <1>1, <2>1 DEF Pend, Starting, Counted
  <2>3. recent[h][Window] \in Nat /\ Counted(h) \in Nat /\ Limit \in Nat
    BY Limits DEF LimitInv, LimitTypeOK, Counted, Counts
  <2> QED
    BY <2>1, <2>2, <2>3 DEF HostOK
<1> QED
  BY <1>1, <1>2 DEF WindowInv

LEMMA InitLimit == ASSUME Init PROVE LimitInv
<1> USE Limits DEF Init, LimitInit
<1>1. LimitTypeOK /\ ControlTypeOK
  BY DEF LimitTypeOK, Counts, ControlTypeOK, Locations
<1>2. \A h \in Hosts : HostOK(h)
  BY DEF HostOK
<1> QED
  BY <1>1, <1>2 DEF LimitInv, WindowInv

LEMMA LimitStep == ASSUME LimitInv, [Next]_vars PROVE LimitInv'
<1> DEFINE Goal == LimitTypeOK' /\ WindowInv'
<1>a. ControlTypeOK /\ ControlTypeOK'
  BY ControlStep DEF LimitInv
<1>1. ASSUME NEW r \in Requests, Middleware(r)  PROVE Goal
  <2>1. CASE Arrive(r)
    BY <1>a, <2>1, LimiterAtRest DEF Arrive, Goto, ControlTypeOK
  <2> QED
    BY <1>1, <2>1, IncrStep, SetWindowStep DEF Middleware, Limiter
<1>2. ASSUME NEW r \in Requests, Handle(r)  PROVE Goal
  <2>1. UNCHANGED limitVars
    BY <1>2 DEF Handle, GetCached, ReadBalance, ReadFailed, StoreBalance
  <2>2. at[r] # "expire" /\ \E to : to # "expire" /\ at' = [at EXCEPT ![r] = to]
    BY <1>2 DEF Handle, GetCached, ReadBalance, ReadFailed, StoreBalance, Reading, AfterRead, Goto
  <2>3. \A q \in Requests : at'[q] = "expire" <=> at[q] = "expire"
    BY <1>a, <2>2 DEF ControlTypeOK
  <2> QED
    BY <2>1, <2>3, LimiterAtRest
<1>3. ASSUME Treasury  PROVE Goal
  BY <1>3, LimiterAtRest DEF Treasury, CommitFunding, InvalidateFunding, MoveFunds, PayRedemption,
    RecordRedemption, RecordFailed, InvalidateRedemption
<1>4. ASSUME Tick  PROVE Goal
  BY <1>4, WindowTickStep DEF Tick
<1>5. ASSUME RestartServer  PROVE Goal
  BY <1>5, RestartStep DEF RestartServer
<1>6. ASSUME UNCHANGED vars  PROVE Goal
  BY <1>6, LimiterAtRest DEF vars
<1> QED
  BY <1>a, <1>1, <1>2, <1>3, <1>4, <1>5, <1>6 DEF Next, LimitInv

(* In any rateLimitTTL the counter lets at most two limits through, however*)
(* slowly EXPIRE follows INCR, whatever call fails, wherever the server    *)
(* dies and for any limit, window and number of clients                    *)
(* (rateLimitMiddleware).                                                  *)
THEOREM TwoLimitsAtMost == Spec => []BurstIsBounded
<1>1. Init => LimitInv
  BY InitLimit
<1>2. LimitInv /\ [Next]_vars => LimitInv'
  BY LimitStep
<1>3. LimitInv => BurstIsBounded
  <2> SUFFICES ASSUME LimitInv, NEW h \in Hosts PROVE recent[h][Window] <= 2 * Limit
    BY DEF BurstIsBounded
  <2>1. /\ recent[h][Window] \in Nat /\ count[h] \in Nat /\ Counted(h) \in Nat /\ Counted(h) <= Limit
        /\ Limit \in Nat
    BY Limits DEF LimitInv, LimitTypeOK, Counts, Counted
  <2>2. HostOK(h)
    BY DEF LimitInv, WindowInv
  <2> QED
    BY <2>1, <2>2 DEF HostOK, Pend
<1> QED
  BY <1>1, <1>2, <1>3, PTL DEF Spec

(* The variables keep their types: the counter saturates, no TTL is        *)
(* negative or longer than the one that was set, and no computation is     *)
(* older than its bound.                                                   *)
THEOREM CacheTypes == Spec => []TypeOK
<1>1. Init => LimitInv
  BY InitLimit
<1>2. LimitInv /\ [Next]_vars => LimitInv'
  BY LimitStep
<1>3. LimitInv /\ CacheInv => TypeOK
  <2> SUFFICES ASSUME LimitInv, CacheInv PROVE TypeOK
    OBVIOUS
  <2>1. cached \in Value \cup {NoValue}
    BY Times DEF CacheInv, CachedOK, Value, OldestAge
  <2> QED
    BY <2>1 DEF TypeOK, LimitInv, ControlTypeOK, CacheInv, AgeOK
<1> QED
  BY <1>1, <1>2, <1>3, CacheInvHolds, PTL DEF Spec
=============================================================================
