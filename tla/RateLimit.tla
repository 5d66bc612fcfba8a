----------------------------- MODULE RateLimit ------------------------------
(***************************************************************************)
(* rateLimitMiddleware (cmd/api/middleware.go): a fixed window of requests *)
(* per remote host, counted by INCR on a Redis key whose TTL, set by the   *)
(* request that found no key, ends the window.  INCR and EXPIRE are two    *)
(* calls.                                                                  *)
(*                                                                         *)
(* A request that is let through is "inside" until the handler behind the  *)
(* middleware is done; TreasuryCache supplies one.  Time passes in ticks:  *)
(* lives count down, and a key whose life is over is gone.                 *)
(***************************************************************************)
EXTENDS Integers, Sequences, FiniteSetsExt

CONSTANTS
  Requests,   \* goroutines of the server, one request each at a time
  Hosts,      \* remote addresses
  Host,       \* the host each of them serves
  Limit,      \* rateLimitValue (100 in the code)
  Window,     \* rateLimitTTL in ticks (60 s in the code)
  Env         \* what may go wrong, see LimitFlags

LimitFlags == {
  "fault",    \* a call fails without effect
  "lost",     \* a call takes effect and its reply is lost
  "crash"}    \* the server dies in the middle of its requests and restarts

ASSUME LimitAssumption ==
  /\ Host \in [Requests -> Hosts]
  /\ Limit \in Nat \ {0} /\ Window \in Nat \ {0}
  /\ Env \subseteq LimitFlags

VARIABLES
  at,       \* the next call of each request
  count,    \* Redis key ratelimit:{host}, 0 if there is none
  life,     \* ticks until that key expires, 0 if it has no TTL
  recent    \* history: requests the counter has admitted in this tick and
            \* in up to Window - 1 ticks before it

limitVars == <<count, life, recent>>

\* Nothing depends on by how much the limit is exceeded.
Counts == 0..(Limit + 1)
Fault == "fault" \in Env
Lost == "lost" \in Env

LimitTypeOK ==
  /\ count \in [Hosts -> Counts]
  /\ life \in [Hosts -> 0..Window]
  /\ recent \in [Hosts -> [1..Window -> Nat]]

LimitInit ==
  /\ at = [r \in Requests |-> "idle"]
  /\ count = [h \in Hosts |-> 0]
  /\ life = [h \in Hosts |-> 0]
  /\ recent = [h \in Hosts |-> [i \in 1..Window |-> 0]]

Goto(r, to) == at' = [at EXCEPT ![r] = to]

-----------------------------------------------------------------------------

\* A request reaches the middleware.
Arrive(r) ==
  /\ at[r] = "idle"
  /\ Goto(r, "incr")
  /\ UNCHANGED limitVars

CountUp(h) == count' = [count EXCEPT ![h] = Min({@ + 1, Limit + 1})]

Admit(r) ==
  /\ Goto(r, "inside")
  /\ recent' = [recent EXCEPT ![Host[r]] = [i \in 1..Window |-> @[i] + 1]]

\* Mutant: one request too many.
MutExceeds(n) == n > Limit + 1

Exceeds(n) == n > Limit

\* Mutant: EXPIRE is sent with every INCR, not only with the first.
MutIncrSlides(r) ==
  /\ at[r] = "incr"
  /\ CountUp(Host[r])
  /\ life' = [life EXCEPT ![Host[r]] = Window]
  /\ IF Exceeds(count[Host[r]] + 1) THEN Goto(r, "idle") /\ UNCHANGED recent ELSE Admit(r)

\* INCR; the request that starts a window goes on to set its end, the
\* others are answered 429 or handed on.
Incr(r) ==
  /\ at[r] = "incr"
  /\ CountUp(Host[r])
  /\ \/ /\ count[Host[r]] = 0
        /\ Goto(r, "expire")
        /\ UNCHANGED recent
     \/ /\ count[Host[r]] > 0
        /\ ~Exceeds(count[Host[r]] + 1)
        /\ Admit(r)
     \/ /\ count[Host[r]] > 0
        /\ Exceeds(count[Host[r]] + 1)
        /\ Goto(r, "idle")
        /\ UNCHANGED recent
  /\ UNCHANGED life

\* Fail open: the request is handed on, counted or not.
IncrFailed(r) ==
  /\ at[r] = "incr"
  /\ \/ Fault /\ UNCHANGED count
     \/ Lost /\ CountUp(Host[r])
  /\ Goto(r, "inside")
  /\ UNCHANGED <<life, recent>>

\* EXPIRE; its error is ignored.  The limit is at least 1.
SetWindow(r) ==
  /\ at[r] = "expire"
  /\ \/ life' = [life EXCEPT ![Host[r]] = Window]
     \/ Fault /\ UNCHANGED life
  /\ Admit(r)
  /\ UNCHANGED count

\* All requests of the server die; what is in Redis stays.
Restart ==
  /\ "crash" \in Env
  /\ \E r \in Requests : at[r] # "idle"
  /\ at' = [r \in Requests |-> "idle"]
  /\ UNCHANGED limitVars

\* Time passes: a key whose TTL has run out is gone.
WindowTick ==
  /\ count' = [h \in Hosts |-> IF life[h] = 1 THEN 0 ELSE count[h]]
  /\ life' = [h \in Hosts |-> Max({0, life[h] - 1})]
  /\ recent' = [h \in Hosts |-> [i \in 1..Window |-> IF i = 1 THEN 0 ELSE recent[h][i - 1]]]

Limiter(r) == Arrive(r) \/ Incr(r) \/ IncrFailed(r) \/ SetWindow(r)

-----------------------------------------------------------------------------

(* Fixed windows admit bursts at their border, but never more than two     *)
(* windows' worth: in any rateLimitTTL the counter lets at most twice      *)
(* rateLimitValue requests through, however slowly EXPIRE follows INCR,    *)
(* whatever fails (requests let through because Redis failed are not       *)
(* counted).                                                               *)
BurstIsBounded ==
  \A h \in Hosts : recent[h][Window] <= 2 * Limit

(* "so the counter resets automatically": a host over the limit is let in  *)
(* again even if it never stops asking, provided EXPIRE has set the TTL.   *)
BlockedIsFreed ==
  \A h \in Hosts : (Exceeds(count[h]) /\ life[h] > 0) ~> ~Exceeds(count[h])
=============================================================================
