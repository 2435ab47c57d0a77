---------------------------- MODULE PacedRunner ----------------------------
(***************************************************************************)
(* The worker loop of Runner with the rate limiters of                     *)
(* internal/workload/ratelimit.go in the place of its undetermined wait.   *)
(* The token bucket of golang.org/x/time/rate, outside the repository, is  *)
(* shared by the workers; a Poisson worker sleeps a time of its own.       *)
(*                                                                         *)
(* Time is counted in ticks: one token's interval, 1/rateLimit seconds.    *)
(* The caller's context is taken to have no deadline.                      *)
(***************************************************************************)
EXTENDS Runner

CONSTANTS RateLimits,   \* the values of cfg.RateLimit
          Gaps,         \* the times, in ticks, a Poisson limiter may draw
          MaxTicks      \* bound of the model: the clock stands still there

ASSUME PacedAssumption ==
    RateLimits \subseteq Int /\ Gaps \subseteq Nat /\ MaxTicks \in Nat

VARIABLES rateLimit,
          tokens,   \* of the bucket; below 0 they are owed to waiting workers
          wait,     \* the ticks each worker's timer has still to run
          now

pace == <<rateLimit, tokens, wait, now>>

pacedVars == <<vars, pace>>

\* The limiter of a rate and a type; an unknown type is a fixed rate.
NewRateLimiter(rateType, limit) ==
    IF limit <= 0 THEN "noop" ELSE IF rateType = "poisson" THEN "poisson" ELSE "fixed"

RateTypes == {"fixed", "poisson", "unknown"}

\* A tenth of a second's tokens, and one at least.
Burst == IF rateLimit \div 10 > 1 THEN rateLimit \div 10 ELSE 1

PacedInit ==
    /\ Init
    /\ rateLimit \in RateLimits
    /\ \E t \in RateTypes : cfg.limiter = NewRateLimiter(t, rateLimit)
    /\ tokens = Burst
    /\ wait = [w \in Workers |-> 0]
    /\ now = 0

-----------------------------------------------------------------------------
(* Waiting *)

Asleep(w, ticks) == /\ wait' = [wait EXCEPT ![w] = ticks]
                    /\ pc'[w] = IF ticks = 0 THEN "count" ELSE "sleep"

TakeTwoTokens(w) == /\ tokens' = tokens - 2
                    /\ Asleep(w, IF tokens' < 0 THEN -tokens' ELSE 0)

TakeTokenInArrears(w) == /\ tokens' = IF tokens > 0 THEN tokens - 1 ELSE tokens
                         /\ Asleep(w, IF tokens > 0 THEN 0 ELSE 1)

\* The bucket reserves a token, and a worker waits until the one it owes has come.
TakeToken(w) == /\ tokens' = tokens - 1
                /\ Asleep(w, IF tokens' < 0 THEN -tokens' ELSE 0)

\* The draw is locked, the sleep is not.
DrawGap(w) == (\E gap \in Gaps : Asleep(w, gap)) /\ UNCHANGED tokens

PacedEnterWait(w) ==
    /\ EnterWait(w)
    /\ \/ cfg.limiter = "noop" /\ UNCHANGED <<tokens, wait>>
       \/ cfg.limiter = "fixed" /\ ctxDone /\ UNCHANGED <<tokens, wait>>
       \/ cfg.limiter = "fixed" /\ ~ctxDone /\ TakeToken(w)
       \/ cfg.limiter = "poisson" /\ DrawGap(w)
    /\ UNCHANGED <<rateLimit, now>>

GrantedEarly(w) == WaitGranted(w) /\ UNCHANGED pace

\* The timer has run out; the worker may be late to notice.
Granted(w) == wait[w] = 0 /\ WaitGranted(w) /\ UNCHANGED pace

\* A cancelled reservation gives its token back, but every worker shares the
\* context that has ended, so none will ask for it.
Cancelled(w) == WaitCancelled(w) /\ UNCHANGED pace

Tick == /\ cfg.limiter # "noop"
        /\ main \in {"spawn", "select", "drain"}
        /\ now' = IF now < MaxTicks THEN now + 1 ELSE now
        /\ tokens' = IF cfg.limiter = "fixed" /\ tokens < Burst THEN tokens + 1 ELSE tokens
        /\ wait' = [w \in Workers |-> IF wait[w] > 0 THEN wait[w] - 1 ELSE 0]
        /\ UNCHANGED <<vars, rateLimit>>

\* The steps of a worker that have nothing to do with the limiter.
Unpaced(w) == /\ \/ Start(w) \/ Check(w) \/ CheckLimit(w) \/ BeginOp(w) \/ EndOp(w)
                 \/ ClearGauge(w) \/ Done(w)
              /\ UNCHANGED pace

PacedNext == \/ (MainStep \/ TimerFires \/ Stop \/ CancelParent) /\ UNCHANGED pace
             \/ \E w \in Workers : PacedEnterWait(w) \/ Granted(w) \/ Cancelled(w) \/ Unpaced(w)
             \/ Tick
             \/ Terminated /\ UNCHANGED pace

PacedSpec == PacedInit /\ [][PacedNext]_pacedVars

-----------------------------------------------------------------------------
(* Properties *)

\* The variables keep their types, those of the runner included.
PacedTypeOK == /\ TypeOK
               /\ rateLimit \in RateLimits
               /\ tokens \in Int /\ tokens <= Burst
               /\ wait \in [Workers -> Nat]
               /\ now \in 0 .. MaxTicks

\* With a fixed rate the run executes, at any time, no more operations than the
\* burst and one for each tick: the waits of the workers, which begin and end in
\* any order, share one bucket.
RateConforms == cfg.limiter = "fixed" /\ now < MaxTicks => opsCounter <= Burst + now

\* A worker has one reservation at a time, so it waits for as many tokens as there
\* are workers at most: so long may it take to notice a Stop, which the limiter
\* does not watch.
WaitBounded == cfg.limiter = "fixed" => \A w \in Workers : wait[w] <= Concurrency

\* Workers that owe tokens wait for different ones: they do not wake together.
WaitersSpread ==
    cfg.limiter = "fixed" =>
        \A v, w \in Workers : v # w /\ wait[v] > 0 => wait[v] # wait[w]
-----------------------------------------------------------------------------
(* The inductive invariant behind the properties of the token bucket        *)
(* (PacedProofs)                                                            *)

\* Workers that hold a token no operation has been counted for, or still owe one.
Holding == {w \in Workers : pc[w] \in {"sleep", "count"} \/ wait[w] > 0}

\* A timer runs for a worker in the limiter, or for one that was cancelled there.
TimersInv == \A w \in Workers : wait[w] > 0 => pc[w] \in {"sleep", "exit", "leave", "done"}

\* The tokens that are owed are those that the waiting workers wait for.
DebtInv == /\ \A w \in Workers : wait[w] > 0 => wait[w] <= -tokens
           /\ \A k \in 1 .. -tokens : \E w \in Workers : wait[w] = k

\* No token is made but by the clock.
TokensInv == now < MaxTicks => tokens + opsCounter + Cardinality(Holding) <= Burst + now

BucketInv == cfg.limiter = "fixed" => TimersInv /\ DebtInv /\ WaitersSpread /\ TokensInv
=============================================================================
