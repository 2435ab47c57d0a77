----------------------------- MODULE RetryLoop -----------------------------
(***************************************************************************)
(* internal/s3/retry.go, WithRetry, as the execute functions of            *)
(* internal/runner/runner.go use it: one worker runs Operations one after  *)
(* the other, each under a context of its own that its deadline or the     *)
(* run's end may finish at any moment.                                     *)
(***************************************************************************)
EXTENDS Integers

CONSTANTS MaxRetriesSet,  \* the values cfg.MaxRetries may have
          InitialDelay,   \* of DefaultRetryConfig; cfg.RetryBackoff is not used
          MaxDelay,
          Multiplier,
          Operations      \* bound of the model: operations the worker runs

ASSUME RetryAssumption ==
    /\ MaxRetriesSet \subseteq Int
    /\ InitialDelay \in Nat \ {0}
    /\ MaxDelay \in Nat /\ InitialDelay <= MaxDelay
    /\ Multiplier \in Nat \ {0}
    /\ Operations \in Nat

VARIABLES maxAttempts,  \* retryCfg.MaxAttempts
          st,           \* where the worker is
          ctx,          \* the operation's context
          attempt,      \* the loop's variable
          delay,
          lastErr,
          ops,          \* operations begun
          calls,        \* history: calls of fn in this operation
          late          \* history: those that began with the context ended

vars == <<maxAttempts, st, ctx, attempt, delay, lastErr, ops, calls, late>>

history == <<calls, late>>

States == {"idle", "loop", "call", "judge", "backoff", "sleep"}

Contexts == {"live", "deadline", "canceled"}

\* What isRetryable tells apart in an error's text: "transient" is one of the
\* network and S3 errors it lists, "deadline" a text with "deadline exceeded";
\* "canceled" (context canceled) and every other text are not retryable.
Errors == {"transient", "deadline", "canceled", "other"}

isRetryable(err) == err \in {"transient", "deadline"}

Init == /\ maxAttempts \in MaxRetriesSet
        /\ st = "idle"
        /\ ctx = "live"
        /\ attempt = 0
        /\ delay = InitialDelay
        /\ lastErr = "none"
        /\ ops = 0
        /\ calls = 0 /\ late = 0

\* The context is made when the operation begins.
Begin == /\ st = "idle" /\ ops < Operations
         /\ st' = "loop"
         /\ ctx' = "live"
         /\ attempt' = 1
         /\ delay' = InitialDelay
         /\ lastErr' = "none"
         /\ ops' = ops + 1
         /\ calls' = 0 /\ late' = 0
         /\ UNCHANGED maxAttempts

\* Every way out of WithRetry, with an error or without.
Return == st' = "idle"

CallAnyway ==
    /\ st = "loop"
    /\ st' = "call"
    /\ calls' = calls + 1
    /\ late' = IF ctx = "live" THEN late ELSE late + 1
    /\ UNCHANGED <<maxAttempts, ctx, attempt, delay, lastErr, ops>>

\* The loop's condition, and the call of fn.
CallOrGiveUp ==
    /\ st = "loop"
    /\ \/ /\ attempt <= maxAttempts
          /\ st' = "call"
          /\ calls' = calls + 1
          /\ late' = IF ctx = "live" THEN late ELSE late + 1
       \/ attempt > maxAttempts /\ Return /\ UNCHANGED history
    /\ UNCHANGED <<maxAttempts, ctx, attempt, delay, lastErr, ops>>

\* fn comes back.  A call that began with the context ended can only report
\* that end; one in which it ends may still succeed, or fail for its own reason.
FnReturns ==
    /\ st = "call"
    /\ \/ late = 0 /\ Return /\ UNCHANGED lastErr
       \/ /\ lastErr' \in (IF late > 0 THEN {} ELSE {"transient", "other"})
                         \cup (IF ctx = "live" THEN {} ELSE {ctx})
          /\ st' = "judge"
    /\ UNCHANGED <<maxAttempts, ctx, attempt, delay, ops, history>>

JudgeAnyError ==
    /\ st = "judge"
    /\ st' = IF attempt # maxAttempts THEN "backoff" ELSE "idle"
    /\ UNCHANGED <<maxAttempts, ctx, attempt, delay, lastErr, ops, history>>

\* No retry of an error that is not retryable, nor after the last attempt.
Judge ==
    /\ st = "judge"
    /\ st' = IF isRetryable(lastErr) /\ attempt # maxAttempts THEN "backoff" ELSE "idle"
    /\ UNCHANGED <<maxAttempts, ctx, attempt, delay, lastErr, ops, history>>

EnterSleepUnchecked ==
    /\ st = "backoff"
    /\ st' = "sleep"
    /\ UNCHANGED <<maxAttempts, ctx, attempt, delay, lastErr, ops, history>>

\* The select on a new timer: a context that has ended wins.  (Left out: a worker
\* that is kept from reaching the select for all of the backoff.)
EnterSleep ==
    /\ st = "backoff"
    /\ \/ ctx = "live" /\ st' = "sleep"
       \/ ctx # "live" /\ Return
    /\ UNCHANGED <<maxAttempts, ctx, attempt, delay, lastErr, ops, history>>

NextDelayUncapped(d) == d * Multiplier

NextDelay(d) == IF d * Multiplier > MaxDelay THEN MaxDelay ELSE d * Multiplier

WakeOnContext ==
    /\ st = "sleep" /\ ctx # "live"
    /\ st' = "loop"
    /\ delay' = NextDelay(delay)
    /\ attempt' = attempt + 1
    /\ UNCHANGED <<maxAttempts, ctx, lastErr, ops, history>>

\* The timer wakes the worker before anything else does.
Wake ==
    /\ st = "sleep"
    /\ st' = "loop"
    /\ delay' = NextDelay(delay)
    /\ attempt' = attempt + 1
    /\ UNCHANGED <<maxAttempts, ctx, lastErr, ops, history>>

\* The context's end, which wakes a worker that sleeps.
CtxEnds ==
    /\ st # "idle" /\ ctx = "live"
    /\ ctx' \in {"deadline", "canceled"}
    /\ \/ st = "sleep" /\ Return
       \/ st # "sleep" /\ UNCHANGED st
    /\ UNCHANGED <<maxAttempts, attempt, delay, lastErr, ops, history>>

WorkerStep == Begin \/ CallOrGiveUp \/ FnReturns \/ Judge \/ EnterSleep \/ Wake

Terminated == st = "idle" /\ ops = Operations /\ UNCHANGED vars

Next == WorkerStep \/ CtxEnds \/ Terminated

Spec == Init /\ [][Next]_vars

\* The worker runs, its timers fire, and fn returns: OpTimeout bounds a request.
FairSpec == Spec /\ WF_vars(WorkerStep)

-----------------------------------------------------------------------------
(* Properties *)

\* The variables keep their types.
TypeOK == /\ maxAttempts \in MaxRetriesSet
          /\ st \in States
          /\ ctx \in Contexts
          /\ attempt \in Nat
          /\ delay \in InitialDelay .. MaxDelay
          /\ lastErr \in Errors \cup {"none"}
          /\ ops \in 0 .. Operations
          /\ calls \in Nat /\ late \in Nat

\* An operation makes no more calls than MaxRetries, the first one included,
\* however the loop is left.
CallsBounded == calls > 0 => calls <= maxAttempts

\* Once the context has ended at most one more call is begun: the deadline's
\* error counts as retryable, but the backoff notices the end.
OneLateCall == late <= 1

\* Multiplier to the power of n.
Power[n \in Nat] == IF n = 0 THEN 1 ELSE Power[n - 1] * Multiplier

\* The delay that n calls before it call for, if there were no maximum.
Uncut(n) == InitialDelay * Power[n]

CutDelay(n) == IF Uncut(n) > MaxDelay THEN MaxDelay ELSE Uncut(n)

\* The delay before call k + 1, which the jitter then halves at most, is
\* InitialDelay * Multiplier^(k-1), cut at MaxDelay.
BackoffSchedule == st = "sleep" => delay = CutDelay(calls - 1)

\* The worker comes back from every operation, whether its context ends or not.
OperationsEnd == <>(st = "idle" /\ ops = Operations)

\* A call is repeated only after an error that is retryable.
RepeatedOnlyIfRetryable ==
    [][calls > 0 /\ calls' = calls + 1 => isRetryable(lastErr)]_vars

-----------------------------------------------------------------------------
(* The inductive invariant behind them (RetryProofs) *)

\* attempt numbers the calls.
CountInv == /\ st = "loop" => calls = attempt - 1
            /\ st \in {"call", "judge", "backoff", "sleep"} =>
                  calls = attempt /\ attempt <= maxAttempts
            /\ st = "loop" /\ calls > 0 => isRetryable(lastErr)
            /\ st \in {"backoff", "sleep"} => isRetryable(lastErr)

\* A call that began late is the operation's last.
LateInv == /\ late > 0 => ctx # "live" /\ st \notin {"loop", "sleep"}
           /\ st = "sleep" => ctx = "live"

RetryInv == TypeOK /\ CallsBounded /\ OneLateCall /\ CountInv /\ LateInv

\* The delay grows once with each call that is repeated.
DelayInv == /\ st = "loop" => delay = CutDelay(calls)
            /\ st \in {"call", "judge", "backoff", "sleep"} =>
                  calls > 0 /\ delay = CutDelay(calls - 1)
=============================================================================
