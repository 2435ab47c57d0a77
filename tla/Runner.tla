------------------------------- MODULE Runner -------------------------------
(***************************************************************************)
(* internal/runner/runner.go: Run, Stop and the worker loop.  One process *)
(* is the goroutine inside Run (variable main), one per worker goroutine  *)
(* (pc), and the caller may stop the run or cancel its context at any     *)
(* moment.  An operation is one interval between BeginOp and EndOp.       *)
(***************************************************************************)
EXTENDS Integers, FiniteSets

CONSTANTS Workers,     \* the goroutines Run starts, cfg.Concurrency of them
          Configs,     \* the configurations a run may have
          CounterCap   \* bound of the model: opsCounter counts up to it

Limiters == {"noop", "fixed", "poisson"}

ConfigType == [operations : Nat, timed : BOOLEAN, limiter : Limiters,
               createBucket : BOOLEAN, cleanup : BOOLEAN]

Concurrency == Cardinality(Workers)

ASSUME RunnerAssumption ==
    /\ IsFiniteSet(Workers) /\ Workers # {}
    /\ Configs \subseteq ConfigType
    /\ CounterCap \in Nat
    /\ \A c \in Configs : c.operations + Concurrency <= CounterCap

VARIABLES cfg,         \* the configuration of this run
          main,        \* where the goroutine of Run is
          outcome,     \* why Run left its select, or returned early
          wg,          \* the WaitGroup's counter
          stopped,     \* stopChan is closed
          ctxDone,     \* workerCtx is done
          timerFired,  \* durationChan holds a value
          opsCounter,
          gauge,       \* s3_active_workers
          pc,          \* where each worker is
          late         \* history: operations begun after shutdown was requested

vars == <<cfg, main, outcome, wg, stopped, ctxDone, timerFired, opsCounter,
          gauge, pc, late>>

control == <<cfg, main, outcome, stopped, ctxDone, timerFired>>
shared  == <<wg, opsCounter, gauge, late>>

MainStates == {"setup", "cleanup", "spawn", "select", "drain", "returned"}

Outcomes == {"none", "bucketError", "cleaned", "cleanupError",
             "cancelled", "stopped", "elapsed"}

WorkerStates == {"idle", "start", "top", "limit", "wait", "sleep", "count",
                 "exec", "exit", "leave", "done"}

Shutdown == stopped \/ ctxDone

QuotaMet == cfg.operations > 0 /\ opsCounter >= cfg.operations

Init == /\ cfg \in Configs
        /\ main = "setup"
        /\ outcome = "none"
        /\ wg = 0
        /\ stopped = FALSE
        /\ ctxDone = FALSE
        /\ timerFired = FALSE
        /\ opsCounter = 0
        /\ gauge = 0
        /\ pc = [w \in Workers |-> "idle"]
        /\ late = [w \in Workers |-> 0]

-----------------------------------------------------------------------------
(* The goroutine of Run *)

Workload == <<wg, stopped, ctxDone, timerFired, opsCounter, gauge, pc, late>>

\* CreateBucket ends the run when it fails; a versioning failure is logged only.
SetupBucket ==
    /\ main = "setup"
    /\ \/ /\ cfg.createBucket
          /\ main' = "returned"
          /\ outcome' = "bucketError"
       \/ /\ main' = IF cfg.cleanup THEN "cleanup" ELSE "spawn"
          /\ UNCHANGED outcome
    /\ UNCHANGED <<cfg, Workload>>

CleanupMode ==
    /\ main = "cleanup"
    /\ main' = "returned"
    /\ outcome' \in {"cleaned", "cleanupError"}
    /\ UNCHANGED <<cfg, Workload>>

\* One turn of the spawn loop: wg.Add(1) before the go statement.
Spawn(w) ==
    /\ main = "spawn"
    /\ pc[w] = "idle"
    /\ wg' = wg + 1
    /\ pc' = [pc EXCEPT ![w] = "start"]
    /\ main' = IF \A v \in Workers \ {w} : pc[v] # "idle" THEN "select" ELSE "spawn"
    /\ UNCHANGED <<cfg, outcome, stopped, ctxDone, timerFired, opsCounter, gauge, late>>

\* The three arms of the select in Run: any that is ready may be taken.
LeaveSelect(why) == main = "select" /\ main' = "drain" /\ outcome' = why

SelectCancelled ==
    /\ ctxDone
    /\ LeaveSelect("cancelled")
    /\ UNCHANGED <<cfg, Workload>>

SelectStopped ==
    /\ stopped
    /\ LeaveSelect("stopped")
    /\ UNCHANGED <<cfg, Workload>>

SelectElapsedNoCancel ==
    /\ timerFired
    /\ LeaveSelect("elapsed")
    /\ UNCHANGED <<cfg, Workload>>

SelectElapsed ==
    /\ timerFired
    /\ LeaveSelect("elapsed")
    /\ ctxDone' = TRUE
    /\ UNCHANGED <<cfg, wg, stopped, timerFired, opsCounter, gauge, pc, late>>

\* wg.Wait, then the deferred cancel of workerCtx on the way out.
WaitDoneEarly ==
    /\ main = "drain"
    /\ main' = "returned"
    /\ ctxDone' = TRUE
    /\ UNCHANGED <<cfg, outcome, wg, stopped, timerFired, opsCounter, gauge, pc, late>>

WaitDone ==
    /\ main = "drain"
    /\ wg = 0
    /\ main' = "returned"
    /\ ctxDone' = TRUE
    /\ UNCHANGED <<cfg, outcome, wg, stopped, timerFired, opsCounter, gauge, pc, late>>

MainStep == \/ SetupBucket \/ CleanupMode \/ (\E w \in Workers : Spawn(w))
            \/ SelectCancelled \/ SelectStopped \/ SelectElapsed \/ WaitDone

-----------------------------------------------------------------------------
(* The environment: the clock and the caller *)

\* time.After is set just before the spawn loop, and only for a positive Duration.
TimerFires ==
    /\ cfg.timed
    /\ main \in {"spawn", "select"}
    /\ ~timerFired
    /\ timerFired' = TRUE
    /\ UNCHANGED <<cfg, main, outcome, shared, stopped, ctxDone, pc>>

\* Stop closes stopChan; a second call would panic, so the caller makes one.
Stop ==
    /\ ~stopped
    /\ stopped' = TRUE
    /\ UNCHANGED <<cfg, main, outcome, shared, ctxDone, timerFired, pc>>

CancelParent ==
    /\ ~ctxDone
    /\ ctxDone' = TRUE
    /\ UNCHANGED <<cfg, main, outcome, shared, stopped, timerFired, pc>>

-----------------------------------------------------------------------------
(* A worker *)

Goto(w, from, to) == pc[w] = from /\ pc' = [pc EXCEPT ![w] = to]

Start(w) ==
    /\ Goto(w, "start", "top")
    /\ gauge' = Concurrency
    /\ UNCHANGED <<control, wg, opsCounter, late>>

\* The non-blocking select at the top of the loop.
CheckContextOnly(w) ==
    /\ \/ ctxDone /\ Goto(w, "top", "exit")
       \/ ~ctxDone /\ Goto(w, "top", "limit")
    /\ UNCHANGED <<control, shared>>

Check(w) ==
    /\ \/ Shutdown /\ Goto(w, "top", "exit")
       \/ ~Shutdown /\ Goto(w, "top", "limit")
    /\ UNCHANGED <<control, shared>>

CheckLimitBeyond(w) ==
    /\ \/ QuotaMet /\ opsCounter > cfg.operations /\ Goto(w, "limit", "exit")
       \/ ~(QuotaMet /\ opsCounter > cfg.operations) /\ Goto(w, "limit", "wait")
    /\ UNCHANGED <<control, shared>>

CheckLimitUnguarded(w) ==
    /\ \/ opsCounter >= cfg.operations /\ Goto(w, "limit", "exit")
       \/ opsCounter < cfg.operations /\ Goto(w, "limit", "wait")
    /\ UNCHANGED <<control, shared>>

CheckLimitIgnored(w) == Goto(w, "limit", "wait") /\ UNCHANGED <<control, shared>>

\* The limit is read here and counted against only in BeginOp.
CheckLimit(w) ==
    /\ \/ QuotaMet /\ Goto(w, "limit", "exit")
       \/ ~QuotaMet /\ Goto(w, "limit", "wait")
    /\ UNCHANGED <<control, shared>>

\* rateLimiter.Wait up to the point where it returns or blocks.  Only the token
\* bucket looks at the context first; none of them looks at stopChan.
EnterWait(w) ==
    /\ \/ cfg.limiter = "noop" /\ Goto(w, "wait", "count")
       \/ cfg.limiter = "fixed" /\ ctxDone /\ Goto(w, "wait", "exit")
       \/ /\ cfg.limiter = "fixed" /\ ~ctxDone
          /\ \E to \in {"count", "sleep"} : Goto(w, "wait", to)
       \/ /\ cfg.limiter = "poisson"
          /\ \E to \in {"count", "sleep"} : Goto(w, "wait", to)
    /\ UNCHANGED <<control, shared>>

\* The blocked wait ends with its timer, or with the context's end.
WaitGranted(w) == Goto(w, "sleep", "count") /\ UNCHANGED <<control, shared>>

WaitCancelled(w) == ctxDone /\ Goto(w, "sleep", "exit") /\ UNCHANGED <<control, shared>>

\* The saturation at CounterCap is the model's; it is reached only with no limit.
BeginOp(w) ==
    /\ Goto(w, "count", "exec")
    /\ opsCounter' = IF opsCounter < CounterCap THEN opsCounter + 1 ELSE opsCounter
    /\ late' = IF Shutdown THEN [late EXCEPT ![w] = @ + 1] ELSE late
    /\ UNCHANGED <<control, wg, gauge>>

\* executeOp comes back, with or without an error; OpTimeout bounds it.
EndOp(w) == Goto(w, "exec", "top") /\ UNCHANGED <<control, shared>>

\* The deferred calls, last one first: the gauge is cleared, then wg.Done.
ClearGaugeLost(w) == Goto(w, "exit", "leave") /\ UNCHANGED <<control, shared>>

ClearGauge(w) ==
    /\ Goto(w, "exit", "leave")
    /\ gauge' = 0
    /\ UNCHANGED <<control, wg, opsCounter, late>>

DoneTwice(w) ==
    /\ Goto(w, "leave", "done")
    /\ wg' = wg - 2
    /\ UNCHANGED <<control, opsCounter, gauge, late>>

Done(w) ==
    /\ Goto(w, "leave", "done")
    /\ wg' = wg - 1
    /\ UNCHANGED <<control, opsCounter, gauge, late>>

WorkerStep(w) ==
    \/ Start(w) \/ Check(w) \/ CheckLimit(w) \/ EnterWait(w) \/ WaitGranted(w)
    \/ WaitCancelled(w) \/ BeginOp(w) \/ EndOp(w) \/ ClearGauge(w) \/ Done(w)

\* The program has ended: Run has returned.
Terminated == main = "returned" /\ UNCHANGED vars

Next == \/ MainStep
        \/ TimerFires \/ Stop \/ CancelParent
        \/ \E w \in Workers : WorkerStep(w)
        \/ Terminated

Spec == Init /\ [][Next]_vars

\* Go runs every ready goroutine, a timer fires, a rate limiter's wait is
\* finite and OpTimeout ends every operation.  Nothing obliges the caller.
FairSpec == /\ Spec
            /\ WF_vars(MainStep)
            /\ WF_vars(TimerFires)
            /\ \A w \in Workers : WF_vars(WorkerStep(w))

-----------------------------------------------------------------------------
(* Properties *)

\* The variables keep their types: the WaitGroup never goes negative (Go would
\* panic) and the gauge shows nothing but 0 and the configured concurrency.
TypeOK == /\ cfg \in Configs
          /\ main \in MainStates
          /\ outcome \in Outcomes
          /\ wg \in 0 .. Concurrency
          /\ stopped \in BOOLEAN /\ ctxDone \in BOOLEAN /\ timerFired \in BOOLEAN
          /\ opsCounter \in 0 .. CounterCap
          /\ gauge \in {0, Concurrency}
          /\ pc \in [Workers -> WorkerStates]
          /\ late \in [Workers -> Nat]

\* The limit is checked and counted in two steps (runner.go:196 and 208), so it
\* can be exceeded, but by no more than the other workers already past the check.
QuotaOvershoot ==
    cfg.operations > 0 => opsCounter <= cfg.operations + Concurrency - 1

\* When Run returns, no worker is between its start and its last deferred call:
\* the counter that is logged and the objects written are final.
DrainedOnReturn == main = "returned" => \A w \in Workers : pc[w] \in {"idle", "done"}

\* Because the gauge's reset is deferred after wg.Done, it runs before it: the
\* gauge never shows workers once Run has returned.
GaugeClearAtReturn == main = "returned" => gauge = 0

\* Stop and cancellation are noticed at the top of the loop only: a worker that
\* was past it begins one more operation, and never a second one.
OneLateOp == \A w \in Workers : late[w] <= 1

\* A worker leaves its loop only on a stop, on the context's end or with the
\* limit reached; a rate limiter's error is always the context's.
QuitOnlyForCause ==
    \A w \in Workers : pc[w] \in {"exit", "leave", "done"} => Shutdown \/ QuotaMet

\* A stop, a cancellation or an expired duration is followed by the return of
\* Run, whatever the workers were doing.
ShutdownCompletes == (Shutdown \/ timerFired) ~> (main = "returned")

\* A limited run works its limit off: once the workers are up, each ends.
LimitEndsWorkers ==
    (main = "select" /\ cfg.operations > 0) ~> (\A w \in Workers : pc[w] = "done")

\* Run implements the contract its caller relies on.
Contract == INSTANCE WorkloadContract WITH
    Clients  <- Workers,
    phase    <- IF main = "returned" THEN "closed" ELSE "open",
    closing  <- Shutdown,
    inflight <- {w \in Workers : pc[w] = "exec"},
    grace    <- {w \in Workers : late[w] = 0},
    budget   <- IF cfg.operations = 0 THEN -1
                ELSE cfg.operations + Concurrency - 1 - opsCounter,
    started  <- opsCounter > 0

ImplementsContract == Contract!Spec

\* docs/CLI.md says of --operations "Total operations (0 for unlimited, overrides
\* duration)": a run that has reached its total comes to its end.
LimitEndsRun == QuotaMet ~> (main = "returned")

\* README.md calls s3_active_workers "Current active workers": it is not 0 while
\* a worker executes an operation.
GaugeShowsActivity == (\E w \in Workers : pc[w] = "exec") => gauge > 0
-----------------------------------------------------------------------------
(* The inductive invariant behind the safety properties (RunnerProofs) *)

\* Workers that have passed the limit's check and are not counted yet.
Uncounted == {w \in Workers : pc[w] \in {"wait", "sleep", "count"}}

\* Workers that were started and have not run their last deferred call.
Live == {w \in Workers : pc[w] \notin {"idle", "done"}}

QuotaInv == cfg.operations > 0 =>
    opsCounter + Cardinality(Uncounted) <= cfg.operations + Concurrency - 1

WgInv == wg = Cardinality(Live)

MainInv ==
    /\ main \in {"setup", "cleanup"} =>
          opsCounter = 0 /\ \A w \in Workers : pc[w] = "idle"
    /\ main \in {"select", "drain"} => \A w \in Workers : pc[w] # "idle"
    /\ main = "drain" => Shutdown

\* Some worker has still to run its deferred reset while the gauge is up.
GaugeInv == gauge # 0 =>
    \E w \in Workers : pc[w] \notin {"idle", "start", "leave", "done"}

LateInv == \A w \in Workers :
    /\ ~Shutdown => late[w] = 0
    /\ pc[w] \in {"limit", "wait", "sleep", "count"} => late[w] = 0
    /\ late[w] <= 1

\* A state predicate that every step preserves: it relates the WaitGroup, the
\* gauge and the uncounted workers to the place where each worker is.
IInv == /\ TypeOK /\ QuotaInv /\ WgInv /\ MainInv /\ GaugeInv /\ LateInv
        /\ DrainedOnReturn /\ QuitOnlyForCause
=============================================================================
