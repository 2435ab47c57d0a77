---------------------------- MODULE PacedProofs ----------------------------
(***************************************************************************)
(* Proofs about PacedRunner, for any number of workers, rates, gaps and    *)
(* ticks.  A paced run is a run, so the invariant of RunnerProofs holds;   *)
(* that of the token bucket is proved on top of it.                        *)
(***************************************************************************)
EXTENDS PacedRunner, RunnerProofs

-----------------------------------------------------------------------------
(* A paced run is a run *)

\* A limiter only says when the wait of a worker ends.
LEMMA StepIsRun == ASSUME [PacedNext]_pacedVars PROVE [Next]_vars
<1>1. CASE (MainStep \/ TimerFires \/ Stop \/ CancelParent) /\ UNCHANGED pace
  BY <1>1 DEF Next
<1>2. ASSUME NEW w \in Workers,
             PacedEnterWait(w) \/ Granted(w) \/ Cancelled(w) \/ Unpaced(w)
      PROVE  Next
  BY <1>2 DEF PacedEnterWait, Granted, Cancelled, Unpaced, Next, WorkerStep
<1>3. CASE Tick
  BY <1>3 DEF Tick
<1>4. CASE Terminated /\ UNCHANGED pace
  BY <1>4 DEF Next
<1>5. CASE UNCHANGED pacedVars
  BY <1>5 DEF pacedVars
<1> QED
  BY <1>1, <1>2, <1>3, <1>4, <1>5 DEF PacedNext

\* With the limiters in the place of its undetermined wait, the runner does
\* nothing that Runner does not allow: what is proved of Runner holds.
THEOREM PacedRefinesRunner == PacedSpec => Spec
<1>1. PacedInit => Init
  BY DEF PacedInit
<1>2. [PacedNext]_pacedVars => [Next]_vars
  BY StepIsRun
<1> QED
  BY <1>1, <1>2, PTL DEF PacedSpec, Spec

\* No step changes the configuration, and none but BeginOp the counter.
LEMMA RunStep ==
    ASSUME [Next]_vars
    PROVE  /\ cfg' = cfg
           /\ (\A w \in Workers : ~BeginOp(w)) => opsCounter' = opsCounter
<1>1. CASE MainStep
  BY <1>1 DEF MainStep, SetupBucket, CleanupMode, Spawn, SelectCancelled, SelectStopped,
              SelectElapsed, WaitDone, Workload
<1>2. CASE TimerFires \/ Stop \/ CancelParent
  BY <1>2 DEF TimerFires, Stop, CancelParent, shared
<1>3. ASSUME NEW w \in Workers, WorkerStep(w)
      PROVE  cfg' = cfg /\ (~BeginOp(w) => opsCounter' = opsCounter)
  BY <1>3 DEF WorkerStep, Start, Check, CheckLimit, EnterWait, WaitGranted, WaitCancelled,
              BeginOp, EndOp, ClearGauge, Done, control, shared
<1>4. CASE UNCHANGED vars
  BY <1>4 DEF vars
<1> QED
  BY <1>1, <1>2, <1>3, <1>4 DEF Next, Terminated

-----------------------------------------------------------------------------
(* Types *)

\* What the limiters add to the state.
PaceType == /\ rateLimit \in RateLimits
            /\ tokens \in Int /\ tokens <= Burst
            /\ wait \in [Workers -> Nat]
            /\ now \in 0 .. MaxTicks

\* A bucket holds at least one token when it is full.
LEMMA BurstPositive == ASSUME PaceType PROVE Burst \in Int /\ Burst >= 1
  BY PacedAssumption DEF PaceType, Burst

\* A full bucket at the start, and no timer.
LEMMA InitPace == ASSUME PacedInit PROVE PaceType
<1>1. rateLimit \in Int
  BY PacedAssumption DEF PacedInit
<1>2. Burst \in Int
  BY <1>1 DEF Burst
<1> QED
  BY <1>2, PacedAssumption DEF PacedInit, PaceType

\* Every step keeps the types.
LEMMA StepPace == ASSUME PaceType, [PacedNext]_pacedVars PROVE PaceType'
<1> USE DEF PaceType
<1>1. CASE UNCHANGED pace
  BY <1>1 DEF pace, Burst
<1>2. ASSUME NEW w \in Workers, PacedEnterWait(w) PROVE PaceType'
  <2>1. UNCHANGED <<rateLimit, now>> /\ Burst' = Burst
    BY <1>2 DEF PacedEnterWait, Burst
  <2>2. Burst \in Int
    BY BurstPositive
  <2>3. CASE UNCHANGED <<tokens, wait>>
    BY <2>1, <2>3
  <2>4. CASE TakeToken(w)
    <3>1. tokens' \in Int
      BY <2>4 DEF TakeToken
    <3>2. tokens' <= Burst
      BY <2>2, <2>4 DEF TakeToken
    <3>3. \A t \in Int : (IF t < 0 THEN -t ELSE 0) \in Nat
      OBVIOUS
    <3>4. wait' \in [Workers -> Nat]
      BY <2>4, <3>1, <3>3 DEF TakeToken, Asleep
    <3> QED
      BY <2>1, <3>1, <3>2, <3>4
  <2>5. CASE DrawGap(w)
    BY <2>1, <2>5, PacedAssumption DEF DrawGap, Asleep
  <2> QED
    BY <1>2, <2>3, <2>4, <2>5 DEF PacedEnterWait
<1>3. CASE Tick
  <2>1. rateLimit' = rateLimit /\ Burst' = Burst
    BY <1>3 DEF Tick, Burst
  <2>2. now' \in 0 .. MaxTicks
    BY <1>3, PacedAssumption DEF Tick
  <2>3. tokens' \in Int /\ tokens' <= Burst
    BY <1>3, BurstPositive DEF Tick
  <2>4. wait' \in [Workers -> Nat]
    BY <1>3 DEF Tick
  <2> QED
    BY <2>1, <2>2, <2>3, <2>4
<1>4. UNCHANGED pace \/ Tick \/ \E w \in Workers : PacedEnterWait(w)
  BY DEF PacedNext, Granted, Cancelled, Unpaced, pacedVars
<1> QED
  BY <1>1, <1>2, <1>3, <1>4

\* The types of the runner's and the limiters' variables.
THEOREM PacedTypeCorrect == PacedSpec => []PacedTypeOK
<1>1. PacedInit => PaceType
  BY InitPace
<1>2. PaceType /\ [PacedNext]_pacedVars => PaceType'
  BY StepPace
<1>3. TypeOK /\ PaceType => PacedTypeOK
  BY DEF PaceType, PacedTypeOK
<1> QED
  BY <1>1, <1>2, <1>3, PacedRefinesRunner, TypeCorrect, PTL DEF PacedSpec

-----------------------------------------------------------------------------
(* The token bucket *)

\* The bucket owes no more tokens than there are workers that wait.
LEMMA DebtWithinWaiters ==
    ASSUME PaceType, DebtInv
    PROVE  -tokens <= Cardinality({w \in Workers : wait[w] > 0})
<1> DEFINE waiting == {w \in Workers : wait[w] > 0}
<1> DEFINE owner == [k \in 1 .. -tokens |-> CHOOSE w \in Workers : wait[w] = k]
<1>1. tokens \in Int
  BY DEF PaceType
<1>2. \A k \in 1 .. -tokens : owner[k] \in Workers /\ wait[owner[k]] = k
  BY DEF DebtInv
<1>3. \A k \in 1 .. -tokens : k > 0
  OBVIOUS
<1>4. owner \in [1 .. -tokens -> waiting]
  BY <1>2, <1>3
<1>5. owner \in Injection(1 .. -tokens, waiting)
  BY <1>2, <1>4 DEF Injection, IsInjective
<1>6. IsFiniteSet(waiting) /\ Cardinality(waiting) \in Nat
  BY WorkerSubset
<1>7. Cardinality(1 .. -tokens) <= Cardinality(waiting)
  BY <1>5, <1>6, FS_Injection
<1>8. 1 \in Int /\ -tokens \in Int
  BY <1>1
<1>9. Cardinality(1 .. -tokens) = IF 1 > -tokens THEN 0 ELSE -tokens - 1 + 1
  BY <1>8, FS_Interval
<1> QED
  BY <1>1, <1>6, <1>7, <1>9

\* The workers that hold a token can be counted.
LEMMA HoldingFinite ==
    /\ Holding \subseteq Workers
    /\ IsFiniteSet(Holding) /\ Cardinality(Holding) \in Nat
<1>1. Holding \subseteq Workers
  BY DEF Holding
<1> QED
  BY <1>1, WorkerSubset

\* The same after a step.
LEMMA HoldingFiniteNext ==
    /\ Holding' \subseteq Workers
    /\ IsFiniteSet(Holding') /\ Cardinality(Holding') \in Nat
<1>1. Holding' \subseteq Workers
  BY DEF Holding
<1> QED
  BY <1>1, WorkerSubset

\* Fewer workers hold a token when no worker has come to hold one.
LEMMA HoldingShrinks ==
    ASSUME Holding' \subseteq Holding
    PROVE  Cardinality(Holding') <= Cardinality(Holding)
  BY HoldingFinite, FS_Subset

\* A step of a worker that counts no operation and enters no wait.
LEMMA MoveKeepsBucket ==
    ASSUME TypeOK, PaceType, BucketInv, cfg.limiter = "fixed",
           UNCHANGED <<cfg, opsCounter, pace>>,
           NEW w \in Workers, NEW from, NEW to \in WorkerStates, Goto(w, from, to),
           to \in {"sleep", "count"} => from = "sleep",
           wait[w] > 0 => to \in {"sleep", "exit", "leave", "done"}
    PROVE  BucketInv'
<1> USE DEF pace
<1>1. /\ pc[w] = from /\ pc'[w] = to
      /\ \A v \in Workers \ {w} : pc'[v] = pc[v]
  BY MoveSets DEF Goto
<1>2. TimersInv'
  BY <1>1 DEF TimersInv, BucketInv
<1>3. DebtInv' /\ WaitersSpread'
  BY DEF DebtInv, WaitersSpread, BucketInv
<1>4. Holding' \subseteq Holding
  BY <1>1 DEF Holding
<1>5. TokensInv'
  <2>1. Burst' = Burst /\ Burst \in Int
    BY BurstPositive DEF Burst
  <2>2. opsCounter \in Int /\ tokens \in Int /\ now \in Int
    BY RunnerAssumption, PacedAssumption DEF TypeOK, PaceType
  <2> QED
    BY <1>4, <2>1, <2>2, HoldingShrinks, HoldingFinite, HoldingFiniteNext
       DEF TokensInv, BucketInv
<1> QED
  BY <1>2, <1>3, <1>5 DEF BucketInv

\* A step that no worker takes, and that leaves the limiter alone.
LEMMA QuietKeepsBucket ==
    ASSUME BucketInv, UNCHANGED <<cfg, opsCounter, pace, pc>>
    PROVE  BucketInv'
  BY DEF pace, BucketInv, TimersInv, DebtInv, WaitersSpread, TokensInv, Holding, Burst

\* A worker that begins its operation has used its token up.
LEMMA BeginKeepsBucket ==
    ASSUME TypeOK, PaceType, BucketInv, cfg.limiter = "fixed", UNCHANGED pace,
           NEW w \in Workers, BeginOp(w)
    PROVE  BucketInv'
<1> USE DEF pace
<1>0. Goto(w, "count", "exec") /\ "exec" \in WorkerStates
  BY DEF BeginOp, WorkerStates
<1>1. /\ pc[w] = "count" /\ pc'[w] = "exec"
      /\ \A v \in Workers \ {w} : pc'[v] = pc[v]
  BY <1>0, MoveSets DEF Goto
<1>2. ~(wait[w] > 0)
  BY <1>1 DEF TimersInv, BucketInv
<1>3. TimersInv'
  BY <1>1, <1>2 DEF TimersInv, BucketInv
<1>4. DebtInv' /\ WaitersSpread'
  BY DEF BeginOp, control, DebtInv, WaitersSpread, BucketInv
<1>5. Holding' = Holding \ {w} /\ w \in Holding
  BY <1>1, <1>2 DEF Holding
<1>6. Cardinality(Holding') = Cardinality(Holding) - 1
  BY <1>5, HoldingFinite, FS_RemoveElement
<1>7. TokensInv'
  <2>1. Burst' = Burst /\ Burst \in Int
    BY BurstPositive DEF Burst
  <2>2. opsCounter \in Int /\ tokens \in Int /\ now \in Int /\ CounterCap \in Int
    BY RunnerAssumption, PacedAssumption DEF TypeOK, PaceType
  <2>3. opsCounter' \in Int /\ opsCounter' <= opsCounter + 1
    BY <2>2 DEF BeginOp
  <2> QED
    BY <1>6, <2>1, <2>2, <2>3, HoldingFinite DEF TokensInv, BucketInv
<1> QED
  BY <1>3, <1>4, <1>7 DEF BucketInv

\* A worker that takes a token waits for the one after those that are owed.
LEMMA TakeKeepsBucket ==
    ASSUME TypeOK, PaceType, BucketInv, cfg.limiter = "fixed",
           UNCHANGED <<cfg, opsCounter, rateLimit, now>>,
           NEW w \in Workers, pc[w] = "wait", TakeToken(w),
           pc' = [pc EXCEPT ![w] = pc'[w]]
    PROVE  BucketInv'
<1>1. /\ tokens \in Int /\ wait \in [Workers -> Nat] /\ pc \in [Workers -> WorkerStates]
      /\ tokens' = tokens - 1
  BY DEF PaceType, TypeOK, TakeToken
<1>2. ~(wait[w] > 0)
  BY DEF TimersInv, BucketInv
<1>3. /\ wait'[w] = (IF tokens' < 0 THEN -tokens' ELSE 0)
      /\ pc'[w] \in {"sleep", "count"} /\ (wait'[w] > 0 => pc'[w] = "sleep")
  BY <1>1 DEF TakeToken, Asleep
<1>4. \A v \in Workers \ {w} : wait'[v] = wait[v] /\ pc'[v] = pc[v]
  BY <1>1 DEF TakeToken, Asleep
<1>5. TimersInv'
  BY <1>3, <1>4 DEF TimersInv, BucketInv
<1>6. \A v \in Workers \ {w} : wait[v] > 0 => wait[v] <= -tokens /\ wait[v] < -tokens'
  BY <1>1 DEF DebtInv, BucketInv
<1>7. DebtInv'
  <2>1. ASSUME NEW v \in Workers, wait'[v] > 0 PROVE wait'[v] <= -tokens'
    BY <1>1, <1>3, <1>4, <1>6, <2>1
  <2>2. ASSUME NEW k \in 1 .. -tokens' PROVE \E v \in Workers : wait'[v] = k
    <3>1. CASE k = -tokens'
      <4>1. tokens' < 0
        BY <1>1, <3>1
      <4> QED
        BY <1>3, <3>1, <4>1
    <3>2. CASE k # -tokens'
      <4>1. k \in 1 .. -tokens
        BY <1>1, <3>2
      <4>2. PICK v \in Workers : wait[v] = k
        BY <4>1 DEF DebtInv, BucketInv
      <4>3. v # w
        BY <1>2, <4>1, <4>2
      <4> QED
        BY <1>4, <4>2, <4>3
    <3> QED
      BY <3>1, <3>2
  <2> QED
    BY <2>1, <2>2 DEF DebtInv
<1>8. WaitersSpread'
  <2> SUFFICES ASSUME NEW u \in Workers, NEW v \in Workers, u # v, wait'[u] > 0
               PROVE  wait'[u] # wait'[v]
    BY DEF WaitersSpread
  <2>1. CASE u = w
    BY <1>1, <1>3, <1>4, <1>6, <2>1
  <2>2. CASE v = w
    BY <1>1, <1>3, <1>4, <1>6, <2>2
  <2>3. CASE u # w /\ v # w
    BY <1>4, <2>3 DEF WaitersSpread, BucketInv
  <2> QED
    BY <2>1, <2>2, <2>3
<1>9. Holding' = Holding \cup {w} /\ w \notin Holding
  BY <1>2, <1>3, <1>4 DEF Holding
<1>10. Cardinality(Holding') = Cardinality(Holding) + 1
  BY <1>9, HoldingFinite, FS_AddElement
<1>11. TokensInv'
  <2>1. Burst' = Burst /\ Burst \in Int
    BY BurstPositive DEF Burst
  <2>2. opsCounter \in Int /\ now \in Int
    BY RunnerAssumption, PacedAssumption DEF TypeOK, PaceType
  <2> QED
    BY <1>1, <1>10, <2>1, <2>2, HoldingFinite DEF TokensInv, BucketInv
<1> QED
  BY <1>5, <1>7, <1>8, <1>11 DEF BucketInv

\* A tick adds a token at most, and brings each waiting worker one nearer to its own.
LEMMA TickKeepsBucket ==
    ASSUME TypeOK, PaceType, BucketInv, cfg.limiter = "fixed", Tick
    PROVE  BucketInv'
<1> USE DEF vars
<1>1. /\ tokens \in Int /\ wait \in [Workers -> Nat] /\ Burst \in Int /\ Burst >= 1
      /\ now \in Int /\ MaxTicks \in Int /\ opsCounter \in Int
  BY BurstPositive, RunnerAssumption, PacedAssumption DEF PaceType, TypeOK
<1>2. UNCHANGED <<cfg, pc, opsCounter, rateLimit>> /\ Burst' = Burst
  BY DEF Tick, Burst
<1>3. \A v \in Workers : wait'[v] = (IF wait[v] > 0 THEN wait[v] - 1 ELSE 0)
  BY DEF Tick
<1>4. /\ tokens' = (IF tokens < Burst THEN tokens + 1 ELSE tokens)
      /\ now' = (IF now < MaxTicks THEN now + 1 ELSE now)
  BY DEF Tick
<1>5. TimersInv'
  BY <1>1, <1>2, <1>3 DEF TimersInv, BucketInv
<1>6. \A v \in Workers : wait[v] > 0 => wait[v] <= -tokens
  BY DEF DebtInv, BucketInv
<1>7. DebtInv'
  <2>1. ASSUME NEW v \in Workers, wait'[v] > 0 PROVE wait'[v] <= -tokens'
    <3>1. wait[v] \in Nat
      BY <1>1
    <3>2. wait[v] > 0 /\ wait[v] <= -tokens /\ wait'[v] = wait[v] - 1
      BY <1>3, <1>6, <2>1, <3>1
    <3> QED
      BY <1>1, <1>4, <3>1, <3>2
  <2>2. ASSUME NEW k \in 1 .. -tokens' PROVE \E v \in Workers : wait'[v] = k
    <3>1. k + 1 \in 1 .. -tokens
      BY <1>1, <1>4
    <3>2. PICK v \in Workers : wait[v] = k + 1
      BY <3>1 DEF DebtInv, BucketInv
    <3> QED
      BY <1>3, <3>2
  <2> QED
    BY <2>1, <2>2 DEF DebtInv
<1>8. WaitersSpread'
  <2> SUFFICES ASSUME NEW u \in Workers, NEW v \in Workers, u # v, wait'[u] > 0
               PROVE  wait'[u] # wait'[v]
    BY DEF WaitersSpread
  <2>1. wait[u] \in Nat /\ wait[v] \in Nat
    BY <1>1
  <2>2. wait[u] > 0 /\ wait'[u] = wait[u] - 1
    BY <1>3, <2>1
  <2>3. wait[u] # wait[v]
    BY <2>2 DEF WaitersSpread, BucketInv
  <2> QED
    BY <1>3, <2>1, <2>2, <2>3
<1>9. Holding' \subseteq Holding
  BY <1>1, <1>2, <1>3 DEF Holding
<1>10. Cardinality(Holding') <= Cardinality(Holding)
  BY <1>9, HoldingShrinks
<1>11. TokensInv'
  BY <1>1, <1>2, <1>4, <1>10, HoldingFinite, HoldingFiniteNext DEF TokensInv, BucketInv
<1> QED
  BY <1>5, <1>7, <1>8, <1>11 DEF BucketInv

\* The bucket starts full, with no worker in the limiter.
LEMMA InitBucket == ASSUME PacedInit PROVE BucketInv
<1>1. TypeOK /\ PaceType
  BY InitIInv, InitPace DEF PacedInit, IInv
<1>2. /\ tokens = Burst /\ wait = [w \in Workers |-> 0] /\ opsCounter = 0 /\ now = 0
      /\ pc = [w \in Workers |-> "idle"]
  BY DEF PacedInit, Init
<1>3. Burst \in Int /\ Burst >= 1
  BY <1>1, BurstPositive
<1>4. TimersInv /\ DebtInv /\ WaitersSpread
  BY <1>2, <1>3 DEF TimersInv, DebtInv, WaitersSpread
<1>5. Holding = {}
  BY <1>2 DEF Holding
<1>6. TokensInv
  BY <1>2, <1>3, <1>5, FS_EmptySet DEF TokensInv
<1> QED
  BY <1>4, <1>6 DEF BucketInv

\* Every step keeps what is owed and what is held in balance.
LEMMA StepBucket ==
    ASSUME IInv, PaceType, BucketInv, [PacedNext]_pacedVars
    PROVE  BucketInv'
<1>0. TypeOK /\ cfg' = cfg
  BY StepIsRun, RunStep DEF IInv
<1> SUFFICES ASSUME cfg.limiter = "fixed" PROVE BucketInv'
  BY <1>0 DEF BucketInv
<1>1. CASE MainStep /\ UNCHANGED pace
  <2>1. ASSUME NEW w \in Workers, Spawn(w) PROVE BucketInv'
    <3>1. Goto(w, "idle", "start") /\ "start" \in WorkerStates /\ UNCHANGED opsCounter
      BY <2>1 DEF Spawn, Goto, WorkerStates
    <3>2. ~(wait[w] > 0)
      BY <3>1 DEF Goto, BucketInv, TimersInv
    <3> QED
      BY <1>0, <1>1, <3>1, <3>2, MoveKeepsBucket
  <2>2. CASE \A w \in Workers : ~Spawn(w)
    <3>1. UNCHANGED <<opsCounter, pc>>
      BY <1>1, <2>2 DEF MainStep, SetupBucket, CleanupMode, SelectCancelled,
            SelectStopped, SelectElapsed, WaitDone, Workload
    <3> QED
      BY <1>0, <1>1, <3>1, QuietKeepsBucket
  <2> QED
    BY <2>1, <2>2
<1>2. CASE (TimerFires \/ Stop \/ CancelParent) /\ UNCHANGED pace
  BY <1>0, <1>2, QuietKeepsBucket DEF TimerFires, Stop, CancelParent, shared
<1>3. ASSUME NEW w \in Workers, PacedEnterWait(w) PROVE BucketInv'
  <2>1. pc[w] = "wait" /\ UNCHANGED <<opsCounter, rateLimit, now>>
    BY <1>3 DEF PacedEnterWait, EnterWait, Goto, shared
  <2>2. ~(wait[w] > 0)
    BY <2>1 DEF BucketInv, TimersInv
  <2>3. CASE ctxDone /\ UNCHANGED <<tokens, wait>>
    <3>1. Goto(w, "wait", "exit") /\ "exit" \in WorkerStates
      BY <1>3, <2>3 DEF PacedEnterWait, EnterWait, WorkerStates
    <3> QED
      BY <1>0, <2>1, <2>2, <2>3, <3>1, MoveKeepsBucket DEF pace
  <2>4. CASE TakeToken(w)
    <3>1. \E to \in {"exit", "count", "sleep"} : Goto(w, "wait", to)
      BY <1>3 DEF PacedEnterWait, EnterWait
    <3>2. pc' = [pc EXCEPT ![w] = pc'[w]]
      BY <1>0, <3>1 DEF Goto, TypeOK
    <3> QED
      BY <1>0, <2>1, <2>4, <3>2, TakeKeepsBucket
  <2> QED
    BY <1>3, <2>3, <2>4 DEF PacedEnterWait
<1>4. ASSUME NEW w \in Workers, Granted(w) PROVE BucketInv'
  <2>1. Goto(w, "sleep", "count") /\ "count" \in WorkerStates /\ wait[w] = 0
    BY <1>4 DEF Granted, WaitGranted, WorkerStates
  <2> QED
    BY <1>0, <1>4, <2>1, MoveKeepsBucket DEF Granted, WaitGranted, shared
<1>5. ASSUME NEW w \in Workers, Cancelled(w) PROVE BucketInv'
  BY <1>0, <1>5, MoveKeepsBucket DEF Cancelled, WaitCancelled, shared, WorkerStates
<1>6. ASSUME NEW w \in Workers, Unpaced(w) PROVE BucketInv'
  <2>1. CASE BeginOp(w)
    BY <1>0, <1>6, <2>1, BeginKeepsBucket DEF Unpaced
  <2>2. CASE Start(w) \/ Check(w) \/ CheckLimit(w) \/ EndOp(w)
    <3>1. PICK from \in {"start", "top", "limit", "exec"},
               to \in {"top", "limit", "wait", "exit"} : Goto(w, from, to)
      BY <2>2 DEF Start, Check, CheckLimit, EndOp
    <3>2. ~(wait[w] > 0)
      BY <3>1 DEF Goto, BucketInv, TimersInv
    <3>3. UNCHANGED opsCounter /\ UNCHANGED pace /\ to \in WorkerStates
      BY <1>6, <2>2 DEF Unpaced, Start, Check, CheckLimit, EndOp, shared, WorkerStates
    <3> QED
      BY <1>0, <3>1, <3>2, <3>3, MoveKeepsBucket
  <2>3. CASE ClearGauge(w) \/ Done(w)
    <3>1. PICK from \in {"exit", "leave"}, to \in {"leave", "done"} : Goto(w, from, to)
      BY <2>3 DEF ClearGauge, Done
    <3>2. UNCHANGED opsCounter /\ UNCHANGED pace /\ to \in WorkerStates
      BY <1>6, <2>3 DEF Unpaced, ClearGauge, Done, WorkerStates
    <3> QED
      BY <1>0, <3>1, <3>2, MoveKeepsBucket
  <2> QED
    BY <1>6, <2>1, <2>2, <2>3 DEF Unpaced
<1>7. CASE Tick
  BY <1>0, <1>7, TickKeepsBucket
<1>8. CASE UNCHANGED pacedVars
  BY <1>8, QuietKeepsBucket DEF pacedVars, vars
<1>9. CASE Terminated /\ UNCHANGED pace
  BY <1>9, QuietKeepsBucket DEF Terminated, vars
<1> QED
  BY <1>1, <1>2, <1>3, <1>4, <1>5, <1>6, <1>7, <1>8, <1>9 DEF PacedNext

\* The balance of tokens holds in every reachable state.
THEOREM BucketInductive == PacedSpec => [](IInv /\ PaceType /\ BucketInv)
<1>1. PacedInit => PaceType /\ BucketInv
  BY InitPace, InitBucket
<1>2. IInv /\ (PaceType /\ BucketInv) /\ [PacedNext]_pacedVars => (PaceType /\ BucketInv)'
  BY StepPace, StepBucket
<1> QED
  BY <1>1, <1>2, PacedRefinesRunner, Inductive, PTL DEF PacedSpec

\* No interleaving of the waits lets more operations begin than the rate allows.
THEOREM FixedRateKept == PacedSpec => []RateConforms
<1>1. IInv /\ PaceType /\ BucketInv => RateConforms
  <2> SUFFICES ASSUME IInv, PaceType, BucketInv, cfg.limiter = "fixed", now < MaxTicks
               PROVE  opsCounter <= Burst + now
    BY DEF RateConforms
  <2>1. -tokens <= Cardinality({w \in Workers : wait[w] > 0})
    BY DebtWithinWaiters DEF BucketInv
  <2>2. {w \in Workers : wait[w] > 0} \subseteq Holding
    BY DEF Holding
  <2>3. Cardinality({w \in Workers : wait[w] > 0}) <= Cardinality(Holding)
    BY <2>2, HoldingFinite, FS_Subset
  <2>4. Cardinality({w \in Workers : wait[w] > 0}) \in Nat
    BY WorkerSubset
  <2>5. /\ opsCounter \in Int /\ tokens \in Int /\ now \in Int /\ Burst \in Int
    BY BurstPositive, RunnerAssumption, PacedAssumption DEF IInv, TypeOK, PaceType
  <2> QED
    BY <2>1, <2>3, <2>4, <2>5, HoldingFinite DEF BucketInv, TokensInv
<1> QED
  BY <1>1, BucketInductive, PTL

\* Nobody waits for more tokens than there are workers.
THEOREM WaitsAreBounded == PacedSpec => []WaitBounded
<1>1. IInv /\ PaceType /\ BucketInv => WaitBounded
  <2> SUFFICES ASSUME PaceType, BucketInv, cfg.limiter = "fixed",
                      NEW w \in Workers, wait[w] > 0
               PROVE  wait[w] <= Concurrency
    BY ConcurrencyPositive DEF WaitBounded, PaceType
  <2>1. wait[w] <= -tokens
    BY DEF BucketInv, DebtInv
  <2>2. -tokens <= Cardinality({v \in Workers : wait[v] > 0})
    BY DebtWithinWaiters DEF BucketInv
  <2>3. /\ Cardinality({v \in Workers : wait[v] > 0}) \in Nat
        /\ Cardinality({v \in Workers : wait[v] > 0}) <= Concurrency
    BY WorkerSubset
  <2>4. wait[w] \in Nat /\ tokens \in Int
    BY DEF PaceType
  <2> QED
    BY <2>1, <2>2, <2>3, <2>4, ConcurrencyPositive
<1> QED
  BY <1>1, BucketInductive, PTL

\* Two workers never wait for the same token.
THEOREM WaitersDoNotMeet == PacedSpec => []WaitersSpread
<1>1. BucketInv => WaitersSpread
  BY DEF BucketInv, WaitersSpread
<1> QED
  BY <1>1, BucketInductive, PTL
=============================================================================
