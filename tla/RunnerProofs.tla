---------------------------- MODULE RunnerProofs ----------------------------
(***************************************************************************)
(* Proofs about Runner, for every number of workers, every set of          *)
(* configurations and every bound CounterCap.                              *)
(***************************************************************************)
EXTENDS Runner, FiniteSetTheorems, TLAPS

-----------------------------------------------------------------------------
(* Counting workers *)

\* There is at least one worker, and Concurrency is a number.
LEMMA ConcurrencyPositive == Concurrency \in Nat /\ Concurrency > 0
<1>1. Concurrency \in Nat
  BY RunnerAssumption, FS_CardinalityType DEF Concurrency
<1>2. Concurrency # 0
  BY RunnerAssumption, FS_EmptySet DEF Concurrency
<1> QED
  BY <1>1, <1>2

\* A set of workers is finite and not larger than Concurrency.
LEMMA WorkerSubset ==
    ASSUME NEW S, S \subseteq Workers
    PROVE  IsFiniteSet(S) /\ Cardinality(S) \in Nat /\ Cardinality(S) <= Concurrency
<1>1. IsFiniteSet(S) /\ Cardinality(S) <= Cardinality(Workers)
  BY RunnerAssumption, FS_Subset
<1> QED
  BY <1>1, FS_CardinalityType DEF Concurrency

\* One worker more.
LEMMA WorkerJoins ==
    ASSUME NEW S, S \subseteq Workers, NEW w \in Workers, w \notin S
    PROVE  Cardinality(S \cup {w}) = Cardinality(S) + 1
  BY WorkerSubset, FS_AddElement

\* One worker fewer.
LEMMA WorkerLeaves ==
    ASSUME NEW S, S \subseteq Workers, NEW w \in S
    PROVE  Cardinality(S \ {w}) = Cardinality(S) - 1 /\ Cardinality(S) > 0
<1>1. Cardinality(S \ {w}) = Cardinality(S) - 1
  BY WorkerSubset, FS_RemoveElement
<1>2. Cardinality(S \ {w}) \in Nat /\ Cardinality(S) \in Nat
  BY WorkerSubset
<1> QED
  BY <1>1, <1>2
-----------------------------------------------------------------------------
(* How the counted sets move with a worker *)

\* A worker's move changes the two sets as its old and new places say.
LEMMA MoveSets ==
    ASSUME TypeOK, NEW w \in Workers, NEW from, NEW to \in WorkerStates, Goto(w, from, to)
    PROVE  /\ pc' \in [Workers -> WorkerStates]
           /\ pc'[w] = to
           /\ \A v \in Workers \ {w} : pc'[v] = pc[v]
           /\ Live' = IF to \in {"idle", "done"} THEN Live \ {w} ELSE Live \cup {w}
           /\ Uncounted' = IF to \in {"wait", "sleep", "count"}
                           THEN Uncounted \cup {w} ELSE Uncounted \ {w}
  BY DEF Goto, TypeOK, Live, Uncounted

\* The initial states satisfy the inductive invariant.
LEMMA InitIInv == ASSUME Init PROVE IInv
<1> USE DEF Init
<1>1. TypeOK
  <2>1. wg \in 0 .. Concurrency /\ opsCounter \in 0 .. CounterCap
    BY RunnerAssumption, ConcurrencyPositive
  <2>2. pc \in [Workers -> WorkerStates] /\ late \in [Workers -> Nat]
    BY DEF WorkerStates
  <2> QED
    BY <2>1, <2>2 DEF TypeOK, MainStates, Outcomes
<1>2. QuotaInv
  <2>1. Uncounted = {}
    BY DEF Uncounted
  <2>2. cfg.operations \in Nat
    BY RunnerAssumption DEF ConfigType
  <2> QED
    BY <2>1, <2>2, FS_EmptySet, ConcurrencyPositive DEF QuotaInv
<1>3. WgInv
  <2>1. Live = {}
    BY DEF Live
  <2> QED
    BY <2>1, FS_EmptySet DEF WgInv
<1>4. MainInv /\ GaugeInv /\ LateInv /\ DrainedOnReturn /\ QuitOnlyForCause
  BY DEF MainInv, GaugeInv, LateInv, DrainedOnReturn, QuitOnlyForCause, Shutdown
<1> QED
  BY <1>1, <1>2, <1>3, <1>4 DEF IInv

\* Steps that leave the workers, the counters and the gauge alone.
LEMMA QuietStep ==
    ASSUME IInv,
           UNCHANGED <<cfg, shared, pc>>,
           main' \in MainStates, outcome' \in Outcomes,
           stopped' \in BOOLEAN, ctxDone' \in BOOLEAN, timerFired' \in BOOLEAN,
           Shutdown => Shutdown',
           MainInv', DrainedOnReturn'
    PROVE  IInv'
<1> USE DEF IInv, shared
<1>1. TypeOK'
  BY DEF TypeOK
<1>2. QuotaInv' /\ WgInv'
  BY DEF QuotaInv, WgInv, Uncounted, Live
<1>3. GaugeInv' /\ LateInv' /\ QuitOnlyForCause'
  BY DEF GaugeInv, LateInv, QuitOnlyForCause, QuotaMet
<1> QED
  BY <1>1, <1>2, <1>3

\* A worker cannot be on its way once Run has returned, nor before the spawn loop.
LEMMA RunIsOn ==
    ASSUME IInv, NEW w \in Workers, pc[w] \notin {"idle", "done"}
    PROVE  main \in {"spawn", "select", "drain"}
  BY DEF IInv, TypeOK, MainStates, MainInv, DrainedOnReturn

\* Steps of a worker that only moves, within its loop or out of it.
LEMMA PlainMove ==
    ASSUME IInv, NEW w \in Workers, NEW from, NEW to \in WorkerStates,
           Goto(w, from, to), UNCHANGED <<control, shared>>,
           from \in {"top", "limit", "wait", "sleep", "exec"},
           to \in {"top", "limit", "wait", "sleep", "count", "exit"},
           to \in {"sleep", "count"} => from \in {"wait", "sleep"},
           to = "wait" => from = "limit" /\ ~QuotaMet,
           to = "limit" => ~Shutdown,
           to = "exit" => Shutdown \/ QuotaMet
    PROVE  IInv'
<1> USE DEF IInv, shared, control
<1>1. /\ pc[w] = from
      /\ pc' \in [Workers -> WorkerStates] /\ pc'[w] = to
      /\ \A v \in Workers \ {w} : pc'[v] = pc[v]
  BY MoveSets DEF Goto
<1>2. TypeOK'
  BY <1>1 DEF TypeOK
<1>3. QuotaInv'
  <2> SUFFICES ASSUME cfg.operations > 0 PROVE QuotaInv'
    BY DEF QuotaInv
  <2>1. /\ cfg.operations \in Nat /\ opsCounter \in Nat
        /\ Uncounted \subseteq Workers /\ Uncounted' \subseteq Workers
    BY RunnerAssumption DEF TypeOK, ConfigType, Uncounted
  <2>2. /\ Cardinality(Uncounted) \in Nat /\ Cardinality(Uncounted') \in Nat
        /\ Cardinality(Uncounted') <= Concurrency /\ Concurrency \in Nat
    BY <2>1, WorkerSubset, ConcurrencyPositive
  <2>3. CASE to = "wait"
    BY <2>1, <2>2, <2>3 DEF QuotaInv, QuotaMet
  <2>4. CASE to \in {"sleep", "count"}
    <3>1. Uncounted' = Uncounted
      BY <1>1, <2>4, MoveSets DEF Uncounted
    <3> QED
      BY <3>1 DEF QuotaInv
  <2>5. CASE to \in {"top", "limit", "exit"}
    <3>1. Uncounted' = Uncounted \ {w}
      BY <2>5, MoveSets
    <3>2. Cardinality(Uncounted') <= Cardinality(Uncounted)
      BY <3>1, <2>1, WorkerSubset, FS_Subset
    <3> QED
      BY <3>2, <2>1, <2>2 DEF QuotaInv
  <2> QED
    BY <2>3, <2>4, <2>5
<1>4. WgInv'
  <2>1. Live' = Live
    BY <1>1, MoveSets DEF Live
  <2> QED
    BY <2>1 DEF WgInv
<1>5. MainInv' /\ DrainedOnReturn'
  BY <1>1, RunIsOn DEF MainInv, DrainedOnReturn, Shutdown
<1>6. GaugeInv'
  BY <1>1 DEF GaugeInv
<1>7. LateInv'
  BY <1>1 DEF LateInv, Shutdown, TypeOK
<1>8. QuitOnlyForCause'
  BY <1>1 DEF QuitOnlyForCause, Shutdown, QuotaMet
<1> QED
  BY <1>2, <1>3, <1>4, <1>5, <1>6, <1>7, <1>8

\* Init established, every step of the goroutine of Run keeps the invariant.
LEMMA MainPreserves == ASSUME IInv, MainStep PROVE IInv'
<1> USE DEF Workload
<1> TypeOK /\ MainInv /\ DrainedOnReturn
  BY DEF IInv
<1>1. CASE SetupBucket
  <2>1. MainInv' /\ DrainedOnReturn'
    BY <1>1 DEF SetupBucket, MainInv, DrainedOnReturn, Shutdown
  <2>2. main' \in MainStates /\ outcome' \in Outcomes
    BY <1>1 DEF SetupBucket, TypeOK, MainStates, Outcomes
  <2> QED
    BY <1>1, <2>1, <2>2, QuietStep DEF SetupBucket, shared, TypeOK, Shutdown
<1>2. CASE CleanupMode
  <2>1. MainInv' /\ DrainedOnReturn'
    BY <1>2 DEF CleanupMode, MainInv, DrainedOnReturn, Shutdown
  <2>2. main' \in MainStates /\ outcome' \in Outcomes
    BY <1>2 DEF CleanupMode, MainStates, Outcomes
  <2> QED
    BY <1>2, <2>1, <2>2, QuietStep DEF CleanupMode, shared, TypeOK, Shutdown
<1>3. ASSUME NEW w \in Workers, Spawn(w) PROVE IInv'
  <2>0. Goto(w, "idle", "start") /\ "start" \in WorkerStates
    BY <1>3 DEF Spawn, Goto, WorkerStates
  <2>1. /\ pc' \in [Workers -> WorkerStates] /\ pc'[w] = "start"
        /\ \A v \in Workers \ {w} : pc'[v] = pc[v]
        /\ Live' = Live \cup {w} /\ Uncounted' = Uncounted \ {w}
    BY <2>0, MoveSets
  <2>2. w \notin Live /\ w \notin Uncounted /\ Live \subseteq Workers
    BY <2>0 DEF Live, Uncounted, Goto
  <2>3. WgInv'
    <3>1. Cardinality(Live') = Cardinality(Live) + 1
      BY <2>1, <2>2, WorkerJoins
    <3> QED
      BY <1>3, <3>1 DEF Spawn, WgInv, IInv
  <2>4. TypeOK'
    <3>1. Live' \subseteq Workers
      BY <2>1, <2>2
    <3>2. wg' \in 0 .. Concurrency
      BY <3>1, <2>3, WorkerSubset, ConcurrencyPositive DEF WgInv
    <3> QED
      BY <1>3, <2>1, <3>2 DEF Spawn, TypeOK, MainStates
  <2>5. QuotaInv'
    <3>1. Uncounted' = Uncounted
      BY <2>1, <2>2
    <3> QED
      BY <1>3, <3>1 DEF Spawn, QuotaInv, IInv
  <2>6. MainInv' /\ DrainedOnReturn'
    BY <1>3, <2>1 DEF Spawn, MainInv, DrainedOnReturn, Shutdown
  <2>7. GaugeInv' /\ LateInv' /\ QuitOnlyForCause'
    BY <1>3, <2>0, <2>1
       DEF Spawn, Goto, IInv, GaugeInv, LateInv, QuitOnlyForCause, QuotaMet, Shutdown
  <2> QED
    BY <2>3, <2>4, <2>5, <2>6, <2>7 DEF IInv
<1>4. CASE SelectCancelled
  <2>1. MainInv' /\ DrainedOnReturn'
    BY <1>4 DEF SelectCancelled, LeaveSelect, MainInv, DrainedOnReturn, Shutdown
  <2> QED
    BY <1>4, <2>1, QuietStep
       DEF SelectCancelled, LeaveSelect, shared, TypeOK, Shutdown, MainStates, Outcomes
<1>5. CASE SelectStopped
  <2>1. MainInv' /\ DrainedOnReturn'
    BY <1>5 DEF SelectStopped, LeaveSelect, MainInv, DrainedOnReturn, Shutdown
  <2> QED
    BY <1>5, <2>1, QuietStep
       DEF SelectStopped, LeaveSelect, shared, TypeOK, Shutdown, MainStates, Outcomes
<1>6. CASE SelectElapsed
  <2>1. MainInv' /\ DrainedOnReturn'
    BY <1>6 DEF SelectElapsed, LeaveSelect, MainInv, DrainedOnReturn, Shutdown
  <2> QED
    BY <1>6, <2>1, QuietStep
       DEF SelectElapsed, LeaveSelect, shared, TypeOK, Shutdown, MainStates, Outcomes
<1>7. CASE WaitDone
  <2>1. Live = {}
    <3>1. \A w \in Live : Cardinality(Live) > 0
      BY WorkerLeaves DEF Live
    <3> QED
      BY <1>7, <3>1 DEF WaitDone, WgInv, IInv
  <2>2. MainInv' /\ DrainedOnReturn'
    BY <1>7, <2>1 DEF WaitDone, MainInv, DrainedOnReturn, Shutdown, Live
  <2> QED
    BY <1>7, <2>2, QuietStep DEF WaitDone, shared, TypeOK, Shutdown, MainStates
<1> QED
  BY <1>1, <1>2, <1>3, <1>4, <1>5, <1>6, <1>7 DEF MainStep

\* The clock, Stop and a cancellation keep the invariant.
LEMMA EnvironmentPreserves ==
    ASSUME IInv, TimerFires \/ Stop \/ CancelParent PROVE IInv'
<1>1. MainInv' /\ DrainedOnReturn'
  BY DEF TimerFires, Stop, CancelParent, IInv, MainInv, DrainedOnReturn, Shutdown, shared
<1> QED
  BY <1>1, QuietStep DEF TimerFires, Stop, CancelParent, IInv, TypeOK, Shutdown

\* Every step of a worker keeps the invariant.
LEMMA WorkerPreserves == ASSUME IInv, NEW w \in Workers, WorkerStep(w) PROVE IInv'
<1> TypeOK
  BY DEF IInv
<1>1. CASE Start(w)
  <2>0. Goto(w, "start", "top") /\ "top" \in WorkerStates
    BY <1>1 DEF Start, WorkerStates
  <2>1. /\ pc[w] = "start" /\ pc'[w] = "top"
        /\ pc' \in [Workers -> WorkerStates]
        /\ \A v \in Workers \ {w} : pc'[v] = pc[v]
        /\ Live' = Live /\ Uncounted' = Uncounted
    BY <2>0, MoveSets DEF Goto, Live, Uncounted
  <2>2. TypeOK' /\ QuotaInv' /\ WgInv'
    BY <1>1, <2>1, ConcurrencyPositive
       DEF Start, control, IInv, TypeOK, QuotaInv, WgInv
  <2>3. MainInv' /\ DrainedOnReturn'
    BY <1>1, <2>1, RunIsOn DEF Start, control, IInv, MainInv, DrainedOnReturn, Shutdown
  <2>4. GaugeInv' /\ LateInv' /\ QuitOnlyForCause'
    BY <1>1, <2>1
       DEF Start, control, IInv, GaugeInv, LateInv, QuitOnlyForCause, QuotaMet, Shutdown
  <2> QED
    BY <2>2, <2>3, <2>4 DEF IInv
<1>2. CASE Check(w)
  BY <1>2, PlainMove DEF Check, WorkerStates
<1>3. CASE CheckLimit(w)
  BY <1>3, PlainMove DEF CheckLimit, WorkerStates
<1>4. CASE EnterWait(w)
  BY <1>4, PlainMove DEF EnterWait, WorkerStates, Shutdown
<1>5. CASE WaitGranted(w)
  BY <1>5, PlainMove DEF WaitGranted, WorkerStates
<1>6. CASE WaitCancelled(w)
  BY <1>6, PlainMove DEF WaitCancelled, WorkerStates, Shutdown
<1>7. CASE BeginOp(w)
  <2>0. Goto(w, "count", "exec") /\ "exec" \in WorkerStates
    BY <1>7 DEF BeginOp, WorkerStates
  <2>1. /\ pc[w] = "count" /\ pc'[w] = "exec"
        /\ pc' \in [Workers -> WorkerStates]
        /\ \A v \in Workers \ {w} : pc'[v] = pc[v]
        /\ Live' = Live /\ Uncounted' = Uncounted \ {w} /\ w \in Uncounted
    BY <2>0, MoveSets DEF Goto, Live, Uncounted
  <2>2. TypeOK'
    BY <1>7, <2>1, RunnerAssumption DEF BeginOp, control, TypeOK
  <2>3. QuotaInv'
    <3>1. Cardinality(Uncounted') = Cardinality(Uncounted) - 1
      BY <2>1, WorkerLeaves DEF Uncounted
    <3>2. Uncounted \subseteq Workers
      BY DEF Uncounted
    <3>3. Cardinality(Uncounted) \in Nat
      BY <3>2, WorkerSubset
    <3>4. cfg \in Configs /\ cfg.operations \in Nat /\ opsCounter \in Nat
      BY RunnerAssumption DEF TypeOK, ConfigType
    <3>5. opsCounter' <= opsCounter + 1 /\ cfg' = cfg /\ opsCounter' \in Nat
      BY <1>7, <3>4 DEF BeginOp, control
    <3> QED
      BY <3>1, <3>3, <3>4, <3>5, ConcurrencyPositive DEF QuotaInv, IInv
  <2>4. WgInv'
    BY <1>7, <2>1 DEF BeginOp, WgInv, IInv
  <2>5. MainInv' /\ DrainedOnReturn'
    BY <1>7, <2>1, RunIsOn
       DEF BeginOp, control, IInv, MainInv, DrainedOnReturn, Shutdown
  <2>6. GaugeInv'
    BY <1>7, <2>1 DEF BeginOp, IInv, GaugeInv
  <2>7. LateInv'
    BY <1>7, <2>1 DEF BeginOp, control, IInv, LateInv, Shutdown, TypeOK
  <2>8. QuitOnlyForCause'
    <3>1. opsCounter' >= opsCounter /\ cfg' = cfg
      BY <1>7 DEF BeginOp, control, TypeOK
    <3>2. cfg.operations \in Nat /\ opsCounter \in Nat /\ opsCounter' \in Nat
      BY <2>2, <3>1, RunnerAssumption DEF TypeOK, ConfigType
    <3> QED
      BY <1>7, <2>1, <3>1, <3>2
         DEF BeginOp, control, IInv, QuitOnlyForCause, QuotaMet, Shutdown
  <2> QED
    BY <2>2, <2>3, <2>4, <2>5, <2>6, <2>7, <2>8 DEF IInv
<1>8. CASE EndOp(w)
  BY <1>8, PlainMove DEF EndOp, WorkerStates
<1>9. CASE ClearGauge(w)
  <2>0. Goto(w, "exit", "leave") /\ "leave" \in WorkerStates
    BY <1>9 DEF ClearGauge, WorkerStates
  <2>1. /\ pc[w] = "exit" /\ pc'[w] = "leave"
        /\ pc' \in [Workers -> WorkerStates]
        /\ \A v \in Workers \ {w} : pc'[v] = pc[v]
        /\ Live' = Live /\ Uncounted' = Uncounted
    BY <2>0, MoveSets DEF Goto, Live, Uncounted
  <2>2. TypeOK' /\ QuotaInv' /\ WgInv'
    BY <1>9, <2>1 DEF ClearGauge, control, IInv, TypeOK, QuotaInv, WgInv
  <2>3. MainInv' /\ DrainedOnReturn'
    BY <1>9, <2>1, RunIsOn
       DEF ClearGauge, control, IInv, MainInv, DrainedOnReturn, Shutdown
  <2>4. GaugeInv' /\ LateInv' /\ QuitOnlyForCause'
    BY <1>9, <2>1
       DEF ClearGauge, control, IInv, GaugeInv, LateInv, QuitOnlyForCause, QuotaMet, Shutdown
  <2> QED
    BY <2>2, <2>3, <2>4 DEF IInv
<1>10. CASE Done(w)
  <2>0. Goto(w, "leave", "done") /\ "done" \in WorkerStates
    BY <1>10 DEF Done, WorkerStates
  <2>1. /\ pc[w] = "leave" /\ pc'[w] = "done"
        /\ pc' \in [Workers -> WorkerStates]
        /\ \A v \in Workers \ {w} : pc'[v] = pc[v]
        /\ w \in Live /\ Live' = Live \ {w} /\ Uncounted' = Uncounted
    BY <2>0, MoveSets DEF Goto, Live, Uncounted
  <2>2. WgInv' /\ wg > 0
    <3>1. Cardinality(Live') = Cardinality(Live) - 1 /\ Cardinality(Live) > 0
      BY <2>1, WorkerLeaves DEF Live
    <3> QED
      BY <1>10, <3>1 DEF Done, WgInv, IInv
  <2>3. TypeOK'
    BY <1>10, <2>1, <2>2, ConcurrencyPositive DEF Done, control, TypeOK
  <2>4. QuotaInv' /\ MainInv' /\ DrainedOnReturn'
    BY <1>10, <2>1, RunIsOn
       DEF Done, control, IInv, QuotaInv, MainInv, DrainedOnReturn, Shutdown
  <2>5. GaugeInv' /\ LateInv' /\ QuitOnlyForCause'
    BY <1>10, <2>1
       DEF Done, control, IInv, GaugeInv, LateInv, QuitOnlyForCause, QuotaMet, Shutdown
  <2> QED
    BY <2>2, <2>3, <2>4, <2>5 DEF IInv
<1> QED
  BY <1>1, <1>2, <1>3, <1>4, <1>5, <1>6, <1>7, <1>8, <1>9, <1>10 DEF WorkerStep

\* The invariant is inductive, so it holds in every reachable state.
THEOREM Inductive == Spec => []IInv
<1>1. Init => IInv
  BY InitIInv
<1>2. IInv /\ [Next]_vars => IInv'
  <2>1. ASSUME IInv, UNCHANGED vars PROVE IInv'
    BY <2>1
       DEF vars, IInv, TypeOK, QuotaInv, WgInv, MainInv, GaugeInv, LateInv,
           DrainedOnReturn, QuitOnlyForCause, QuotaMet, Shutdown, Live, Uncounted
  <2> QED
    BY <2>1, MainPreserves, EnvironmentPreserves, WorkerPreserves DEF Next, Terminated
<1> QED
  BY <1>1, <1>2, PTL DEF Spec

-----------------------------------------------------------------------------
(* The safety properties *)

\* The types of all variables, for any number of workers.
THEOREM TypeCorrect == Spec => []TypeOK
<1>1. IInv => TypeOK
  BY DEF IInv
<1> QED
  BY <1>1, Inductive, PTL

\* The operation limit is overshot by at most Concurrency - 1 operations.
THEOREM QuotaOvershootBounded == Spec => []QuotaOvershoot
<1>1. IInv => QuotaOvershoot
  <2> SUFFICES ASSUME IInv, cfg.operations > 0 PROVE QuotaOvershoot
    BY DEF QuotaOvershoot
  <2>1. Uncounted \subseteq Workers
    BY DEF Uncounted
  <2>2. Cardinality(Uncounted) \in Nat
    BY <2>1, WorkerSubset
  <2>3. cfg.operations \in Nat /\ opsCounter \in Nat
    BY RunnerAssumption DEF IInv, TypeOK, ConfigType
  <2> QED
    BY <2>2, <2>3, ConcurrencyPositive DEF IInv, QuotaInv, QuotaOvershoot
<1> QED
  BY <1>1, Inductive, PTL

\* Run returns only when every started worker has ended.
THEOREM ReturnIsClean == Spec => []DrainedOnReturn
<1>1. IInv => DrainedOnReturn
  BY DEF IInv, DrainedOnReturn
<1> QED
  BY <1>1, Inductive, PTL

\* When Run returns, the gauge of active workers stands at 0.
THEOREM GaugeIsCleared == Spec => []GaugeClearAtReturn
<1>1. IInv => GaugeClearAtReturn
  BY DEF IInv, DrainedOnReturn, GaugeClearAtReturn, GaugeInv
<1> QED
  BY <1>1, Inductive, PTL

\* After a stop or a cancellation each worker begins at most one operation.
THEOREM AtMostOneLateOp == Spec => []OneLateOp
<1>1. IInv => OneLateOp
  BY DEF IInv, LateInv, OneLateOp
<1> QED
  BY <1>1, Inductive, PTL

\* No worker leaves its loop while the run goes on and work is left.
THEOREM WorkersQuitForCause == Spec => []QuitOnlyForCause
<1>1. IInv => QuitOnlyForCause
  BY DEF IInv
<1> QED
  BY <1>1, Inductive, PTL

-----------------------------------------------------------------------------
(* Refinement *)

\* An initial state of a run is an initial state of the contract.
LEMMA InitRefines == ASSUME Init PROVE Contract!Init
<1>1. cfg.operations \in Nat
  BY RunnerAssumption DEF Init, ConfigType
<1>2. {w \in Workers : pc[w] = "exec"} = {} /\ {w \in Workers : late[w] = 0} = Workers
  BY DEF Init
<1> QED
  BY <1>1, <1>2, ConcurrencyPositive DEF Init, Contract!Init, Contract!Unlimited, Shutdown

\* A step that keeps the workers, the counter and Run's return keeps the
\* contract's state, but for the request to close.
LEMMA QuietRefines ==
    ASSUME UNCHANGED <<cfg, opsCounter, pc, late>>,
           (main' = "returned") <=> (main = "returned"),
           Shutdown => Shutdown'
    PROVE  [Contract!Next]_Contract!vars
<1>1. CASE Shutdown' = Shutdown
  BY <1>1 DEF Contract!vars
<1>2. CASE ~Shutdown /\ Shutdown'
  <2>1. Contract!Close
    BY <1>2 DEF Contract!Close
  <2> QED
    BY <2>1 DEF Contract!Next
<1> QED
  BY <1>1, <1>2 DEF Shutdown

\* The step in which Run returns is the contract's Return.
LEMMA ReturnRefines ==
    ASSUME UNCHANGED <<cfg, opsCounter, pc, late>>,
           main # "returned", main' = "returned", Shutdown' = Shutdown,
           \A w \in Workers : pc[w] # "exec",
           opsCounter > 0 => Shutdown
    PROVE  [Contract!Next]_Contract!vars
<1>1. Contract!Return
  BY DEF Contract!Return
<1> QED
  BY <1>1 DEF Contract!Next

\* Every step of Runner is a step of the contract or leaves it alone.
LEMMA StepRefines == ASSUME IInv, Next PROVE [Contract!Next]_Contract!vars
<1> USE DEF IInv
<1>1. CASE SetupBucket \/ CleanupMode
  <2>1. opsCounter = 0 /\ (\A w \in Workers : pc[w] # "exec") /\ main # "returned"
    BY <1>1 DEF SetupBucket, CleanupMode, MainInv
  <2>2. UNCHANGED <<cfg, opsCounter, pc, late>> /\ Shutdown' = Shutdown
    BY <1>1 DEF SetupBucket, CleanupMode, Workload, Shutdown
  <2>3. CASE main' = "returned"
    BY <2>1, <2>2, <2>3, ReturnRefines
  <2>4. CASE main' # "returned"
    BY <2>1, <2>2, <2>4, QuietRefines
  <2> QED
    BY <2>3, <2>4
<1>2. CASE SelectCancelled \/ SelectStopped \/ SelectElapsed
  BY <1>2, QuietRefines
     DEF SelectCancelled, SelectStopped, SelectElapsed, LeaveSelect, Workload, Shutdown
<1>3. CASE WaitDone
  <2>1. \A w \in Workers : pc[w] # "exec"
    <3>1. Live = {}
      <4>1. \A w \in Live : Cardinality(Live) > 0
        BY WorkerLeaves DEF Live
      <4> QED
        BY <1>3, <4>1 DEF WaitDone, WgInv
    <3> QED
      BY <3>1 DEF Live
  <2>2. Shutdown /\ Shutdown' = Shutdown
    BY <1>3 DEF WaitDone, MainInv, Shutdown
  <2> QED
    BY <1>3, <2>1, <2>2, ReturnRefines DEF WaitDone
<1>4. CASE TimerFires \/ Stop \/ CancelParent
  BY <1>4, QuietRefines DEF TimerFires, Stop, CancelParent, shared, Shutdown
<1>5. CASE Terminated
  BY <1>5, QuietRefines DEF Terminated, vars, Shutdown
<1>6. ASSUME NEW w \in Workers, Spawn(w) PROVE [Contract!Next]_Contract!vars
  <2>1. {v \in Workers : pc[v] = "exec"}' = {v \in Workers : pc[v] = "exec"}
    BY <1>6 DEF Spawn, TypeOK
  <2> QED
    BY <1>6, <2>1 DEF Spawn, Contract!vars, Shutdown
<1>7. ASSUME NEW w \in Workers, BeginOp(w) PROVE [Contract!Next]_Contract!vars
  <2>1. pc[w] = "count" /\ pc' = [pc EXCEPT ![w] = "exec"]
    BY <1>7 DEF BeginOp, Goto
  <2>2. main # "returned" /\ main' = main /\ cfg' = cfg /\ Shutdown' = Shutdown
    BY <1>7, <2>1, RunIsOn DEF BeginOp, control, Shutdown
  <2>3. {v \in Workers : pc[v] = "exec"}' = {v \in Workers : pc[v] = "exec"} \cup {w}
    BY <2>1 DEF TypeOK
  <2>4. /\ late[w] = 0
        /\ {v \in Workers : late[v] = 0}' =
              IF Shutdown THEN {v \in Workers : late[v] = 0} \ {w}
                          ELSE {v \in Workers : late[v] = 0}
    BY <1>7, <2>1 DEF BeginOp, LateInv, TypeOK
  <2>5. cfg \in Configs /\ cfg.operations \in Nat /\ opsCounter \in Nat
    BY RunnerAssumption DEF TypeOK, ConfigType
  <2>6. opsCounter' > 0
    BY <1>7, <2>5, RunnerAssumption, ConcurrencyPositive DEF BeginOp, TypeOK
  <2>7. cfg.operations # 0 =>
           opsCounter' = opsCounter + 1 /\ opsCounter < cfg.operations + Concurrency - 1
    <3>1. w \in Uncounted /\ Uncounted \subseteq Workers
      BY <2>1 DEF Uncounted
    <3>2. Cardinality(Uncounted) \in Nat /\ Cardinality(Uncounted) > 0
      BY <3>1, WorkerSubset, WorkerLeaves
    <3>3. cfg.operations # 0 => opsCounter < cfg.operations + Concurrency - 1
      BY <2>5, <3>2, ConcurrencyPositive DEF QuotaInv
    <3>4. cfg.operations + Concurrency <= CounterCap /\ CounterCap \in Nat
      BY <2>5, RunnerAssumption
    <3> QED
      BY <1>7, <2>5, <3>3, <3>4, ConcurrencyPositive DEF BeginOp
  <2>8. Contract!Begin(w)
    BY <2>1, <2>2, <2>3, <2>4, <2>5, <2>6, <2>7, ConcurrencyPositive
       DEF Contract!Begin, Contract!Unlimited
  <2> QED
    BY <2>8 DEF Contract!Next
<1>8. ASSUME NEW w \in Workers, EndOp(w) PROVE [Contract!Next]_Contract!vars
  <2>1. pc[w] = "exec" /\ pc' = [pc EXCEPT ![w] = "top"]
    BY <1>8 DEF EndOp, Goto
  <2>2. {v \in Workers : pc[v] = "exec"}' = {v \in Workers : pc[v] = "exec"} \ {w}
    BY <2>1 DEF TypeOK
  <2>3. Contract!End(w)
    BY <1>8, <2>1, <2>2 DEF EndOp, control, shared, Contract!End, Shutdown
  <2> QED
    BY <2>3 DEF Contract!Next
<1>9. ASSUME NEW w \in Workers, NEW from, NEW to, from # "exec", to # "exec",
             Goto(w, from, to), UNCHANGED <<control, opsCounter, late>>
      PROVE  [Contract!Next]_Contract!vars
  <2>1. {v \in Workers : pc[v] = "exec"}' = {v \in Workers : pc[v] = "exec"}
    BY <1>9 DEF Goto, TypeOK
  <2> QED
    BY <1>9, <2>1 DEF control, Contract!vars, Shutdown
<1>10. ASSUME NEW w \in Workers, WorkerStep(w), ~BeginOp(w), ~EndOp(w)
       PROVE  [Contract!Next]_Contract!vars
  <2>1. CASE Start(w) \/ ClearGauge(w) \/ Done(w)
    BY <1>9, <2>1 DEF Start, ClearGauge, Done
  <2>2. CASE Check(w) \/ CheckLimit(w)
    BY <1>9, <2>2 DEF Check, CheckLimit, shared
  <2>3. CASE EnterWait(w)
    BY <1>9, <2>3 DEF EnterWait, shared
  <2>4. CASE WaitGranted(w) \/ WaitCancelled(w)
    BY <1>9, <2>4 DEF WaitGranted, WaitCancelled, shared
  <2> QED
    BY <1>10, <2>1, <2>2, <2>3, <2>4 DEF WorkerStep
<1> QED
  BY <1>1, <1>2, <1>3, <1>4, <1>5, <1>6, <1>7, <1>8, <1>10 DEF Next, MainStep

\* Run implements the safety part of the contract, for any number of workers.
THEOREM RunnerImplementsContract == Spec => ImplementsContract
<1>1. Init => Contract!Init
  BY InitRefines
<1>2. IInv /\ [Next]_vars => [Contract!Next]_Contract!vars
  <2>1. ASSUME UNCHANGED vars PROVE UNCHANGED Contract!vars
    BY <2>1 DEF vars, Contract!vars, Shutdown
  <2> QED
    BY <2>1, StepRefines
<1> QED
  BY <1>1, <1>2, Inductive, PTL DEF Spec, ImplementsContract, Contract!Spec
=============================================================================
