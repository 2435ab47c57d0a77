----------------------------- MODULE RetryProofs -----------------------------
(***************************************************************************)
(* Proofs about RetryLoop, for every MaxRetries, every delay and any       *)
(* number of operations, and about PutBody, which runs in it, for every    *)
(* size, kind of data, buffer size and number of attempts.                 *)
(***************************************************************************)
EXTENDS PutBody, InductionFacts

\* Growing a delay keeps it between the first one and the largest.
LEMMA NextDelayInRange ==
    ASSUME NEW d \in InitialDelay .. MaxDelay
    PROVE  NextDelay(d) \in InitialDelay .. MaxDelay
<1>1. d \in Nat /\ Multiplier \in Nat \ {0} /\ InitialDelay \in Nat /\ MaxDelay \in Nat
  BY RetryAssumption
<1>2. d * Multiplier \in Nat /\ d * Multiplier >= d
  BY <1>1
<1>3. d * Multiplier >= InitialDelay
  BY <1>1, <1>2
<1> QED
  BY <1>1, <1>2, <1>3, RetryAssumption DEF NextDelay

\* The initial states satisfy the invariant.
LEMMA InitRetryInv == ASSUME Init PROVE RetryInv
  BY RetryAssumption
     DEF Init, RetryInv, TypeOK, CallsBounded, OneLateCall, CountInv, LateInv,
         States, Contexts, Errors

\* Every step of the worker and of its context keeps it.
LEMMA StepRetryInv == ASSUME RetryInv, [Next]_vars PROVE RetryInv'
<1> USE DEF RetryInv
<1>0. maxAttempts \in Int
  BY RetryAssumption DEF TypeOK
<1>1. CASE Begin
  BY <1>0, <1>1, RetryAssumption
     DEF Begin, TypeOK, CallsBounded, OneLateCall, CountInv, LateInv, States, Contexts,
         Errors, isRetryable
<1>2. CASE CallOrGiveUp
  <2>1. CASE attempt <= maxAttempts
    BY <1>0, <1>2, <2>1
       DEF CallOrGiveUp, TypeOK, CallsBounded, OneLateCall, CountInv, LateInv, States
  <2>2. CASE attempt > maxAttempts
    BY <1>0, <1>2, <2>2
       DEF CallOrGiveUp, Return, history, TypeOK, CallsBounded, OneLateCall,
           CountInv, LateInv, States
  <2> QED
    BY <1>0, <2>1, <2>2 DEF TypeOK
<1>3. CASE FnReturns
  <2>1. TypeOK'
    BY <1>3 DEF FnReturns, Return, history, TypeOK, States, Contexts, Errors
  <2>2. (CallsBounded /\ OneLateCall /\ CountInv /\ LateInv)'
    BY <1>3 DEF FnReturns, Return, history, CallsBounded, OneLateCall, CountInv, LateInv
  <2> QED
    BY <2>1, <2>2
<1>4. CASE Judge
  BY <1>0, <1>4
     DEF Judge, history, TypeOK, CallsBounded, OneLateCall, CountInv, LateInv,
         States
<1>5. CASE EnterSleep
  BY <1>0, <1>5
     DEF EnterSleep, Return, history, TypeOK, CallsBounded, OneLateCall, CountInv,
         LateInv, States
<1>6. CASE Wake
  <2>1. delay' \in InitialDelay .. MaxDelay
    BY <1>6, NextDelayInRange DEF Wake, TypeOK
  <2> QED
    BY <1>0, <1>6, <2>1
       DEF Wake, history, TypeOK, CallsBounded, OneLateCall, CountInv, LateInv, States
<1>7. CASE CtxEnds
  BY <1>0, <1>7
     DEF CtxEnds, Return, history, TypeOK, CallsBounded, OneLateCall, CountInv, LateInv,
         States, Contexts
<1>8. CASE UNCHANGED vars
  BY <1>8 DEF vars, TypeOK, CallsBounded, OneLateCall, CountInv, LateInv
<1> QED
  BY <1>1, <1>2, <1>3, <1>4, <1>5, <1>6, <1>7, <1>8 DEF Next, WorkerStep, Terminated

\* The invariant holds in every reachable state.
THEOREM RetryInductive == Spec => []RetryInv
  BY InitRetryInv, StepRetryInv, PTL DEF Spec

\* No operation calls the server more often than MaxRetries says.
THEOREM RetryCallsBounded == Spec => []CallsBounded
<1>1. RetryInv => CallsBounded
  BY DEF RetryInv
<1> QED
  BY <1>1, RetryInductive, PTL

\* At most one call of an operation begins after its context has ended.
THEOREM RetryOneLateCall == Spec => []OneLateCall
<1>1. RetryInv => OneLateCall
  BY DEF RetryInv
<1> QED
  BY <1>1, RetryInductive, PTL

\* Only a retryable error is followed by another call.
THEOREM RetryRepeatsRightly == Spec => RepeatedOnlyIfRetryable
<1>1. RetryInv /\ [Next]_vars =>
        [calls > 0 /\ calls' = calls + 1 => isRetryable(lastErr)]_vars
  <2> SUFFICES ASSUME RetryInv, Next, calls > 0, calls' = calls + 1
               PROVE  isRetryable(lastErr)
    OBVIOUS
  <2>1. calls \in Nat
    BY DEF RetryInv, TypeOK
  <2>2. CallOrGiveUp
    BY <2>1 DEF Next, WorkerStep, Begin, FnReturns, Judge, EnterSleep, Wake, CtxEnds,
                Terminated, vars, history
  <2> QED
    BY <2>2 DEF CallOrGiveUp, RetryInv, CountInv
<1> QED
  BY <1>1, RetryInductive, PTL DEF Spec, RepeatedOnlyIfRetryable

-----------------------------------------------------------------------------
(* The powers of the multiplier *)

\* A table of the powers up to n.
Powers(n) == {g \in [0 .. n -> Nat \ {0}] :
                /\ g[0] = 1
                /\ \A i \in 1 .. n : g[i] = g[i - 1] * Multiplier}

\* There is one for every n.
LEMMA PowersExist == ASSUME NEW n \in Nat PROVE Powers(n) # {}
<1> DEFINE S == {m \in Nat : Powers(m) # {}}
<1>1. 0 \in S
  <2> DEFINE g == [i \in 0 .. 0 |-> 1]
  <2>1. g \in Powers(0)
    BY DEF Powers
  <2> QED
    BY <2>1
<1>2. ASSUME NEW m \in Nat, m \in S PROVE m + 1 \in S
  <2>1. PICK g : g \in Powers(m)
    BY <1>2
  <2> DEFINE h == [i \in 0 .. m + 1 |-> IF i = m + 1 THEN g[m] * Multiplier ELSE g[i]]
  <2>2. /\ g \in [0 .. m -> Nat \ {0}] /\ g[0] = 1
        /\ \A i \in 1 .. m : g[i] = g[i - 1] * Multiplier
    BY <2>1 DEF Powers
  <2>3. g[m] * Multiplier \in Nat \ {0}
    <3>1. \A a, b \in Nat \ {0} : a * b \in Nat \ {0}
      OBVIOUS
    <3>2. g[m] \in Nat \ {0}
      BY <2>2
    <3> QED
      BY <3>1, <3>2, RetryAssumption
  <2>4. h \in [0 .. m + 1 -> Nat \ {0}] /\ h[0] = 1
    BY <2>2, <2>3
  <2>5. \A i \in 1 .. m + 1 : h[i] = h[i - 1] * Multiplier
    BY <2>2
  <2>6. h \in Powers(m + 1)
    BY <2>4, <2>5 DEF Powers
  <2> QED
    BY <2>6
<1> HIDE DEF S
<1>3. Nat \subseteq S
  BY <1>1, <1>2, SetInduction
<1> QED
  BY <1>3 DEF S

\* Two tables agree as far as both go.
LEMMA PowersAgree ==
    ASSUME NEW m \in Nat, NEW n \in Nat, NEW g \in Powers(m), NEW h \in Powers(n),
           NEW i \in Nat, i <= m, i <= n
    PROVE  g[i] = h[i]
<1> DEFINE S == {j \in Nat : j <= m /\ j <= n => g[j] = h[j]}
<1>1. 0 \in S
  BY DEF Powers
<1>2. ASSUME NEW j \in Nat, j \in S PROVE j + 1 \in S
  <2> SUFFICES ASSUME j + 1 <= m, j + 1 <= n PROVE g[j + 1] = h[j + 1]
    OBVIOUS
  <2>1. g[j] = h[j]
    BY <1>2
  <2>2. j + 1 \in 1 .. m /\ j + 1 \in 1 .. n /\ (j + 1) - 1 = j
    OBVIOUS
  <2> QED
    BY <2>1, <2>2 DEF Powers
<1> HIDE DEF S
<1>3. Nat \subseteq S
  BY <1>1, <1>2, SetInduction
<1> QED
  BY <1>3 DEF S

\* The recursive definition defines the powers.
LEMMA PowerDefined ==
    /\ Power[0] = 1
    /\ \A n \in Nat : Power[n] \in Nat \ {0} /\ Power[n + 1] = Power[n] * Multiplier
<1> DEFINE table(n) == CHOOSE g : g \in Powers(n)
           f == [n \in Nat |-> table(n)[n]]
           IsPower(g) == g = [n \in Nat |-> IF n = 0 THEN 1 ELSE g[n - 1] * Multiplier]
<1>1. \A n \in Nat : table(n) \in Powers(n)
  BY PowersExist
<1> HIDE DEF table
<1>2. f[0] = 1
  BY <1>1 DEF Powers
<1>3. ASSUME NEW n \in Nat
      PROVE  f[n] \in Nat \ {0} /\ f[n + 1] = f[n] * Multiplier
  <2>1. /\ table(n) \in Powers(n) /\ table(n + 1) \in Powers(n + 1)
        /\ n \in 0 .. n /\ n + 1 \in 1 .. n + 1 /\ (n + 1) - 1 = n
    BY <1>1
  <2>2. table(n + 1)[n] = table(n)[n]
    BY <2>1, PowersAgree
  <2>3. table(n + 1)[n + 1] = table(n + 1)[n] * Multiplier
    BY <2>1 DEF Powers
  <2>4. table(n)[n] \in Nat \ {0}
    BY <2>1 DEF Powers
  <2> QED
    BY <2>2, <2>3, <2>4
<1>4. IsPower(f)
  <2>1. ASSUME NEW n \in Nat
        PROVE  f[n] = IF n = 0 THEN 1 ELSE f[n - 1] * Multiplier
    <3>1. CASE n = 0
      BY <1>2, <3>1
    <3>2. CASE n # 0
      <4>1. n - 1 \in Nat /\ (n - 1) + 1 = n
        BY <3>2
      <4> QED
        BY <1>3, <3>2, <4>1
    <3> QED
      BY <3>1, <3>2
  <2> HIDE DEF table
  <2>2. f = [n \in Nat |-> f[n]]
    OBVIOUS
  <2> QED
    BY <2>1, <2>2
<1>5. Power = CHOOSE g : IsPower(g)
  BY DEF Power
<1> HIDE DEF IsPower
<1>6. IsPower(Power)
  BY <1>4, <1>5
<1> USE DEF IsPower
<1>7. /\ Power[0] = 1
      /\ \A n \in Nat : n # 0 => Power[n] = Power[n - 1] * Multiplier
  BY <1>6
<1>8. \A n \in Nat : Power[n + 1] = Power[n] * Multiplier
  <2> TAKE n \in Nat
  <2>1. n + 1 \in Nat /\ n + 1 # 0 /\ (n + 1) - 1 = n
    OBVIOUS
  <2> QED
    BY <1>7, <2>1
<1>9. \A n \in Nat : Power[n] \in Nat \ {0}
  <2> DEFINE S == {n \in Nat : Power[n] \in Nat \ {0}}
  <2>1. 0 \in S
    BY <1>7
  <2>2. ASSUME NEW n \in Nat, n \in S PROVE n + 1 \in S
    <3>1. \A a, b \in Nat \ {0} : a * b \in Nat \ {0}
      OBVIOUS
    <3> QED
      BY <1>8, <2>2, <3>1, RetryAssumption
  <2> HIDE DEF S
  <2>3. Nat \subseteq S
    BY <2>1, <2>2, SetInduction
  <2> QED
    BY <2>3 DEF S
<1> QED
  BY <1>7, <1>8, <1>9

-----------------------------------------------------------------------------
(* The delays *)

\* Growing a delay that was cut gives the next delay, cut.
LEMMA NextIsCut ==
    ASSUME NEW n \in Nat
    PROVE  NextDelay(CutDelay(n)) = CutDelay(n + 1)
<1> DEFINE u == Uncut(n)
<1>1. /\ InitialDelay \in Nat \ {0} /\ MaxDelay \in Nat /\ Multiplier \in Nat \ {0}
      /\ Power[n] \in Nat \ {0} /\ Power[n + 1] = Power[n] * Multiplier
  BY RetryAssumption, PowerDefined
<1>2. \A a, b, c \in Nat : (a * b) * c = a * (b * c)
  OBVIOUS
<1>3. Uncut(n + 1) = u * Multiplier
  BY <1>1, <1>2 DEF Uncut
<1>4. \A a, b \in Nat : a * b \in Nat
  OBVIOUS
<1>5. u \in Nat
  BY <1>1, <1>4 DEF Uncut
<1> HIDE DEF u
<1>6. \A a \in Nat : a * Multiplier \in Nat /\ a * Multiplier >= a
  BY <1>1
<1>7. CASE u > MaxDelay
  <2>1. CutDelay(n) = MaxDelay
    BY <1>7 DEF CutDelay, u
  <2>2. NextDelay(MaxDelay) = MaxDelay
    BY <1>1, <1>6 DEF NextDelay
  <2>3. u * Multiplier > MaxDelay
    BY <1>1, <1>5, <1>6, <1>7
  <2> QED
    BY <1>3, <2>1, <2>2, <2>3 DEF CutDelay
<1>8. CASE ~(u > MaxDelay)
  <2>1. CutDelay(n) = u
    BY <1>8 DEF CutDelay, u
  <2> QED
    BY <1>3, <2>1 DEF CutDelay, NextDelay
<1> QED
  BY <1>7, <1>8

\* Every step keeps the delay in step with the calls.
LEMMA StepDelayInv == ASSUME RetryInv, DelayInv, [Next]_vars PROVE DelayInv'
<1>0. calls \in Nat /\ (calls + 1) - 1 = calls
  BY DEF RetryInv, TypeOK
<1>1. CASE Begin
  <2>1. CutDelay(0) = InitialDelay
    BY RetryAssumption, PowerDefined DEF CutDelay, Uncut
  <2> QED
    BY <1>1, <2>1 DEF Begin, DelayInv
<1>2. CASE CallOrGiveUp
  BY <1>0, <1>2 DEF CallOrGiveUp, Return, DelayInv
<1>3. CASE FnReturns \/ Judge \/ EnterSleep
  BY <1>3 DEF FnReturns, Judge, EnterSleep, Return, history, DelayInv
<1>4. CASE Wake
  <2>1. calls - 1 \in Nat /\ (calls - 1) + 1 = calls
    BY <1>0, <1>4 DEF Wake, DelayInv
  <2>2. NextDelay(CutDelay(calls - 1)) = CutDelay(calls)
    BY <2>1, NextIsCut
  <2> QED
    BY <1>4, <2>2 DEF Wake, history, DelayInv
<1>5. CASE CtxEnds \/ UNCHANGED vars
  BY <1>5 DEF CtxEnds, Return, history, vars, DelayInv
<1> QED
  BY <1>1, <1>2, <1>3, <1>4, <1>5 DEF Next, WorkerStep, Terminated

\* The delays grow by the multiplier with every repeated call and stop at the
\* maximum, whatever ends the operation.
THEOREM RetryBacksOff == Spec => []BackoffSchedule
<1>1. Init => DelayInv
  BY DEF Init, DelayInv
<1>2. DelayInv => BackoffSchedule
  BY DEF DelayInv, BackoffSchedule
<1> QED
  BY <1>1, <1>2, StepDelayInv, RetryInductive, PTL DEF Spec

-----------------------------------------------------------------------------
(* PutBody: the readers *)

Readers == [kind : Kinds, size : Nat, pos : Nat, rng : Nat]

\* A reader in sync that reads gets the bytes at its position, and stays in sync.
LEMMA ReadInSync ==
    ASSUME NEW r \in Readers, r.pos <= r.size, InSync(r), NEW n \in Nat \ {0}
    PROVE  /\ AfterRead(r, n) \in Readers /\ InSync(AfterRead(r, n))
           /\ AfterRead(r, n).kind = r.kind /\ AfterRead(r, n).size = r.size
           /\ ReadCount(r, n) \in Nat
           /\ AfterRead(r, n).pos = r.pos + ReadCount(r, n)
           /\ r.pos + ReadCount(r, n) <= r.size
           /\ ReadBytes(r, n) = [i \in 1 .. ReadCount(r, n) |-> Byte(r.kind, r.pos + i - 1)]
<1>1. ReadCount(r, n) \in Nat /\ r.pos + ReadCount(r, n) <= r.size
  BY DEF ReadCount, Readers
<1>2. /\ AfterRead(r, n) \in Readers
      /\ AfterRead(r, n).kind = r.kind /\ AfterRead(r, n).size = r.size
      /\ AfterRead(r, n).pos = r.pos + ReadCount(r, n)
      /\ AfterRead(r, n).rng = IF r.kind = "random" THEN r.rng + ReadCount(r, n) ELSE r.rng
  BY <1>1 DEF AfterRead, Moved, Readers
<1>3. InSync(AfterRead(r, n))
  BY <1>1, <1>2 DEF InSync, ReadFrom, Readers, Kinds
<1>4. ReadBytes(r, n) = [i \in 1 .. ReadCount(r, n) |-> Byte(r.kind, r.pos + i - 1)]
  BY DEF ReadBytes, InSync
<1> QED
  BY <1>1, <1>2, <1>3, <1>4

\* A Seek to the start puts any reader in sync.
LEMMA SeekStartInSync ==
    ASSUME NEW r \in Readers
    PROVE  /\ AfterSeek(r, 0, "start") \in Readers /\ InSync(AfterSeek(r, 0, "start"))
           /\ AfterSeek(r, 0, "start").kind = r.kind
           /\ AfterSeek(r, 0, "start").size = r.size
           /\ AfterSeek(r, 0, "start").pos = 0
<1>1. SeekTarget(r, 0, "start") = 0 /\ ~SeekFails(r, 0)
  BY DEF SeekTarget, SeekFails, Readers
<1>2. r.kind = "random" \/ r.kind = "fixed"
  BY DEF Readers, Kinds
<1>3. CASE r.kind = "random"
  <2>1. AfterSeek(r, 0, "start") = SeekRandom(r, 0)
    BY <1>1, <1>3 DEF AfterSeek
  <2>2. ~(0 > r.size)
    BY DEF Readers
  <2>3. SeekRandom(r, 0) = Moved(r, 0, 0)
    BY <2>2 DEF SeekRandom
  <2> QED
    BY <1>3, <2>1, <2>3 DEF Moved, InSync, ReadFrom, Readers
<1>4. CASE r.kind = "fixed"
  <2>1. AfterSeek(r, 0, "start") = Moved(r, 0, r.rng)
    BY <1>1, <1>4 DEF AfterSeek, SeekFixed
  <2> QED
    BY <1>4, <2>1 DEF Moved, InSync, ReadFrom, Readers
<1> QED
  BY <1>2, <1>3, <1>4

\* Measuring the stream leaves a reader in sync where it was.
LEMMA MeasureInSync ==
    ASSUME NEW r \in Readers, r.pos <= r.size, InSync(r)
    PROVE  AfterSeek(AfterSeek(r, 0, "end"), r.pos, "start") = r
<1>1. SeekTarget(r, 0, "end") = r.size /\ ~SeekFails(r, r.size)
  BY DEF SeekTarget, SeekFails, Readers
<1> DEFINE e == AfterSeek(r, 0, "end")
<1>2. Moved(r, r.pos, r.rng) = r
  BY DEF Moved, Readers
<1>3. CASE r.kind = "fixed"
  <2>1. e = Moved(r, r.size, r.rng)
    BY <1>1, <1>3 DEF AfterSeek, SeekFixed
  <2>2. SeekTarget(e, r.pos, "start") = r.pos /\ ~SeekFails(e, r.pos) /\ e.kind = "fixed"
    BY <1>3, <2>1 DEF Moved, SeekTarget, SeekFails, Readers
  <2>3. AfterSeek(e, r.pos, "start") = Moved(e, r.pos, e.rng)
    BY <2>2 DEF AfterSeek, SeekFixed
  <2> QED
    BY <1>2, <2>1, <2>3 DEF Moved
<1>4. CASE r.kind = "random"
  <2>1. PICK g \in Nat : e = Moved(r, r.size, g) /\ (r.pos = r.size => g = r.pos)
    <3>1. r.rng = r.pos
      BY <1>4 DEF InSync, ReadFrom
    <3>2. e = Moved(r, r.size, IF r.size = 0 \/ r.size < r.pos THEN r.size ELSE r.rng)
      BY <1>1, <1>4 DEF AfterSeek, SeekRandom, Readers
    <3> QED
      BY <3>1, <3>2 DEF Readers
  <2>2. e.kind = "random" /\ e.pos = r.size /\ e.size = r.size /\ e.rng = g
    BY <1>4, <2>1 DEF Moved
  <2>3. SeekTarget(e, r.pos, "start") = r.pos /\ ~SeekFails(e, r.pos) /\ ~(r.pos > e.size)
    BY <2>2 DEF SeekTarget, SeekFails, Readers
  <2>4. AfterSeek(e, r.pos, "start") =
          Moved(e, r.pos, IF r.pos = 0 \/ r.pos < e.pos THEN r.pos ELSE e.rng)
    BY <2>2, <2>3 DEF AfterSeek, SeekRandom
  <2>5. r.rng = r.pos
    BY <1>4 DEF InSync, ReadFrom
  <2>6. (IF r.pos = 0 \/ r.pos < e.pos THEN r.pos ELSE e.rng) = r.rng
    BY <2>1, <2>2, <2>5 DEF Readers
  <2> QED
    BY <1>2, <2>1, <2>4, <2>6 DEF Moved
<1> QED
  BY <1>3, <1>4 DEF Readers, Kinds

\* The bytes read at a place continue those before it.
LEMMA Continues ==
    ASSUME NEW k \in Kinds, NEW p \in Nat, NEW c \in Nat
    PROVE  Source(k, p) \o [i \in 1 .. c |-> Byte(k, p + i - 1)] = Source(k, p + c)
<1> DEFINE s == Source(k, p)
           t == [i \in 1 .. c |-> Byte(k, p + i - 1)]
<1>1. Len(s) = p /\ Len(t) = c
  BY DEF Source
<1>2. s \o t = [i \in 1 .. p + c |-> IF i <= p THEN s[i] ELSE t[i - p]]
  BY <1>1 DEF Source
<1>3. ASSUME NEW i \in 1 .. p + c
      PROVE  (IF i <= p THEN s[i] ELSE t[i - p]) = Byte(k, i - 1)
  BY <1>3 DEF Source
<1> QED
  BY <1>2, <1>3 DEF Source

\* Appending what a reader in sync reads to what it read before.
LEMMA ReadContinues ==
    ASSUME NEW r \in Readers, r.pos <= r.size, InSync(r), NEW n \in BufferSizes
    PROVE  Source(r.kind, r.pos) \o ReadBytes(r, n) = Source(r.kind, AfterRead(r, n).pos)
<1>1. n \in Nat \ {0} /\ r.kind \in Kinds /\ r.pos \in Nat
  BY PutBodyAssumption DEF Readers
<1> DEFINE c == ReadCount(r, n)
<1>2. /\ c \in Nat
      /\ AfterRead(r, n).pos = r.pos + c
      /\ ReadBytes(r, n) = [i \in 1 .. c |-> Byte(r.kind, r.pos + i - 1)]
  BY <1>1, ReadInSync
<1> HIDE DEF c
<1>3. Source(r.kind, r.pos) \o [i \in 1 .. c |-> Byte(r.kind, r.pos + i - 1)]
        = Source(r.kind, r.pos + c)
  BY <1>1, <1>2, Continues
<1> QED
  BY <1>2, <1>3

\* The initial states satisfy the invariant.
LEMMA InitBodyInv == ASSUME PutInit PROVE BodyInv
<1>1. TypeOK
  BY InitRetryInv DEF PutInit, RetryInv
<1>2. PICK k \in SourceKinds : reader = NewReader(k, 0)
  BY DEF PutInit
<1>3. k \in Kinds
  BY <1>2, PutBodyAssumption
<1>4. First(0) = <<>>
  BY DEF First, Source
<1> QED
  BY <1>1, <1>2, <1>3, <1>4
     DEF PutInit, Init, NewReader, BodyInv, PutTypeOK, Stages, ReaderInSync, InSync, ReadFrom

\* Every step of a PUT is a step of its retry loop, or leaves the loop alone.
LEMMA PutStepsRetry == ASSUME [PutNext]_putVars PROVE [Next]_vars
  BY DEF PutNext, PutStep, PutBegin, Hash, HashEnds, Attempt, Send, Measure, Rewind,
         Stored, Fails, PutTerminated, Next, WorkerStep, putVars

\* The two invariants together are kept by every step.
LEMMA StepBodyInv ==
    ASSUME BodyInv, RetryInv, [PutNext]_putVars
    PROVE  BodyInv'
<1> /\ reader \in Readers /\ reader.pos <= reader.size /\ InSync(reader)
    /\ reader.kind \in Kinds /\ reader.size \in Nat
  BY DEF BodyInv, PutTypeOK, Readers, ReaderInSync
<1>0. TypeOK'
  BY PutStepsRetry, StepRetryInv DEF RetryInv
<1>00. First(0) = <<>>
  BY DEF First, Source
<1> USE DEF BodyInv, PutTypeOK, ReaderInSync, Stages
<1>1. CASE PutBegin
  <2>1. PICK n \in ObjectSizes : reader' = NewReader(reader.kind, n)
    BY <1>1 DEF PutBegin
  <2>2. n \in Nat
    BY PutBodyAssumption
  <2>3. st' = "loop" /\ stage' = "hash" /\ hashed' = <<>>
    BY <1>1 DEF PutBegin, Begin
  <2>4. /\ reader'.kind = reader.kind /\ reader'.size = n /\ reader'.pos = 0
        /\ reader' \in Readers /\ InSync(reader')
    BY <2>1, <2>2 DEF NewReader, InSync, ReadFrom, Readers
  <2>5. First(reader.pos)' = <<>>
    BY <2>4 DEF First, Source
  <2> QED
    BY <1>0, <2>2, <2>3, <2>4, <2>5 DEF Readers
<1>2. CASE Hash
  <2>1. PICK n \in BufferSizes : /\ hashed' = hashed \o ReadBytes(reader, n)
                                 /\ reader' = AfterRead(reader, n)
    BY <1>2 DEF Hash
  <2>2. hashed' = First(reader.pos)'
    BY <1>2, <2>1, ReadContinues, ReadInSync, PutBodyAssumption DEF Hash, First
  <2> QED
    BY <1>0, <1>2, <2>1, <2>2, ReadInSync, PutBodyAssumption DEF Hash, First, Readers, vars
<1>3. CASE HashEnds
  <2>1. hashed' = First(reader.size)
    BY <1>3 DEF HashEnds, AtEnd
  <2> QED
    BY <1>0, <1>3, <2>1, SeekStartInSync DEF HashEnds, First, Readers, vars
<1>4. CASE Attempt
  <2>1. CASE st' = "call" /\ reader' = AfterSeek(reader, 0, "start") /\ body' = <<>>
    BY <1>0, <1>00, <1>4, <2>1, SeekStartInSync DEF Attempt, First, Readers
  <2>2. CASE st' = "idle" /\ UNCHANGED <<reader, body>>
    BY <1>0, <1>4, <2>2 DEF Attempt, First
  <2> QED
    BY <1>4, <2>1, <2>2 DEF Attempt
<1>5. CASE Send
  <2>1. PICK n \in BufferSizes : /\ body' = body \o ReadBytes(reader, n)
                                 /\ reader' = AfterRead(reader, n)
    BY <1>5 DEF Send
  <2>2. body' = First(reader.pos)'
    BY <1>5, <2>1, ReadContinues, ReadInSync, PutBodyAssumption DEF Send, First
  <2> QED
    BY <1>0, <1>5, <2>1, <2>2, ReadInSync, PutBodyAssumption DEF Send, First, Readers, vars
<1>6. CASE Measure
  <2>1. reader' = reader
    BY <1>6, MeasureInSync DEF Measure
  <2> QED
    BY <1>0, <1>6, <2>1 DEF Measure, First, vars
<1>7. CASE Rewind
  BY <1>0, <1>00, <1>7, SeekStartInSync DEF Rewind, First, Readers, vars
<1>8. CASE Stored
  <2>1. st = "call" /\ st' = "idle" /\ stage' = "stored" /\ reader.pos = reader.size
    BY <1>8 DEF Stored, FnReturns, AtEnd
  <2> QED
    BY <1>0, <1>8, <2>1 DEF Stored, First
<1>9. CASE Fails
  BY <1>0, <1>9 DEF Fails, FnReturns, First, data
<1>10. CASE UNCHANGED data /\ (Judge \/ EnterSleep \/ Wake \/ CtxEnds)
  <2>1. st # "idle" /\ (st' = "call" => st = "call")
    BY <1>10 DEF Judge, EnterSleep, Return, Wake, CtxEnds
  <2>2. stage = "hash" => st' = "loop"
    BY <1>10 DEF Judge, EnterSleep, Wake, CtxEnds
  <2> QED
    BY <1>0, <1>10, <2>1, <2>2 DEF First, data
<1>11. CASE UNCHANGED putVars
  BY <1>0, <1>11 DEF putVars, vars, data, First
<1> QED
  BY <1>1, <1>2, <1>3, <1>4, <1>5, <1>6, <1>7, <1>8, <1>9, <1>10, <1>11
     DEF PutNext, PutStep, PutTerminated, Terminated, putVars

\* A PUT's retry loop is the retry loop: what RetryProofs shows holds of it.
THEOREM PutRefinesRetry == PutSpec => Spec
<1>1. PutInit => Init
  BY DEF PutInit
<1>2. [PutNext]_putVars => [Next]_vars
  BY PutStepsRetry
<1> QED
  BY <1>1, <1>2, PTL DEF PutSpec, Spec

\* The invariant of the data holds in every reachable state.
THEOREM BodyInductive == PutSpec => []BodyInv
<1>1. PutSpec => []RetryInv
  BY PutRefinesRetry, RetryInductive, PTL
<1>2. BodyInv /\ RetryInv /\ [PutNext]_putVars => BodyInv'
  BY StepBodyInv
<1> QED
  BY <1>1, <1>2, InitBodyInv, PTL DEF PutSpec

\* The variables of a PUT and of its retry loop keep their types.
THEOREM PutTypeCorrect == PutSpec => []PutTypeOK
<1>1. BodyInv => PutTypeOK
  BY DEF BodyInv
<1> QED
  BY <1>1, BodyInductive, PTL

\* A PUT that is stored holds the data of its pattern, and its hash is theirs,
\* after any number of failed attempts and rewinds.
THEOREM PutStoresHashed == PutSpec => []StoredIsHashed
<1>1. BodyInv => StoredIsHashed
  BY DEF BodyInv, StoredIsHashed, First
<1> QED
  BY <1>1, BodyInductive, PTL

\* No use of the reader by a PUT takes its generator out of step.
THEOREM PutReaderInSync == PutSpec => []ReaderInSync
<1>1. BodyInv => ReaderInSync
  BY DEF BodyInv
<1> QED
  BY <1>1, BodyInductive, PTL
=============================================================================
