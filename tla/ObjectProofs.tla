---------------------------- MODULE ObjectProofs ----------------------------
(***************************************************************************)
(* Proofs about ObjectOps, for any number of workers, keys, sizes,         *)
(* attempts and operations.                                                *)
(***************************************************************************)
EXTENDS ObjectOps, FiniteSetTheorems, TLAPS

\* A job as a worker may have it.
GoodJob(j) == /\ j \in Jobs /\ j.attempt \in 0 .. MaxAttempts
              /\ j.op \in Uploads => j.size \in Sizes

\* The job of an idle worker is a job.
LEMMA NoJobIsGood == GoodJob(NoJob) /\ Sound(NoJob.body) /\ NoJob.op = "unknown"
<1>1. (CHOOSE k \in Keys : TRUE) \in Keys
  BY ObjectOpsAssumption
<1>2. 0 \in 0 .. MaxAttempts
  BY ObjectOpsAssumption
<1> QED
  BY <1>1, <1>2 DEF NoJob, GoodJob, Jobs, OpTypes, Uploads, ObjectSet, Sound, Absent

\* A worker's job is good; this is all that ObjectTypes says of jobs.
LEMMA JobsAreGood ==
    ASSUME ObjectTypes, NEW w \in Workers
    PROVE  GoodJob(job[w])
  BY DEF ObjectTypes, TypeOK, GoodJob

\* A new object fits its hash, unless the namespace tag replaces it.
LEMMA NewObjectSound ==
    ASSUME NEW k \in Keys, NEW s \in Sizes
    PROVE  /\ NewObject(k, s) \in ObjectSet
           /\ cfg.tag # "sha256" => Sound(NewObject(k, s))
<1>1. Content(k, s) \in Written
  BY DEF Content, Written
<1> QED
  BY <1>1 DEF NewObject, ObjectSet, Sound

\* One whose parts sent something else is told apart by its data.
LEMMA GarbledSound ==
    ASSUME NEW k \in Keys, NEW s \in Sizes, ~cfg.intact
    PROVE  /\ [NewObject(k, s) EXCEPT !.data = Garbled] \in ObjectSet
           /\ Sound([NewObject(k, s) EXCEPT !.data = Garbled])
<1>1. Content(k, s) \in Written
  BY DEF Content, Written
<1>2. /\ NewObject(k, s).hash \in Written \cup {TagHash}
      /\ [NewObject(k, s) EXCEPT !.data = Garbled]
           = [data |-> Garbled, hash |-> NewObject(k, s).hash]
  BY <1>1 DEF NewObject
<1> QED
  BY <1>2 DEF ObjectSet, Sound

\* A bucket in which a sound object replaces another.
LEMMA StoreSound ==
    ASSUME ObjectInv, NEW k \in Keys, NEW o \in ObjectSet,
           cfg.tag # "sha256" => Sound(o),
           NEW b, b = [bucket EXCEPT ![k] = o]
    PROVE  /\ b \in [Keys -> ObjectSet]
           /\ cfg.tag # "sha256" => \A i \in Keys : Sound(b[i])
  BY DEF ObjectInv, ObjectTypes, TypeOK, SoundInv

\* What a request does to the bucket keeps its type and every object's hash fitting.
LEMMA EffectSound ==
    ASSUME ObjectInv, NEW j \in Jobs, j.op \in Uploads => j.size \in Sizes, Possible(j),
           NEW b \in Effects(j)
    PROVE  /\ b \in [Keys -> ObjectSet]
           /\ cfg.tag # "sha256" => \A k \in Keys : Sound(b[k])
<1>0. /\ bucket \in [Keys -> ObjectSet]
      /\ cfg.tag # "sha256" => \A k \in Keys : Sound(bucket[k])
  BY DEF ObjectInv, ObjectTypes, TypeOK, SoundInv
<1>1. j.key \in Keys /\ j.dst \in Keys
  BY DEF Jobs
<1>2. CASE j.op \in Uploads /\ b = PutEffect(j)
  BY <1>1, <1>2, NewObjectSound, StoreSound DEF PutEffect
<1>3. CASE j.op = "multipart_put" /\ b # PutEffect(j)
  <2>1. j.size \in Sizes
    BY <1>3 DEF Uploads
  <2>2. /\ ~cfg.intact
        /\ b = [bucket EXCEPT ![j.key] = [NewObject(j.key, j.size) EXCEPT !.data = Garbled]]
    BY <1>3 DEF Effects, MultipartEffects
  <2> QED
    BY <1>1, <2>1, <2>2, GarbledSound, StoreSound
<1>4. CASE j.op = "delete"
  <2>1. b = [bucket EXCEPT ![j.key] = Absent]
    BY <1>4 DEF Effects
  <2>2. Absent \in ObjectSet /\ Sound(Absent)
    BY DEF ObjectSet, Sound, Absent
  <2> QED
    BY <1>1, <2>1, <2>2, StoreSound
<1>5. CASE j.op = "copy"
  <2>1. b = bucket \/ b = [bucket EXCEPT ![j.dst] = bucket[j.key]]
    BY <1>5 DEF Effects, CopyEffect
  <2> QED
    BY <1>0, <1>1, <2>1, StoreSound
<1>6. CASE j.op \notin Uploads \cup {"delete", "copy"}
  BY <1>0, <1>6 DEF Effects, Uploads
<1>7. j.op = "put" => b = PutEffect(j)
  BY DEF Effects
<1> QED
  BY <1>2, <1>3, <1>4, <1>5, <1>6, <1>7 DEF Uploads

\* What is left on its way to the server are requests of workers.
LEMMA LeftSound ==
    ASSUME ObjectInv, NEW w \in Workers, inflight' \in {inflight, Left(job[w])}
    PROVE  /\ inflight' \subseteq Jobs
           /\ \A j \in inflight' : j.op \in Uploads => j.size \in Sizes
<1>1. GoodJob(job[w])
  BY JobsAreGood DEF ObjectInv
<1>2. /\ Request(job[w]) \in Jobs
      /\ Request(job[w]).op \in Uploads => Request(job[w]).size \in Sizes
  BY <1>1 DEF Request, Jobs, GoodJob
<1> QED
  BY <1>2 DEF Left, ObjectInv, ObjectTypes, TypeOK

\* A worker that takes a good and sound job up, or lets one go.
LEMMA JobChanges ==
    ASSUME ObjectInv, NEW w \in Workers, NEW j, GoodJob(j),
           cfg.tag # "sha256" => Sound(j.body),
           job' = [job EXCEPT ![w] = j]
    PROVE  /\ job' \in [Workers -> Jobs]
           /\ \A v \in Workers : GoodJob(job'[v])
           /\ cfg.tag # "sha256" => \A v \in Workers : Sound(job'[v].body)
<1>1. job \in [Workers -> Jobs] /\ \A v \in Workers : GoodJob(job[v])
  BY JobsAreGood DEF ObjectInv, ObjectTypes
<1>2. /\ cfg.tag # "sha256" => \A v \in Workers : Sound(job[v].body)
  BY DEF ObjectInv, SoundInv
<1> QED
  BY <1>1, <1>2 DEF GoodJob

\* A worker that ends its operation has the job of an idle one.
LEMMA FinishKeeps ==
    ASSUME ObjectInv, NEW w \in Workers, Finish(w)
    PROVE  /\ job' \in [Workers -> Jobs]
           /\ \A v \in Workers : GoodJob(job'[v])
           /\ cfg.tag # "sha256" => \A v \in Workers : Sound(job'[v].body)
           /\ pc' = [pc EXCEPT ![w] = "idle"]
  BY NoJobIsGood, JobChanges DEF Finish, Goto

-----------------------------------------------------------------------------
(* The counters *)

\* The workers between the two counters of a failed verification.
Reporting == {w \in Workers : pc[w] = "failure"}

\* They can be counted, before a step and after it.
LEMMA ReportingFinite ==
    /\ IsFiniteSet(Reporting) /\ Cardinality(Reporting) \in Nat
    /\ IsFiniteSet(Reporting') /\ Cardinality(Reporting') \in Nat
<1>1. Reporting \subseteq Workers /\ Reporting' \subseteq Workers
  BY DEF Reporting
<1>2. IsFiniteSet(Reporting) /\ IsFiniteSet(Reporting')
  BY <1>1, ObjectOpsAssumption, FS_Subset
<1> QED
  BY <1>2, FS_CardinalityType

\* A step of a worker that neither begins nor ends a report keeps them in number.
LEMMA QuietMove ==
    ASSUME ObjectInv, NEW w \in Workers, NEW to, pc' = [pc EXCEPT ![w] = to],
           pc[w] # "failure", to # "failure", UNCHANGED <<verifyTotal, verifyFailures>>
    PROVE  FailuresWithinTotal'
<1>1. Reporting' = Reporting
  BY DEF Reporting, ObjectInv, ObjectTypes, TypeOK
<1> QED
  BY <1>1 DEF Reporting, FailuresWithinTotal, ObjectInv

-----------------------------------------------------------------------------
(* Every step keeps the invariant *)

\* The parts of the invariant, put together after a step.
LEMMA Assemble ==
    ASSUME ObjectInv, UNCHANGED cfg,
           bucket' \in [Keys -> ObjectSet],
           cfg.tag # "sha256" => \A k \in Keys : Sound(bucket'[k]),
           inflight' \subseteq Jobs,
           \A j \in inflight' : j.op \in Uploads => j.size \in Sizes,
           pc' \in [Workers -> PcStates],
           job' \in [Workers -> Jobs],
           \A w \in Workers : GoodJob(job'[w]),
           cfg.tag # "sha256" => \A w \in Workers : Sound(job'[w].body),
           begun' \in 0 .. OpsBound,
           verifyTotal' \in Nat, verifyFailures' \in Nat,
           cfg.tag # "sha256" /\ cfg.intact => "mismatch" \notin causes',
           FailuresWithinTotal'
    PROVE  ObjectInv'
<1>1. \A w \in Workers : job'[w].body \in ObjectSet
  BY DEF Jobs
<1>2. TypeOK'
  BY <1>1 DEF TypeOK, ObjectInv, ObjectTypes, GoodJob
<1>3. SoundInv'
  BY DEF SoundInv, Sound
<1> QED
  BY <1>2, <1>3 DEF ObjectInv, ObjectTypes, GoodJob

\* The same, for a step that changes workers and their jobs only.
LEMMA AssembleWorker ==
    ASSUME ObjectInv, UNCHANGED <<cfg, bucket, inflight, causes>>,
           pc' \in [Workers -> PcStates],
           job' \in [Workers -> Jobs],
           \A w \in Workers : GoodJob(job'[w]),
           cfg.tag # "sha256" => \A w \in Workers : Sound(job'[w].body),
           begun' \in 0 .. OpsBound,
           verifyTotal' \in Nat, verifyFailures' \in Nat,
           FailuresWithinTotal'
    PROVE  ObjectInv'
  BY Assemble DEF ObjectInv, ObjectTypes, TypeOK, SoundInv

\* What the invariant says of the jobs when none changes.
LEMMA JobsStay ==
    ASSUME ObjectInv
    PROVE  /\ job \in [Workers -> Jobs]
           /\ \A w \in Workers : GoodJob(job[w])
           /\ cfg.tag # "sha256" => \A w \in Workers : Sound(job[w].body)
  BY JobsAreGood DEF ObjectInv, ObjectTypes, SoundInv

\* An operation begins, or is over at once.
LEMMA BeginKeeps == ASSUME ObjectInv, NEW w \in Workers, Begin(w) PROVE ObjectInv'
<1>1. PICK op \in Mix, k \in Keys, d \in Keys, s \in Sizes :
         \/ UNCHANGED <<pc, job>>
         \/ /\ ~Skipped(op)
            /\ job' = [job EXCEPT ![w] = NewJob(op, k, d, s)]
            /\ Goto(w, "request")
  BY DEF Begin
<1>2. begun' \in 0 .. OpsBound
  BY ObjectOpsAssumption DEF Begin, ObjectInv, ObjectTypes, TypeOK
<1>3. UNCHANGED <<cfg, bucket, inflight, causes, verifyTotal, verifyFailures>>
  BY DEF Begin, counters
<1>4. CASE UNCHANGED <<pc, job>>
  <2>1. FailuresWithinTotal'
    BY <1>3, <1>4 DEF FailuresWithinTotal, ObjectInv
  <2> QED
    BY <1>2, <1>3, <1>4, <2>1, JobsStay, AssembleWorker DEF ObjectInv, ObjectTypes, TypeOK
<1>5. CASE /\ ~Skipped(op)
           /\ job' = [job EXCEPT ![w] = NewJob(op, k, d, s)]
           /\ Goto(w, "request")
  <2>1. 1 \in 0 .. MaxAttempts
    BY <1>5, ObjectOpsAssumption DEF Skipped
  <2> DEFINE j == NewJob(op, k, d, s)
  <2>2. j.op \in OpTypes /\ (j.op \in Uploads => op \in Uploads)
    BY ObjectOpsAssumption DEF NewJob, OpTypes, Uploads
  <2>3. /\ j.key = k /\ j.dst \in Keys /\ j.attempt = 1 /\ j.body = Absent
        /\ j.size = IF op \in Uploads THEN s ELSE 0
        /\ j = [op |-> j.op, key |-> k, dst |-> j.dst, size |-> j.size,
                attempt |-> 1, body |-> Absent]
    BY DEF NewJob
  <2>4. /\ GoodJob(NewJob(op, k, d, s)) /\ Sound(NewJob(op, k, d, s).body)
    <3>1. Absent \in ObjectSet /\ Sound(Absent)
      BY DEF ObjectSet, Sound, Absent
    <3>2. j.size \in Nat /\ (op \in Uploads => j.size \in Sizes)
      BY <2>3, ObjectOpsAssumption
    <3>3. j \in Jobs
      BY <2>2, <2>3, <3>1, <3>2 DEF Jobs
    <3> QED
      BY <2>1, <2>2, <2>3, <3>1, <3>2, <3>3 DEF GoodJob
  <2>5. /\ pc' = [pc EXCEPT ![w] = "request"] /\ pc[w] # "failure"
        /\ pc' \in [Workers -> PcStates]
    BY <1>5 DEF Begin, Goto, ObjectInv, ObjectTypes, TypeOK, PcStates
  <2>6. FailuresWithinTotal'
    BY <1>3, <2>5, QuietMove
  <2> QED
    BY <1>2, <1>3, <1>5, <2>4, <2>5, <2>6, JobChanges, AssembleWorker
       DEF ObjectInv, ObjectTypes
<1> QED
  BY <1>1, <1>4, <1>5

\* A request is answered.
LEMMA AnsweredKeeps == ASSUME ObjectInv, NEW w \in Workers, Answered(w) PROVE ObjectInv'
<1>1. /\ pc[w] = "request" /\ Possible(job[w]) /\ bucket' \in Effects(job[w])
      /\ UNCHANGED <<cfg, begun, verifyTotal, verifyFailures, causes>>
  BY DEF Answered, counters
<1>2. GoodJob(job[w])
  BY JobsAreGood DEF ObjectInv
<1>3. /\ bucket' \in [Keys -> ObjectSet]
      /\ cfg.tag # "sha256" => \A k \in Keys : Sound(bucket'[k])
  BY <1>1, <1>2, EffectSound DEF GoodJob
<1>4. /\ inflight' \subseteq Jobs
      /\ \A j \in inflight' : j.op \in Uploads => j.size \in Sizes
  BY LeftSound DEF Answered
<1>5. PICK to \in {"read", "idle"} :
         /\ pc' = [pc EXCEPT ![w] = to]
         /\ job' \in [Workers -> Jobs]
         /\ \A v \in Workers : GoodJob(job'[v])
         /\ cfg.tag # "sha256" => \A v \in Workers : Sound(job'[v].body)
  <2>1. CASE job[w].op = "get" /\ Goto(w, "read")
                /\ job' = [job EXCEPT ![w].body = bucket[job[w].key]]
    <3> DEFINE j == [job[w] EXCEPT !.body = bucket[job[w].key]]
    <3>1. job[w].key \in Keys
      BY <1>2 DEF GoodJob, Jobs
    <3>2. /\ bucket[job[w].key] \in ObjectSet
          /\ cfg.tag # "sha256" => Sound(bucket[job[w].key])
      BY <3>1 DEF ObjectInv, ObjectTypes, TypeOK, SoundInv
    <3>3. /\ GoodJob(j) /\ j.op = "get"
          /\ cfg.tag # "sha256" => Sound(j.body)
      BY <1>2, <2>1, <3>2 DEF GoodJob, Jobs
    <3>4. job' = [job EXCEPT ![w] = j]
      BY <2>1
    <3> QED
      BY <2>1, <3>3, <3>4, JobChanges DEF Goto
  <2>2. CASE Finish(w)
    BY <2>2, FinishKeeps
  <2> QED
    BY <2>1, <2>2 DEF Answered
<1>6. pc' \in [Workers -> PcStates] /\ FailuresWithinTotal'
  BY <1>1, <1>5, QuietMove DEF ObjectInv, ObjectTypes, TypeOK, PcStates
<1> QED
  BY <1>1, <1>3, <1>4, <1>5, <1>6, Assemble DEF ObjectInv, ObjectTypes, TypeOK, SoundInv

\* A request fails: another attempt, or the end.
LEMMA FailedKeeps == ASSUME ObjectInv, NEW w \in Workers, Failed(w) PROVE ObjectInv'
<1>1. /\ pc[w] = "request"
      /\ UNCHANGED <<cfg, bucket, begun, verifyTotal, verifyFailures, causes>>
  BY DEF Failed, counters
<1>2. /\ inflight' \subseteq Jobs
      /\ \A j \in inflight' : j.op \in Uploads => j.size \in Sizes
  BY LeftSound DEF Failed
<1>3. PICK to \in {"request", "idle"} :
         /\ pc' = [pc EXCEPT ![w] = to]
         /\ job' \in [Workers -> Jobs]
         /\ \A v \in Workers : GoodJob(job'[v])
         /\ cfg.tag # "sha256" => \A v \in Workers : Sound(job'[v].body)
  <2>1. CASE /\ job[w].attempt < MaxAttempts /\ UNCHANGED pc
             /\ job' = [job EXCEPT ![w].attempt = @ + 1]
    <3> DEFINE j == [job[w] EXCEPT !.attempt = @ + 1]
    <3>1. GoodJob(job[w]) /\ (cfg.tag # "sha256" => Sound(job[w].body))
      BY JobsStay
    <3>2. /\ GoodJob(j) /\ j.op = job[w].op /\ j.body = job[w].body
      BY <2>1, <3>1, ObjectOpsAssumption DEF GoodJob, Jobs
    <3>3. job' = [job EXCEPT ![w] = j]
      BY <2>1
    <3>4. pc' = [pc EXCEPT ![w] = "request"]
      BY <1>1, <2>1 DEF ObjectInv, ObjectTypes, TypeOK
    <3> QED
      BY <3>1, <3>2, <3>3, <3>4, JobChanges
  <2>2. CASE Finish(w)
    BY <2>2, FinishKeeps
  <2> QED
    BY <2>1, <2>2 DEF Failed
<1>4. pc' \in [Workers -> PcStates] /\ FailuresWithinTotal'
  BY <1>1, <1>3, QuietMove DEF ObjectInv, ObjectTypes, TypeOK, PcStates
<1> QED
  BY <1>1, <1>2, <1>3, <1>4, Assemble DEF ObjectInv, ObjectTypes, TypeOK, SoundInv

\* The body of a GET is verified or discarded; a failure is counted first.
LEMMA ReadBodyKeeps == ASSUME ObjectInv, NEW w \in Workers, ReadBody(w) PROVE ObjectInv'
<1>1. pc[w] = "read" /\ UNCHANGED <<cfg, bucket, inflight, begun, verifyTotal>>
  BY DEF ReadBody
<1>2. PICK cut \in BOOLEAN :
         \/ Finish(w) /\ UNCHANGED <<verifyFailures, causes>>
         \/ Goto(w, "verified") /\ UNCHANGED <<job, verifyFailures, causes>>
         \/ /\ Goto(w, "failure") /\ UNCHANGED job
            /\ verifyFailures' = verifyFailures + 1
            /\ causes' = causes \cup {Verify(job[w].body, cut)}
  BY DEF ReadBody
<1>3. CASE Finish(w) /\ UNCHANGED <<verifyFailures, causes>>
  <2>1. pc' \in [Workers -> PcStates] /\ FailuresWithinTotal'
    BY <1>1, <1>3, FinishKeeps, QuietMove DEF ObjectInv, ObjectTypes, TypeOK, PcStates
  <2> QED
    BY <1>1, <1>3, <2>1, FinishKeeps, AssembleWorker DEF ObjectInv, ObjectTypes, TypeOK
<1>4. CASE Goto(w, "verified") /\ UNCHANGED <<job, verifyFailures, causes>>
  <2>1. pc' \in [Workers -> PcStates] /\ FailuresWithinTotal'
    BY <1>1, <1>4, QuietMove DEF Goto, ObjectInv, ObjectTypes, TypeOK, PcStates
  <2> QED
    BY <1>1, <1>4, <2>1, JobsStay, AssembleWorker DEF ObjectInv, ObjectTypes, TypeOK
<1>5. CASE /\ Goto(w, "failure") /\ UNCHANGED job
           /\ verifyFailures' = verifyFailures + 1
           /\ causes' = causes \cup {Verify(job[w].body, cut)}
  <2>1. cfg.tag # "sha256" /\ cfg.intact => Verify(job[w].body, cut) # "mismatch"
    BY DEF Verify, Sound, ObjectInv, SoundInv
  <2>2. cfg.tag # "sha256" /\ cfg.intact => "mismatch" \notin causes'
    BY <1>5, <2>1 DEF ObjectInv, SoundInv
  <2>3. pc' \in [Workers -> PcStates]
    BY <1>5 DEF Goto, ObjectInv, ObjectTypes, TypeOK, PcStates
  <2>4. Reporting' = Reporting \cup {w} /\ w \notin Reporting
    BY <1>1, <1>5 DEF Reporting, Goto, ObjectInv, ObjectTypes, TypeOK
  <2>5. Cardinality(Reporting') = Cardinality(Reporting) + 1
    BY <2>4, ReportingFinite, FS_AddElement
  <2>6. /\ verifyTotal \in Nat /\ verifyFailures \in Nat
        /\ verifyFailures <= verifyTotal + Cardinality(Reporting)
    BY DEF Reporting, FailuresWithinTotal, ObjectInv, ObjectTypes
  <2>7. verifyFailures' <= verifyTotal' + Cardinality(Reporting')
    BY <1>1, <1>5, <2>5, <2>6, ReportingFinite
  <2>8. FailuresWithinTotal' /\ verifyFailures' \in Nat /\ verifyTotal' \in Nat
    BY <1>1, <1>5, <2>6, <2>7 DEF FailuresWithinTotal, Reporting
  <2> QED
    BY <1>1, <1>5, <2>2, <2>3, <2>8, JobsStay, Assemble
       DEF ObjectInv, ObjectTypes, TypeOK, SoundInv
<1> QED
  BY <1>2, <1>3, <1>4, <1>5

\* The total follows.
LEMMA CountKeeps == ASSUME ObjectInv, NEW w \in Workers, CountVerified(w) PROVE ObjectInv'
<1>1. /\ verifyTotal' = verifyTotal + 1 /\ Finish(w)
      /\ UNCHANGED <<cfg, bucket, inflight, begun, verifyFailures, causes>>
  BY DEF CountVerified
<1>2. pc' = [pc EXCEPT ![w] = "idle"] /\ pc' \in [Workers -> PcStates]
  BY <1>1 DEF Finish, Goto, ObjectInv, ObjectTypes, TypeOK, PcStates
<1>3. Reporting' = Reporting \ {w}
  BY <1>2 DEF Reporting, ObjectInv, ObjectTypes, TypeOK
<1>4. Cardinality(Reporting') >= Cardinality(Reporting) - 1
  BY <1>3, ReportingFinite, FS_RemoveElement
<1>5. /\ verifyTotal \in Nat /\ verifyFailures \in Nat
      /\ verifyFailures <= verifyTotal + Cardinality(Reporting)
  BY DEF Reporting, FailuresWithinTotal, ObjectInv, ObjectTypes
<1>6. verifyFailures' <= verifyTotal' + Cardinality(Reporting')
  BY <1>1, <1>4, <1>5, ReportingFinite
<1>7. FailuresWithinTotal' /\ verifyFailures' \in Nat /\ verifyTotal' \in Nat
  BY <1>1, <1>5, <1>6 DEF FailuresWithinTotal, Reporting
<1> QED
  BY <1>1, <1>2, <1>7, FinishKeeps, AssembleWorker DEF ObjectInv, ObjectTypes, TypeOK

\* A request nobody waits for is carried out.
LEMMA LateEffectKeeps == ASSUME ObjectInv, LateEffect PROVE ObjectInv'
<1>1. PICK j \in inflight : Possible(j) /\ bucket' \in Effects(j)
  BY DEF LateEffect
<1>2. j \in Jobs /\ (j.op \in Uploads => j.size \in Sizes)
  BY <1>1 DEF ObjectInv, ObjectTypes, TypeOK
<1>3. UNCHANGED <<cfg, inflight, pc, job, begun, verifyTotal, verifyFailures, causes>>
  BY DEF LateEffect, counters
<1>4. FailuresWithinTotal'
  BY <1>3 DEF FailuresWithinTotal, ObjectInv
<1> QED
  BY <1>1, <1>2, <1>3, <1>4, EffectSound, JobsStay, Assemble
     DEF ObjectInv, ObjectTypes, TypeOK, SoundInv

\* Every step keeps the invariant.
LEMMA StepObjectInv == ASSUME ObjectInv, [Next]_vars PROVE ObjectInv'
<1>1. CASE UNCHANGED vars
  <2>1. FailuresWithinTotal'
    BY <1>1 DEF vars, counters, FailuresWithinTotal, ObjectInv
  <2> QED
    BY <1>1, <2>1, JobsStay, AssembleWorker DEF vars, ObjectInv, ObjectTypes, TypeOK
<1> QED
  BY <1>1, BeginKeeps, AnsweredKeeps, FailedKeeps, ReadBodyKeeps, CountKeeps,
     LateEffectKeeps DEF Next, WorkerStep, Terminated

\* Whatever the bucket holds at first, no job and no request is under way.
LEMMA InitObjectInv == ASSUME Init PROVE ObjectInv
<1>1. Absent \in ObjectSet /\ Foreign \in ObjectSet /\ Sound(Absent) /\ Sound(Foreign)
  BY DEF ObjectSet, Sound, Absent, Foreign
<1>2. \A w \in Workers : job[w] = NoJob /\ GoodJob(job[w]) /\ Sound(job[w].body)
  BY NoJobIsGood DEF Init
<1>3. 0 \in 0 .. OpsBound
  BY ObjectOpsAssumption
<1>4. job \in [Workers -> Jobs] /\ \A w \in Workers : job[w].body \in ObjectSet
  BY NoJobIsGood DEF Init, GoodJob, Jobs
<1>5. ObjectTypes
  BY <1>1, <1>2, <1>3, <1>4 DEF Init, ObjectTypes, TypeOK, PcStates, GoodJob
<1>6. SoundInv
  BY <1>1, <1>2 DEF Init, SoundInv
<1>7. FailuresWithinTotal
  <2>1. Cardinality(Reporting) \in Nat /\ verifyFailures = 0 /\ verifyTotal = 0
    BY ReportingFinite DEF Init
  <2> QED
    BY <2>1 DEF Reporting, FailuresWithinTotal
<1> QED
  BY <1>5, <1>6, <1>7 DEF ObjectInv

\* The invariant holds in every reachable state.
THEOREM ObjectInductive == Spec => []ObjectInv
  BY InitObjectInv, StepObjectInv, PTL DEF Spec

-----------------------------------------------------------------------------
(* The properties *)

\* The variables keep their types.
THEOREM ObjectTypesCorrect == Spec => []TypeOK
<1>1. ObjectInv => TypeOK
  BY DEF ObjectInv, ObjectTypes
<1> QED
  BY <1>1, ObjectInductive, PTL

\* Without a tag that replaces the hash, no interleaving of the operations, and no
\* request that arrives late, lets a stored object differ from its hash, or a
\* verification report a mismatch, but for the objects whose parts were assembled
\* to something else than the source.
THEOREM HashesAlwaysFit ==
    ASSUME "sha256" \notin Tags
    PROVE  Spec => []HashesFit
<1>1. ASSUME ObjectInv PROVE HashesFit
  <2>1. cfg.tag # "sha256"
    BY <1>1 DEF ObjectInv, ObjectTypes, TypeOK, Configs
  <2> QED
    BY <1>1, <2>1 DEF ObjectInv, SoundInv, HashesFit, Sound
<1> QED
  BY <1>1, ObjectInductive, PTL

\* A scrape of the counters is off by at most the workers that are between two.
THEOREM CountersAgree == Spec => []FailuresWithinTotal
<1>1. ObjectInv => FailuresWithinTotal
  BY DEF ObjectInv
<1> QED
  BY <1>1, ObjectInductive, PTL
=============================================================================
