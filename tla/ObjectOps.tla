----------------------------- MODULE ObjectOps -----------------------------
(***************************************************************************)
(* What the operations do to the objects: the execute functions of         *)
(* internal/runner/runner.go, the requests of internal/s3/client.go, and   *)
(* the metadata and verification of internal/data/verifier.go.  Workers    *)
(* run operations on a shared keyspace; the server carries out a request   *)
(* atomically, or refuses it.  A request whose answer was lost, or that    *)
(* the SDK repeated on its own, may be carried out later, when its worker  *)
(* has long gone on.  A multipart put is the completion of an upload here; *)
(* its parts are in MultipartUpload.  (Operation, byte and latency metrics *)
(* are left out.)                                                          *)
(***************************************************************************)
EXTENDS Integers, FiniteSets

CONSTANTS Workers,      \* the worker goroutines
          Keys,         \* the keyspace
          Sizes,        \* sizes the distribution draws
          Mix,          \* operations with a positive share of the mix
          Tags,         \* what the namespace tag may do to the metadata
          Thresholds,   \* cfg.MultipartThreshold; above all sizes it is never met
          MaxAttempts,  \* cfg.MaxRetries
          OpsBound      \* bound of the model: operations begun

OpTypes == {"put", "multipart_put", "get", "delete", "copy", "list", "head", "unknown"}

Uploads == {"put", "multipart_put"}

TagKinds == {"none", "label", "sha256"}

ASSUME ObjectOpsAssumption ==
    /\ IsFiniteSet(Workers) /\ Keys # {}
    /\ Sizes \subseteq Nat /\ Sizes # {}
    /\ Mix \subseteq OpTypes /\ Tags \subseteq TagKinds /\ Thresholds \subseteq Nat
    /\ MaxAttempts \in Nat /\ OpsBound \in Nat

VARIABLES cfg,        \* the options of this run
          bucket,     \* the object under each key
          inflight,   \* requests given up or repeated, that may still arrive
          pc, job,    \* each worker's place and operation
          begun,      \* operations begun
          verifyTotal, verifyFailures,  \* counters of the metrics
          causes      \* history: why verifications failed

vars == <<cfg, bucket, inflight, pc, job, begun, verifyTotal, verifyFailures, causes>>

counters == <<verifyTotal, verifyFailures, causes>>

Absent == [data |-> <<>>, hash |-> <<>>]

\* The data of a key is a function of the key and the size, so this pair stands
\* for it, and for its SHA-256 too; the empty pair stands for no hash.
Content(k, s) == <<k, s>>

Written == {Content(k, s) : k \in Keys, s \in Sizes}

TagHash == <<"tag", 0>>

\* An object that another program put into the bucket before.
Foreign == [data |-> <<"foreign", 1>>, hash |-> <<>>]

\* What the server assembles when parts did not send their piece of the source.
Garbled == <<"garbled", 0>>

ObjectSet == [data : Written \cup {Garbled}, hash : Written \cup {TagHash}]
             \cup {Absent, Foreign}

\* intact: one part at a time and the repeating pattern, with which the parts send
\* the source (MultipartUpload, SerialFixedStores).
Configs == [keepData : BOOLEAN, otherBucket : BOOLEAN, intact : BOOLEAN, tag : Tags,
            threshold : Thresholds]

Jobs == [op : OpTypes, key : Keys, dst : Keys, size : Nat, attempt : Nat,
         body : ObjectSet]

NoJob == [op |-> "unknown", key |-> CHOOSE k \in Keys : TRUE,
          dst |-> CHOOSE k \in Keys : TRUE,
          size |-> 0, attempt |-> 0, body |-> Absent]

PcStates == {"idle", "request", "read", "failure", "verified"}

Init == /\ cfg \in Configs
        /\ bucket \in [Keys -> {Absent, Foreign}]
        /\ inflight = {}
        /\ pc = [w \in Workers |-> "idle"]
        /\ job = [w \in Workers |-> NoJob]
        /\ begun = 0
        /\ verifyTotal = 0 /\ verifyFailures = 0
        /\ causes = {}

Goto(w, to) == pc' = [pc EXCEPT ![w] = to]

Finish(w) == Goto(w, "idle") /\ job' = [job EXCEPT ![w] = NoJob]

\* Over at once: a DELETE in keep-data mode, an operation that no case of the
\* switch names, and any operation when MaxRetries allows no attempt.
Skipped(op) == \/ op = "delete" /\ cfg.keepData
               \/ op = "unknown"
               \/ MaxAttempts < 1

\* executePut: from the threshold on, an object goes up in parts.
NewJob(op, k, d, s) ==
    [op |-> IF op = "put" /\ s >= cfg.threshold THEN "multipart_put" ELSE op,
     key |-> k, dst |-> IF op = "copy" THEN d ELSE k,
     size |-> IF op \in Uploads THEN s ELSE 0, attempt |-> 1, body |-> Absent]

\* Scheduler.Next and NextKey, then executeOp's switch.
Begin(w) ==
    /\ pc[w] = "idle" /\ begun < OpsBound
    /\ begun' = begun + 1
    /\ \E op \in Mix, k, d \in Keys, s \in Sizes :
          \/ Skipped(op) /\ UNCHANGED <<pc, job>>
          \/ /\ ~Skipped(op)
             /\ job' = [job EXCEPT ![w] = NewJob(op, k, d, s)]
             /\ Goto(w, "request")
    /\ UNCHANGED <<cfg, bucket, inflight, counters>>

HashOfNextSize(k, s) ==
    [data |-> Content(k, s),
     hash |-> Content(k, IF s + 1 \in Sizes THEN s + 1 ELSE s)]

\* GenerateAndHash and PrepareMetadata.  A namespace tag of the form sha256=v
\* replaces the hash, any other only adds to the metadata.
NewObject(k, s) ==
    [data |-> Content(k, s),
     hash |-> IF cfg.tag = "sha256" THEN TagHash ELSE Content(k, s)]

PutEffect(j) == [bucket EXCEPT ![j.key] = NewObject(j.key, j.size)]

\* The parts read a shared reader; the hash was taken before.
MultipartEffects(j) ==
    {PutEffect(j)} \cup
    IF cfg.intact THEN {}
    ELSE {[bucket EXCEPT ![j.key] = [NewObject(j.key, j.size) EXCEPT !.data = Garbled]]}

\* CopyObject carries the metadata with the data.
CopyEffect(j) == IF cfg.otherBucket THEN bucket
                 ELSE [bucket EXCEPT ![j.dst] = bucket[j.key]]

\* A copy, a HEAD and a GET need the object, a completion at least one part.
Possible(j) == /\ j.op \in {"copy", "head", "get"} => bucket[j.key] # Absent
               /\ j.op = "multipart_put" => j.size > 0

\* What the bucket may become by the request.
Effects(j) == CASE j.op = "put"           -> {PutEffect(j)}
                [] j.op = "multipart_put" -> MultipartEffects(j)
                [] j.op = "delete"        -> {[bucket EXCEPT ![j.key] = Absent]}
                [] j.op = "copy"          -> {CopyEffect(j)}
                [] OTHER                  -> {bucket}

\* The request as the server may see it again, whichever attempt it came from.
Request(j) == [j EXCEPT !.attempt = 1]

Left(j) == IF j.op \in Uploads \cup {"delete", "copy"} THEN inflight \cup {Request(j)}
           ELSE inflight

\* The request is carried out and answered; a GET has its body still to read.
\* The SDK may have sent it before without an answer.
Answered(w) ==
    /\ pc[w] = "request"
    /\ Possible(job[w])
    /\ bucket' \in Effects(job[w])
    /\ inflight' \in {inflight, Left(job[w])}
    /\ \/ /\ job[w].op = "get"
          /\ job' = [job EXCEPT ![w].body = bucket[job[w].key]]
          /\ Goto(w, "read")
       \/ job[w].op # "get" /\ Finish(w)
    /\ UNCHANGED <<cfg, begun, counters>>

FailedOnceMore(w) ==
    /\ pc[w] = "request"
    /\ inflight' \in {inflight, Left(job[w])}
    /\ \/ /\ job[w].attempt <= MaxAttempts
          /\ job' = [job EXCEPT ![w].attempt = @ + 1]
          /\ UNCHANGED pc
       \/ Finish(w)
    /\ UNCHANGED <<cfg, bucket, begun, counters>>

\* The request is refused, or left without an answer and maybe on its way.
\* WithRetry tries again, or gives up on the error, the attempts or the context.
Failed(w) ==
    /\ pc[w] = "request"
    /\ inflight' \in {inflight, Left(job[w])}
    /\ \/ /\ job[w].attempt < MaxAttempts
          /\ job' = [job EXCEPT ![w].attempt = @ + 1]
          /\ UNCHANGED pc
       \/ Finish(w)
    /\ UNCHANGED <<cfg, bucket, begun, counters>>

\* The server carries out a request nobody waits for any more; the SDK or several
\* attempts may have sent it several times.
LateEffect ==
    /\ \E j \in inflight : Possible(j) /\ bucket' \in Effects(j)
    /\ UNCHANGED <<cfg, inflight, pc, job, begun, counters>>

\* VerifyWithMetadata: the hash must be there, the body readable and its hash
\* the same.
Verify(body, cut) ==
    IF body.hash = <<>> THEN "no hash"
    ELSE IF cut THEN "cut"
    ELSE IF body.hash # body.data THEN "mismatch" ELSE "ok"

\* ShouldVerify may say no: the body is then discarded, and an error of that
\* ignored.  The context may end, or the connection break, while the body is read.
ReadBody(w) ==
    /\ pc[w] = "read"
    /\ \E cut \in BOOLEAN :
          LET verdict == Verify(job[w].body, cut)
          IN  \/ Finish(w) /\ UNCHANGED <<verifyFailures, causes>>
              \/ /\ verdict = "ok"
                 /\ Goto(w, "verified")
                 /\ UNCHANGED <<job, verifyFailures, causes>>
              \/ /\ verdict # "ok"
                 /\ Goto(w, "failure") /\ UNCHANGED job
                 /\ verifyFailures' = verifyFailures + 1
                 /\ causes' = causes \cup {verdict}
    /\ UNCHANGED <<cfg, bucket, inflight, begun, verifyTotal>>

CountSuccessOnly(w) ==
    /\ pc[w] \in {"failure", "verified"}
    /\ verifyTotal' = IF pc[w] = "verified" THEN verifyTotal + 1 ELSE verifyTotal
    /\ Finish(w)
    /\ UNCHANGED <<cfg, bucket, inflight, begun, verifyFailures, causes>>

\* The second counter of RecordVerifyFailure, or the one of RecordVerifySuccess.
CountVerified(w) ==
    /\ pc[w] \in {"failure", "verified"}
    /\ verifyTotal' = verifyTotal + 1
    /\ Finish(w)
    /\ UNCHANGED <<cfg, bucket, inflight, begun, verifyFailures, causes>>

WorkerStep(w) == Begin(w) \/ Answered(w) \/ Failed(w) \/ ReadBody(w) \/ CountVerified(w)

Terminated == /\ begun = OpsBound /\ \A w \in Workers : pc[w] = "idle"
              /\ UNCHANGED vars

Next == (\E w \in Workers : WorkerStep(w)) \/ LateEffect \/ Terminated

Spec == Init /\ [][Next]_vars

-----------------------------------------------------------------------------
(* Properties *)

\* The variables keep their types.
TypeOK == /\ cfg \in Configs
          /\ bucket \in [Keys -> ObjectSet]
          /\ inflight \subseteq Jobs
          /\ pc \in [Workers -> PcStates]
          /\ \A w \in Workers : /\ job[w].attempt \in 0 .. MaxAttempts
                                /\ job[w].body \in ObjectSet
          /\ begun \in 0 .. OpsBound

\* Overwrites, copies, repeated requests and those that arrive late, of several
\* workers on the same keys, never part an object from its hash: every hash the
\* tool stored is that of the data beside it, so no verification fails by it.  The
\* one exception are objects, and copies of them, whose parts did not send the source.
HashesFit ==
    /\ \A k \in Keys : \/ bucket[k].hash \in {<<>>, bucket[k].data}
                       \/ ~cfg.intact /\ bucket[k].data = Garbled
    /\ "mismatch" \in causes => ~cfg.intact

\* The two counters of a verification are updated one after the other: between
\* them a scrape may see a failure without its total, one for each worker.
FailuresWithinTotal ==
    verifyFailures <= verifyTotal + Cardinality({w \in Workers : pc[w] = "failure"})

-----------------------------------------------------------------------------
(* The inductive invariant behind the properties (ObjectProofs) *)

\* The requests that workers make and that are on their way are well formed.
ObjectTypes ==
    /\ TypeOK
    /\ job \in [Workers -> Jobs]
    /\ \A w \in Workers : job[w].op \in Uploads => job[w].size \in Sizes
    /\ \A j \in inflight : j.op \in Uploads => j.size \in Sizes
    /\ verifyTotal \in Nat /\ verifyFailures \in Nat

Sound(o) == \/ o.hash \in {<<>>, o.data}
            \/ ~cfg.intact /\ o.data = Garbled

\* Every object, in the bucket or on its way to a worker, fits its hash, but for
\* those that went up in pieces of something else.
SoundInv == cfg.tag # "sha256" =>
    /\ \A k \in Keys : Sound(bucket[k])
    /\ \A w \in Workers : Sound(job[w].body)
    /\ cfg.intact => "mismatch" \notin causes

ObjectInv == ObjectTypes /\ SoundInv /\ FailuresWithinTotal
=============================================================================
