-------------------------- MODULE MultipartUpload --------------------------
(***************************************************************************)
(* internal/s3/client.go, MultipartUpload, called in the retry loop of     *)
(* internal/runner/runner.go, executeMultipartPutWithSize.  The goroutines *)
(* of the parts share one reader; a semaphore admits MaxParts of them.     *)
(* The server answers each request, refuses it, or loses the answer.       *)
(***************************************************************************)
EXTENDS SeekReader, FiniteSets, FiniteSetsExt, SequencesExt

CONSTANT Configs   \* the configurations and the objects an upload is checked with

ConfigType ==
    [kind     : Kinds,                 \* of the data pattern
     size     : Nat,                   \* the object's
     partSize : Nat \ {0},             \* cfg.MultipartPartSize
     maxParts : Nat \ {0},             \* cfg.MultipartMaxParts
     attempts : Nat,                   \* cfg.MaxRetries
     chunks   : SUBSET (Nat \ {0})]    \* buffer sizes the HTTP client reads with

ASSUME MultipartAssumption == Configs \subseteq ConfigType

VARIABLES cfg,        \* the configuration of this upload
          main,       \* where the call is
          attempt,    \* the attempts of the retry loop that were begun
          ctxDone,    \* the operation's context has ended
          reader,     \* the data, shared by all parts and attempts
          pc,         \* where each part's goroutine is
          got,        \* what each part has read and sent
          completed,  \* completedParts: the entries that are filled in
          errs,       \* number of errors in errChan
          upload,     \* the server's upload of each attempt
          object,     \* the object's content on the server
          recorded    \* RecordOp calls, by status

vars == <<cfg, main, attempt, ctxDone, reader, pc, got, completed, errs, upload,
          object, recorded>>

parts == <<cfg, reader, pc, got, completed, errs>>

NumParts == (cfg.size + cfg.partSize - 1) \div cfg.partSize

Parts == 1 .. NumParts

Offset(p) == (p - 1) * cfg.partSize

Length(p) ==
    IF Offset(p) + cfg.partSize > cfg.size THEN cfg.size - Offset(p) ELSE cfg.partSize

Attempts == 1 .. cfg.attempts

NoObject == <<"no object">>

Garbled == -1

MainStates == {"create", "parts", "abort", "complete", "retry",
               "ok", "failed", "crashed"}

PartStates == {"idle", "acquire", "seek", "send", "done"}

\* "lost" was opened without an answer, so that the client has no ID of it to abort;
\* "refused" is one whose abort was asked for in vain.
UploadStates == {"none", "lost", "open", "completed", "aborted", "refused"}

Init == /\ cfg \in Configs
        /\ main = IF cfg.attempts > 0 THEN "create" ELSE "failed"
        /\ attempt = IF cfg.attempts > 0 THEN 1 ELSE 0
        /\ ctxDone = FALSE
        /\ reader = NewReader(cfg.kind, cfg.size)
        /\ pc = [p \in Parts |-> "idle"]
        /\ got = [p \in Parts |-> <<>>]
        /\ completed = {}
        /\ errs = 0
        /\ upload = [a \in Attempts |-> "none"]
        /\ object = NoObject
        /\ recorded = [success |-> 0, error |-> 0]

Record(status) == recorded' = [recorded EXCEPT ![status] = @ + 1]

-----------------------------------------------------------------------------
(* The call *)

\* The arrays, channels and goroutines of an attempt are new.
Create ==
    /\ main = "create" /\ ~ctxDone
    /\ main' = "parts"
    /\ upload' = [upload EXCEPT ![attempt] = "open"]
    /\ pc' = [p \in Parts |-> "acquire"]
    /\ got' = [p \in Parts |-> <<>>]
    /\ completed' = {}
    /\ errs' = 0
    /\ UNCHANGED <<cfg, attempt, ctxDone, reader, object, recorded>>

\* The request may have opened an upload although its answer is lost.
CreateFails ==
    /\ main = "create"
    /\ main' = "retry"
    /\ \E u \in IF ctxDone THEN {"none"} ELSE {"none", "lost"} :
          upload' = [upload EXCEPT ![attempt] = u]
    /\ Record("error")
    /\ UNCHANGED <<attempt, ctxDone, parts, object>>

JoinIgnoringErrors ==
    /\ main = "parts"
    /\ \A p \in Parts : pc[p] = "done"
    /\ main' = "complete"
    /\ UNCHANGED <<attempt, ctxDone, parts, upload, object, recorded>>

\* wg.Wait, then the errors decide.
Join ==
    /\ main = "parts"
    /\ \A p \in Parts : pc[p] = "done"
    /\ main' = IF errs > 0 THEN "abort" ELSE "complete"
    /\ UNCHANGED <<attempt, ctxDone, parts, upload, object, recorded>>

AbortUnrecorded ==
    /\ main = "abort"
    /\ main' = "retry"
    /\ \E u \in IF ctxDone THEN {"refused"} ELSE {"refused", "aborted"} :
          upload' = [upload EXCEPT ![attempt] = u]
    /\ UNCHANGED <<attempt, ctxDone, parts, object, recorded>>

\* The abort uses the operation's context; its own failure is only logged.
Abort ==
    /\ main = "abort"
    /\ main' = "retry"
    /\ \E u \in IF ctxDone THEN {"refused"} ELSE {"refused", "aborted"} :
          upload' = [upload EXCEPT ![attempt] = u]
    /\ Record("error")
    /\ UNCHANGED <<attempt, ctxDone, parts, object>>

Assembled == FoldLeft(LAMBDA s, p : s \o got[p], <<>>, [p \in Parts |-> p])

\* The server refuses a list with an empty entry, or one without parts.
Complete ==
    /\ main = "complete" /\ ~ctxDone
    /\ NumParts > 0 /\ completed = Parts
    /\ main' = "ok"
    /\ upload' = [upload EXCEPT ![attempt] = "completed"]
    /\ object' = Assembled
    /\ Record("success")
    /\ UNCHANGED <<attempt, ctxDone, parts>>

\* A failed completion is not followed by an abort.  It may have been carried out.
CompleteFails ==
    /\ main = "complete"
    /\ main' = "retry"
    /\ \/ UNCHANGED <<upload, object>>
       \/ /\ ~ctxDone /\ NumParts > 0 /\ completed = Parts
          /\ upload' = [upload EXCEPT ![attempt] = "completed"]
          /\ object' = Assembled
    /\ Record("error")
    /\ UNCHANGED <<attempt, ctxDone, parts>>

RetryOnceMore ==
    /\ main = "retry"
    /\ \/ /\ attempt <= cfg.attempts
          /\ attempt' = attempt + 1
          /\ main' = "create"
       \/ main' = "failed" /\ UNCHANGED attempt
    /\ UNCHANGED <<ctxDone, parts, upload, object, recorded>>

\* WithRetry: an error that is not retryable, the last attempt or the end of the
\* context in the backoff end the call; otherwise the same reader is used again.
Retry ==
    /\ main = "retry"
    /\ \/ /\ attempt < cfg.attempts
          /\ attempt' = attempt + 1
          /\ main' = "create"
       \/ main' = "failed" /\ UNCHANGED attempt
    /\ UNCHANGED <<ctxDone, parts, upload, object, recorded>>

CtxEnds ==
    /\ ~ctxDone
    /\ ctxDone' = TRUE
    /\ UNCHANGED <<main, attempt, parts, upload, object, recorded>>

-----------------------------------------------------------------------------
(* A part's goroutine *)

call == <<cfg, attempt, ctxDone, upload, object, recorded>>

AdmittedForGood == {p \in Parts : pc[p] \in {"seek", "send", "done"}}

\* The parts that hold the semaphore; its release is deferred.
Admitted == {p \in Parts : pc[p] \in {"seek", "send"}}

At(p, where) == main = "parts" /\ pc[p] = where

Acquire(p) ==
    /\ At(p, "acquire")
    /\ Cardinality(Admitted) < cfg.maxParts
    /\ pc' = [pc EXCEPT ![p] = "seek"]
    /\ UNCHANGED <<main, call, reader, got, completed, errs>>

SeekPartSkipped(p) ==
    /\ At(p, "seek")
    /\ pc' = [pc EXCEPT ![p] = "send"]
    /\ UNCHANGED <<main, call, reader, got, completed, errs>>

\* The offsets lie within the size, so this Seek does not fail.
SeekPart(p) ==
    /\ At(p, "seek")
    /\ reader' = AfterSeek(reader, Offset(p), "start")
    /\ pc' = [pc EXCEPT ![p] = "send"]
    /\ UNCHANGED <<main, call, got, completed, errs>>

\* One Read of the HTTP client, through the part's LimitReader.
ReadPart(p) ==
    /\ At(p, "send")
    /\ \E n \in cfg.chunks :
          LET limit == Min({n, Length(p) - Len(got[p])})
          IN  /\ ReadCount(reader, limit) > 0
              /\ got' = [got EXCEPT ![p] = @ \o ReadBytes(reader, limit)]
              /\ reader' = AfterRead(reader, limit)
    /\ UNCHANGED <<main, call, pc, completed, errs>>

\* Another admitted part may use the reader in the middle of this Seek or Read: a
\* data race.  The bytes and the position are then anything, and the random source
\* may panic on an index out of range.
Racing(p) == main = "parts" /\ p \in Admitted /\ Admitted # {p}

ReaderRaced == \E pos, rng \in 0 .. cfg.size :
    reader' = Moved(reader, pos, IF reader.kind = "random" THEN rng ELSE reader.rng)

SeekRaced(p) ==
    /\ Racing(p) /\ pc[p] = "seek"
    /\ ReaderRaced
    /\ pc' = [pc EXCEPT ![p] = "send"]
    /\ UNCHANGED <<main, call, got, completed, errs>>

ReadRaced(p) ==
    /\ Racing(p) /\ pc[p] = "send"
    /\ Len(got[p]) < Length(p)
    /\ ReaderRaced
    /\ got' = [got EXCEPT ![p] = Append(@, Garbled)]
    /\ UNCHANGED <<main, call, pc, completed, errs>>

SourcePanics(p) ==
    /\ Racing(p)
    /\ reader.kind = "random"
    /\ main' = "crashed"
    /\ UNCHANGED <<call, parts>>

PartSentUnlisted(p) ==
    /\ At(p, "send") /\ ~ctxDone
    /\ Len(got[p]) = Length(p)
    /\ pc' = [pc EXCEPT ![p] = "done"]
    /\ UNCHANGED <<main, call, reader, got, completed, errs>>

\* The server takes a part only with the announced length.
PartSent(p) ==
    /\ At(p, "send") /\ ~ctxDone
    /\ Len(got[p]) = Length(p)
    /\ completed' = completed \cup {p}
    /\ pc' = [pc EXCEPT ![p] = "done"]
    /\ UNCHANGED <<main, call, reader, got, errs>>

\* The request fails, its body ends early, or its answer is lost.  errChan has
\* room for one error of each part, so the send does not block.
PartFails(p) ==
    /\ At(p, "send")
    /\ errs < NumParts
    /\ errs' = errs + 1
    /\ pc' = [pc EXCEPT ![p] = "done"]
    /\ UNCHANGED <<main, call, reader, got, completed>>

PartStep(p) == \/ Acquire(p) \/ SeekPart(p) \/ ReadPart(p) \/ SeekRaced(p)
               \/ ReadRaced(p) \/ SourcePanics(p) \/ PartSent(p) \/ PartFails(p)

MainStep == Create \/ CreateFails \/ Join \/ Abort \/ Complete \/ CompleteFails \/ Retry

Terminated == main \in {"ok", "failed", "crashed"} /\ UNCHANGED vars

Next == MainStep \/ CtxEnds \/ (\E p \in Parts : PartStep(p)) \/ Terminated

Spec == Init /\ [][Next]_vars

\* Goroutines run, and OpTimeout ends every request that has no answer.
FairSpec == /\ Spec
            /\ WF_vars(MainStep)
            /\ WF_vars(\E p \in Parts : PartStep(p))

-----------------------------------------------------------------------------
(* Properties *)

\* The variables keep their types.
TypeOK == /\ cfg \in Configs
          /\ main \in MainStates
          /\ attempt \in 0 .. cfg.attempts
          /\ ctxDone \in BOOLEAN
          /\ reader \in ReaderType(cfg.size)
          /\ pc \in [Parts -> PartStates]
          /\ \A p \in Parts : Len(got[p]) <= Length(p)
          /\ completed \subseteq Parts
          /\ errs \in 0 .. NumParts
          /\ upload \in [Attempts -> UploadStates]
          /\ recorded \in [success : 0 .. 1, error : 0 .. cfg.attempts]

\* The object that the parts were assembled to is the data that was hashed.
\* (client.go:400 promises every part the correct position.)
StoredIsSource == object # NoObject => object = Source(cfg.kind, cfg.size)

\* One part at a time and with a repeating pattern it is, whatever was read and
\* sent before an attempt failed, and in whichever order the parts are admitted.
SerialFixedStores == cfg.maxParts = 1 /\ cfg.kind = "fixed" => StoredIsSource

\* When the parts are joined each of them has either its entry in
\* completedParts or its error in errChan, so a completion lists them all.
JoinAccounts ==
    /\ main \in {"abort", "complete"} => errs + Cardinality(completed) = NumParts
    /\ main = "complete" => completed = Parts

\* RecordOp is called once for each attempt, and the one success it may report
\* is the result of the call.
AttemptsRecorded ==
    main \in {"ok", "failed"} =>
        /\ recorded.success + recorded.error = attempt
        /\ recorded.success = 1 <=> main = "ok"

\* Whatever fails, the call comes back to its worker, unless the data race on
\* the random source ends the process.
UploadReturns == (main = "create") ~> (main \in {"ok", "failed", "crashed"})

\* client.go:442 says "Abort multipart upload on error": when the call has returned,
\* each upload whose ID it had was completed, or at least its abort was asked for.
FailedUploadsAborted ==
    main \in {"ok", "failed"} => \A a \in Attempts : upload[a] # "open"
-----------------------------------------------------------------------------
(* The inductive invariant behind the safety properties (MultipartProofs) *)

Ended == {p \in Parts : pc[p] = "done"}

\* A part that is done has left its entry or its error, and no part has both.
JoinInv == /\ main \in {"parts", "abort", "complete"} =>
                 /\ completed \subseteq Ended
                 /\ errs + Cardinality(completed) = Cardinality(Ended)
           /\ main \in {"abort", "complete"} => Ended = Parts
           /\ main = "complete" => errs = 0

\* The attempt that is under way has not been recorded.
Underway == main \in {"create", "parts", "abort", "complete", "crashed"}

RecordInv ==
    /\ Underway \/ main = "ok" => attempt > 0
    /\ recorded.success + recorded.error = IF Underway THEN attempt - 1 ELSE attempt
    /\ recorded.success = IF main = "ok" THEN 1 ELSE 0

MultipartInv == /\ TypeOK /\ JoinInv /\ RecordInv
                /\ got \in [Parts -> Seq(Int)]

Serial == cfg.maxParts = 1 /\ cfg.kind = "fixed"

\* What a part has sent is the beginning of its piece of the source.
PieceInv == \A p \in Parts : \A i \in 1 .. Len(got[p]) :
                got[p][i] = Byte(cfg.kind, Offset(p) + i - 1)

\* One part at a time uses the reader, which stands where that part goes on; a
\* part whose entry is filled in has sent all of its piece.
SerialInv == Serial =>
    /\ reader.kind = "fixed"
    /\ \A p, q \in Admitted : p = q
    /\ \A p \in Parts : /\ pc[p] \in {"idle", "acquire", "seek"} => got[p] = <<>>
                        /\ pc[p] = "send" => reader.pos = Offset(p) + Len(got[p])
    /\ \A p \in completed : Len(got[p]) = Length(p)
    /\ PieceInv
    /\ StoredIsSource
=============================================================================
