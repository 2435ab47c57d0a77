-------------------------- MODULE MultipartProofs --------------------------
(***************************************************************************)
(* Proofs about MultipartUpload, for every size of objects and parts, every *)
(* number of parts at a time and of attempts, and every way of reading.    *)
(***************************************************************************)
EXTENDS MultipartUpload, InductionFacts, FiniteSetTheorems

-----------------------------------------------------------------------------
(* The arithmetic of the parts *)

\* What a quotient is.
LEMMA Quotient ==
    ASSUME NEW a \in Nat, NEW b \in Nat \ {0}
    PROVE  a \div b \in Nat /\ b * (a \div b) <= a /\ a < b * (a \div b) + b
  OBVIOUS

\* A product grows with its factor.
LEMMA Grows ==
    ASSUME NEW b \in Nat, NEW m \in Nat, NEW n \in Nat, m <= n
    PROVE  m * b \in Nat /\ m * b <= n * b
  OBVIOUS

\* One part more.
LEMMA OneMore ==
    ASSUME NEW b \in Nat, NEW n \in Nat
    PROVE  n * b \in Nat /\ (n + 1) * b = n * b + b
  OBVIOUS

\* There is a number of parts, and each begins within the object.
LEMMA PartsWithin ==
    ASSUME cfg \in Configs
    PROVE  /\ NumParts \in Nat
           /\ \A p \in Parts : Offset(p) \in 0 .. cfg.size /\ Length(p) \in Nat
<1>1. cfg.size \in Nat /\ cfg.partSize \in Nat \ {0}
  BY MultipartAssumption DEF ConfigType
<1> DEFINE a == cfg.size + cfg.partSize - 1
<1>2. a \in Nat
  BY <1>1
<1>3. NumParts \in Nat /\ cfg.partSize * NumParts <= a
  BY <1>1, <1>2, Quotient DEF NumParts
<1>4. ASSUME NEW p \in Parts PROVE Offset(p) \in 0 .. cfg.size /\ Length(p) \in Nat
  <2>1. p - 1 \in Nat /\ NumParts - 1 \in Nat /\ p - 1 <= NumParts - 1
    BY <1>3 DEF Parts
  <2>2. /\ (p - 1) * cfg.partSize \in Nat
        /\ (p - 1) * cfg.partSize <= (NumParts - 1) * cfg.partSize
    BY <1>1, <2>1, Grows
  <2>3. (NumParts - 1) * cfg.partSize = cfg.partSize * NumParts - cfg.partSize
    BY <1>1, <1>3
  <2>4. (p - 1) * cfg.partSize <= cfg.size
    BY <1>1, <1>3, <2>2, <2>3
  <2>5. Offset(p) \in 0 .. cfg.size
    BY <1>1, <2>2, <2>4 DEF Offset
  <2> QED
    BY <1>1, <2>5 DEF Length
<1> QED
  BY <1>3, <1>4

\* The smaller of two numbers.
LEMMA MinOfTwo ==
    ASSUME NEW a \in Int, NEW b \in Int
    PROVE  Min({a, b}) = IF a <= b THEN a ELSE b
<1>1. \E x \in {a, b} : \A y \in {a, b} : x <= y
  OBVIOUS
<1>2. Min({a, b}) \in {a, b} /\ \A y \in {a, b} : Min({a, b}) <= y
  BY <1>1 DEF Min
<1> QED
  BY <1>2

-----------------------------------------------------------------------------
(* The reader *)

\* A Read moves the reader within its data and returns as many bytes as it counts.
LEMMA ReadWithin ==
    ASSUME NEW size \in Nat, NEW r \in ReaderType(size), NEW n \in Int,
           ReadCount(r, n) > 0
    PROVE  /\ AfterRead(r, n) \in ReaderType(size)
           /\ ReadBytes(r, n) \in Seq(Int)
           /\ Len(ReadBytes(r, n)) = ReadCount(r, n)
           /\ ReadCount(r, n) \in Nat /\ ReadCount(r, n) <= n
<1> USE DEF ReaderType
<1>1. ReadCount(r, n) \in Nat /\ ReadCount(r, n) <= n /\ r.pos + ReadCount(r, n) <= size
  BY DEF ReadCount
<1>2. AfterRead(r, n) \in ReaderType(size)
  BY <1>1 DEF AfterRead, Moved
<1>3. \A i \in Int : Byte(r.kind, i) \in Int
  BY SeekReaderAssumption DEF Byte
<1>4. ReadFrom(r) \in Int
  BY DEF ReadFrom
<1>5. \A i \in 1 .. ReadCount(r, n) : Byte(r.kind, ReadFrom(r) + i - 1) \in Int
  BY <1>3, <1>4
<1>6. /\ ReadBytes(r, n) \in Seq(Int)
      /\ Len(ReadBytes(r, n)) = ReadCount(r, n)
  BY <1>1, <1>5 DEF ReadBytes
<1> QED
  BY <1>1, <1>2, <1>6

\* A Seek to a place in the data leaves the reader within it.
LEMMA SeekWithin ==
    ASSUME NEW size \in Nat, NEW r \in ReaderType(size), NEW at \in 0 .. size
    PROVE  AfterSeek(r, at, "start") \in ReaderType(size)
<1> USE DEF ReaderType
<1>1. SeekTarget(r, at, "start") = at /\ ~SeekFails(r, at)
  BY DEF SeekTarget, SeekFails
<1>2. CASE r.kind = "random"
  <2>1. AfterSeek(r, at, "start") = SeekRandom(r, at)
    BY <1>1, <1>2 DEF AfterSeek
  <2> QED
    BY <2>1 DEF SeekRandom, Moved
<1>3. CASE r.kind # "random"
  <2>1. AfterSeek(r, at, "start") = Moved(r, at, r.rng)
    BY <1>1, <1>3 DEF AfterSeek, SeekFixed
  <2> QED
    BY <2>1 DEF Moved
<1> QED
  BY <1>2, <1>3

\* Whatever a race does to the reader, it stays one.
LEMMA RaceWithin ==
    ASSUME NEW size \in Nat, reader \in ReaderType(size), cfg.size = size, ReaderRaced
    PROVE  reader' \in ReaderType(size)
  BY DEF ReaderRaced, ReaderType, Moved

-----------------------------------------------------------------------------
(* The steps of the call *)

\* The parts that have ended can be counted, and so can the entries.
LEMMA PartsFinite ==
    ASSUME TypeOK
    PROVE  /\ IsFiniteSet(Parts) /\ Cardinality(Parts) = NumParts
           /\ IsFiniteSet(Ended) /\ Cardinality(Ended) \in Nat
           /\ IsFiniteSet(completed) /\ Cardinality(completed) \in Nat
<1>1. NumParts \in Nat
  BY PartsWithin DEF TypeOK
<1>2. IsFiniteSet(Parts) /\ Cardinality(Parts) = NumParts
  BY <1>1, FS_Interval DEF Parts
<1>3. Ended \subseteq Parts /\ completed \subseteq Parts
  BY DEF Ended, TypeOK
<1>4. IsFiniteSet(Ended) /\ IsFiniteSet(completed)
  BY <1>2, <1>3, FS_Subset
<1> QED
  BY <1>2, <1>4, FS_CardinalityType

\* The configuration is that of the call.
LEMMA ConfigIsGood ==
    ASSUME TypeOK
    PROVE  /\ cfg.size \in Nat /\ cfg.attempts \in Nat /\ cfg.kind \in Kinds
           /\ cfg.chunks \subseteq Nat /\ NumParts \in Nat
  BY MultipartAssumption, PartsWithin DEF TypeOK, ConfigType

\* Every attempt starts with empty parts.
LEMMA CreateKeeps == ASSUME MultipartInv, Create PROVE MultipartInv'
<1> USE DEF MultipartInv
<1>1. Parts' = Parts /\ NumParts' = NumParts /\ cfg' = cfg
  BY DEF Create, Parts, NumParts
<1>2. \A p \in Parts : got'[p] = <<>> /\ pc'[p] = "acquire" /\ Length(p)' = Length(p)
  BY DEF Create, Length, Offset
<1>3. \A p \in Parts : Length(p) \in Nat
  BY PartsWithin DEF TypeOK
<1>4. TypeOK'
  <2>1. upload' \in [Attempts' -> UploadStates]
    BY <1>1 DEF Create, TypeOK, UploadStates, Attempts
  <2>2. pc' \in [Parts' -> PartStates]
    BY <1>1 DEF Create, PartStates
  <2>3. \A p \in Parts' : Len(got'[p]) <= Length(p)'
    BY <1>1, <1>2, <1>3
  <2>4. main' \in MainStates /\ completed' \subseteq Parts' /\ errs' \in 0 .. NumParts'
    BY <1>1, ConfigIsGood DEF Create, MainStates
  <2> QED
    BY <1>1, <2>1, <2>2, <2>3, <2>4 DEF Create, TypeOK
<1>5. JoinInv'
  <2>1. Ended' = {}
    BY <1>1, <1>2 DEF Ended
  <2> QED
    BY <2>1, FS_EmptySet DEF Create, JoinInv
<1>6. RecordInv'
  BY DEF Create, RecordInv, Underway
<1>7. got' \in [Parts' -> Seq(Int)]
  BY <1>1 DEF Create
<1> QED
  BY <1>4, <1>5, <1>6, <1>7

\* What the steps of the call have in common: they leave the parts alone.
LEMMA PartsStay ==
    ASSUME MultipartInv, UNCHANGED parts
    PROVE  /\ Parts' = Parts /\ NumParts' = NumParts /\ Ended' = Ended
           /\ cfg' = cfg /\ Attempts' = Attempts
           /\ cfg' \in Configs /\ reader' \in ReaderType(cfg'.size)
           /\ pc' \in [Parts' -> PartStates]
           /\ \A p \in Parts' : Len(got'[p]) <= Length(p)'
           /\ completed' \subseteq Parts' /\ errs' \in 0 .. NumParts'
           /\ got' \in [Parts' -> Seq(Int)]
  BY DEF parts, Parts, NumParts, Ended, Length, Offset, Attempts, MultipartInv, TypeOK

\* A step of the call that reports an error of its attempt.
LEMMA ErrorKeeps ==
    ASSUME MultipartInv, UNCHANGED <<attempt, ctxDone, parts>>,
           main \in {"create", "abort", "complete"}, main' = "retry", Record("error"),
           upload' \in [Attempts -> UploadStates]
    PROVE  MultipartInv'
<1> USE DEF MultipartInv
<1>1. attempt \in 1 .. cfg.attempts /\ cfg.attempts \in Nat
  BY ConfigIsGood DEF TypeOK, RecordInv, Underway
<1>2. /\ recorded.success = 0 /\ recorded.error = attempt - 1
      /\ recorded \in [success : 0 .. 1, error : 0 .. cfg.attempts]
  BY <1>1 DEF RecordInv, Underway, TypeOK
<1>3. /\ recorded' \in [success : 0 .. 1, error : 0 .. cfg.attempts]
      /\ recorded'.success = 0 /\ recorded'.error = attempt
  BY <1>1, <1>2 DEF Record
<1>4. TypeOK'
  BY <1>1, <1>3, PartsStay DEF TypeOK, MainStates
<1>5. JoinInv' /\ RecordInv'
  BY <1>1, <1>3 DEF JoinInv, RecordInv, Underway
<1> QED
  BY <1>4, <1>5, PartsStay

\* The parts are joined, and the errors decide how the call goes on.
LEMMA JoinKeeps == ASSUME MultipartInv, Join PROVE MultipartInv'
<1> USE DEF MultipartInv
<1>1. main = "parts" /\ main' \in {"abort", "complete"} /\ (main' = "complete" => ~(errs > 0))
  BY DEF Join
<1>2. UNCHANGED <<attempt, ctxDone, parts, upload, recorded>> /\ Ended = Parts
  BY DEF Join, Ended
<1>3. TypeOK'
  BY <1>1, <1>2, PartsStay DEF TypeOK, MainStates
<1>4. JoinInv'
  <2>1. errs \in Nat /\ errs' = errs /\ completed' = completed
    BY <1>2, ConfigIsGood DEF TypeOK, parts
  <2> QED
    BY <1>1, <1>2, <2>1, PartsStay DEF JoinInv
<1>5. RecordInv'
  BY <1>1, <1>2 DEF RecordInv, Underway
<1> QED
  BY <1>2, <1>3, <1>4, <1>5, PartsStay

\* The completion succeeds.
LEMMA CompleteKeeps == ASSUME MultipartInv, Complete PROVE MultipartInv'
<1> USE DEF MultipartInv
<1>1. /\ main = "complete" /\ main' = "ok" /\ Record("success")
      /\ UNCHANGED <<attempt, ctxDone, parts>>
      /\ upload' = [upload EXCEPT ![attempt] = "completed"]
  BY DEF Complete
<1>2. attempt \in 1 .. cfg.attempts /\ cfg.attempts \in Nat
  BY <1>1, ConfigIsGood DEF TypeOK, RecordInv, Underway
<1>3. /\ recorded.success = 0 /\ recorded.error = attempt - 1
      /\ recorded \in [success : 0 .. 1, error : 0 .. cfg.attempts]
  BY <1>1, <1>2 DEF RecordInv, Underway, TypeOK
<1>4. /\ recorded' \in [success : 0 .. 1, error : 0 .. cfg.attempts]
      /\ recorded'.success = 1 /\ recorded'.error = attempt - 1
  BY <1>1, <1>2, <1>3 DEF Record
<1>5. upload' \in [Attempts -> UploadStates]
  BY <1>1 DEF TypeOK, UploadStates
<1>6. TypeOK'
  BY <1>1, <1>4, <1>5, PartsStay DEF TypeOK, MainStates
<1>7. JoinInv' /\ RecordInv'
  BY <1>1, <1>2, <1>4 DEF JoinInv, RecordInv, Underway
<1> QED
  BY <1>1, <1>6, <1>7, PartsStay

\* Every step of the call keeps the invariant.
LEMMA MainKeeps == ASSUME MultipartInv, MainStep PROVE MultipartInv'
<1> USE DEF MultipartInv
<1>0. \A u \in UploadStates : [upload EXCEPT ![attempt] = u] \in [Attempts -> UploadStates]
  BY DEF TypeOK
<1>1. CASE CreateFails
  <2>1. upload' \in [Attempts -> UploadStates]
    BY <1>0, <1>1 DEF CreateFails, UploadStates
  <2> QED
    BY <1>1, <2>1, ErrorKeeps DEF CreateFails
<1>2. CASE Abort
  <2>1. upload' \in [Attempts -> UploadStates]
    BY <1>0, <1>2 DEF Abort, UploadStates
  <2> QED
    BY <1>2, <2>1, ErrorKeeps DEF Abort
<1>3. CASE CompleteFails
  <2>1. upload' \in [Attempts -> UploadStates]
    BY <1>0, <1>3 DEF CompleteFails, UploadStates, TypeOK
  <2> QED
    BY <1>3, <2>1, ErrorKeeps DEF CompleteFails
<1>4. CASE Retry
  <2>1. /\ main = "retry" /\ main' \in {"create", "failed"}
        /\ UNCHANGED <<ctxDone, parts, upload, recorded>>
        /\ \/ main' = "create" /\ attempt < cfg.attempts /\ attempt' = attempt + 1
           \/ main' = "failed" /\ attempt' = attempt
    BY <1>4 DEF Retry
  <2>2. attempt \in 0 .. cfg.attempts /\ cfg.attempts \in Nat
    BY ConfigIsGood DEF TypeOK
  <2>3. attempt' \in 0 .. cfg.attempts
    BY <2>1, <2>2
  <2>4. TypeOK'
    BY <2>1, <2>3, PartsStay DEF TypeOK, MainStates
  <2>5. JoinInv' /\ RecordInv'
    BY <2>1, <2>2 DEF JoinInv, RecordInv, Underway
  <2> QED
    BY <2>1, <2>4, <2>5, PartsStay
<1> QED
  BY <1>1, <1>2, <1>3, <1>4, CreateKeeps, JoinKeeps, CompleteKeeps DEF MainStep

-----------------------------------------------------------------------------
(* The steps of the parts *)

\* What the steps of a part have in common.
LEMMA CallStays ==
    ASSUME MultipartInv, UNCHANGED call
    PROVE  /\ Parts' = Parts /\ NumParts' = NumParts /\ cfg' = cfg
           /\ \A p \in Parts : Length(p)' = Length(p)
           /\ cfg' \in Configs /\ attempt' \in 0 .. cfg'.attempts /\ ctxDone' \in BOOLEAN
           /\ upload' \in [Attempts' -> UploadStates]
           /\ recorded' \in [success : 0 .. 1, error : 0 .. cfg'.attempts]
  BY DEF call, Parts, NumParts, Length, Offset, Attempts, MultipartInv, TypeOK

\* A part that waits, seeks or reads.
LEMMA PartMoves ==
    ASSUME MultipartInv, NEW p \in Parts, UNCHANGED <<main, call, completed, errs>>,
           main = "parts", pc[p] # "done",
           NEW to \in PartStates \ {"done"}, pc' = [pc EXCEPT ![p] = to],
           reader' \in ReaderType(cfg.size),
           got' \in [Parts -> Seq(Int)], \A q \in Parts : Len(got'[q]) <= Length(q)
    PROVE  MultipartInv'
<1> USE DEF MultipartInv
<1>1. Ended' = Ended
  BY CallStays DEF Ended, TypeOK
<1>2. TypeOK'
  BY CallStays DEF TypeOK
<1>3. JoinInv' /\ RecordInv'
  BY <1>1 DEF JoinInv, RecordInv, Underway, call
<1> QED
  BY <1>2, <1>3, CallStays

\* A part that ends, with its entry or its error.
LEMMA PartEnds ==
    ASSUME MultipartInv, NEW p \in Parts, UNCHANGED <<main, call, reader, got>>,
           main = "parts", pc[p] # "done", pc' = [pc EXCEPT ![p] = "done"],
           \/ completed' = completed \cup {p} /\ errs' = errs
           \/ completed' = completed /\ errs' = errs + 1 /\ errs < NumParts
    PROVE  MultipartInv'
<1> USE DEF MultipartInv
<1>1. Ended' = Ended \cup {p} /\ p \notin Ended
  BY CallStays DEF Ended, TypeOK
<1>2. p \notin completed /\ completed' \subseteq Ended'
  BY <1>1 DEF JoinInv
<1>3. Cardinality(Ended') = Cardinality(Ended) + 1
  BY <1>1, PartsFinite, FS_AddElement
<1>4. completed' = completed \cup {p} => Cardinality(completed') = Cardinality(completed) + 1
  BY <1>2, PartsFinite, FS_AddElement
<1>5. NumParts \in Nat /\ errs \in 0 .. NumParts
  BY ConfigIsGood DEF TypeOK
<1>6. TypeOK'
  <2>1. errs' \in 0 .. NumParts /\ completed' \subseteq Parts
    BY <1>5 DEF TypeOK
  <2>2. pc' \in [Parts -> PartStates]
    BY DEF TypeOK, PartStates
  <2> QED
    BY <2>1, <2>2, CallStays DEF TypeOK
<1>7. JoinInv'
  BY <1>2, <1>3, <1>4, <1>5, PartsFinite DEF JoinInv
<1>8. RecordInv'
  BY DEF RecordInv, Underway, call
<1> QED
  BY <1>6, <1>7, <1>8, CallStays

\* Reading on does not take a part beyond its length.
LEMMA ReadPartKeeps == ASSUME MultipartInv, NEW p \in Parts, ReadPart(p) PROVE MultipartInv'
<1> USE DEF MultipartInv
<1>1. PICK n \in cfg.chunks :
         LET limit == Min({n, Length(p) - Len(got[p])})
         IN  /\ ReadCount(reader, limit) > 0
             /\ got' = [got EXCEPT ![p] = @ \o ReadBytes(reader, limit)]
             /\ reader' = AfterRead(reader, limit)
  BY DEF ReadPart
<1> DEFINE limit == Min({n, Length(p) - Len(got[p])})
<1>2. got[p] \in Seq(Int) /\ Len(got[p]) \in Nat /\ Length(p) \in Nat
  BY PartsWithin DEF TypeOK
<1>3. n \in Int
  BY ConfigIsGood
<1>4. limit \in Int /\ limit <= Length(p) - Len(got[p])
  BY <1>2, <1>3, MinOfTwo
<1> HIDE DEF limit
<1>5. ReadCount(reader, limit) > 0 /\ reader' = AfterRead(reader, limit)
      /\ got' = [got EXCEPT ![p] = @ \o ReadBytes(reader, limit)]
  BY <1>1 DEF limit
<1>6. cfg.size \in Nat /\ reader \in ReaderType(cfg.size)
  BY ConfigIsGood DEF TypeOK
<1>7. /\ reader' \in ReaderType(cfg.size) /\ ReadBytes(reader, limit) \in Seq(Int)
      /\ Len(ReadBytes(reader, limit)) <= limit /\ Len(ReadBytes(reader, limit)) \in Nat
  BY <1>4, <1>5, <1>6, ReadWithin
<1>8. /\ got[p] \o ReadBytes(reader, limit) \in Seq(Int)
      /\ Len(got[p] \o ReadBytes(reader, limit)) <= Length(p)
  BY <1>2, <1>4, <1>7
<1>9. got' \in [Parts -> Seq(Int)] /\ \A q \in Parts : Len(got'[q]) <= Length(q)
  BY <1>5, <1>8 DEF TypeOK
<1>10. /\ main = "parts" /\ pc[p] = "send" /\ UNCHANGED <<main, call, pc, completed, errs>>
  BY DEF ReadPart, At
<1>11. pc' = [pc EXCEPT ![p] = "send"] /\ "send" \in PartStates \ {"done"}
  BY <1>10 DEF TypeOK, PartStates
<1> QED
  BY <1>7, <1>9, <1>10, <1>11, PartMoves

\* Nor does a read that races.
LEMMA ReadRacedKeeps == ASSUME MultipartInv, NEW p \in Parts, ReadRaced(p) PROVE MultipartInv'
<1> USE DEF MultipartInv
<1>1. /\ main = "parts" /\ pc[p] = "send" /\ UNCHANGED <<main, call, pc, completed, errs>>
      /\ Len(got[p]) < Length(p) /\ ReaderRaced
      /\ got' = [got EXCEPT ![p] = Append(@, Garbled)]
  BY DEF ReadRaced, Racing
<1>2. got[p] \in Seq(Int) /\ Length(p) \in Nat /\ Garbled \in Int
  BY PartsWithin DEF TypeOK, Garbled
<1>3. Append(got[p], Garbled) \in Seq(Int) /\ Len(Append(got[p], Garbled)) <= Length(p)
  BY <1>1, <1>2
<1>4. got' \in [Parts -> Seq(Int)] /\ \A q \in Parts : Len(got'[q]) <= Length(q)
  BY <1>1, <1>3 DEF TypeOK
<1>5. reader' \in ReaderType(cfg.size)
  BY <1>1, ConfigIsGood, RaceWithin DEF TypeOK
<1>6. pc' = [pc EXCEPT ![p] = "send"] /\ "send" \in PartStates \ {"done"}
  BY <1>1 DEF TypeOK, PartStates
<1> QED
  BY <1>1, <1>4, <1>5, <1>6, PartMoves

\* The panic of the random source ends the process in the middle of an attempt.
LEMMA PanicKeeps == ASSUME MultipartInv, NEW p \in Parts, SourcePanics(p) PROVE MultipartInv'
<1> USE DEF MultipartInv
<1>1. main = "parts" /\ main' = "crashed" /\ UNCHANGED <<call, parts>>
  BY DEF SourcePanics, Racing
<1>2. TypeOK'
  BY <1>1, PartsStay, CallStays DEF TypeOK, MainStates
<1>3. JoinInv' /\ RecordInv'
  BY <1>1 DEF JoinInv, RecordInv, Underway, call
<1> QED
  BY <1>1, <1>2, <1>3, PartsStay

\* Every step of a part keeps the invariant.
LEMMA PartKeeps == ASSUME MultipartInv, NEW p \in Parts, PartStep(p) PROVE MultipartInv'
<1> USE DEF MultipartInv
<1>0. /\ {"seek", "send"} \subseteq PartStates \ {"done"}
      /\ \A q \in Parts : Len(got[q]) <= Length(q)
      /\ cfg.size \in Nat /\ reader \in ReaderType(cfg.size)
  BY ConfigIsGood DEF TypeOK, PartStates
<1>1. CASE Acquire(p)
  BY <1>0, <1>1, PartMoves DEF Acquire, At
<1>2. CASE SeekPart(p)
  <2>1. reader' \in ReaderType(cfg.size)
    BY <1>0, <1>2, PartsWithin, SeekWithin DEF SeekPart, TypeOK
  <2> QED
    BY <1>0, <1>2, <2>1, PartMoves DEF SeekPart, At
<1>3. CASE SeekRaced(p)
  <2>1. reader' \in ReaderType(cfg.size)
    BY <1>0, <1>3, RaceWithin DEF SeekRaced
  <2> QED
    BY <1>0, <1>3, <2>1, PartMoves DEF SeekRaced, Racing
<1>4. CASE PartSent(p)
  BY <1>4, PartEnds DEF PartSent, At
<1>5. CASE PartFails(p)
  BY <1>5, PartEnds DEF PartFails, At
<1> QED
  BY <1>1, <1>2, <1>3, <1>4, <1>5, ReadPartKeeps, ReadRacedKeeps, PanicKeeps DEF PartStep

-----------------------------------------------------------------------------
(* The theorems *)

\* The first attempt is about to begin, or none is allowed.
LEMMA InitMultipart == Init => MultipartInv
<1> SUFFICES ASSUME Init
             PROVE  MultipartInv
  OBVIOUS
<1> USE DEF Init
<1>1. /\ cfg.size \in Nat /\ cfg.attempts \in Nat /\ cfg.kind \in Kinds /\ NumParts \in Nat
      /\ \A p \in Parts : Length(p) \in Nat
  BY MultipartAssumption, PartsWithin DEF ConfigType
<1>2. reader \in ReaderType(cfg.size)
  BY <1>1 DEF NewReader, ReaderType
<1>3. /\ got \in [Parts -> Seq(Int)] /\ \A p \in Parts : got[p] = <<>>
      /\ pc \in [Parts -> PartStates] /\ \A p \in Parts : pc[p] = "idle"
      /\ upload \in [Attempts -> UploadStates]
  BY DEF PartStates, UploadStates
<1>4. TypeOK
  <2>1. main \in MainStates /\ attempt \in 0 .. cfg.attempts
    BY <1>1 DEF MainStates
  <2>2. \A p \in Parts : Len(got[p]) <= Length(p)
    BY <1>1, <1>3
  <2>3. recorded \in [success : 0 .. 1, error : 0 .. cfg.attempts]
    BY <1>1
  <2>4. completed \subseteq Parts /\ errs \in 0 .. NumParts
    BY <1>1
  <2> QED
    BY <1>2, <1>3, <2>1, <2>2, <2>3, <2>4 DEF TypeOK
<1>5. JoinInv /\ RecordInv
  BY <1>1 DEF JoinInv, RecordInv, Underway
<1> QED
  BY <1>3, <1>4, <1>5 DEF MultipartInv

\* Every step keeps the invariant.
LEMMA NextMultipart == MultipartInv /\ [Next]_vars => MultipartInv'
<1> SUFFICES ASSUME MultipartInv, [Next]_vars
             PROVE  MultipartInv'
  OBVIOUS
<1>1. CASE CtxEnds
  <2> USE DEF MultipartInv
  <2>1. UNCHANGED <<main, attempt, parts, upload, recorded>> /\ ctxDone' = TRUE
    BY <1>1 DEF CtxEnds
  <2>2. TypeOK'
    BY <2>1, PartsStay DEF TypeOK
  <2>3. JoinInv' /\ RecordInv'
    BY <2>1, PartsStay DEF JoinInv, RecordInv, Underway, parts
  <2> QED
    BY <2>1, <2>2, <2>3, PartsStay
<1>2. CASE UNCHANGED vars
  <2> USE DEF MultipartInv
  <2>1. UNCHANGED <<main, attempt, ctxDone, parts, upload, recorded>>
    BY <1>2 DEF vars, parts
  <2>2. TypeOK'
    BY <2>1, PartsStay DEF TypeOK
  <2>3. JoinInv' /\ RecordInv'
    BY <2>1, PartsStay DEF JoinInv, RecordInv, Underway, parts
  <2> QED
    BY <2>1, <2>2, <2>3, PartsStay
<1>3. ASSUME NEW p \in Parts, PartStep(p) PROVE MultipartInv'
  BY <1>3, PartKeeps
<1> QED
  BY <1>1, <1>2, <1>3, MainKeeps DEF Next, Terminated

\* The invariant holds whatever the server, the schedule and the context do.
THEOREM MultipartInductive == Spec => []MultipartInv
  BY InitMultipart, NextMultipart, PTL DEF Spec

\* The variables of a multipart upload keep their types: errChan never overflows,
\* and no part reads beyond its length.
THEOREM MultipartTypeCorrect == Spec => []TypeOK
<1>1. MultipartInv => TypeOK
  BY DEF MultipartInv
<1> QED
  BY <1>1, MultipartInductive, PTL

\* After the join of client.go every part has its entry or its error, and a
\* completion is requested only with a full list.
THEOREM PartsAccounted == Spec => []JoinAccounts
<1>1. MultipartInv => JoinAccounts
  <2> SUFFICES ASSUME MultipartInv PROVE JoinAccounts
    OBVIOUS
  <2> USE DEF MultipartInv
  <2>1. ASSUME main \in {"abort", "complete"}
        PROVE  errs + Cardinality(completed) = NumParts
    BY <2>1, PartsFinite DEF JoinInv
  <2>2. ASSUME main = "complete"
        PROVE  completed = Parts
    <3>1. Cardinality(completed) = Cardinality(Parts)
      BY <2>1, <2>2, PartsFinite DEF JoinInv
    <3> QED
      BY <3>1, PartsFinite, FS_Subset DEF TypeOK
  <2> QED
    BY <2>1, <2>2 DEF JoinAccounts
<1> QED
  BY <1>1, MultipartInductive, PTL

\* RecordOp counts each attempt of the retry loop once, and its one success is
\* the success of the call.
THEOREM AttemptsAreRecorded == Spec => []AttemptsRecorded
<1>1. MultipartInv => AttemptsRecorded
  BY DEF MultipartInv, RecordInv, Underway, AttemptsRecorded
<1> QED
  BY <1>1, MultipartInductive, PTL

-----------------------------------------------------------------------------
(* How the server assembles the parts *)

Order == [p \in Parts |-> p]

\* What the fold of Assembled is for each set of parts that are pieces of it.
IsFold(g) == g = [s \in SUBSET (DOMAIN Order) |->
                    IF s = {} THEN <<>> ELSE g[s \ {Max(s)}] \o got[Order[Max(s)]]]

FoldsUpto(n) == {g \in [SUBSET (1 .. n) -> Seq(Int)] :
                    \A s \in SUBSET (1 .. n) :
                        g[s] = IF s = {} THEN <<>> ELSE g[s \ {Max(s)}] \o got[Max(s)]}

\* The greatest of a set of numbers up to n + 1: without it they go up to n.
LEMMA GreatestPart ==
    ASSUME NEW n \in Nat, NEW s \in SUBSET (1 .. n + 1), s # {}
    PROVE  Max(s) \in s /\ s \ {Max(s)} \in SUBSET (1 .. n)
<1> DEFINE T == {k \in Nat : \A x \in s : x <= k}
<1>1. T \in SUBSET Nat /\ n + 1 \in T
  OBVIOUS
<1>2. PICK m \in T : \A y \in T : m <= y
  BY <1>1, LeastNumber
<1>3. m \in s
  <2> SUFFICES ASSUME m \notin s PROVE FALSE
    OBVIOUS
  <2>1. \A x \in s : x \in Nat /\ x <= m /\ x # m /\ x >= 1
    BY <1>2
  <2>2. m \in Nat /\ m > 0
    <3>1. PICK x \in s : TRUE
      OBVIOUS
    <3>2. x \in Nat /\ x <= m /\ x >= 1 /\ m \in Nat
      BY <1>2, <2>1
    <3> QED
      BY <3>2
  <2>3. m - 1 \in Nat /\ \A x \in s : x <= m - 1
    BY <2>1, <2>2
  <2>4. m - 1 \in T
    BY <2>3
  <2> QED
    BY <1>2, <2>2, <2>4
<1>4. Max(s) \in s /\ \A y \in s : Max(s) >= y
  BY <1>2, <1>3 DEF Max
<1>5. \A y \in s : y \in 1 .. n + 1
  OBVIOUS
<1>6. ASSUME NEW y \in s, y # Max(s) PROVE y \in 1 .. n
  <2>1. Max(s) \in 1 .. n + 1 /\ y \in 1 .. n + 1 /\ Max(s) >= y
    BY <1>4, <1>5
  <2> QED
    BY <1>6, <2>1
<1> QED
  BY <1>4, <1>6

\* There is such a function for every number of parts.
LEMMA FoldExists ==
    ASSUME got \in [Parts -> Seq(Int)], NumParts \in Nat
    PROVE  FoldsUpto(NumParts) # {}
<1> DEFINE S == {n \in Nat : n <= NumParts => FoldsUpto(n) # {}}
<1>1. 0 \in S
  <2> DEFINE g == [s \in SUBSET (1 .. 0) |-> <<>>]
  <2>1. SUBSET (1 .. 0) = {{}}
    OBVIOUS
  <2>2. g \in FoldsUpto(0)
    BY <2>1 DEF FoldsUpto
  <2> QED
    BY <2>2
<1>2. ASSUME NEW n \in Nat, n \in S PROVE n + 1 \in S
  <2> SUFFICES ASSUME n + 1 <= NumParts PROVE FoldsUpto(n + 1) # {}
    OBVIOUS
  <2>1. PICK g : g \in FoldsUpto(n)
    BY <1>2
  <2> DEFINE h == [s \in SUBSET (1 .. n + 1) |->
                     IF s = {} THEN <<>> ELSE g[s \ {Max(s)}] \o got[Max(s)]]
  <2>2. /\ g \in [SUBSET (1 .. n) -> Seq(Int)]
        /\ \A s \in SUBSET (1 .. n) :
              g[s] = IF s = {} THEN <<>> ELSE g[s \ {Max(s)}] \o got[Max(s)]
    BY <2>1 DEF FoldsUpto
  <2>3. \A s \in SUBSET (1 .. n) : s \in SUBSET (1 .. n + 1)
    OBVIOUS
  <2>4. \A s \in SUBSET (1 .. n) : h[s] = g[s]
    BY <2>2, <2>3
  <2>5. ASSUME NEW s \in SUBSET (1 .. n + 1)
        PROVE  /\ h[s] \in Seq(Int)
               /\ h[s] = IF s = {} THEN <<>> ELSE h[s \ {Max(s)}] \o got[Max(s)]
    <3>1. CASE s = {}
      BY <3>1
    <3>2. CASE s # {}
      <4>1. Max(s) \in s /\ s \ {Max(s)} \in SUBSET (1 .. n)
        BY <3>2, GreatestPart
      <4>2. h[s] = g[s \ {Max(s)}] \o got[Max(s)]
        BY <3>2
      <4>3. g[s \ {Max(s)}] \in Seq(Int) /\ g[s \ {Max(s)}] = h[s \ {Max(s)}]
        BY <2>2, <2>4, <4>1
      <4>4. got[Max(s)] \in Seq(Int)
        <5>1. Max(s) \in 1 .. n + 1
          BY <4>1
        <5>2. Max(s) \in Parts
          BY <5>1 DEF Parts
        <5> QED
          BY <5>2
      <4>5. \A a, b \in Seq(Int) : a \o b \in Seq(Int)
        OBVIOUS
      <4>6. h[s] \in Seq(Int)
        <5> HIDE DEF h
        <5> QED
          BY <4>2, <4>3, <4>4, <4>5
      <4>7. h[s] = h[s \ {Max(s)}] \o got[Max(s)]
        <5> HIDE DEF h
        <5> QED
          BY <4>2, <4>3
      <4> HIDE DEF h
      <4> QED
        BY <3>2, <4>6, <4>7
    <3> QED
      BY <3>1, <3>2
  <2>6. h \in [SUBSET (1 .. n + 1) -> Seq(Int)]
    BY <2>5
  <2> HIDE DEF h
  <2>7. h \in FoldsUpto(n + 1)
    BY <2>5, <2>6 DEF FoldsUpto
  <2> QED
    BY <2>7
<1> HIDE DEF S
<1>3. Nat \subseteq S
  BY <1>1, <1>2, SetInduction
<1> QED
  BY <1>3 DEF S

\* So the fold of Assembled is one of them, and appends one part after the other.
LEMMA FoldUnfolds ==
    ASSUME got \in [Parts -> Seq(Int)], NumParts \in Nat
    PROVE  \E F : /\ Assembled = F[1 .. NumParts]
                  /\ F[{}] = <<>>
                  /\ \A n \in Nat : n + 1 <= NumParts =>
                        F[1 .. n + 1] = F[1 .. n] \o got[n + 1]
<1> DEFINE F == CHOOSE g : IsFold(g)
<1>1. DOMAIN Order = 1 .. NumParts /\ \A p \in 1 .. NumParts : Order[p] = p
  BY DEF Order, Parts
<1>2. PICK g : g \in FoldsUpto(NumParts)
  BY FoldExists
<1>3. IsFold(g)
  <2>1. /\ g \in [SUBSET (1 .. NumParts) -> Seq(Int)]
        /\ \A s \in SUBSET (1 .. NumParts) :
              g[s] = IF s = {} THEN <<>> ELSE g[s \ {Max(s)}] \o got[Max(s)]
    BY <1>2 DEF FoldsUpto
  <2>2. ASSUME NEW s \in SUBSET (1 .. NumParts)
        PROVE  g[s] = IF s = {} THEN <<>> ELSE g[s \ {Max(s)}] \o got[Order[Max(s)]]
    <3>1. CASE s = {}
      BY <2>1, <3>1
    <3>2. CASE s # {}
      <4>1. Max(s) \in s
        <5>1. s \in SUBSET (1 .. NumParts + 1)
          OBVIOUS
        <5> QED
          BY <3>2, <5>1, GreatestPart
      <4>2. Order[Max(s)] = Max(s)
        BY <1>1, <4>1
      <4> QED
        BY <2>1, <3>2, <4>2
    <3> QED
      BY <3>1, <3>2
  <2> QED
    BY <1>1, <2>1, <2>2 DEF IsFold
<1>4. IsFold(F)
  BY <1>3
<1>5. Assembled = F[DOMAIN Order]
  BY DEF Assembled, FoldLeft, MapThenFoldSet, IsFold, Order
<1> HIDE DEF F
<1>6. \A s \in SUBSET (1 .. NumParts) :
         F[s] = IF s = {} THEN <<>> ELSE F[s \ {Max(s)}] \o got[Order[Max(s)]]
  BY <1>1, <1>4 DEF IsFold
<1>7. ASSUME NEW n \in Nat, n + 1 <= NumParts
      PROVE  F[1 .. n + 1] = F[1 .. n] \o got[n + 1]
  <2>1. 1 .. n + 1 \in SUBSET (1 .. NumParts) /\ 1 .. n + 1 # {} /\ n + 1 \in 1 .. NumParts
    <3>1. n + 1 \in Nat /\ n + 1 \in 1 .. n + 1 /\ n + 1 \in 1 .. NumParts
      BY <1>7
    <3>2. \A x \in 1 .. n + 1 : x \in 1 .. NumParts
      BY <1>7
    <3> QED
      BY <3>1, <3>2
  <2>2. Max(1 .. n + 1) = n + 1
    <3>1. n + 1 \in 1 .. n + 1 /\ \A y \in 1 .. n + 1 : n + 1 >= y
      OBVIOUS
    <3>2. Max(1 .. n + 1) \in 1 .. n + 1 /\ \A y \in 1 .. n + 1 : Max(1 .. n + 1) >= y
      BY <3>1 DEF Max
    <3> QED
      BY <3>1, <3>2
  <2>3. (1 .. n + 1) \ {n + 1} = 1 .. n
    OBVIOUS
  <2>4. Order[n + 1] = n + 1
    BY <1>1, <2>1
  <2> QED
    BY <1>6, <2>1, <2>2, <2>3, <2>4
<1>8. F[{}] = <<>>
  BY <1>6
<1> QED
  BY <1>1, <1>5, <1>7, <1>8

\* The parts fill the object: each but the last has the full size of a part, and
\* the last one ends where the object does.
LEMMA PartsFill ==
    ASSUME cfg \in Configs
    PROVE  /\ \A n \in Nat : n + 1 < NumParts =>
                 Offset(n + 1) = n * cfg.partSize /\ Length(n + 1) = cfg.partSize
           /\ NumParts > 0 => Offset(NumParts) + Length(NumParts) = cfg.size
<1>1. cfg.size \in Nat /\ cfg.partSize \in Nat \ {0} /\ NumParts \in Nat
  BY MultipartAssumption, PartsWithin DEF ConfigType
<1>2. ASSUME NEW n \in Nat, n + 1 < NumParts
      PROVE  Offset(n + 1) = n * cfg.partSize /\ Length(n + 1) = cfg.partSize
  <2>1. n + 2 \in Parts
    BY <1>1, <1>2 DEF Parts
  <2>2. (n + 1) * cfg.partSize \in 0 .. cfg.size
    <3>1. Offset(n + 2) \in 0 .. cfg.size /\ n + 2 - 1 = n + 1
      BY <2>1, PartsWithin
    <3> QED
      BY <3>1 DEF Offset
  <2>3. (n + 1) * cfg.partSize = n * cfg.partSize + cfg.partSize /\ n * cfg.partSize \in Nat
    BY <1>1, OneMore
  <2>4. Offset(n + 1) = n * cfg.partSize
    BY <1>1 DEF Offset
  <2> QED
    BY <1>1, <2>2, <2>3, <2>4 DEF Length
<1>3. ASSUME NumParts > 0 PROVE Offset(NumParts) + Length(NumParts) = cfg.size
  <2> DEFINE a == cfg.size + cfg.partSize - 1
  <2>1. a < cfg.partSize * NumParts + cfg.partSize
    <3>1. a \in Nat
      BY <1>1
    <3> QED
      BY <1>1, <3>1, Quotient DEF NumParts
  <2>2. /\ Offset(NumParts) = cfg.partSize * NumParts - cfg.partSize
        /\ cfg.partSize * NumParts \in Nat
    BY <1>1 DEF Offset
  <2>3. Offset(NumParts) + cfg.partSize >= cfg.size
    <3>1. a = cfg.size + cfg.partSize - 1
      OBVIOUS
    <3> HIDE DEF a
    <3> QED
      BY <1>1, <2>1, <2>2, <3>1
  <2> QED
    BY <1>1, <2>2, <2>3 DEF Length
<1> QED
  BY <1>2, <1>3

\* What the concatenation of two sequences is.
LEMMA Concatenation ==
    ASSUME NEW s \in Seq(Int), NEW t \in Seq(Int)
    PROVE  /\ s \o t = [i \in 1 .. Len(s \o t) |-> (s \o t)[i]]
           /\ Len(s \o t) = Len(s) + Len(t)
           /\ \A i \in 1 .. Len(s) + Len(t) :
                 (s \o t)[i] = IF i <= Len(s) THEN s[i] ELSE t[i - Len(s)]
<1>1. s \o t \in Seq(Int)
  OBVIOUS
<1>2. \A u \in Seq(Int) : u = [i \in 1 .. Len(u) |-> u[i]]
  OBVIOUS
<1>3. Len(s \o t) = Len(s) + Len(t)
  OBVIOUS
<1>4. ASSUME NEW i \in 1 .. Len(s) + Len(t)
      PROVE  (s \o t)[i] = IF i <= Len(s) THEN s[i] ELSE t[i - Len(s)]
  OBVIOUS
<1> QED
  BY <1>1, <1>2, <1>3, <1>4

\* A beginning of the source, continued by the piece that follows it.
LEMMA SourceGoesOn ==
    ASSUME NEW kind \in Kinds, NEW m \in Nat, NEW s \in Seq(Int),
           \A i \in 1 .. Len(s) : s[i] = Byte(kind, m + i - 1)
    PROVE  Source(kind, m) \o s = Source(kind, m + Len(s))
<1> DEFINE b == Source(kind, m)
<1>1. \A i \in Int : Byte(kind, i) \in Int
  BY SeekReaderAssumption DEF Byte
<1>2. b \in Seq(Int) /\ Len(b) = m /\ \A i \in 1 .. m : b[i] = Byte(kind, i - 1)
  BY <1>1 DEF Source
<1>3. Len(s) \in Nat /\ m + Len(s) \in Nat
  OBVIOUS
<1> HIDE DEF b
<1>4. /\ b \o s = [i \in 1 .. Len(b \o s) |-> (b \o s)[i]]
      /\ Len(b \o s) = m + Len(s)
      /\ \A i \in 1 .. m + Len(s) : (b \o s)[i] = IF i <= m THEN b[i] ELSE s[i - m]
  BY <1>2, Concatenation
<1>5. ASSUME NEW i \in 1 .. m + Len(s) PROVE (b \o s)[i] = Byte(kind, i - 1)
  <2>0. i \in Int /\ i >= 1 /\ i <= m + Len(s)
    BY <1>3
  <2>1. CASE i <= m
    <3>1. i \in 1 .. m
      BY <2>0, <2>1
    <3> QED
      BY <1>2, <1>4, <2>1, <3>1
  <2>2. CASE i > m
    <3>1. i - m \in 1 .. Len(s) /\ m + (i - m) - 1 = i - 1
      BY <1>3, <2>0, <2>2
    <3>2. (b \o s)[i] = s[i - m]
      <4>1. ~(i <= m)
        BY <2>0, <2>2
      <4> QED
        BY <1>4, <4>1
    <3>3. s[i - m] = Byte(kind, m + (i - m) - 1)
      BY <3>1
    <3> QED
      BY <3>1, <3>2, <3>3
  <2>3. i <= m \/ i > m
    BY <2>0
  <2> QED
    BY <2>1, <2>2, <2>3
<1>6. b \o s = [i \in 1 .. m + Len(s) |-> Byte(kind, i - 1)]
  BY <1>4, <1>5
<1> QED
  BY <1>6 DEF b, Source

\* When every part has sent all of its piece, the server's object is the source.
LEMMA PiecesMakeSource ==
    ASSUME MultipartInv, PieceInv, NumParts > 0,
           \A p \in Parts : Len(got[p]) = Length(p)
    PROVE  Assembled = Source(cfg.kind, cfg.size)
<1>1. /\ cfg.size \in Nat /\ cfg.partSize \in Nat \ {0} /\ NumParts \in Nat
      /\ cfg.kind \in Kinds /\ cfg \in Configs /\ got \in [Parts -> Seq(Int)]
  BY ConfigIsGood, MultipartAssumption DEF MultipartInv, TypeOK, ConfigType
<1>2. PICK F : /\ Assembled = F[1 .. NumParts]
               /\ F[{}] = <<>>
               /\ \A n \in Nat : n + 1 <= NumParts =>
                     F[1 .. n + 1] = F[1 .. n] \o got[n + 1]
  BY <1>1, FoldUnfolds
<1> DEFINE End(n) == IF n < NumParts THEN n * cfg.partSize ELSE cfg.size
           S == {n \in Nat : n <= NumParts => F[1 .. n] = Source(cfg.kind, End(n))}
<1>3. 0 \in S
  <2>1. 1 .. 0 = {} /\ End(0) = 0
    BY <1>1
  <2>2. Source(cfg.kind, 0) = <<>>
    BY DEF Source
  <2> QED
    BY <1>2, <2>1, <2>2
<1>4. ASSUME NEW n \in Nat, n \in S PROVE n + 1 \in S
  <2> SUFFICES ASSUME n + 1 <= NumParts
               PROVE  F[1 .. n + 1] = Source(cfg.kind, End(n + 1))
    OBVIOUS
  <2>1. n < NumParts /\ n <= NumParts /\ n + 1 \in Parts /\ n + 1 - 1 = n
    BY <1>1 DEF Parts
  <2>2. End(n) = n * cfg.partSize /\ n * cfg.partSize \in Nat /\ Offset(n + 1) = n * cfg.partSize
    BY <1>1, <2>1 DEF Offset
  <2>3. Len(got[n + 1]) = Length(n + 1) /\ got[n + 1] \in Seq(Int)
    BY <1>1, <2>1
  <2>4. \A i \in 1 .. Len(got[n + 1]) : got[n + 1][i] = Byte(cfg.kind, n * cfg.partSize + i - 1)
    BY <2>1, <2>2 DEF PieceInv
  <2>5. F[1 .. n] = Source(cfg.kind, n * cfg.partSize)
    BY <1>4, <2>1, <2>2
  <2>6. F[1 .. n + 1] = Source(cfg.kind, n * cfg.partSize + Length(n + 1))
    <3>1. \A k \in Nat, s \in Seq(Int) :
             (\A i \in 1 .. Len(s) : s[i] = Byte(cfg.kind, k + i - 1))
                => Source(cfg.kind, k) \o s = Source(cfg.kind, k + Len(s))
      BY <1>1, SourceGoesOn
    <3>2. Source(cfg.kind, n * cfg.partSize) \o got[n + 1]
             = Source(cfg.kind, n * cfg.partSize + Len(got[n + 1]))
      BY <2>2, <2>3, <2>4, <3>1
    <3> QED
      BY <1>2, <2>3, <2>5, <3>2
  <2>7. n * cfg.partSize + Length(n + 1) = End(n + 1)
    <3>1. CASE n + 1 < NumParts
      <4>1. Length(n + 1) = cfg.partSize
        BY <1>1, <3>1, PartsFill
      <4>2. (n + 1) * cfg.partSize = n * cfg.partSize + cfg.partSize
        BY <1>1, OneMore
      <4> QED
        BY <3>1, <4>1, <4>2
    <3>2. CASE n + 1 = NumParts
      <4>1. Offset(n + 1) + Length(n + 1) = cfg.size
        BY <1>1, <3>2, PartsFill
      <4>2. End(n + 1) = cfg.size
        BY <1>1, <3>2
      <4> QED
        BY <2>2, <4>1, <4>2
    <3> QED
      BY <1>1, <3>1, <3>2
  <2> QED
    BY <2>6, <2>7
<1> HIDE DEF S
<1>5. Nat \subseteq S
  BY <1>3, <1>4, SetInduction
<1>6. F[1 .. NumParts] = Source(cfg.kind, End(NumParts))
  BY <1>1, <1>5 DEF S
<1>7. End(NumParts) = cfg.size
  BY <1>1
<1> QED
  BY <1>2, <1>6, <1>7

-----------------------------------------------------------------------------
(* One part at a time with a repeating pattern *)

\* What an object of the server holds is the source, whatever the configuration
\* of the parts that made it.
LEMMA SerialStays ==
    ASSUME MultipartInv, SerialInv, UNCHANGED parts,
           object' = object \/ (Serial => object' = Source(cfg.kind, cfg.size))
    PROVE  SerialInv'
<1>1. /\ Serial' = Serial /\ Parts' = Parts /\ Admitted' = Admitted
      /\ cfg' = cfg /\ pc' = pc /\ got' = got /\ reader' = reader /\ completed' = completed
      /\ \A p \in Parts : Offset(p)' = Offset(p) /\ Length(p)' = Length(p)
  BY DEF parts, Serial, Parts, NumParts, Admitted, Offset, Length
<1> SUFFICES ASSUME Serial
             PROVE  SerialInv'
  BY <1>1 DEF SerialInv
<1>2. PieceInv'
  BY <1>1 DEF SerialInv, PieceInv
<1>3. StoredIsSource'
  BY <1>1 DEF SerialInv, StoredIsSource
<1>4. completed \subseteq Parts
  BY DEF MultipartInv, TypeOK
<1> QED
  BY <1>1, <1>2, <1>3, <1>4 DEF SerialInv

\* A new attempt has sent nothing.
LEMMA SerialCreate == ASSUME MultipartInv, SerialInv, Create PROVE SerialInv'
<1>1. /\ Serial' = Serial /\ Parts' = Parts /\ cfg' = cfg /\ reader' = reader
      /\ completed' = {} /\ object' = object
      /\ \A p \in Parts : got'[p] = <<>> /\ pc'[p] = "acquire"
  BY DEF Create, Serial, Parts, NumParts
<1> SUFFICES ASSUME Serial
             PROVE  SerialInv'
  BY <1>1 DEF SerialInv
<1>2. Admitted' = {}
  BY <1>1 DEF Admitted
<1>3. PieceInv'
  BY <1>1 DEF PieceInv
<1>4. StoredIsSource'
  BY <1>1 DEF SerialInv, StoredIsSource
<1> QED
  BY <1>1, <1>2, <1>3, <1>4 DEF SerialInv

\* A completion lists every part, each with all of its piece.
LEMMA SerialAssembled ==
    ASSUME MultipartInv, SerialInv, Serial, completed = Parts, NumParts > 0
    PROVE  Assembled = Source(cfg.kind, cfg.size)
  BY PiecesMakeSource DEF SerialInv

LEMMA SerialMain == ASSUME MultipartInv, SerialInv, MainStep PROVE SerialInv'
<1>1. CASE Create
  BY <1>1, SerialCreate
<1>2. CASE CreateFails
  BY <1>2, SerialStays DEF CreateFails
<1>3. CASE Join
  BY <1>3, SerialStays DEF Join
<1>4. CASE Abort
  BY <1>4, SerialStays DEF Abort
<1>5. CASE Complete
  BY <1>5, SerialStays, SerialAssembled DEF Complete
<1>6. CASE CompleteFails
  BY <1>6, SerialStays, SerialAssembled DEF CompleteFails
<1>7. CASE Retry
  BY <1>7, SerialStays DEF Retry
<1> QED
  BY <1>1, <1>2, <1>3, <1>4, <1>5, <1>6, <1>7 DEF MainStep

\* What the steps of a part leave alone.
LEMMA SerialFrame ==
    ASSUME MultipartInv, UNCHANGED call
    PROVE  /\ Serial' = Serial /\ Parts' = Parts /\ cfg' = cfg /\ object' = object
           /\ \A p \in Parts : Offset(p)' = Offset(p) /\ Length(p)' = Length(p)
           /\ StoredIsSource' = StoredIsSource
  BY DEF call, Serial, Parts, NumParts, Offset, Length, StoredIsSource

\* The semaphore of one admits a part when no other holds it.
LEMMA SerialAcquire ==
    ASSUME MultipartInv, SerialInv, NEW p \in Parts, Acquire(p)
    PROVE  SerialInv'
<1>1. /\ main = "parts" /\ pc[p] = "acquire" /\ Cardinality(Admitted) < cfg.maxParts
      /\ pc' = [pc EXCEPT ![p] = "seek"]
      /\ UNCHANGED <<main, call, reader, got, completed, errs>>
  BY DEF Acquire, At
<1> SUFFICES ASSUME Serial
             PROVE  SerialInv'
  BY <1>1, SerialFrame DEF SerialInv
<1>2. Admitted = {}
  <2>1. Admitted \subseteq Parts /\ IsFiniteSet(Parts)
    BY PartsFinite DEF Admitted, MultipartInv
  <2>2. IsFiniteSet(Admitted)
    BY <2>1, FS_Subset
  <2>3. Cardinality(Admitted) \in Nat /\ Cardinality(Admitted) < 1
    BY <1>1, <2>2, FS_CardinalityType DEF Serial
  <2>4. Cardinality(Admitted) = 0
    BY <2>3
  <2> QED
    BY <2>2, <2>4, FS_EmptySet
<1>3. /\ pc'[p] = "seek" /\ \A q \in Parts : q # p => pc'[q] = pc[q]
  BY <1>1 DEF MultipartInv, TypeOK
<1>4. Admitted' = {p}
  <2>1. \A q \in Parts : q # p => ~(pc'[q] \in {"seek", "send"})
    BY <1>2, <1>3 DEF Admitted
  <2> QED
    BY <1>1, <1>3, <2>1, SerialFrame DEF Admitted
<1>5. PieceInv'
  BY <1>1, SerialFrame DEF SerialInv, PieceInv
<1>6. completed \subseteq Parts
  BY DEF MultipartInv, TypeOK
<1>7. \A q \in Parts : /\ pc'[q] \in {"idle", "acquire", "seek"} => got[q] = <<>>
                       /\ pc'[q] = "send" => reader.pos = Offset(q) + Len(got[q])
  BY <1>1, <1>3 DEF SerialInv
<1> QED
  BY <1>1, <1>4, <1>5, <1>6, <1>7, SerialFrame DEF SerialInv

\* Its Seek takes the reader to the beginning of its piece.
LEMMA SerialSeek ==
    ASSUME MultipartInv, SerialInv, NEW p \in Parts, SeekPart(p)
    PROVE  SerialInv'
<1>1. /\ main = "parts" /\ pc[p] = "seek"
      /\ pc' = [pc EXCEPT ![p] = "send"]
      /\ reader' = AfterSeek(reader, Offset(p), "start")
      /\ UNCHANGED <<main, call, got, completed, errs>>
  BY DEF SeekPart, At
<1> SUFFICES ASSUME Serial
             PROVE  SerialInv'
  BY <1>1, SerialFrame DEF SerialInv
<1>2. reader.kind = "fixed" /\ got[p] = <<>> /\ \A q \in Admitted : q = p
  <2>1. p \in Admitted
    BY <1>1 DEF Admitted
  <2> QED
    BY <1>1, <2>1 DEF SerialInv
<1>3. /\ Offset(p) \in 0 .. cfg.size /\ cfg.size \in Nat /\ reader \in ReaderType(cfg.size)
  BY ConfigIsGood, PartsWithin DEF MultipartInv, TypeOK
<1>4. reader'.kind = "fixed" /\ reader'.pos = Offset(p)
  <2>1. reader.size = cfg.size
    BY <1>3 DEF ReaderType
  <2>2. SeekTarget(reader, Offset(p), "start") = Offset(p) /\ ~SeekFails(reader, Offset(p))
    BY <1>3, <2>1 DEF SeekTarget, SeekFails
  <2>3. reader' = Moved(reader, Offset(p), reader.rng)
    BY <1>1, <1>2, <2>2 DEF AfterSeek, SeekFixed
  <2> QED
    BY <1>2, <2>3 DEF Moved
<1>5. /\ pc'[p] = "send" /\ \A q \in Parts : q # p => pc'[q] = pc[q]
  BY <1>1 DEF MultipartInv, TypeOK
<1>6. Admitted' = Admitted
  BY <1>1, <1>5, SerialFrame DEF Admitted
<1>7. \A q \in Parts : /\ pc'[q] \in {"idle", "acquire", "seek"} => got[q] = <<>>
                       /\ pc'[q] = "send" => q = p
  BY <1>2, <1>5 DEF SerialInv, Admitted
<1>8. reader'.pos = Offset(p) + Len(got[p])
  BY <1>2, <1>3, <1>4
<1>9. PieceInv'
  BY <1>1, SerialFrame DEF SerialInv, PieceInv
<1>10. completed \subseteq Parts
  BY DEF MultipartInv, TypeOK
<1>11. \A q, r \in Admitted' : q = r
  BY <1>2, <1>6
<1> QED
  BY <1>1, <1>4, <1>7, <1>8, <1>9, <1>10, <1>11, SerialFrame DEF SerialInv

\* A Read of the only part that is admitted goes on where the part is.
LEMMA SerialRead ==
    ASSUME MultipartInv, SerialInv, NEW p \in Parts, ReadPart(p)
    PROVE  SerialInv'
<1>1. /\ main = "parts" /\ pc[p] = "send"
      /\ UNCHANGED <<main, call, pc, completed, errs>>
  BY DEF ReadPart, At
<1> SUFFICES ASSUME Serial
             PROVE  SerialInv'
  BY <1>1, SerialFrame DEF SerialInv
<1>2. PICK n \in cfg.chunks :
         LET limit == Min({n, Length(p) - Len(got[p])})
         IN  /\ ReadCount(reader, limit) > 0
             /\ got' = [got EXCEPT ![p] = @ \o ReadBytes(reader, limit)]
             /\ reader' = AfterRead(reader, limit)
  BY DEF ReadPart
<1> DEFINE limit == Min({n, Length(p) - Len(got[p])})
           read == ReadBytes(reader, limit)
<1>3. /\ got[p] \in Seq(Int) /\ Len(got[p]) \in Nat /\ Length(p) \in Nat
      /\ Offset(p) \in Nat
  BY PartsWithin DEF MultipartInv, TypeOK
<1>4. limit \in Int
  <2>1. n \in Int /\ Length(p) - Len(got[p]) \in Int
    BY <1>3, ConfigIsGood DEF MultipartInv
  <2> QED
    BY <2>1, MinOfTwo
<1>5. cfg.size \in Nat /\ reader \in ReaderType(cfg.size)
  BY ConfigIsGood DEF MultipartInv, TypeOK
<1>6. /\ ReadCount(reader, limit) > 0 /\ reader' = AfterRead(reader, limit)
      /\ got' = [got EXCEPT ![p] = @ \o read]
  BY <1>2
<1>7. read \in Seq(Int) /\ Len(read) = ReadCount(reader, limit) /\ Len(read) \in Nat
  <2> HIDE DEF limit
  <2> QED
    BY <1>4, <1>5, <1>6, ReadWithin
<1>8. /\ p \in Admitted /\ reader.kind = "fixed" /\ cfg.kind = "fixed"
      /\ reader.pos = Offset(p) + Len(got[p])
      /\ \A q \in Admitted : q = p
  BY <1>1 DEF SerialInv, Serial, Admitted
<1>9. \A i \in 1 .. Len(read) : read[i] = Byte("fixed", reader.pos + i - 1)
  <2>1. read = [i \in 1 .. Len(read) |-> Byte("fixed", reader.pos + i - 1)]
    <3> HIDE DEF limit
    <3> QED
      BY <1>7, <1>8 DEF ReadBytes, ReadFrom
  <2> HIDE DEF read
  <2> QED
    BY <1>7, <2>1
<1>10. reader'.kind = "fixed" /\ reader'.pos = reader.pos + Len(read)
  <2> HIDE DEF limit
  <2> QED
    BY <1>6, <1>7, <1>8 DEF AfterRead, Moved
<1> HIDE DEF limit, read
<1>11. /\ got'[p] = got[p] \o read /\ \A q \in Parts : q # p => got'[q] = got[q]
  BY <1>6 DEF MultipartInv
<1>12. /\ Len(got[p] \o read) = Len(got[p]) + Len(read)
       /\ \A i \in 1 .. Len(got[p]) + Len(read) :
             (got[p] \o read)[i] = IF i <= Len(got[p]) THEN got[p][i] ELSE read[i - Len(got[p])]
  BY <1>3, <1>7, Concatenation
<1>13. ASSUME NEW i \in 1 .. Len(got'[p])
       PROVE  got'[p][i] = Byte(cfg.kind, Offset(p) + i - 1)
  <2>0. i \in Int /\ i >= 1 /\ i <= Len(got[p]) + Len(read)
    BY <1>3, <1>7, <1>11, <1>12
  <2>1. i \in 1 .. Len(got[p]) + Len(read)
    BY <1>11, <1>12
  <2>2. CASE i <= Len(got[p])
    <3>1. i \in 1 .. Len(got[p])
      BY <1>3, <2>0, <2>2
    <3>2. got'[p][i] = got[p][i]
      BY <1>11, <1>12, <2>1, <2>2
    <3> QED
      BY <3>1, <3>2 DEF SerialInv, PieceInv
  <2>3. CASE ~(i <= Len(got[p]))
    <3>1. i - Len(got[p]) \in 1 .. Len(read)
      BY <1>3, <1>7, <2>0, <2>3
    <3>2. got'[p][i] = read[i - Len(got[p])]
      BY <1>11, <1>12, <2>1, <2>3
    <3>3. read[i - Len(got[p])] = Byte("fixed", reader.pos + (i - Len(got[p])) - 1)
      BY <1>9, <3>1
    <3>4. reader.pos + (i - Len(got[p])) - 1 = Offset(p) + i - 1
      BY <1>3, <1>8, <2>0
    <3> QED
      BY <1>8, <3>2, <3>3, <3>4
  <2> QED
    BY <2>2, <2>3
<1>14. PieceInv'
  <2>1. ASSUME NEW q \in Parts, NEW i \in 1 .. Len(got'[q])
        PROVE  got'[q][i] = Byte(cfg.kind, Offset(q) + i - 1)
    <3>1. CASE q = p
      BY <1>13, <3>1
    <3>2. CASE q # p
      BY <1>11, <3>2 DEF SerialInv, PieceInv
    <3> QED
      BY <3>1, <3>2
  <2> QED
    BY <1>1, <2>1, SerialFrame DEF PieceInv
<1>15. \A q \in Parts : /\ pc[q] \in {"idle", "acquire", "seek"} => got'[q] = <<>>
                        /\ pc[q] = "send" => q = p
  BY <1>1, <1>8, <1>11 DEF SerialInv, Admitted
<1>16. reader'.pos = Offset(p) + Len(got'[p])
  BY <1>3, <1>7, <1>8, <1>10, <1>11, <1>12
<1>17. \A q \in completed : q \in Parts /\ Len(got'[q]) = Length(q)
  <2>1. completed \subseteq Parts /\ p \notin completed
    BY <1>1 DEF MultipartInv, TypeOK, JoinInv, Ended
  <2> QED
    BY <1>11, <2>1 DEF SerialInv
<1>18. Admitted' = Admitted
  BY <1>1, SerialFrame DEF Admitted
<1> QED
  BY <1>1, <1>8, <1>10, <1>14, <1>15, <1>16, <1>17, <1>18, SerialFrame DEF SerialInv

\* A part that has ended has left the reader to the next one.
LEMMA SerialEnd ==
    ASSUME MultipartInv, SerialInv, NEW p \in Parts, PartSent(p) \/ PartFails(p)
    PROVE  SerialInv'
<1>1. /\ main = "parts" /\ pc[p] = "send"
      /\ pc' = [pc EXCEPT ![p] = "done"]
      /\ UNCHANGED <<main, call, reader, got>>
      /\ \/ completed' = completed
         \/ completed' = completed \cup {p} /\ Len(got[p]) = Length(p)
  BY DEF PartSent, PartFails, At
<1> SUFFICES ASSUME Serial
             PROVE  SerialInv'
  BY <1>1, SerialFrame DEF SerialInv
<1>2. /\ pc'[p] = "done" /\ \A q \in Parts : q # p => pc'[q] = pc[q]
  BY <1>1 DEF MultipartInv, TypeOK
<1>3. \A q \in Admitted' : q \in Admitted
  BY <1>1, <1>2, SerialFrame DEF Admitted
<1>4. PieceInv'
  BY <1>1, SerialFrame DEF SerialInv, PieceInv
<1>5. \A q \in completed' : q \in Parts /\ Len(got[q]) = Length(q)
  BY <1>1 DEF SerialInv, MultipartInv, TypeOK
<1>6. \A q \in Parts : /\ pc'[q] \in {"idle", "acquire", "seek"} => got[q] = <<>>
                       /\ pc'[q] = "send" => reader.pos = Offset(q) + Len(got[q])
  BY <1>2 DEF SerialInv
<1>7. \A q, r \in Admitted' : q = r
  BY <1>3 DEF SerialInv
<1> QED
  BY <1>1, <1>4, <1>5, <1>6, <1>7, SerialFrame DEF SerialInv

\* A race needs two parts that are admitted.
LEMMA SerialPart == ASSUME MultipartInv, SerialInv, NEW p \in Parts, PartStep(p) PROVE SerialInv'
<1>1. CASE Acquire(p)
  BY <1>1, SerialAcquire
<1>2. CASE SeekPart(p)
  BY <1>2, SerialSeek
<1>3. CASE ReadPart(p)
  BY <1>3, SerialRead
<1>4. CASE PartSent(p) \/ PartFails(p)
  BY <1>4, SerialEnd
<1>5. CASE Racing(p) /\ UNCHANGED call
  <2>1. ~Serial
    <3> SUFFICES ASSUME Serial PROVE FALSE
      OBVIOUS
    <3>1. p \in Admitted /\ Admitted # {p}
      BY <1>5 DEF Racing
    <3>2. \A q \in Admitted : q = p
      BY <3>1 DEF SerialInv
    <3> QED
      BY <3>1, <3>2
  <2> QED
    BY <1>5, <2>1, SerialFrame DEF SerialInv
<1> QED
  BY <1>1, <1>2, <1>3, <1>4, <1>5 DEF PartStep, SeekRaced, ReadRaced, SourcePanics

LEMMA InitSerial == Init => SerialInv
<1> SUFFICES ASSUME Init
             PROVE  SerialInv
  OBVIOUS
<1> USE DEF Init
<1>1. /\ \A p \in Parts : got[p] = <<>> /\ pc[p] = "idle"
      /\ completed = {} /\ object = NoObject
  OBVIOUS
<1>2. Admitted = {}
  BY <1>1 DEF Admitted
<1>3. PieceInv
  BY <1>1 DEF PieceInv
<1>4. Serial => reader.kind = "fixed"
  BY DEF Serial, NewReader
<1> QED
  BY <1>1, <1>2, <1>3, <1>4 DEF SerialInv, StoredIsSource

LEMMA NextSerial == MultipartInv /\ SerialInv /\ [Next]_vars => SerialInv'
<1> SUFFICES ASSUME MultipartInv, SerialInv, [Next]_vars
             PROVE  SerialInv'
  OBVIOUS
<1>1. CASE CtxEnds
  BY <1>1, SerialStays DEF CtxEnds
<1>2. CASE UNCHANGED vars
  BY <1>2, SerialStays DEF vars, parts
<1>3. ASSUME NEW p \in Parts, PartStep(p) PROVE SerialInv'
  BY <1>3, SerialPart
<1> QED
  BY <1>1, <1>2, <1>3, SerialMain DEF Next, Terminated

\* With one part at a time and a repeating pattern the object is the source,
\* whatever a failed attempt of client.go has read, sent or left behind.
THEOREM SerialUploadsStore == Spec => []SerialFixedStores
<1>1. SerialInv => SerialFixedStores
  BY DEF SerialInv, Serial, SerialFixedStores
<1> QED
  BY <1>1, InitMultipart, NextMultipart, InitSerial, NextSerial, PTL DEF Spec
=============================================================================
