------------------------------ MODULE PutBody ------------------------------
(***************************************************************************)
(* A plain PUT: internal/runner/runner.go, executePut, with its data from  *)
(* internal/data/generator.go, GenerateAndHash.  The retry loop of         *)
(* RetryLoop runs here with the body it sends: one reader is hashed and    *)
(* then sent, again from its start in every attempt; the SDK, outside the  *)
(* repository, may measure and rewind it in between.                       *)
(***************************************************************************)
EXTENDS RetryLoop, SeekReader

CONSTANTS SourceKinds,   \* the kinds of data pattern
          ObjectSizes,   \* the sizes drawn
          BufferSizes    \* the buffer sizes a consumer reads with

ASSUME PutBodyAssumption ==
    /\ SourceKinds \subseteq Kinds
    /\ ObjectSizes \subseteq Nat
    /\ BufferSizes \subseteq Nat \ {0}

VARIABLES reader,
          stage,    \* how far executePut is with its data
          hashed,   \* the bytes the hash in the metadata was computed from
          body      \* the bytes of the request under way, or of the one stored

data == <<reader, stage, hashed, body>>

putVars == <<vars, data>>

Stages == {"none", "hash", "hashed", "stored"}

PutInit == /\ Init
           /\ reader \in {NewReader(k, 0) : k \in SourceKinds}
           /\ stage = "none"
           /\ hashed = <<>>
           /\ body = <<>>

\* The operation begins, and its data with it, before the retry loop is entered.
PutBegin == /\ Begin
            /\ \E n \in ObjectSizes : reader' = NewReader(reader.kind, n)
            /\ stage' = "hash"
            /\ hashed' = <<>>
            /\ body' = <<>>

\* io.Copy into the hash, one Read at a time.
Hash == /\ stage = "hash"
        /\ \E n \in BufferSizes :
              /\ ReadCount(reader, n) > 0
              /\ hashed' = hashed \o ReadBytes(reader, n)
              /\ reader' = AfterRead(reader, n)
        /\ UNCHANGED <<vars, stage, body>>

AtEnd == reader.pos = reader.size

HashEnds == /\ stage = "hash" /\ AtEnd
            /\ reader' = AfterSeek(reader, 0, "start")
            /\ stage' = "hashed"
            /\ UNCHANGED <<vars, hashed, body>>

AttemptUnreset ==
    /\ stage = "hashed"
    /\ CallOrGiveUp
    /\ body' = <<>>
    /\ UNCHANGED <<reader, stage, hashed>>

\* "Reset reader", then PutObject; or no attempt is left.
Attempt == /\ stage = "hashed"
           /\ CallOrGiveUp
           /\ \/ /\ st' = "call"
                 /\ reader' = AfterSeek(reader, 0, "start")
                 /\ body' = <<>>
              \/ st' = "idle" /\ UNCHANGED <<reader, body>>
           /\ UNCHANGED <<stage, hashed>>

Send == /\ st = "call"
        /\ \E n \in BufferSizes :
              /\ ReadCount(reader, n) > 0
              /\ body' = body \o ReadBytes(reader, n)
              /\ reader' = AfterRead(reader, n)
        /\ UNCHANGED <<vars, stage, hashed>>

\* How a client learns the length of a stream: to its end and back.
Measure == /\ st = "call"
           /\ reader' = AfterSeek(AfterSeek(reader, 0, "end"), reader.pos, "start")
           /\ UNCHANGED <<vars, stage, hashed, body>>

\* The SDK sends the request once more from the start.
Rewind == /\ st = "call"
          /\ reader' = AfterSeek(reader, 0, "start")
          /\ body' = <<>>
          /\ UNCHANGED <<vars, stage, hashed>>

\* The server stores a body of the announced length.
Stored == /\ FnReturns /\ st' = "idle"
          /\ AtEnd
          /\ stage' = "stored"
          /\ UNCHANGED <<reader, hashed, body>>

\* The attempt fails wherever it has got to.
Fails == FnReturns /\ st' = "judge" /\ UNCHANGED data

PutStep == \/ PutBegin \/ Hash \/ HashEnds \/ Attempt \/ Stored \/ Fails
           \/ Judge /\ UNCHANGED data
           \/ EnterSleep /\ UNCHANGED data
           \/ Wake /\ UNCHANGED data

PutTerminated == Terminated /\ UNCHANGED data

PutNext == \/ PutStep
           \/ Send \/ Measure \/ Rewind
           \/ CtxEnds /\ UNCHANGED data
           \/ PutTerminated

PutSpec == PutInit /\ [][PutNext]_putVars

\* The worker runs, its timers fire, and a call that goes on sending, measuring
\* or rewinding is ended by OpTimeout.
PutFairSpec == PutSpec /\ WF_putVars(PutStep)

-----------------------------------------------------------------------------
(* Properties *)

\* The variables keep their types, those of the retry loop included.
PutTypeOK == /\ TypeOK
             /\ reader \in [kind : Kinds, size : Nat, pos : Nat, rng : Nat]
             /\ reader.pos <= reader.size
             /\ stage \in Stages

\* Whatever was read before an attempt failed, and whatever the SDK does with the
\* reader meanwhile, the stored bytes are those of the hash and of the pattern.
StoredIsHashed ==
    stage = "stored" => body = hashed /\ hashed = Source(reader.kind, reader.size)

\* The generator of random data is where the position says before every Read: a
\* Seek ahead leaves it behind (generator.go:180), but whoever seeks ahead here
\* seeks back before the next Read.
ReaderInSync == InSync(reader)

-----------------------------------------------------------------------------
(* The inductive invariant behind them (RetryProofs) *)

\* The first n bytes of the reader's data.
First(n) == Source(reader.kind, n)

BodyInv == /\ PutTypeOK
           /\ ReaderInSync
           /\ hashed = IF stage = "hash" THEN First(reader.pos) ELSE First(reader.size)
           /\ st = "call" => stage = "hashed" /\ body = First(reader.pos)
           /\ stage = "hash" => st = "loop"
           /\ stage = "stored" => st = "idle" /\ body = First(reader.size)
=============================================================================
