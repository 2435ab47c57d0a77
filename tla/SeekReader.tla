----------------------------- MODULE SeekReader -----------------------------
(***************************************************************************)
(* internal/data/generator.go: the two io.ReadSeekers that produce an      *)
(* object's data.  A byte of the random reader stands for its place in     *)
(* the stream of the seed; the fixed reader repeats PatternLen bytes.      *)
(***************************************************************************)
EXTENDS Integers, Sequences

CONSTANT PatternLen

ASSUME SeekReaderAssumption == PatternLen \in Nat \ {0}

Kinds == {"random", "fixed"}

\* rng is how many bytes were drawn since the generator was last seeded.
ReaderType(size) == [kind : Kinds, size : {size}, pos : 0 .. size, rng : Nat]

NewReader(kind, size) == [kind |-> kind, size |-> size, pos |-> 0, rng |-> 0]

\* The same reader with its position and its generator elsewhere.
Moved(r, pos, rng) == [kind |-> r.kind, size |-> r.size, pos |-> pos, rng |-> rng]

\* The byte at place i of the data of that kind.
Byte(kind, i) == IF kind = "fixed" THEN i % PatternLen ELSE i

\* The data itself: what is hashed, and what an object should hold.
Source(kind, size) == [i \in 1 .. size |-> Byte(kind, i - 1)]

ReadCountUnclamped(r, n) == n

\* How many bytes a Read into a buffer of n returns; 0 stands for io.EOF.
ReadCount(r, n) == IF r.size - r.pos < n THEN r.size - r.pos ELSE n

\* The fixed reader computes from its position, the random one draws.
ReadFrom(r) == IF r.kind = "fixed" THEN r.pos ELSE r.rng

ReadBytes(r, n) == [i \in 1 .. ReadCount(r, n) |-> Byte(r.kind, ReadFrom(r) + i - 1)]

AfterRead(r, n) ==
    Moved(r, r.pos + ReadCount(r, n),
       IF r.kind = "random" THEN r.rng + ReadCount(r, n) ELSE r.rng)

SeekTarget(r, offset, whence) ==
    CASE whence = "start"   -> offset
      [] whence = "current" -> r.pos + offset
      [] whence = "end"     -> r.size + offset

SeekFails(r, target) == target < 0 \/ (r.kind = "fixed" /\ target > r.size)

SeekRandomUnseeded(r, target) ==
    LET to == IF target > r.size THEN r.size ELSE target
    IN  Moved(r, to, IF 0 < to /\ to < r.pos THEN to ELSE r.rng)

\* randomReader.Seek: a target behind the position is reached by seeding again
\* and drawing up to it, 0 by seeding only.  A target ahead moves the position
\* alone, and one beyond the end moves it to the end.
SeekRandom(r, target) ==
    LET to == IF target > r.size THEN r.size ELSE target
    IN  Moved(r, to, IF to = 0 \/ to < r.pos THEN to ELSE r.rng)

SeekFixed(r, target) == Moved(r, target, r.rng)

\* The reader after a Seek; one that fails leaves it as it was.
AfterSeek(r, offset, whence) ==
    LET target == SeekTarget(r, offset, whence)
    IN  IF SeekFails(r, target) THEN r
        ELSE IF r.kind = "random" THEN SeekRandom(r, target) ELSE SeekFixed(r, target)

\* The next byte read is the one the position names.
InSync(r) == ReadFrom(r) = r.pos
=============================================================================
