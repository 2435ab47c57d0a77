------------------------------ MODULE Startup ------------------------------
(***************************************************************************)
(* From the options to the first operations: internal/config/config.go,    *)
(* Load and Validate; internal/runner/runner.go, New; the scheduler of     *)
(* internal/workload/scheduler.go and the size distributions of            *)
(* internal/data/generator.go, up to where an upload's parts are counted.  *)
(* Texts are given as what they parse to; sizes are counted in MiB.        *)
(***************************************************************************)
EXTENDS Integers, FiniteSets, Sequences

CONSTANTS Starts,    \* what a user may have given, by flags or in a file
          LogNormal  \* sizes a log-normal distribution may draw

\* Validate does not check names: "unknown" stands for one that no operation has.
OpNames == {"put", "get", "delete", "copy", "list", "head", "multipart_put", "unknown"}

\* The plain checks of Validate that may fail, each on a text of its own.
Checks == {"endpoint", "bucket", "verify-rate", "versioning", "log-level"}

SizeType == [kind : {"fixed", "uniform", "lognormal", "malformed"}, min : Nat, max : Nat]

\* The options that come with a mix.
StartType(m) == [mix : {m}, faults : SUBSET Checks, concurrency : Int, keys : Int,
                 multipart : BOOLEAN, threshold : Int, partSize : Int, maxParts : Int,
                 size : SizeType, patternOk : BOOLEAN]

ASSUME StartupAssumption ==
    /\ \A g \in Starts : /\ g \in StartType(g.mix)
                         /\ DOMAIN g.mix \subseteq OpNames
                         /\ g.mix \in [DOMAIN g.mix -> Int]
    /\ LogNormal # {} /\ LogNormal \subseteq Nat \ {0}

VARIABLES given,     \* what the user gave
          phase,
          mix,       \* cfg.Mix
          todo,      \* the operations NewScheduler's loop has still to visit
          ops, weights,  \* of the scheduler
          op, size   \* of the operation drawn last

vars == <<given, phase, mix, todo, ops, weights, op, size>>

Phases == {"load", "loaded", "valid", "weigh", "ready", "size", "upload",
           "refused", "panicked", "hung"}

DefaultMix == [o \in {"put", "get"} |-> 50]

Init == /\ given \in Starts
        /\ phase = "load"
        /\ mix = DefaultMix
        /\ todo = {} /\ ops = <<>> /\ weights = <<>>
        /\ op = "none" /\ size = 0

Merge(f, g) == [o \in DOMAIN f \cup DOMAIN g |-> IF o \in DOMAIN f THEN f[o] ELSE g[o]]

\* Unmarshal decodes into the defaults: a map is added to the one that is there.
Load == /\ phase = "load"
        /\ mix' = Merge(given.mix, mix)
        /\ phase' = "loaded"
        /\ UNCHANGED <<given, todo, ops, weights, op, size>>

-----------------------------------------------------------------------------
(* Validate *)

Percent(m, o) == IF o \in DOMAIN m THEN m[o] ELSE 0

Total(m) == Percent(m, "put") + Percent(m, "get") + Percent(m, "delete")
              + Percent(m, "copy") + Percent(m, "list") + Percent(m, "head")
              + Percent(m, "multipart_put") + Percent(m, "unknown")

MixAccepted == /\ \A o \in DOMAIN mix : mix[o] \in 0 .. 100
               /\ Total(mix) # 0

MinPartSize == 5

PartsAtOnce == 1 .. 10000

MultipartAccepted ==
    given.multipart => /\ given.partSize >= MinPartSize
                       /\ given.threshold >= MinPartSize
                       /\ given.maxParts \in PartsAtOnce

AcceptedUnmultiplied ==
    /\ given.faults = {} /\ given.concurrency >= 1 /\ given.keys >= 1
    /\ MixAccepted

AcceptedAnyMix ==
    /\ given.faults = {} /\ given.concurrency >= 1 /\ given.keys >= 1
    /\ Total(mix) # 0 /\ MultipartAccepted

Accepted == /\ given.faults = {} /\ given.concurrency >= 1 /\ given.keys >= 1
            /\ MixAccepted /\ MultipartAccepted

\* Where the product with the factor 100.0 / total, in binary floating point, falls
\* short of the whole number it stands for; no other percentage does it when the
\* total is 800 at most, which eight names cannot exceed.
FloatShort == {<<97, 97>>, <<97, 194>>, <<77, 385>>, <<97, 388>>, <<77, 770>>}

ShareOfWholeFactor(pct, total) == pct * (100 \div total)

Share(pct, total) ==
    IF total = 100 THEN pct
    ELSE IF <<pct, total>> \in FloatShort THEN ((pct * 100) \div total) - 1
    ELSE (pct * 100) \div total

Validate ==
    /\ phase = "loaded"
    /\ \/ ~Accepted /\ phase' = "refused" /\ UNCHANGED mix
       \/ /\ Accepted
          /\ phase' = "valid"
          /\ mix' = [o \in DOMAIN mix |-> Share(mix[o], Total(mix))]
    /\ UNCHANGED <<given, todo, ops, weights, op, size>>

-----------------------------------------------------------------------------
(* New: the generator, the scheduler and the sizes *)

Build ==
    /\ phase = "valid"
    /\ \/ /\ ~given.patternOk \/ given.size.kind = "malformed" \/ Total(mix) = 0
          /\ phase' = "refused" /\ UNCHANGED todo
       \/ /\ given.patternOk /\ given.size.kind # "malformed" /\ Total(mix) # 0
          /\ phase' = "weigh" /\ todo' = DOMAIN mix
    /\ UNCHANGED <<given, mix, ops, weights, op, size>>

\* The sum of the shares of the operations in the scheduler.
Cumulative == IF weights = <<>> THEN 0 ELSE weights[Len(weights)]

\* One turn of the loop over the map, whose order is not determined.
WeighOp ==
    /\ phase = "weigh"
    /\ \E o \in todo :
          /\ todo' = todo \ {o}
          /\ \/ mix[o] = 0 /\ UNCHANGED <<ops, weights>>
             \/ /\ mix[o] # 0
                /\ ops' = Append(ops, o)
                /\ weights' = Append(weights, Cumulative + mix[o])
    /\ UNCHANGED <<given, phase, mix, op, size>>

Built == /\ phase = "weigh" /\ todo = {}
         /\ phase' = "ready"
         /\ UNCHANGED <<given, mix, todo, ops, weights, op, size>>

-----------------------------------------------------------------------------
(* The operations that are drawn *)

PickInclusive(r) ==
    ops[CHOOSE i \in DOMAIN weights :
           r <= weights[i] /\ \A j \in 1 .. i - 1 : ~(r <= weights[j])]

\* The first weight above the number drawn.
Pick(r) ==
    ops[CHOOSE i \in DOMAIN weights :
           r < weights[i] /\ \A j \in 1 .. i - 1 : ~(r < weights[j])]

Draws == 0 .. Cumulative - 1

Sizeless(o) == o \notin {"put", "multipart_put"}

\* Scheduler.Next; its fallbacks for no operation and no weight are not reached.
\* An operation of an unknown name does nothing.
Draw == /\ phase = "ready"
        /\ \E r \in Draws : op' = Pick(r)
        /\ phase' = IF Sizeless(op') THEN "ready" ELSE "size"
        /\ UNCHANGED <<given, mix, todo, ops, weights, size>>

SizesOf(d) == CASE d.kind = "fixed"     -> {d.min}
                [] d.kind = "uniform"   -> d.min .. d.max
                [] d.kind = "lognormal" -> LogNormal

\* Int63n panics without a positive argument, and min alone is never drawn from.
DrawSize ==
    /\ phase = "size"
    /\ \/ SizesOf(given.size) = {} /\ phase' = "panicked" /\ UNCHANGED size
       \/ size' \in SizesOf(given.size) /\ phase' = "upload"
    /\ UNCHANGED <<given, mix, todo, ops, weights, op>>

ByParts == op = "multipart_put" \/ (given.multipart /\ size >= given.threshold)

\* Division that truncates towards zero, as Go's does.
Quotient(a, b) ==
    LET pos(n) == IF n < 0 THEN -n ELSE n
        q == pos(a) \div pos(b)
    IN  IF (a < 0) = (b < 0) THEN q ELSE -q

NumParts == Quotient(size + given.partSize - 1, given.partSize)

\* The division, the slice of entries, errChan or the semaphore of an upload panics.
\* What its parts may do once they have started is in MultipartUpload.
Panics == \/ given.partSize = 0
          \/ given.partSize # 0 /\ NumParts < 0
          \/ given.maxParts < 0

\* The parts wait for a semaphore that never has room.
Blocks == ~Panics /\ NumParts > 0 /\ given.maxParts = 0

Upload ==
    /\ phase = "upload"
    /\ \/ phase' = "ready"
       \/ ByParts /\ Panics /\ phase' = "panicked"
       \/ ByParts /\ Blocks /\ phase' = "hung"
    /\ UNCHANGED <<given, mix, todo, ops, weights, op, size>>

Terminated == phase \in {"refused", "panicked", "hung"} /\ UNCHANGED vars

Next == \/ Load \/ Validate \/ Build \/ WeighOp \/ Built \/ Draw \/ DrawSize \/ Upload
        \/ Terminated

Spec == Init /\ [][Next]_vars

-----------------------------------------------------------------------------
(* Properties *)

HasRun == phase \in {"ready", "size", "upload", "panicked", "hung"}

\* The variables keep their types; past Validate the shares are percentages.
TypeOK == /\ given \in Starts
          /\ phase \in Phases
          /\ DOMAIN mix \subseteq OpNames
          /\ phase \notin {"load", "loaded", "refused"} =>
                \A o \in DOMAIN mix : mix[o] \in 0 .. 100
          /\ todo \subseteq DOMAIN mix
          /\ ops \in Seq(OpNames) /\ weights \in Seq(Nat) /\ Len(ops) = Len(weights)
          /\ op \in OpNames \cup {"none"}
          /\ size \in Nat

\* In whichever order the map is visited, each operation is drawn by as many of
\* the equally likely numbers as its share says, and by none when it has none.
DrawsFollowShares ==
    HasRun => \A o \in DOMAIN mix : Cardinality({r \in Draws : Pick(r) = o}) = mix[o]

\* The shares are proportional to the percentages up to the truncation, which
\* takes less than two points of each, and they never exceed the whole.
SharesNearProportional ==
    phase \in {"valid", "weigh"} \/ HasRun =>
        LET asked == Merge(given.mix, DefaultMix)
        IN  /\ Total(mix) <= 100
            /\ \A o \in DOMAIN mix :
                  /\ mix[o] * Total(asked) <= asked[o] * 100
                  /\ asked[o] * 100 < (mix[o] + 2) * Total(asked)

\* Up to where the parts of an upload start, a configuration that Validate lets
\* through panics or blocks only for a range of sizes that is empty, or for
\* multipart_put in the mix with part options that are looked at with
\* --multipart-enabled only.  (Parts that have started may panic on the reader they
\* share, whatever was validated: MultipartUpload, SourcePanics.)
StartBreaksOnlyUnvalidated ==
    phase \in {"panicked", "hung"} =>
        \/ given.size.kind = "uniform" /\ given.size.min > given.size.max
        \/ /\ op = "multipart_put" /\ ~given.multipart
           /\ given.partSize < 1 \/ given.maxParts < 1

\* docs/CLI.md:142 gives "--mix get=95,head=5" as the read-heavy workload: only
\* operations of a mix that was given are executed.
OnlyGivenOps == given.mix # <<>> /\ op # "none" => op \in DOMAIN given.mix

-----------------------------------------------------------------------------
(* The inductive invariant behind the properties (StartupProofs) *)

Asked == Merge(given.mix, DefaultMix)

Validated == phase \in {"valid", "weigh"} \/ HasRun

\* Past Validate the options are those it accepts and the mix holds the shares.
AcceptedInv ==
    /\ phase = "load" => mix = DefaultMix
    /\ phase = "loaded" => mix = Asked
    /\ Validated => /\ \A o \in DOMAIN Asked : Asked[o] \in 0 .. 100
                    /\ Total(Asked) # 0 /\ MultipartAccepted
                    /\ mix = [o \in DOMAIN Asked |-> Share(Asked[o], Total(Asked))]
    /\ phase = "weigh" \/ HasRun => given.size.kind # "malformed"

\* The weight before the i-th operation's.
Below(i) == IF i = 1 THEN 0 ELSE weights[i - 1]

\* The scheduler holds each operation that was visited and has a share, once, and
\* the weights grow by those shares.
WeighInv ==
    /\ phase \notin {"weigh"} /\ ~HasRun => ops = <<>> /\ weights = <<>> /\ todo = {}
    /\ HasRun => todo = {}
    /\ \A i \in 1 .. Len(ops) :
          /\ ops[i] \in DOMAIN mix \ todo
          /\ mix[ops[i]] # 0
          /\ weights[i] = Below(i) + mix[ops[i]]
          /\ \A j \in 1 .. i - 1 : weights[j] < weights[i] /\ ops[j] # ops[i]
    /\ phase = "weigh" \/ HasRun =>
          \A o \in DOMAIN mix \ todo :
             mix[o] # 0 => \E i \in 1 .. Len(ops) : ops[i] = o

StartupInv == TypeOK /\ AcceptedInv /\ WeighInv /\ StartBreaksOnlyUnvalidated
=============================================================================
