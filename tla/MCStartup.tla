------------------------------ MODULE MCStartup ------------------------------
(* Instances of Startup for TLC. *)
EXTENDS Startup, TLC

FixedSize(n) == [kind |-> "fixed", min |-> n, max |-> n]

Usual == [mix |-> <<>>, faults |-> {}, concurrency |-> 2, keys |-> 3,
          multipart |-> FALSE, threshold |-> 100, partSize |-> 10, maxParts |-> 4,
          size |-> FixedSize(1), patternOk |-> TRUE]

ReadHeavy == "get" :> 95 @@ "head" :> 5

Parted == "multipart_put" :> 60 @@ "get" :> 40

\* Mixes of 100 and of other totals, one whose smallest share is truncated to
\* nothing, those that floating point takes a point from, and those refused.
Mixes == {<<>>, ReadHeavy, Parted, "put" :> 100,
          "put" :> 40 @@ "get" :> 40 @@ "delete" :> 10 @@ "copy" :> 5 @@ "list" :> 5,
          "put" :> 97 @@ "get" :> 0, "put" :> 97 @@ "get" :> 97,
          [o \in {"put", "get", "copy", "list", "head"} |-> 77],
          [o \in {"put", "get", "copy", "list"} |-> 97],
          "put" :> 100 @@ "get" :> 100 @@ "list" :> 1, "unknown" :> 30 @@ "get" :> 20,
          "put" :> 0 @@ "get" :> 0, "list" :> -5, "head" :> 101}

MixStarts == {[Usual EXCEPT !.mix = m] : m \in Mixes}

RefusedStarts ==
    {[Usual EXCEPT !.faults = {c}] : c \in Checks}
        \cup {[Usual EXCEPT !.concurrency = 0], [Usual EXCEPT !.keys = 0],
              [Usual EXCEPT !.patternOk = FALSE]}

SizeStarts ==
    {[Usual EXCEPT !.mix = "put" :> 100, !.size = [kind |-> k, min |-> 1, max |-> b]] :
        k \in {"uniform", "lognormal", "malformed"}, b \in {0, 1, 3}}

\* The options of parts, valid and not, with and without --multipart-enabled.
PartStarts ==
    {[Usual EXCEPT !.mix = m, !.multipart = e, !.threshold = t, !.partSize = p,
                   !.maxParts = n, !.size = FixedSize(s)] :
        m \in {Parted, "put" :> 100}, e \in BOOLEAN, t \in {4, 8},
        p \in {-5, 0, 4, 5}, n \in {-1, 0, 1, 10001}, s \in {0, 7, 8, 12}}

AllStarts == MixStarts \cup RefusedStarts \cup SizeStarts \cup PartStarts

ReadHeavyOnly == {[Usual EXCEPT !.mix = ReadHeavy]}
=============================================================================
