------------------------------ MODULE MCRunner ------------------------------
(* Instances of Runner for TLC. *)
EXTENDS Runner, TLC

CONSTANTS w1, w2, w3

TwoWorkers == {w1, w2}
ThreeWorkers == {w1, w2, w3}

WorkerSymmetry == Permutations(ThreeWorkers)

RunConfig(ops, timed, limiter) ==
    [operations |-> ops, timed |-> timed, limiter |-> limiter,
     createBucket |-> FALSE, cleanup |-> FALSE]

\* The configurations that end before the workers exist, and one that does not.
SetupConfigs ==
    {[RunConfig(2, timed, "fixed") EXCEPT !.createBucket = b, !.cleanup = c] :
        timed, b, c \in BOOLEAN}

LiveConfigs ==
    {RunConfig(ops, timed, l) : ops \in {0, 2}, timed \in BOOLEAN, l \in Limiters}
        \cup SetupConfigs

UntimedConfigs == {RunConfig(2, FALSE, "noop")}
=============================================================================
