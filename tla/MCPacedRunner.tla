---------------------------- MODULE MCPacedRunner ----------------------------
(* Instances of PacedRunner for TLC. *)
EXTENDS MCRunner, PacedRunner

\* Without pacing every limit of operations, with it none and one; and the
\* configurations that end before the workers exist.
PacedConfigs ==
    {RunConfig(ops, TRUE, "noop") : ops \in {0, 1, 2, 4}}
        \cup {RunConfig(ops, FALSE, l) : ops \in {0, 2}, l \in {"fixed", "poisson"}}
        \cup {c \in SetupConfigs : c.createBucket \/ c.cleanup}

\* No limit, a burst of one token, and one of two.
SomeRates == {0, 1, 20}
=============================================================================
