----------------------------- MODULE MCObjectOps -----------------------------
(* Instances of ObjectOps for TLC. *)
EXTENDS ObjectOps, TLC

CONSTANTS w1, w2, k1, k2

WorkerSet == {w1, w2}

KeySet == {k1, k2}

Symmetry == Permutations(WorkerSet)

WriteMix == {"put", "multipart_put", "get", "copy", "delete", "head", "list", "unknown"}

PlainTags == {"label"}
=============================================================================
