------------------------------ MODULE Cleanup ------------------------------
(***************************************************************************)
(* The cleanup mode: internal/runner/runner.go, runCleanup, and            *)
(* internal/s3/client.go, DeleteObjectsByMetadata.  It pages through the   *)
(* listing of the prefix and, for each key, asks for the metadata (HEAD)   *)
(* and then deletes (DELETE).  Other clients may use the bucket meanwhile. *)
(* The server answers each request, refuses it, or loses the answer; a     *)
(* DELETE without an answer, or one that the SDK repeated, may be carried  *)
(* out later.                                                              *)
(***************************************************************************)
EXTENDS Integers, FiniteSets, FiniteSetsExt

CONSTANTS NumKeys,      \* the keys under the prefix are 1 .. NumKeys, in order
          PageSize,     \* keys in one answer to a listing
          OtherWrites,  \* bound of the model: writes by other clients
          Faults        \* bound of the model: requests that fail or are repeated

ASSUME CleanupAssumption ==
    /\ NumKeys \in Nat
    /\ PageSize \in Nat \ {0}
    /\ OtherWrites \in Nat
    /\ Faults \in Nat

Keys == 1 .. NumKeys

\* "marked" is an object whose created-by metadata is the tool's.
Objects == {"absent", "marked", "unmarked"}

VARIABLES bucket,     \* the object under each key
          late,       \* keys with a DELETE that is still on its way
          pc,         \* where the call is
          token,      \* the continuation token: the last key listed, 0 at first
          page,       \* keys of the current page that are still to be looked at
          more,       \* the page's IsTruncated
          deleted,    \* the number that is returned and logged
          ctxDone,
          writes, faults,
          initial,    \* history: the bucket when the cleanup began
          touched,    \* history: keys that another client has changed
          skipped,    \* history: keys of a failed HEAD or DELETE
          removed,    \* history: keys whose object a DELETE of the tool removed
          raced,      \* history: keys changed by others while a DELETE was due
          lost        \* history: keys whose unmarked object a DELETE removed

vars == <<bucket, late, pc, token, page, more, deleted, ctxDone, writes, faults,
          initial, touched, skipped, removed, raced, lost>>

call == <<token, page, more, deleted>>
server == <<bucket, late, removed, lost>>
environment == <<ctxDone, writes, initial, touched, raced>>

PcStates == {"list", "head", "delete", "done", "failed"}

Init == /\ bucket \in [Keys -> Objects]
        /\ late = {}
        /\ pc = "list"
        /\ token = 0
        /\ page = {}
        /\ more = FALSE
        /\ deleted = 0
        /\ ctxDone = FALSE
        /\ writes = 0 /\ faults = 0
        /\ initial = bucket
        /\ touched = {}
        /\ skipped = {}
        /\ removed = {} /\ raced = {} /\ lost = {}

Present == {k \in Keys : bucket[k] # "absent"}

Beyond(from) == {k \in Present : k > from}

\* The first PageSize keys after the token.
PageAfter(from) == {k \in Beyond(from) : Cardinality({j \in Beyond(from) : j <= k}) <= PageSize}

\* A request fails on its own, or because the context has ended.
Fail == \/ ctxDone /\ UNCHANGED faults
        \/ faults < Faults /\ faults' = faults + 1

Succeed == ~ctxDone /\ UNCHANGED faults

NextPageUnchecked == IF page' # {} \/ more' THEN "head" ELSE "done"

NextPage == IF page' # {} THEN "head" ELSE IF more' THEN "list" ELSE "done"

Rank(k) == Cardinality({j \in Present : j <= k})

ListByOffset ==
    /\ pc = "list" /\ Succeed
    /\ page' = {k \in Present : token < Rank(k) /\ Rank(k) <= token + PageSize}
    /\ more' = (token + PageSize < Cardinality(Present))
    /\ token' = token + Cardinality(page')
    /\ pc' = NextPage
    /\ UNCHANGED <<server, deleted, environment, skipped>>

ListFromStart ==
    /\ pc = "list" /\ Succeed
    /\ page' = PageAfter(token)
    /\ more' = (Beyond(token) # page')
    /\ pc' = NextPage
    /\ UNCHANGED <<token, server, deleted, environment, skipped>>

\* One page is an atomic picture of the bucket; the next is taken later.
List ==
    /\ pc = "list" /\ Succeed
    /\ page' = PageAfter(token)
    /\ more' = (Beyond(token) # page')
    /\ token' = IF page' = {} THEN token ELSE Max(page')
    /\ pc' = NextPage
    /\ UNCHANGED <<server, deleted, environment, skipped>>

ListFails ==
    /\ pc = "list" /\ Fail
    /\ pc' = "failed"
    /\ UNCHANGED <<server, call, environment, skipped>>

key == Min(page)

\* The loop's continue: the rest of the page, the next one, or the end.
Continue == /\ page' = page \ {key}
            /\ UNCHANGED <<token, more>>
            /\ pc' = NextPage

HeadUnchecked ==
    /\ pc = "head" /\ Succeed
    /\ bucket[key] # "absent"
    /\ pc' = "delete" /\ UNCHANGED <<token, page, more>>
    /\ UNCHANGED <<server, deleted, environment, skipped>>

\* The metadata decide: a match goes on to the DELETE, a mismatch to the next key.
Head ==
    /\ pc = "head" /\ Succeed
    /\ \/ bucket[key] = "marked" /\ pc' = "delete" /\ UNCHANGED <<token, page, more>>
       \/ bucket[key] = "unmarked" /\ Continue
    /\ UNCHANGED <<server, deleted, environment, skipped>>

\* An object that is gone answers with an error too; either way it is skipped.
HeadFails ==
    /\ pc = "head"
    /\ Fail \/ (bucket[key] = "absent" /\ UNCHANGED faults)
    /\ Continue
    /\ skipped' = skipped \cup {key}
    /\ UNCHANGED <<server, deleted, environment>>

\* The server deletes what is there now, and does not mind a key without object.
ServerDeletes(k) ==
    /\ bucket' = [bucket EXCEPT ![k] = "absent"]
    /\ removed' = IF bucket[k] = "absent" THEN removed ELSE removed \cup {k}
    /\ lost' = IF bucket[k] = "unmarked" THEN lost \cup {k} ELSE lost

\* The SDK may have sent the request before without an answer.
Delete ==
    /\ pc = "delete" /\ ~ctxDone
    /\ ServerDeletes(key)
    /\ \/ UNCHANGED <<late, faults>>
       \/ faults < Faults /\ faults' = faults + 1 /\ late' = late \cup {key}
    /\ Continue
    /\ deleted' = deleted + 1
    /\ UNCHANGED <<environment, skipped>>

DeleteFailsCounted ==
    /\ pc = "delete" /\ Fail
    /\ late' \in {late, late \cup {key}}
    /\ Continue
    /\ deleted' = deleted + 1
    /\ skipped' = skipped \cup {key}
    /\ UNCHANGED <<bucket, removed, lost, environment>>

\* The request is refused, or left without an answer and maybe on its way.  A
\* context that has ended did so after the HEAD, so the DELETE may have been sent.
DeleteFails ==
    /\ pc = "delete" /\ Fail
    /\ late' \in {late, late \cup {key}}
    /\ Continue
    /\ skipped' = skipped \cup {key}
    /\ UNCHANGED <<bucket, removed, lost, deleted, environment>>

\* The server carries out a DELETE nobody waits for any more.
LateDelete ==
    /\ \E k \in late : ServerDeletes(k) /\ late' = late \ {k}
    /\ UNCHANGED <<pc, call, faults, environment, skipped>>

CleanerStep == List \/ ListFails \/ Head \/ HeadFails \/ Delete \/ DeleteFails

Running == pc \notin {"done", "failed"}

\* The keys whose object the HEAD has found marked, and whose DELETE is due.
Due == late \cup IF pc = "delete" THEN {key} ELSE {}

\* Another client puts or deletes an object, a workload of the tool among them.
OtherClient ==
    /\ Running \/ late # {}
    /\ writes < OtherWrites
    /\ writes' = writes + 1
    /\ \E k \in Keys, o \in Objects :
          /\ o # bucket[k]
          /\ bucket' = [bucket EXCEPT ![k] = o]
          /\ touched' = touched \cup {k}
          /\ raced' = IF k \in Due THEN raced \cup {k} ELSE raced
    /\ UNCHANGED <<late, pc, call, ctxDone, faults, initial, skipped, removed, lost>>

CtxEnds ==
    /\ Running /\ ~ctxDone
    /\ ctxDone' = TRUE
    /\ UNCHANGED <<server, pc, call, writes, faults, initial, touched, raced, skipped>>

Terminated == ~Running /\ UNCHANGED vars

Next == CleanerStep \/ LateDelete \/ OtherClient \/ CtxEnds \/ Terminated

Spec == Init /\ [][Next]_vars

\* Every request gets its answer, or an error, in the end.
FairSpec == Spec /\ WF_vars(CleanerStep)

-----------------------------------------------------------------------------
(* Properties *)

\* The variables keep their types.
TypeOK == /\ bucket \in [Keys -> Objects] /\ late \subseteq Keys
          /\ pc \in PcStates
          /\ token \in 0 .. NumKeys
          /\ page \subseteq Keys
          /\ pc \in {"head", "delete"} => page # {}
          /\ more \in BOOLEAN /\ ctxDone \in BOOLEAN
          /\ deleted \in 0 .. NumKeys
          /\ writes \in 0 .. OtherWrites /\ faults \in 0 .. Faults

\* The listing's token is a key, so deleting behind it loses no key ahead of it:
\* a cleanup that reports success has deleted every marked object that was there
\* from the start, but for those whose requests failed or which others changed.
SweptUnlessSkipped ==
    pc = "done" =>
        \A k \in Keys \ (touched \cup skipped) :
            initial[k] = "marked" => bucket[k] = "absent"

\* The tool removes an object without its mark only when another client put it
\* there after the HEAD of this key and before its DELETE was carried out, which
\* may be long after the loop has gone on.  (docs/CLI.md:86 promises more, "delete
\* only tool-created objects": lost = {}, which that race refutes.)
UnmarkedSurvives == lost \subseteq raced

\* Undisturbed, the number that is logged counts exactly the deletions that were
\* confirmed: the objects that went without a confirmation are among the skipped.
DeletedIsConfirmed == touched = {} => deleted = Cardinality(removed \ skipped)

\* The cleanup comes to its end although objects are deleted, and put by others,
\* between its pages.
CleanupEnds == <>(pc \in {"done", "failed"})

-----------------------------------------------------------------------------
(* The inductive invariant behind the safety properties (CleanupProofs) *)

\* A key that no other client touched has its first object, or lost a marked one.
UntouchedInv ==
    \A k \in Keys \ touched :
        bucket[k] = initial[k] \/ (initial[k] = "marked" /\ bucket[k] = "absent")

\* A DELETE that is due is for a key whose object was marked, unless another client
\* has changed it since the beginning, or since the HEAD.
DeleteInv == \A k \in Due : /\ k \notin touched => initial[k] = "marked"
                            /\ k \notin raced => bucket[k] # "unmarked"

\* A DELETE that is late is for a key behind the loop, whose object has gone if the
\* deletion was confirmed.
LateInv == /\ late \subseteq (1 .. token) \ page
           /\ \A k \in late \ (skipped \cup touched) : bucket[k] = "absent"

\* The token is the last key of the page, and the page is used up between pages.
PageInv == /\ page \subseteq 1 .. token
           /\ pc = "list" => page = {}
           /\ pc = "done" => page = {} /\ ~more

\* Until it is deleted, a marked key is on the page or ahead of the token.
SweepInv ==
    \A k \in Keys \ (touched \cup skipped) :
        initial[k] = "marked" =>
            \/ bucket[k] = "absent"
            \/ k \in page
            \/ k > token /\ (more \/ pc \in {"list", "failed"})

\* What was deleted or skipped lies behind the token and is off the page, and
\* only what was deleted has changed.
BehindInv ==
    /\ removed \cup skipped \subseteq (1 .. token) \ page
    /\ \A k \in Keys \ (touched \cup removed) : bucket[k] = initial[k]
    /\ deleted + Cardinality(page) <= token

CleanupInv == /\ TypeOK /\ UntouchedInv /\ DeleteInv /\ LateInv /\ PageInv /\ SweepInv
              /\ BehindInv /\ DeletedIsConfirmed /\ UnmarkedSurvives
=============================================================================
