---------------------------- MODULE CleanupProofs ----------------------------
(***************************************************************************)
(* Proofs about Cleanup, for any number of keys, page size, number of      *)
(* writes by other clients and number of failed requests.                  *)
(***************************************************************************)
EXTENDS Cleanup, InductionFacts, FiniteSetTheorems

-----------------------------------------------------------------------------
(* Least and greatest keys *)

\* The least of a set of keys is one of them.
LEMMA LeastKey ==
    ASSUME NEW S, S \subseteq Keys, S # {}
    PROVE  Min(S) \in S /\ \A k \in S : Min(S) <= k
<1>1. \E x \in S : \A y \in S : x <= y
  BY LeastNumber DEF Keys
<1> QED
  BY <1>1 DEF Min

\* So is the greatest.
LEMMA GreatestKey ==
    ASSUME NEW S, S \subseteq Keys, S # {}
    PROVE  Max(S) \in S /\ \A k \in S : k <= Max(S)
<1> DEFINE T == {n \in Nat : \A k \in S : k <= n}
<1>0. NumKeys \in Nat /\ \A k \in S : k \in Nat /\ k >= 1 /\ k <= NumKeys
  BY CleanupAssumption DEF Keys
<1>1. T \in SUBSET Nat /\ NumKeys \in T
  BY <1>0
<1>2. PICK x \in T : \A y \in T : x <= y
  BY <1>1, LeastNumber
<1>3. x \in S
  <2> SUFFICES ASSUME x \notin S PROVE FALSE
    OBVIOUS
  <2>1. \A k \in S : k <= x - 1
    BY <1>0
  <2>2. x - 1 \in T
    BY <1>0, <2>1
  <2> QED
    BY <1>2, <2>2
<1>4. \E m \in S : \A y \in S : m >= y
  BY <1>3
<1>5. Max(S) \in S /\ \A y \in S : Max(S) >= y
  BY <1>4 DEF Max
<1> QED
  BY <1>0, <1>5

\* Any set of keys can be counted.
LEMMA KeysFinite ==
    ASSUME NEW S, S \subseteq Keys
    PROVE  IsFiniteSet(S) /\ Cardinality(S) \in Nat
<1>1. IsFiniteSet(Keys)
  BY CleanupAssumption, FS_Interval DEF Keys
<1>2. IsFiniteSet(S)
  BY <1>1, FS_Subset
<1> QED
  BY <1>2, FS_CardinalityType

-----------------------------------------------------------------------------
(* The pages *)

\* A page loses no key: each one beyond the token is on it or beyond its last.
LEMMA PageLosesNothing ==
    ASSUME TypeOK, page' = PageAfter(token), more' = (Beyond(token) # page'),
           token' = IF page' = {} THEN token ELSE Max(page')
    PROVE  /\ token' \in token .. NumKeys
           /\ page' \subseteq (token + 1) .. token'
           /\ \A k \in Beyond(token) : k \in page' \/ (k > token' /\ more')
<1> DEFINE B == Beyond(token)
           Upto(k) == {j \in B : j <= k}
<1>0. NumKeys \in Nat /\ PageSize \in Nat \ {0} /\ token \in 0 .. NumKeys
  BY CleanupAssumption DEF TypeOK
<1>1. B \subseteq Keys /\ \A k \in B : k \in Nat /\ k > token /\ k <= NumKeys
  BY <1>0 DEF Beyond, Present, Keys
<1>2. page' = {k \in B : Cardinality(Upto(k)) <= PageSize}
  BY DEF PageAfter
<1>3. ASSUME B # {} PROVE page' # {}
  <2>1. Min(B) \in B /\ \A k \in B : Min(B) <= k
    BY <1>1, <1>3, LeastKey
  <2>2. Upto(Min(B)) = {Min(B)}
    BY <1>1, <2>1
  <2>3. Cardinality(Upto(Min(B))) <= PageSize
    BY <1>0, <2>2, FS_Singleton
  <2> QED
    BY <1>2, <2>1, <2>3
<1>4. ASSUME page' # {} PROVE Max(page') \in page' /\ \A k \in page' : k <= Max(page')
  BY <1>1, <1>2, <1>4, GreatestKey
<1>5. token' \in token .. NumKeys /\ page' \subseteq (token + 1) .. token'
  BY <1>0, <1>1, <1>2, <1>4
<1>6. ASSUME NEW k \in B, k \notin page'
      PROVE  k > token' /\ more'
  <2>1. page' # {} /\ more'
    BY <1>2, <1>3, <1>6
  <2>2. \A m \in page' : m < k
    <3> SUFFICES ASSUME NEW m \in page', m >= k PROVE FALSE
      BY <1>1, <1>2
    <3>1. Upto(k) \subseteq Upto(m) /\ Upto(m) \subseteq Keys /\ m \in B
      BY <1>1, <1>2
    <3>2. Cardinality(Upto(k)) <= Cardinality(Upto(m))
      BY <3>1, KeysFinite, FS_Subset
    <3>3. Upto(k) \subseteq Keys /\ Cardinality(Upto(m)) <= PageSize
      BY <1>2, <3>1
    <3>4. Cardinality(Upto(k)) \in Nat /\ Cardinality(Upto(m)) \in Nat
      BY <3>1, <3>3, KeysFinite
    <3>5. Cardinality(Upto(k)) <= PageSize
      BY <1>0, <3>2, <3>3, <3>4
    <3> QED
      BY <1>2, <1>6, <3>5
  <2> QED
    BY <1>4, <2>1, <2>2
<1> QED
  BY <1>5, <1>6

\* The key that the loop is at is on the page.
LEMMA KeyOnPage ==
    ASSUME TypeOK, pc \in {"head", "delete"}
    PROVE  key \in page /\ key \in Keys
  BY LeastKey DEF TypeOK, key

\* The loop's continue takes one key off the page, and ends the page or the call
\* only when it has no more; the key's DELETE is due no longer, unless it is late.
LEMMA ContinueFacts ==
    ASSUME TypeOK, PageInv, pc \in {"head", "delete"}, Continue
    PROVE  /\ page' = page \ {key} /\ token' = token /\ more' = more
           /\ pc' \in {"head", "list", "done"}
           /\ pc' = "head" <=> page' # {}
           /\ pc' = "list" => more'
           /\ PageInv' /\ Due' = late'
           /\ Cardinality(page') = Cardinality(page) - 1
<1>1. /\ page' = page \ {key} /\ token' = token /\ more' = more
      /\ pc' \in {"head", "list", "done"}
      /\ pc' = "head" <=> page' # {}
      /\ pc' = "list" => more'
      /\ pc' = "done" => ~more'
  BY DEF Continue, NextPage
<1>2. PageInv' /\ Due' = late'
  BY <1>1 DEF PageInv, Due
<1>3. Cardinality(page') = Cardinality(page) - 1
  BY <1>1, KeyOnPage, KeysFinite, FS_RemoveElement DEF TypeOK
<1> QED
  BY <1>1, <1>2, <1>3

\* Going on to the next key loses no marked key that was ahead.
LEMMA ContinueSweeps ==
    ASSUME TypeOK, PageInv, SweepInv, pc \in {"head", "delete"}, Continue,
           UNCHANGED <<initial, touched>>, skipped \subseteq skipped',
           \A k \in Keys : k # key => bucket'[k] = bucket[k],
           \/ key \in skipped' \cup touched \/ bucket'[key] = "absent"
           \/ initial[key] # "marked"
    PROVE  SweepInv'
<1> SUFFICES ASSUME NEW k \in Keys \ (touched \cup skipped'), initial[k] = "marked"
             PROVE  \/ bucket'[k] = "absent"
                    \/ k \in page'
                    \/ k > token' /\ (more' \/ pc' \in {"list", "failed"})
  BY DEF SweepInv
<1>1. CASE k = key
  BY <1>1
<1>2. CASE k # key
  BY <1>2, ContinueFacts DEF SweepInv
<1> QED
  BY <1>1, <1>2

-----------------------------------------------------------------------------
(* The steps *)

\* A listing.
LEMMA ListKeeps == ASSUME CleanupInv, List PROVE CleanupInv'
<1> USE DEF CleanupInv
<1>0. /\ pc = "list" /\ page = {} /\ token \in Nat /\ token <= NumKeys /\ NumKeys \in Nat
      /\ pc' \in {"head", "list", "done"} /\ (pc' = "head" <=> page' # {})
      /\ (pc' = "list" => more') /\ (pc' = "done" => ~more') /\ more' \in BOOLEAN
      /\ UNCHANGED <<bucket, late, deleted, ctxDone, writes, initial, touched, raced, skipped,
                     removed, lost, faults>>
  BY CleanupAssumption DEF List, NextPage, environment, server, PageInv, Succeed, TypeOK
<1>1. /\ token' \in token .. NumKeys
      /\ page' \subseteq (token + 1) .. token'
      /\ \A k \in Beyond(token) : k \in page' \/ (k > token' /\ more')
  BY PageLosesNothing DEF List
<1>2. page' \subseteq Keys /\ page' \subseteq 1 .. token' /\ token' \in 0 .. NumKeys
  BY <1>0, <1>1 DEF Keys
<1>3. TypeOK'
  BY <1>0, <1>2 DEF TypeOK, PcStates
<1>4. UntouchedInv' /\ PageInv' /\ DeletedIsConfirmed' /\ UnmarkedSurvives'
  BY <1>0, <1>2 DEF UntouchedInv, PageInv, DeletedIsConfirmed, UnmarkedSurvives
<1>7. DeleteInv'
  <2>1. Due' = late /\ Due = late
    BY <1>0 DEF Due
  <2> QED
    BY <1>0, <2>1 DEF DeleteInv
<1>8. LateInv'
  BY <1>0, <1>1 DEF LateInv
<1>5. SweepInv'
  <2> SUFFICES ASSUME NEW k \in Keys \ (touched \cup skipped), initial[k] = "marked",
                      bucket[k] # "absent"
               PROVE  k \in page' \/ (k > token' /\ more')
    BY <1>0 DEF SweepInv
  <2>1. k > token
    BY <1>0 DEF SweepInv
  <2> QED
    BY <1>1, <2>1 DEF Beyond, Present
<1>6. BehindInv'
  <2>1. removed \cup skipped \subseteq (1 .. token') \ page'
    BY <1>0, <1>1 DEF BehindInv
  <2>2. Cardinality(page') <= token' - token
    <3>1. token + 1 \in Int /\ token' \in Int /\ token \in Int /\ token <= token'
      BY <1>0, <1>1
    <3>2. /\ IsFiniteSet((token + 1) .. token')
          /\ Cardinality((token + 1) .. token') =
                IF token + 1 > token' THEN 0 ELSE token' - (token + 1) + 1
      BY <3>1, FS_Interval
    <3>3. Cardinality((token + 1) .. token') = token' - token
      BY <3>1, <3>2
    <3> QED
      BY <1>1, <3>2, <3>3, FS_Subset
  <2>3. Cardinality(page) = 0
    BY <1>0, FS_EmptySet
  <2>4. Cardinality(page') \in Nat
    BY <1>2, KeysFinite
  <2>5. deleted \in Nat
    BY <1>0 DEF TypeOK
  <2> QED
    BY <1>0, <1>1, <2>1, <2>2, <2>3, <2>4, <2>5 DEF BehindInv
<1> QED
  BY <1>3, <1>4, <1>5, <1>6, <1>7, <1>8

\* The mark is found: a DELETE follows.
LEMMA MarkedKeeps ==
    ASSUME CleanupInv, Head, bucket[key] = "marked"
    PROVE  CleanupInv'
<1> USE DEF CleanupInv
<1>1. /\ pc = "head" /\ pc' = "delete"
      /\ UNCHANGED <<bucket, late, token, page, more, deleted, ctxDone, writes, faults,
                     initial, touched, raced, skipped, removed, lost>>
  BY DEF Head, Continue, Succeed, environment, server
<1>2. /\ TypeOK' /\ UntouchedInv' /\ PageInv' /\ BehindInv' /\ DeletedIsConfirmed'
      /\ LateInv' /\ UnmarkedSurvives'
  BY <1>1 DEF TypeOK, PcStates, UntouchedInv, PageInv, BehindInv, DeletedIsConfirmed,
              LateInv, UnmarkedSurvives
<1>3. DeleteInv'
  <2>1. Due' = late \cup {key} /\ Due = late /\ key \in Keys
    BY <1>1, KeyOnPage DEF Due, key
  <2>2. key \notin touched => initial[key] = "marked"
    BY <2>1 DEF UntouchedInv
  <2> QED
    BY <1>1, <2>1, <2>2 DEF DeleteInv
<1>4. SweepInv'
  BY <1>1 DEF SweepInv
<1> QED
  BY <1>2, <1>3, <1>4

\* What the invariant has left to show when the loop's continue is taken.
LEMMA ContinueKeeps ==
    ASSUME CleanupInv, pc \in {"head", "delete"}, Continue,
           UNCHANGED <<ctxDone, writes, initial, touched, raced>>, faults' \in 0 .. Faults,
           bucket' \in [Keys -> Objects], UntouchedInv', SweepInv', UnmarkedSurvives',
           late' \subseteq Due,
           \A k \in late' : k \notin raced => bucket'[k] # "unmarked",
           \A k \in late' \ (skipped' \cup touched) : bucket'[k] = "absent",
           \A k \in Keys \ (touched \cup removed') : bucket'[k] = initial[k],
           removed' \cup skipped' \subseteq removed \cup skipped \cup {key},
           deleted' \in {deleted, deleted + 1}, DeletedIsConfirmed'
    PROVE  CleanupInv'
<1> USE DEF CleanupInv
<1>0. /\ page' = page \ {key} /\ token' = token /\ more' = more
      /\ pc' \in {"head", "list", "done"} /\ (pc' = "head" <=> page' # {})
      /\ PageInv' /\ Due' = late' /\ Cardinality(page') = Cardinality(page) - 1
  BY ContinueFacts
<1>1. key \in page /\ page \subseteq 1 .. token /\ page \subseteq Keys
  BY KeyOnPage DEF PageInv, TypeOK
<1>2. /\ NumKeys \in Nat /\ token \in 0 .. NumKeys /\ deleted \in Nat
      /\ Cardinality(page) \in Nat /\ Cardinality(page') \in Nat
  <2>1. page' \subseteq Keys
    BY <1>0, <1>1
  <2>2. Cardinality(page) \in Nat /\ Cardinality(page') \in Nat
    BY <1>1, <2>1, KeysFinite
  <2> QED
    BY <2>2, CleanupAssumption DEF TypeOK
<1>3. deleted' + Cardinality(page') <= token /\ deleted' \in 0 .. NumKeys
  BY <1>0, <1>2 DEF BehindInv
<1>4. removed' \cup skipped' \subseteq (1 .. token') \ page'
  BY <1>0, <1>1 DEF BehindInv
<1>5. BehindInv'
  BY <1>0, <1>3, <1>4 DEF BehindInv
<1>6. late' \subseteq Keys /\ late' \subseteq (1 .. token) \ page'
  BY <1>0, <1>1 DEF Due, LateInv, TypeOK
<1>7. TypeOK'
  BY <1>0, <1>1, <1>3, <1>6 DEF TypeOK, PcStates
<1>8. LateInv' /\ DeleteInv'
  BY <1>0, <1>6 DEF LateInv, DeleteInv
<1> QED
  BY <1>0, <1>5, <1>7, <1>8

\* No mark is found, or nothing: the loop goes on.
LEMMA UnmarkedKeeps ==
    ASSUME CleanupInv, (Head /\ bucket[key] # "marked") \/ HeadFails
    PROVE  CleanupInv'
<1> USE DEF CleanupInv
<1>1. /\ pc = "head" /\ Continue
      /\ UNCHANGED <<bucket, late, deleted, ctxDone, writes, initial, touched, raced, removed,
                     lost>>
      /\ \/ bucket[key] = "unmarked" /\ skipped' = skipped
         \/ skipped' = skipped \cup {key}
  BY DEF Head, HeadFails, environment, server
<1>2. faults' \in 0 .. Faults
  BY CleanupAssumption DEF Head, HeadFails, Succeed, Fail, TypeOK
<1>3. key \in page /\ key \in Keys
  BY <1>1, KeyOnPage
<1>4. SweepInv'
  <2>1. key \in skipped' \cup touched \/ initial[key] # "marked"
    BY <1>1, <1>3 DEF UntouchedInv
  <2> QED
    BY <1>1, <2>1, ContinueSweeps
<1>5. DeletedIsConfirmed'
  <2>1. removed \ skipped' = removed \ skipped
    BY <1>1, <1>3 DEF BehindInv
  <2> QED
    BY <1>1, <2>1 DEF DeletedIsConfirmed
<1>6. UntouchedInv'
  BY <1>1 DEF UntouchedInv
<1>7. /\ bucket' \in [Keys -> Objects]
      /\ \A k \in Keys \ (touched \cup removed') : bucket'[k] = initial[k]
      /\ removed' \cup skipped' \subseteq removed \cup skipped \cup {key}
      /\ deleted' \in {deleted, deleted + 1}
  BY <1>1 DEF TypeOK, BehindInv
<1>8. /\ late' \subseteq Due
      /\ \A k \in late' : k \notin raced => bucket'[k] # "unmarked"
      /\ \A k \in late' \ (skipped' \cup touched) : bucket'[k] = "absent"
      /\ UnmarkedSurvives'
  BY <1>1 DEF Due, DeleteInv, LateInv, UnmarkedSurvives
<1> QED
  BY <1>1, <1>2, <1>4, <1>5, <1>6, <1>7, <1>8, ContinueKeeps

\* What the server does for a DELETE that is due keeps every untouched, unmarked
\* object, and takes another one only if its key was raced for.
LEMMA ServerKeepsUntouched ==
    ASSUME CleanupInv, NEW d \in Due, d \in Keys, ServerDeletes(d),
           UNCHANGED <<initial, touched, raced>>
    PROVE  /\ bucket' \in [Keys -> Objects] /\ UntouchedInv' /\ UnmarkedSurvives'
           /\ bucket'[d] = "absent"
           /\ \A k \in Keys : k # d => bucket'[k] = bucket[k]
           /\ \A k \in Keys \ (touched \cup removed') : bucket'[k] = initial[k]
           /\ removed' = IF bucket[d] = "absent" THEN removed ELSE removed \cup {d}
<1> USE DEF CleanupInv
<1>1. /\ bucket' \in [Keys -> Objects] /\ bucket'[d] = "absent"
      /\ \A k \in Keys : k # d => bucket'[k] = bucket[k]
  BY DEF ServerDeletes, Objects, TypeOK
<1>2. UntouchedInv'
  BY <1>1 DEF DeleteInv, UntouchedInv
<1>3. UnmarkedSurvives'
  BY DEF DeleteInv, UnmarkedSurvives, ServerDeletes
<1>4. removed' = IF bucket[d] = "absent" THEN removed ELSE removed \cup {d}
  BY DEF ServerDeletes
<1>5. \A k \in Keys \ (touched \cup removed') : bucket'[k] = initial[k]
  BY <1>1, <1>4 DEF BehindInv
<1> QED
  BY <1>1, <1>2, <1>3, <1>4, <1>5

\* A DELETE that is confirmed.
LEMMA DeleteKeeps == ASSUME CleanupInv, Delete PROVE CleanupInv'
<1> USE DEF CleanupInv
<1>1. /\ pc = "delete" /\ Continue /\ ServerDeletes(key)
      /\ deleted' = deleted + 1 /\ late' \in {late, late \cup {key}}
      /\ UNCHANGED <<ctxDone, writes, initial, touched, raced, skipped>>
  BY DEF Delete, environment
<1>2. faults' \in 0 .. Faults
  BY CleanupAssumption DEF Delete, TypeOK
<1>3. key \in page /\ key \in Keys /\ key \notin removed \cup skipped /\ key \in Due
  BY <1>1, KeyOnPage DEF BehindInv, Due
<1>4. /\ bucket' \in [Keys -> Objects] /\ UntouchedInv' /\ UnmarkedSurvives'
      /\ bucket'[key] = "absent"
      /\ \A k \in Keys : k # key => bucket'[k] = bucket[k]
      /\ \A k \in Keys \ (touched \cup removed') : bucket'[k] = initial[k]
      /\ removed' = IF bucket[key] = "absent" THEN removed ELSE removed \cup {key}
  BY <1>1, <1>3, ServerKeepsUntouched
<1>5. SweepInv'
  BY <1>1, <1>4, ContinueSweeps
<1>6. DeletedIsConfirmed'
  <2> SUFFICES ASSUME touched = {}
               PROVE  deleted' = Cardinality(removed' \ skipped')
    BY <1>1 DEF DeletedIsConfirmed
  <2>1. removed \ skipped \subseteq Keys
    BY CleanupAssumption DEF BehindInv, TypeOK, Keys
  <2>2. bucket[key] = "marked"
    BY <1>3 DEF BehindInv, DeleteInv
  <2>3. removed' \ skipped' = (removed \ skipped) \cup {key} /\ key \notin removed \ skipped
    BY <1>1, <1>3, <1>4, <2>2
  <2>4. Cardinality(removed' \ skipped') = Cardinality(removed \ skipped) + 1
    BY <2>1, <2>3, KeysFinite, FS_AddElement
  <2> QED
    BY <1>1, <2>4 DEF DeletedIsConfirmed
<1>7. /\ removed' \cup skipped' \subseteq removed \cup skipped \cup {key}
      /\ deleted' \in {deleted, deleted + 1}
  BY <1>1, <1>4
<1>8. late \subseteq Keys /\ late' \subseteq Due
  BY <1>1, <1>3 DEF Due, TypeOK
<1>9. /\ \A k \in late' : k \notin raced => bucket'[k] # "unmarked"
      /\ \A k \in late' \ (skipped' \cup touched) : bucket'[k] = "absent"
  BY <1>1, <1>4, <1>8 DEF DeleteInv, LateInv
<1> QED
  BY <1>1, <1>2, <1>4, <1>5, <1>6, <1>7, <1>8, <1>9, ContinueKeeps

\* A DELETE that is not confirmed, and may be late.
LEMMA DeleteFailsKeeps == ASSUME CleanupInv, DeleteFails PROVE CleanupInv'
<1> USE DEF CleanupInv
<1>1. /\ pc = "delete" /\ Continue /\ skipped' = skipped \cup {key}
      /\ late' \in {late, late \cup {key}}
      /\ UNCHANGED <<bucket, removed, lost, deleted, ctxDone, writes, initial, touched, raced>>
  BY DEF DeleteFails, environment
<1>2. faults' \in 0 .. Faults
  BY CleanupAssumption DEF DeleteFails, Fail, TypeOK
<1>3. key \in page /\ key \in Keys /\ key \notin removed /\ key \in Due
  BY <1>1, KeyOnPage DEF BehindInv, Due
<1>4. SweepInv'
  BY <1>1, ContinueSweeps
<1>5. DeletedIsConfirmed'
  <2>1. removed \ skipped' = removed \ skipped
    BY <1>1, <1>3
  <2> QED
    BY <1>1, <2>1 DEF DeletedIsConfirmed
<1>6. UntouchedInv' /\ UnmarkedSurvives'
  BY <1>1 DEF UntouchedInv, UnmarkedSurvives
<1>7. /\ bucket' \in [Keys -> Objects]
      /\ \A k \in Keys \ (touched \cup removed') : bucket'[k] = initial[k]
      /\ removed' \cup skipped' \subseteq removed \cup skipped \cup {key}
      /\ deleted' \in {deleted, deleted + 1}
  BY <1>1 DEF TypeOK, BehindInv
<1>8. late' \subseteq Due
  BY <1>1, <1>3 DEF Due
<1>9. /\ \A k \in late' : k \notin raced => bucket'[k] # "unmarked"
      /\ \A k \in late' \ (skipped' \cup touched) : bucket'[k] = "absent"
  BY <1>1, <1>8 DEF DeleteInv, LateInv
<1> QED
  BY <1>1, <1>2, <1>4, <1>5, <1>6, <1>7, <1>8, <1>9, ContinueKeeps

\* A DELETE that is carried out when the loop has gone on.
LEMMA LateDeleteKeeps == ASSUME CleanupInv, LateDelete PROVE CleanupInv'
<1> USE DEF CleanupInv
<1>1. PICK d \in late : ServerDeletes(d) /\ late' = late \ {d}
  BY DEF LateDelete
<1>2. UNCHANGED <<pc, token, page, more, deleted, faults, ctxDone, writes, initial, touched,
                  raced, skipped>>
  BY DEF LateDelete, call, environment
<1>3. d \in Due /\ d \in Keys
  BY DEF Due, TypeOK
<1>4. /\ bucket' \in [Keys -> Objects] /\ UntouchedInv' /\ UnmarkedSurvives'
      /\ bucket'[d] = "absent"
      /\ \A k \in Keys : k # d => bucket'[k] = bucket[k]
      /\ \A k \in Keys \ (touched \cup removed') : bucket'[k] = initial[k]
      /\ removed' = IF bucket[d] = "absent" THEN removed ELSE removed \cup {d}
  BY <1>1, <1>2, <1>3, ServerKeepsUntouched
<1>5. late' \subseteq Keys /\ TypeOK'
  BY <1>1, <1>2, <1>4 DEF TypeOK
<1>6. PageInv' /\ SweepInv'
  BY <1>2, <1>4 DEF PageInv, SweepInv
<1>7. Due' \subseteq Due /\ Due' \subseteq Keys
  BY <1>1, <1>2, <1>5, KeyOnPage DEF Due, key
<1>8. DeleteInv'
  BY <1>2, <1>4, <1>7 DEF DeleteInv
<1>9. LateInv'
  BY <1>1, <1>2, <1>4, <1>5 DEF LateInv
<1>10. BehindInv'
  BY <1>2, <1>3, <1>4 DEF BehindInv, LateInv
<1>11. DeletedIsConfirmed'
  <2> SUFFICES ASSUME touched = {}
               PROVE  deleted = Cardinality(removed' \ skipped)
    BY <1>2 DEF DeletedIsConfirmed
  <2>1. removed' \ skipped = removed \ skipped
    BY <1>4 DEF LateInv
  <2> QED
    BY <2>1 DEF DeletedIsConfirmed
<1> QED
  BY <1>4, <1>5, <1>6, <1>8, <1>9, <1>10, <1>11

\* A change by another client concerns a key that counts as touched from then on.
LEMMA OtherKeeps == ASSUME CleanupInv, OtherClient PROVE CleanupInv'
<1> USE DEF CleanupInv
<1>1. PICK k \in Keys, o \in Objects :
         /\ bucket' = [bucket EXCEPT ![k] = o] /\ touched' = touched \cup {k}
         /\ raced' = IF k \in Due THEN raced \cup {k} ELSE raced
  BY DEF OtherClient
<1>2. /\ UNCHANGED <<late, pc, token, page, more, deleted, ctxDone, faults, initial, skipped,
                     removed, lost>>
      /\ writes' \in 0 .. OtherWrites
  BY CleanupAssumption DEF OtherClient, call, TypeOK
<1>3. /\ TypeOK' /\ UntouchedInv' /\ PageInv' /\ DeletedIsConfirmed'
      /\ UnmarkedSurvives'
  BY <1>1, <1>2 DEF TypeOK, UntouchedInv, PageInv, DeletedIsConfirmed, UnmarkedSurvives
<1>4. DeleteInv' /\ LateInv'
  <2>1. Due' = Due /\ Due \subseteq Keys
    BY <1>2, KeyOnPage DEF Due, key, TypeOK
  <2>2. bucket \in [Keys -> Objects] /\ late \subseteq Keys
    BY DEF TypeOK
  <2>3. DeleteInv'
    BY <1>1, <1>2, <2>1, <2>2 DEF DeleteInv
  <2>4. LateInv'
    BY <1>1, <1>2, <2>2 DEF LateInv
  <2> QED
    BY <2>3, <2>4
<1>5. SweepInv'
  BY <1>1, <1>2 DEF SweepInv, TypeOK
<1>6. BehindInv'
  BY <1>1, <1>2 DEF BehindInv, TypeOK
<1> QED
  BY <1>3, <1>4, <1>5, <1>6

\* Steps that leave the bucket and the loop's place alone.
LEMMA RestKeeps ==
    ASSUME CleanupInv, ListFails \/ CtxEnds \/ UNCHANGED vars
    PROVE  CleanupInv'
<1> USE DEF CleanupInv
<1>1. /\ UNCHANGED <<bucket, late, token, page, more, deleted, writes, initial, touched, raced,
                     skipped, removed, lost>>
      /\ ctxDone' \in BOOLEAN /\ faults' \in 0 .. Faults
      /\ pc' = pc \/ (pc = "list" /\ pc' = "failed")
  <2>1. CASE ListFails
    <3>1. UNCHANGED <<server, call, environment, skipped>>
      BY <2>1 DEF ListFails
    <3>2. faults' \in 0 .. Faults
      BY <2>1, CleanupAssumption DEF ListFails, Fail, TypeOK
    <3> QED
      BY <2>1, <3>1, <3>2 DEF ListFails, call, environment, server, TypeOK
  <2>2. CASE CtxEnds
    BY <2>2 DEF CtxEnds, call, server, TypeOK
  <2>3. CASE UNCHANGED vars
    BY <2>3 DEF vars, TypeOK
  <2> QED
    BY <2>1, <2>2, <2>3
<1>2. /\ TypeOK' /\ UntouchedInv' /\ PageInv' /\ BehindInv' /\ DeletedIsConfirmed'
      /\ LateInv' /\ UnmarkedSurvives'
  BY <1>1 DEF TypeOK, PcStates, UntouchedInv, PageInv, BehindInv, DeletedIsConfirmed,
              LateInv, UnmarkedSurvives
<1>3. DeleteInv'
  <2>1. Due' = Due
    BY <1>1 DEF Due, key
  <2> QED
    BY <1>1, <2>1 DEF DeleteInv
<1>4. SweepInv'
  BY <1>1 DEF SweepInv
<1> QED
  BY <1>2, <1>3, <1>4

\* Every step keeps the invariant.
LEMMA StepCleanupInv == ASSUME CleanupInv, [Next]_vars PROVE CleanupInv'
<1>1. Head => CleanupInv'
  BY MarkedKeeps, UnmarkedKeeps
<1> QED
  BY <1>1, ListKeeps, UnmarkedKeeps, DeleteKeeps, DeleteFailsKeeps, LateDeleteKeeps,
     OtherKeeps, RestKeeps DEF Next, CleanerStep, Terminated

-----------------------------------------------------------------------------
(* The theorems *)

\* The cleanup begins before the first page, with every marked key ahead of it.
LEMMA InitCleanupInv == ASSUME Init PROVE CleanupInv
<1> USE CleanupAssumption DEF Init
<1>1. TypeOK
  <2>1. token \in 0 .. NumKeys /\ deleted \in 0 .. NumKeys
    OBVIOUS
  <2>2. writes \in 0 .. OtherWrites /\ faults \in 0 .. Faults
    OBVIOUS
  <2> QED
    BY <2>1, <2>2 DEF TypeOK, PcStates
<1>2. UntouchedInv /\ DeleteInv /\ LateInv /\ PageInv /\ UnmarkedSurvives
  BY DEF UntouchedInv, DeleteInv, Due, LateInv, PageInv, UnmarkedSurvives
<1>3. SweepInv
  BY DEF SweepInv, Keys
<1>4. BehindInv /\ DeletedIsConfirmed
  <2>1. Cardinality(page) = 0 /\ Cardinality(removed \ skipped) = 0
    BY FS_EmptySet
  <2> QED
    BY <2>1 DEF BehindInv, DeletedIsConfirmed
<1> QED
  BY <1>1, <1>2, <1>3, <1>4 DEF CleanupInv

\* The invariant holds in every reachable state.
THEOREM CleanupInductive == Spec => []CleanupInv
  BY InitCleanupInv, StepCleanupInv, PTL DEF Spec

\* The variables keep their types: no more is counted as deleted than was listed.
THEOREM CleanupTypeCorrect == Spec => []TypeOK
<1>1. CleanupInv => TypeOK
  BY DEF CleanupInv
<1> QED
  BY <1>1, CleanupInductive, PTL

\* Whatever other clients write and however late a DELETE is carried out, an object
\* without the mark goes only if it was put between the HEAD and that DELETE.
THEOREM CleanupSparesUnmarked == Spec => []UnmarkedSurvives
<1>1. CleanupInv => UnmarkedSurvives
  BY DEF CleanupInv
<1> QED
  BY <1>1, CleanupInductive, PTL

\* A cleanup that reports success has left no marked object behind, except for
\* those that other clients changed or whose requests failed, however many are
\* deleted while the listing goes on.
THEOREM CleanupSweeps == Spec => []SweptUnlessSkipped
<1>1. CleanupInv => SweptUnlessSkipped
  BY DEF CleanupInv, SweepInv, PageInv, SweptUnlessSkipped
<1> QED
  BY <1>1, CleanupInductive, PTL

\* Without other clients the number logged is that of the confirmed deletions.
THEOREM CleanupCounts == Spec => []DeletedIsConfirmed
<1>1. CleanupInv => DeletedIsConfirmed
  BY DEF CleanupInv
<1> QED
  BY <1>1, CleanupInductive, PTL
=============================================================================
