---------------------------- MODULE StartupProofs ----------------------------
(***************************************************************************)
(* Proofs about Startup, for every set of options and sizes, and for every *)
(* mix of percentages: the shares and the draws, not those of a few mixes. *)
(***************************************************************************)
EXTENDS Startup, InductionFacts, FiniteSetTheorems

-----------------------------------------------------------------------------
(* The arithmetic of the shares *)

\* What a quotient is.
LEMMA Quotients ==
    ASSUME NEW a \in Nat, NEW b \in Nat \ {0}
    PROVE  a \div b \in Nat /\ b * (a \div b) <= a /\ a < b * (a \div b) + b
  OBVIOUS

\* A factor that both sides have can be left out.
LEMMA Cancel ==
    ASSUME NEW a \in Nat, NEW b \in Nat, NEW t \in Nat \ {0}, a * t <= b * t
    PROVE  a <= b
<1>1. ASSUME b + 1 <= a PROVE FALSE
  <2>1. (b + 1) * t <= a * t
    BY <1>1
  <2>2. (b + 1) * t = b * t + t
    OBVIOUS
  <2> QED
    BY <2>1, <2>2
<1> QED
  BY <1>1

\* A share is proportional to its percentage, up to two points less.
LEMMA ShareIsNear ==
    ASSUME NEW p \in 0 .. 100, NEW t \in Nat \ {0}
    PROVE  /\ Share(p, t) \in Nat
           /\ Share(p, t) * t <= p * 100
           /\ p * 100 < (Share(p, t) + 2) * t
<1>1. p * 100 \in Nat
  OBVIOUS
<1>2. CASE t = 100
  BY <1>2 DEF Share
<1>3. CASE t # 100 /\ <<p, t>> \in FloatShort
  <2>1. \/ p = 97 /\ t = 97 /\ Share(p, t) = 99
        \/ p = 97 /\ t = 194 /\ Share(p, t) = 49
        \/ p = 77 /\ t = 385 /\ Share(p, t) = 19
        \/ p = 97 /\ t = 388 /\ Share(p, t) = 24
        \/ p = 77 /\ t = 770 /\ Share(p, t) = 9
    BY <1>3 DEF Share, FloatShort
  <2> QED
    BY <2>1
<1>4. CASE t # 100 /\ <<p, t>> \notin FloatShort
  <2> DEFINE q == (p * 100) \div t
  <2>1. Share(p, t) = q
    BY <1>4 DEF Share
  <2>2. q \in Nat /\ t * q <= p * 100 /\ p * 100 < t * q + t
    BY <1>1, Quotients
  <2> HIDE DEF q
  <2>3. q * t = t * q /\ (q + 2) * t = t * q + t + t
    BY <2>2
  <2> QED
    BY <2>1, <2>2, <2>3
<1> QED
  BY <1>2, <1>3, <1>4

\* The share of a percentage that is part of the total is a percentage.
LEMMA ShareIsPercent ==
    ASSUME NEW p \in 0 .. 100, NEW t \in Nat \ {0}, p <= t
    PROVE  Share(p, t) \in 0 .. 100
<1>1. Share(p, t) \in Nat /\ Share(p, t) * t <= p * 100
  BY ShareIsNear
<1>2. p * 100 <= 100 * t
  OBVIOUS
<1>3. Share(p, t) * t <= 100 * t
  BY <1>1, <1>2
<1> QED
  BY <1>1, <1>3, Cancel

\* Nothing has no share.
LEMMA NoShare == ASSUME NEW t \in Nat \ {0} PROVE Share(0, t) = 0
<1>1. <<0, t>> \notin FloatShort
  BY DEF FloatShort
<1>2. (0 * 100) \div t = 0
  <2>1. 0 \div t = 0
    BY Quotients
  <2> QED
    BY <2>1
<1> QED
  BY <1>1, <1>2 DEF Share

\* A percentage that is not 0 is positive.
LEMMA Positive == ASSUME NEW p \in 0 .. 100, p # 0 PROVE p \in Nat /\ p > 0
  OBVIOUS

-----------------------------------------------------------------------------
(* Mixes *)

Percentages(m) == DOMAIN m \subseteq OpNames /\ \A o \in DOMAIN m : m[o] \in 0 .. 100

\* The total of a mix is the least that each of its percentages is part of.
LEMMA TotalIsSum ==
    ASSUME NEW m, Percentages(m)
    PROVE  /\ \A o \in OpNames : Percent(m, o) \in 0 .. 100
           /\ Total(m) \in Nat
           /\ \A o \in DOMAIN m : m[o] <= Total(m)
<1>1. \A o \in OpNames : Percent(m, o) \in 0 .. 100
  BY DEF Percentages, Percent
<1>2. /\ Percent(m, "put") \in 0 .. 100 /\ Percent(m, "get") \in 0 .. 100
      /\ Percent(m, "delete") \in 0 .. 100 /\ Percent(m, "copy") \in 0 .. 100
      /\ Percent(m, "list") \in 0 .. 100 /\ Percent(m, "head") \in 0 .. 100
      /\ Percent(m, "multipart_put") \in 0 .. 100 /\ Percent(m, "unknown") \in 0 .. 100
  BY <1>1 DEF OpNames
<1>3. Total(m) \in Nat /\ \A o \in OpNames : Percent(m, o) <= Total(m)
  <2>1. Total(m) = Percent(m, "put") + Percent(m, "get") + Percent(m, "delete")
                     + Percent(m, "copy") + Percent(m, "list") + Percent(m, "head")
                     + Percent(m, "multipart_put") + Percent(m, "unknown")
    BY DEF Total
  <2>2. /\ Total(m) \in Nat
        /\ Percent(m, "put") <= Total(m) /\ Percent(m, "get") <= Total(m)
        /\ Percent(m, "delete") <= Total(m) /\ Percent(m, "copy") <= Total(m)
        /\ Percent(m, "list") <= Total(m) /\ Percent(m, "head") <= Total(m)
        /\ Percent(m, "multipart_put") <= Total(m) /\ Percent(m, "unknown") <= Total(m)
    <3>1. /\ Percent(m, "put") \in Nat /\ Percent(m, "get") \in Nat
          /\ Percent(m, "delete") \in Nat /\ Percent(m, "copy") \in Nat
          /\ Percent(m, "list") \in Nat /\ Percent(m, "head") \in Nat
          /\ Percent(m, "multipart_put") \in Nat /\ Percent(m, "unknown") \in Nat
      BY <1>2
    <3> QED
      BY <2>1, <3>1
  <2> QED
    BY <2>2 DEF OpNames
<1>4. \A o \in DOMAIN m : o \in OpNames /\ m[o] = Percent(m, o)
  BY DEF Percentages, Percent
<1> QED
  BY <1>1, <1>3, <1>4

Shares(m) == [o \in DOMAIN m |-> Share(m[o], Total(m))]

\* The shares of a mix are percentages again, and never more than 100 together.
LEMMA SharesAreMix ==
    ASSUME NEW m, Percentages(m), Total(m) # 0
    PROVE  Percentages(Shares(m)) /\ Total(Shares(m)) <= 100
<1> DEFINE t == Total(m)
           s(o) == Percent(Shares(m), o)
<1>1. t \in Nat \ {0} /\ \A o \in OpNames : Percent(m, o) \in 0 .. 100
  BY TotalIsSum
<1>2. Percentages(Shares(m))
  <2>1. ASSUME NEW o \in DOMAIN m PROVE Share(m[o], t) \in 0 .. 100
    <3>1. m[o] \in 0 .. 100 /\ m[o] <= t
      BY TotalIsSum DEF Percentages
    <3> HIDE DEF t
    <3> QED
      BY <1>1, <3>1, ShareIsPercent
  <2> QED
    BY <2>1 DEF Percentages, Shares
<1>3. ASSUME NEW o \in OpNames
      PROVE  s(o) \in Nat /\ s(o) * t <= Percent(m, o) * 100
  <2>1. s(o) = Share(Percent(m, o), t)
    BY <1>1, NoShare DEF Percent, Shares
  <2>2. Percent(m, o) \in 0 .. 100
    BY <1>1
  <2> HIDE DEF t, s
  <2> QED
    BY <1>1, <2>1, <2>2, ShareIsNear
<1>4. /\ t = Percent(m, "put") + Percent(m, "get") + Percent(m, "delete")
               + Percent(m, "copy") + Percent(m, "list") + Percent(m, "head")
               + Percent(m, "multipart_put") + Percent(m, "unknown")
      /\ Total(Shares(m)) = s("put") + s("get") + s("delete") + s("copy") + s("list")
                              + s("head") + s("multipart_put") + s("unknown")
  BY DEF Total
<1> HIDE DEF t, s
<1>5. /\ s("put") \in Nat /\ s("put") * t <= Percent(m, "put") * 100
      /\ s("get") \in Nat /\ s("get") * t <= Percent(m, "get") * 100
      /\ s("delete") \in Nat /\ s("delete") * t <= Percent(m, "delete") * 100
      /\ s("copy") \in Nat /\ s("copy") * t <= Percent(m, "copy") * 100
      /\ s("list") \in Nat /\ s("list") * t <= Percent(m, "list") * 100
      /\ s("head") \in Nat /\ s("head") * t <= Percent(m, "head") * 100
      /\ s("multipart_put") \in Nat
      /\ s("multipart_put") * t <= Percent(m, "multipart_put") * 100
      /\ s("unknown") \in Nat /\ s("unknown") * t <= Percent(m, "unknown") * 100
  BY <1>3 DEF OpNames
<1>6. /\ Percent(m, "put") \in Nat /\ Percent(m, "get") \in Nat
      /\ Percent(m, "delete") \in Nat /\ Percent(m, "copy") \in Nat
      /\ Percent(m, "list") \in Nat /\ Percent(m, "head") \in Nat
      /\ Percent(m, "multipart_put") \in Nat /\ Percent(m, "unknown") \in Nat
  BY <1>1 DEF OpNames
<1>7. /\ Total(Shares(m)) \in Nat
      /\ Total(Shares(m)) * t = s("put") * t + s("get") * t + s("delete") * t + s("copy") * t
                                  + s("list") * t + s("head") * t + s("multipart_put") * t
                                  + s("unknown") * t
  BY <1>1, <1>4, <1>5
<1>8. Total(Shares(m)) * t <= 100 * t
  <2>1. /\ s("put") * t \in Nat /\ s("get") * t \in Nat /\ s("delete") * t \in Nat
        /\ s("copy") * t \in Nat /\ s("list") * t \in Nat /\ s("head") * t \in Nat
        /\ s("multipart_put") * t \in Nat /\ s("unknown") * t \in Nat
    BY <1>1, <1>5
  <2> QED
    BY <1>1, <1>4, <1>5, <1>6, <1>7, <2>1
<1> QED
  BY <1>1, <1>2, <1>7, <1>8, Cancel

-----------------------------------------------------------------------------
(* The steps *)

\* The options have the types of what they parse to.
LEMMA GivenIsTyped ==
    ASSUME given \in Starts
    PROVE  /\ given \in StartType(given.mix)
           /\ DOMAIN given.mix \subseteq OpNames
           /\ DOMAIN Asked = DOMAIN given.mix \cup {"put", "get"}
           /\ DOMAIN Asked \subseteq OpNames
  BY StartupAssumption DEF Asked, Merge, DefaultMix, OpNames

\* Before the scheduler is built there is nothing in it.
Unbuilt == ops = <<>> /\ weights = <<>> /\ todo = {}

LEMMA UnbuiltInv ==
    ASSUME Unbuilt
    PROVE  /\ todo \subseteq DOMAIN mix /\ ops \in Seq(OpNames) /\ weights \in Seq(Nat)
           /\ Len(ops) = Len(weights)
           /\ 1 .. Len(ops) = {}
  BY DEF Unbuilt

LEMMA InitStartup == Init => StartupInv
<1> SUFFICES ASSUME Init
             PROVE  StartupInv
  OBVIOUS
<1> USE DEF Init
<1>1. Unbuilt
  BY DEF Unbuilt
<1>2. TypeOK
  BY <1>1, UnbuiltInv DEF TypeOK, Phases, DefaultMix, OpNames
<1>3. AcceptedInv /\ StartBreaksOnlyUnvalidated
  BY DEF AcceptedInv, Validated, HasRun, StartBreaksOnlyUnvalidated
<1>4. WeighInv
  BY <1>1, UnbuiltInv DEF WeighInv, HasRun, Unbuilt
<1> QED
  BY <1>2, <1>3, <1>4 DEF StartupInv

\* The mix that is loaded is the one that was asked for.
LEMMA LoadKeeps == ASSUME StartupInv, Load PROVE StartupInv'
<1> USE DEF StartupInv
<1>1. /\ phase = "load" /\ phase' = "loaded" /\ mix = DefaultMix
      /\ mix' = Merge(given.mix, DefaultMix)
      /\ UNCHANGED <<given, todo, ops, weights, op, size>>
  BY DEF Load, AcceptedInv
<1>2. Unbuilt /\ Unbuilt'
  BY <1>1 DEF WeighInv, HasRun, Unbuilt
<1>3. mix' = Asked' /\ Asked' = Asked
  BY <1>1 DEF Asked
<1>4. TypeOK'
  BY <1>1, <1>2, <1>3, UnbuiltInv, GivenIsTyped DEF TypeOK, Phases, Unbuilt
<1>5. AcceptedInv' /\ StartBreaksOnlyUnvalidated'
  BY <1>1, <1>3 DEF AcceptedInv, Validated, HasRun, StartBreaksOnlyUnvalidated
<1>6. WeighInv'
  BY <1>1, <1>2 DEF WeighInv, HasRun, Unbuilt
<1> QED
  BY <1>4, <1>5, <1>6

\* Validate accepts percentages and turns them into shares.
LEMMA ValidateKeeps == ASSUME StartupInv, Validate PROVE StartupInv'
<1> USE DEF StartupInv
<1>1. /\ phase = "loaded" /\ mix = Asked /\ given \in Starts
      /\ UNCHANGED <<given, todo, ops, weights, op, size>>
  BY DEF Validate, AcceptedInv, TypeOK
<1>2. Unbuilt /\ Unbuilt'
  BY <1>1 DEF WeighInv, HasRun, Unbuilt
<1>3. Asked' = Asked /\ (MultipartAccepted' <=> MultipartAccepted)
  BY <1>1 DEF Asked, MultipartAccepted
<1>4. CASE ~Accepted
  <2>1. phase' = "refused" /\ mix' = mix
    BY <1>4 DEF Validate
  <2>2. TypeOK'
    BY <1>1, <1>2, <2>1, UnbuiltInv DEF TypeOK, Phases, Unbuilt
  <2>3. AcceptedInv' /\ StartBreaksOnlyUnvalidated'
    BY <2>1 DEF AcceptedInv, Validated, HasRun, StartBreaksOnlyUnvalidated
  <2>4. WeighInv'
    BY <1>2, <2>1 DEF WeighInv, HasRun, Unbuilt
  <2> QED
    BY <2>2, <2>3, <2>4
<1>5. CASE Accepted
  <2>1. /\ phase' = "valid" /\ mix' = Shares(Asked)
        /\ \A o \in DOMAIN Asked : Asked[o] \in 0 .. 100
        /\ Total(Asked) # 0 /\ MultipartAccepted
    BY <1>1, <1>5 DEF Validate, Accepted, MixAccepted, Shares
  <2>2. Percentages(mix')
    BY <1>1, <2>1, GivenIsTyped, SharesAreMix DEF Percentages
  <2>3. TypeOK'
    BY <1>1, <1>2, <2>1, <2>2, UnbuiltInv DEF TypeOK, Phases, Unbuilt, Percentages
  <2>4. AcceptedInv'
    <3>1. mix' = [o \in DOMAIN Asked' |-> Share(Asked'[o], Total(Asked'))]
      BY <1>3, <2>1 DEF Shares
    <3>2. /\ \A o \in DOMAIN Asked' : Asked'[o] \in 0 .. 100
          /\ Total(Asked') # 0 /\ MultipartAccepted'
      BY <1>3, <2>1
    <3> QED
      BY <2>1, <3>1, <3>2 DEF AcceptedInv, HasRun
  <2>5. StartBreaksOnlyUnvalidated'
    BY <2>1 DEF StartBreaksOnlyUnvalidated
  <2>6. WeighInv'
    BY <1>2, <2>1 DEF WeighInv, HasRun, Unbuilt
  <2> QED
    BY <2>3, <2>4, <2>5, <2>6
<1> QED
  BY <1>4, <1>5

\* What AcceptedInv says once Validate has let a configuration through.
Shared == /\ \A o \in DOMAIN Asked : Asked[o] \in 0 .. 100
          /\ Total(Asked) # 0 /\ MultipartAccepted
          /\ mix = [o \in DOMAIN Asked |-> Share(Asked[o], Total(Asked))]

\* It stays as long as the options and the mix do.
LEMMA SharedStays ==
    ASSUME Shared, UNCHANGED <<given, mix>>
    PROVE  Shared'
<1>1. Asked' = Asked /\ (MultipartAccepted' <=> MultipartAccepted) /\ mix' = mix
  BY DEF Asked, MultipartAccepted
<1> QED
  BY <1>1 DEF Shared

\* New builds the generator from a pattern and sizes that it can parse.
LEMMA BuildKeeps == ASSUME StartupInv, Build PROVE StartupInv'
<1> USE DEF StartupInv
<1>1. /\ phase = "valid" /\ Unbuilt /\ Shared
      /\ UNCHANGED <<given, mix, ops, weights, op, size>>
      /\ \/ phase' = "refused" /\ todo' = todo
         \/ phase' = "weigh" /\ todo' = DOMAIN mix /\ given.size.kind # "malformed"
  BY DEF Build, AcceptedInv, Validated, WeighInv, HasRun, Unbuilt, Shared
<1>2. Shared'
  BY <1>1, SharedStays
<1>3. ops' = <<>> /\ weights' = <<>> /\ 1 .. Len(ops') = {}
  BY <1>1, UnbuiltInv DEF Unbuilt
<1>4. \A o \in DOMAIN mix : mix[o] \in 0 .. 100
  BY <1>1 DEF TypeOK
<1>5. TypeOK'
  BY <1>1, <1>3, <1>4 DEF TypeOK, Phases, Unbuilt
<1>6. AcceptedInv' /\ StartBreaksOnlyUnvalidated'
  BY <1>1, <1>2 DEF AcceptedInv, Validated, HasRun, StartBreaksOnlyUnvalidated, Shared
<1>7. WeighInv'
  BY <1>1, <1>3 DEF WeighInv, HasRun, Unbuilt
<1> QED
  BY <1>5, <1>6, <1>7

\* What appending does to a sequence.
LEMMA Appended ==
    ASSUME NEW S, NEW s \in Seq(S), NEW e \in S
    PROVE  /\ Append(s, e) \in Seq(S)
           /\ Len(s) \in Nat /\ Len(Append(s, e)) = Len(s) + 1
           /\ \A i \in 1 .. Len(s) : Append(s, e)[i] = s[i]
           /\ Append(s, e)[Len(s) + 1] = e
  OBVIOUS

\* The last weight is above all others, and Cumulative is that weight.
LEMMA CumulativeIsLast ==
    ASSUME TypeOK, WeighInv
    PROVE  /\ Cumulative \in Nat
           /\ Len(weights) > 0 => Cumulative = weights[Len(weights)]
           /\ \A j \in 1 .. Len(weights) : weights[j] \in Nat /\ weights[j] <= Cumulative
<1>1. weights \in Seq(Nat) /\ Len(ops) = Len(weights) /\ Len(weights) \in Nat
  BY DEF TypeOK
<1>2. CASE weights = <<>>
  <2>1. Len(weights) = 0 /\ Cumulative = 0
    BY <1>2 DEF Cumulative
  <2> QED
    BY <2>1
<1>3. CASE weights # <<>>
  <2>1. Len(weights) \in 1 .. Len(weights) /\ Cumulative = weights[Len(weights)]
    BY <1>1, <1>3 DEF Cumulative
  <2>2. ASSUME NEW j \in 1 .. Len(weights) PROVE weights[j] <= Cumulative
    <3>1. CASE j = Len(weights)
      BY <1>1, <2>1, <3>1
    <3>2. CASE j # Len(weights)
      <4>1. j \in 1 .. Len(weights) - 1
        BY <1>1, <3>2
      <4>2. weights[j] < weights[Len(weights)]
        BY <1>1, <2>1, <4>1 DEF WeighInv
      <4>3. weights[j] \in Nat /\ weights[Len(weights)] \in Nat
        BY <1>1, <2>1
      <4> QED
        BY <2>1, <4>2, <4>3
    <3> QED
      BY <3>1, <3>2
  <2> QED
    BY <1>1, <2>1, <2>2
<1> QED
  BY <1>2, <1>3

\* Visiting an operation of the mix keeps the scheduler's weights in order.
LEMMA WeighKeeps == ASSUME StartupInv, WeighOp PROVE StartupInv'
<1> USE DEF StartupInv
<1>1. /\ phase = "weigh" /\ UNCHANGED <<given, phase, mix, op, size>>
      /\ \E o \in todo : /\ todo' = todo \ {o}
                         /\ \/ mix[o] = 0 /\ UNCHANGED <<ops, weights>>
                            \/ /\ mix[o] # 0
                               /\ ops' = Append(ops, o)
                               /\ weights' = Append(weights, Cumulative + mix[o])
  BY DEF WeighOp
<1>2. PICK o \in todo : /\ todo' = todo \ {o}
                        /\ \/ mix[o] = 0 /\ UNCHANGED <<ops, weights>>
                           \/ /\ mix[o] # 0
                              /\ ops' = Append(ops, o)
                              /\ weights' = Append(weights, Cumulative + mix[o])
  BY <1>1
<1>3. Shared /\ given.size.kind # "malformed"
  BY <1>1 DEF AcceptedInv, Validated, Shared
<1>4. Shared'
  BY <1>1, <1>3, SharedStays
<1>5. AcceptedInv' /\ StartBreaksOnlyUnvalidated'
  BY <1>1, <1>3, <1>4 DEF AcceptedInv, Validated, Shared, HasRun, StartBreaksOnlyUnvalidated
<1>6. /\ o \in DOMAIN mix /\ o \in OpNames /\ mix[o] \in 0 .. 100
      /\ \A a \in DOMAIN mix : mix[a] \in 0 .. 100
      /\ ops \in Seq(OpNames) /\ weights \in Seq(Nat) /\ Len(ops) = Len(weights)
      /\ Len(ops) \in Nat
  BY <1>1, <1>2 DEF TypeOK
<1>7. CASE mix[o] = 0 /\ UNCHANGED <<ops, weights>>
  <2>1. TypeOK'
    BY <1>1, <1>2, <1>6, <1>7 DEF TypeOK
  <2>2. \A i \in 1 .. Len(ops) : Below(i)' = Below(i)
    BY <1>7 DEF Below
  <2>3. \A a \in DOMAIN mix \ todo' : mix[a] # 0 => a \in DOMAIN mix \ todo
    BY <1>2, <1>7
  <2>4. WeighInv'
    BY <1>1, <1>2, <1>7, <2>2, <2>3 DEF WeighInv, HasRun
  <2> QED
    BY <1>5, <2>1, <2>4
<1>8. CASE /\ mix[o] # 0
           /\ ops' = Append(ops, o)
           /\ weights' = Append(weights, Cumulative + mix[o])
  <2> DEFINE n == Len(ops)
  <2>0. n \in Nat
    BY <1>6
  <2>1. Cumulative \in Nat /\ mix[o] \in Nat /\ mix[o] > 0 /\ Cumulative + mix[o] \in Nat
    <3>1. Cumulative \in Nat
      BY CumulativeIsLast
    <3>2. mix[o] \in Nat /\ mix[o] > 0
      <4>1. mix[o] \in 0 .. 100 /\ mix[o] # 0
        BY <1>6, <1>8
      <4> QED
        BY <4>1
    <3> QED
      BY <3>1, <3>2
  <2>2. /\ ops' \in Seq(OpNames) /\ Len(ops') = n + 1 /\ ops'[n + 1] = o
        /\ \A i \in 1 .. n : ops'[i] = ops[i]
    BY <1>6, <1>8, Appended
  <2>3. /\ weights' \in Seq(Nat) /\ Len(weights') = n + 1
        /\ weights'[n + 1] = Cumulative + mix[o]
        /\ \A i \in 1 .. n : weights'[i] = weights[i]
    BY <1>6, <1>8, <2>1, Appended
  <2>4. TypeOK'
    BY <1>1, <1>2, <1>6, <2>2, <2>3 DEF TypeOK
  <2>5. ASSUME NEW i \in 1 .. n + 1
        PROVE  /\ ops'[i] \in DOMAIN mix \ todo'
               /\ mix[ops'[i]] # 0
               /\ weights'[i] = Below(i)' + mix[ops'[i]]
               /\ \A j \in 1 .. i - 1 : weights'[j] < weights'[i] /\ ops'[j] # ops'[i]
    <3>1. CASE i \in 1 .. n
      <4>1. Below(i)' = Below(i)
        <5>1. CASE i = 1
          BY <5>1 DEF Below
        <5>2. CASE i # 1
          <6>1. i - 1 \in 1 .. n
            BY <1>6, <3>1, <5>2
          <6> QED
            BY <2>3, <5>2, <6>1 DEF Below
        <5> QED
          BY <5>1, <5>2
      <4>2. \A j \in 1 .. i - 1 : j \in 1 .. n
        BY <1>6, <3>1
      <4>3. ops'[i] = ops[i] /\ weights'[i] = weights[i]
        BY <2>2, <2>3, <3>1
      <4>4. /\ ops[i] \in DOMAIN mix \ todo /\ mix[ops[i]] # 0
            /\ weights[i] = Below(i) + mix[ops[i]]
            /\ \A j \in 1 .. i - 1 : weights[j] < weights[i] /\ ops[j] # ops[i]
        BY <3>1 DEF WeighInv
      <4> QED
        BY <1>2, <2>2, <2>3, <4>1, <4>2, <4>3, <4>4
    <3>2. CASE i = n + 1
      <4>1. Below(i)' = Cumulative
        <5>1. CASE n = 0
          <6>1. i = 1 /\ Len(weights) = 0
            BY <1>6, <3>2, <5>1
          <6>2. weights = <<>>
            BY <1>6, <6>1
          <6> QED
            BY <6>1, <6>2 DEF Below, Cumulative
        <5>2. CASE n # 0
          <6>1. i # 1 /\ i - 1 = n /\ n \in 1 .. n /\ Len(weights) > 0
            BY <1>6, <3>2, <5>2
          <6>2. Cumulative = weights[n]
            BY <1>6, <6>1, CumulativeIsLast
          <6> QED
            BY <2>3, <6>1, <6>2 DEF Below
        <5> QED
          BY <5>1, <5>2
      <4>2. ASSUME NEW j \in 1 .. n
            PROVE  weights'[j] < weights'[i] /\ ops'[j] # ops'[i]
        <5>1. weights[j] \in Nat /\ weights[j] <= Cumulative
          BY <1>6, CumulativeIsLast
        <5>2. weights'[j] < weights'[i]
          <6>1. weights'[j] = weights[j] /\ weights'[i] = Cumulative + mix[o]
            BY <2>3, <3>2
          <6> QED
            BY <2>1, <5>1, <6>1
        <5>3. ops[j] \notin todo
          BY DEF WeighInv
        <5> QED
          BY <2>2, <3>2, <5>2, <5>3
      <4>3. i - 1 = n
        BY <1>6, <3>2
      <4>4. ops'[i] = o /\ weights'[i] = Cumulative + mix[o]
        BY <2>2, <2>3, <3>2
      <4> QED
        BY <1>2, <1>6, <1>8, <4>1, <4>2, <4>3, <4>4
    <3>3. i \in 1 .. n \/ i = n + 1
      <4> HIDE DEF n
      <4> QED
        BY <2>0
    <3> QED
      BY <3>1, <3>2, <3>3
  <2>6. ASSUME NEW a \in DOMAIN mix \ todo', mix[a] # 0
        PROVE  \E i \in 1 .. n + 1 : ops'[i] = a
    <3>1. CASE a = o
      BY <1>6, <2>2, <3>1
    <3>2. CASE a # o
      <4>1. PICK i \in 1 .. n : ops[i] = a
        BY <1>1, <1>2, <2>6, <3>2 DEF WeighInv
      <4>2. i \in 1 .. n + 1
        BY <1>6
      <4> QED
        BY <2>2, <4>1, <4>2
    <3> QED
      BY <3>1, <3>2
  <2>7. WeighInv'
    BY <1>1, <2>2, <2>5, <2>6 DEF WeighInv, HasRun
  <2> QED
    BY <1>5, <2>4, <2>7
<1> QED
  BY <1>2, <1>7, <1>8

\* A scheduler that is built and the operations it draws.
LEMMA Running ==
    ASSUME StartupInv, UNCHANGED <<given, mix, todo, ops, weights>>,
           phase = "weigh" \/ HasRun, HasRun', todo = {}, TypeOK'
    PROVE  AcceptedInv' /\ WeighInv'
<1> USE DEF StartupInv
<1>1. Shared /\ given.size.kind # "malformed"
  BY DEF AcceptedInv, Validated, Shared
<1>2. Shared'
  BY <1>1, SharedStays
<1>3. AcceptedInv'
  BY <1>1, <1>2 DEF AcceptedInv, Shared, HasRun
<1>4. \A i \in 1 .. Len(ops) : Below(i)' = Below(i)
  BY DEF Below
<1>5. \A i \in 1 .. Len(ops) :
          /\ ops[i] \in DOMAIN mix \ todo
          /\ mix[ops[i]] # 0
          /\ weights[i] = Below(i) + mix[ops[i]]
          /\ \A j \in 1 .. i - 1 : weights[j] < weights[i] /\ ops[j] # ops[i]
  BY DEF WeighInv
<1>6. \A o \in DOMAIN mix \ todo : mix[o] # 0 => \E i \in 1 .. Len(ops) : ops[i] = o
  BY DEF WeighInv
<1>7. phase' # "weigh"
  BY DEF HasRun
<1>8. WeighInv'
  BY <1>4, <1>5, <1>6, <1>7 DEF WeighInv
<1> QED
  BY <1>3, <1>8

LEMMA BuiltKeeps == ASSUME StartupInv, Built PROVE StartupInv'
<1> USE DEF StartupInv
<1>1. /\ phase = "weigh" /\ phase' = "ready" /\ todo = {}
      /\ UNCHANGED <<given, mix, todo, ops, weights, op, size>>
  BY DEF Built
<1>2. TypeOK'
  BY <1>1 DEF TypeOK, Phases
<1>3. StartBreaksOnlyUnvalidated'
  BY <1>1 DEF StartBreaksOnlyUnvalidated
<1> QED
  BY <1>1, <1>2, <1>3, Running DEF HasRun

\* Below the last weight, a number is drawn for the first operation whose weight
\* is above it.
LEMMA PickIsFirst ==
    ASSUME TypeOK, WeighInv, NEW r \in Draws
    PROVE  \E i \in 1 .. Len(ops) :
              /\ Pick(r) = ops[i]
              /\ r < weights[i]
              /\ \A j \in 1 .. i - 1 : ~(r < weights[j])
<1>1. /\ weights \in Seq(Nat) /\ Len(weights) = Len(ops) /\ Len(ops) \in Nat
      /\ DOMAIN weights = 1 .. Len(ops)
  BY DEF TypeOK
<1>2. r \in Int /\ r >= 0 /\ r < Cumulative /\ Cumulative \in Nat
  BY CumulativeIsLast DEF Draws
<1> DEFINE T == {i \in 1 .. Len(ops) : r < weights[i]}
<1>3. Len(ops) \in T
  <2>1. weights # <<>>
    BY <1>2 DEF Cumulative
  <2>2. Len(weights) > 0
    BY <1>1, <2>1
  <2>3. Len(ops) \in 1 .. Len(ops) /\ Cumulative = weights[Len(ops)]
    BY <1>1, <2>2, CumulativeIsLast
  <2> QED
    BY <1>2, <2>3
<1>4. T \in SUBSET Nat /\ T # {}
  BY <1>3
<1>5. PICK i \in T : \A j \in T : i <= j
  BY <1>4, LeastNumber
<1>6. \A j \in 1 .. i - 1 : ~(r < weights[j])
  <2> SUFFICES ASSUME NEW j \in 1 .. i - 1, r < weights[j]
               PROVE  FALSE
    OBVIOUS
  <2>1. i \in 1 .. Len(ops) /\ j \in 1 .. Len(ops) /\ ~(i <= j)
    BY <1>1
  <2> QED
    BY <1>5, <2>1
<1>7. \E k \in DOMAIN weights : r < weights[k] /\ \A j \in 1 .. k - 1 : ~(r < weights[j])
  BY <1>1, <1>6
<1> DEFINE k == CHOOSE n \in DOMAIN weights :
                    r < weights[n] /\ \A j \in 1 .. n - 1 : ~(r < weights[j])
<1>8. /\ k \in DOMAIN weights /\ r < weights[k]
      /\ \A j \in 1 .. k - 1 : ~(r < weights[j])
  BY <1>7
<1>9. Pick(r) = ops[k]
  BY DEF Pick
<1> HIDE DEF k
<1> QED
  BY <1>1, <1>8, <1>9

LEMMA DrawKeeps == ASSUME StartupInv, Draw PROVE StartupInv'
<1> USE DEF StartupInv
<1>1. /\ phase = "ready" /\ \E r \in Draws : op' = Pick(r)
      /\ phase' = IF Sizeless(op') THEN "ready" ELSE "size"
      /\ UNCHANGED <<given, mix, todo, ops, weights, size>>
  BY DEF Draw
<1>2. op' \in OpNames
  <2>1. PICK r \in Draws : op' = Pick(r)
    BY <1>1
  <2>2. PICK i \in 1 .. Len(ops) : op' = ops[i]
    BY <2>1, PickIsFirst
  <2>3. ops \in Seq(OpNames)
    BY DEF TypeOK
  <2> QED
    BY <2>2, <2>3
<1>3. phase' \in {"ready", "size"} /\ todo = {}
  BY <1>1 DEF WeighInv, HasRun
<1>4. TypeOK'
  BY <1>1, <1>2, <1>3 DEF TypeOK, Phases
<1>5. StartBreaksOnlyUnvalidated'
  BY <1>3 DEF StartBreaksOnlyUnvalidated
<1> QED
  BY <1>1, <1>3, <1>4, <1>5, Running DEF HasRun

\* A distribution that New has parsed has sizes, but for an empty range.
LEMMA SizesAreThere ==
    ASSUME given \in Starts, given.size.kind # "malformed"
    PROVE  /\ SizesOf(given.size) \subseteq Nat
           /\ SizesOf(given.size) = {} => /\ given.size.kind = "uniform"
                                          /\ given.size.min > given.size.max
<1>1. given.size \in SizeType
  BY GivenIsTyped DEF StartType
<1>2. /\ given.size.kind \in {"fixed", "uniform", "lognormal"}
      /\ given.size.min \in Nat /\ given.size.max \in Nat
  BY <1>1 DEF SizeType
<1>3. CASE given.size.kind = "fixed"
  BY <1>2, <1>3 DEF SizesOf
<1>4. CASE given.size.kind = "uniform"
  <2>1. SizesOf(given.size) = given.size.min .. given.size.max
    BY <1>4 DEF SizesOf
  <2>2. given.size.min <= given.size.max => given.size.min \in SizesOf(given.size)
    BY <1>2, <2>1
  <2>3. SizesOf(given.size) \subseteq Nat
    BY <1>2, <2>1
  <2> QED
    BY <1>2, <1>4, <2>2, <2>3
<1>5. CASE given.size.kind = "lognormal"
  BY <1>2, <1>5, StartupAssumption DEF SizesOf
<1> QED
  BY <1>2, <1>3, <1>4, <1>5

LEMMA DrawSizeKeeps == ASSUME StartupInv, DrawSize PROVE StartupInv'
<1> USE DEF StartupInv
<1>1. /\ phase = "size" /\ UNCHANGED <<given, mix, todo, ops, weights, op>>
      /\ \/ SizesOf(given.size) = {} /\ phase' = "panicked" /\ size' = size
         \/ size' \in SizesOf(given.size) /\ phase' = "upload"
  BY DEF DrawSize
<1>2. given \in Starts /\ given.size.kind # "malformed" /\ todo = {}
  BY <1>1 DEF TypeOK, AcceptedInv, WeighInv, HasRun
<1>3. TypeOK'
  BY <1>1, <1>2, SizesAreThere DEF TypeOK, Phases
<1>4. StartBreaksOnlyUnvalidated'
  BY <1>1, <1>2, SizesAreThere DEF StartBreaksOnlyUnvalidated
<1> QED
  BY <1>1, <1>2, <1>3, <1>4, Running DEF HasRun

\* With parts of a positive size and some of them at a time, nothing goes wrong.
LEMMA PartsAreFine ==
    ASSUME TypeOK, given.partSize >= 1, given.maxParts >= 1
    PROVE  ~Panics /\ ~Blocks
<1>1. /\ given.partSize \in Int /\ given.maxParts \in Int /\ size \in Nat
  BY GivenIsTyped DEF TypeOK, StartType
<1>2. given.partSize \in Nat \ {0} /\ size + given.partSize - 1 \in Nat
  BY <1>1
<1>3. NumParts = (size + given.partSize - 1) \div given.partSize
  BY <1>1, <1>2 DEF NumParts, Quotient
<1>4. NumParts \in Nat
  BY <1>2, <1>3, Quotients
<1> QED
  BY <1>1, <1>2, <1>4 DEF Panics, Blocks

\* The least number of parts at a time that Validate accepts.
LEMMA SomeParts == ASSUME NEW n \in PartsAtOnce PROVE n >= 1
  BY DEF PartsAtOnce

LEMMA UploadKeeps == ASSUME StartupInv, Upload PROVE StartupInv'
<1> USE DEF StartupInv
<1>1. /\ phase = "upload" /\ UNCHANGED <<given, mix, todo, ops, weights, op, size>>
      /\ \/ phase' = "ready"
         \/ ByParts /\ (Panics \/ Blocks) /\ phase' \in {"panicked", "hung"}
  BY DEF Upload
<1>2. MultipartAccepted /\ todo = {}
  BY <1>1 DEF AcceptedInv, WeighInv, Validated, HasRun
<1>3. TypeOK'
  BY <1>1 DEF TypeOK, Phases
<1>4. StartBreaksOnlyUnvalidated'
  <2> SUFFICES ASSUME ByParts, Panics \/ Blocks
               PROVE  /\ op = "multipart_put" /\ ~given.multipart
                      /\ given.partSize < 1 \/ given.maxParts < 1
    BY <1>1 DEF StartBreaksOnlyUnvalidated
  <2>1. given.partSize \in Int /\ given.maxParts \in Int
    BY GivenIsTyped DEF TypeOK, StartType
  <2>2. ~(given.partSize >= 1 /\ given.maxParts >= 1)
    BY PartsAreFine
  <2>3. ASSUME given.multipart PROVE given.partSize >= 1 /\ given.maxParts >= 1
    <3>1. given.partSize >= 5
      BY <1>2, <2>3 DEF MultipartAccepted, MinPartSize
    <3>2. given.maxParts >= 1
      <4>1. given.maxParts \in PartsAtOnce
        BY <1>2, <2>3 DEF MultipartAccepted
      <4> QED
        BY <4>1, SomeParts
    <3> QED
      BY <2>1, <3>1, <3>2
  <2>4. given.partSize < 1 \/ given.maxParts < 1
    BY <2>1, <2>2
  <2> QED
    BY <2>2, <2>3, <2>4 DEF ByParts
<1> QED
  BY <1>1, <1>2, <1>3, <1>4, Running DEF HasRun

\* Nothing happens.
LEMMA StutterKeeps == ASSUME StartupInv, UNCHANGED vars PROVE StartupInv'
<1>1. /\ given' = given /\ phase' = phase /\ mix' = mix /\ todo' = todo /\ ops' = ops
      /\ weights' = weights /\ op' = op /\ size' = size
  BY DEF vars
<1>2. TypeOK' /\ StartBreaksOnlyUnvalidated'
  BY <1>1 DEF StartupInv, TypeOK, StartBreaksOnlyUnvalidated
<1>3. AcceptedInv'
  <2>1. Shared => Shared'
    BY <1>1, SharedStays
  <2>2. Asked' = Asked
    BY <1>1 DEF Asked
  <2> QED
    BY <1>1, <2>1, <2>2 DEF StartupInv, AcceptedInv, Validated, HasRun, Shared
<1>4. WeighInv'
  <2>1. \A i \in 1 .. Len(ops) : Below(i)' = Below(i)
    BY <1>1 DEF Below
  <2> QED
    BY <1>1, <2>1 DEF StartupInv, WeighInv, HasRun
<1> QED
  BY <1>2, <1>3, <1>4 DEF StartupInv

LEMMA NextStartup == StartupInv /\ [Next]_vars => StartupInv'
  BY LoadKeeps, ValidateKeeps, BuildKeeps, WeighKeeps, BuiltKeeps, DrawKeeps,
     DrawSizeKeeps, UploadKeeps, StutterKeeps DEF Next, Terminated

-----------------------------------------------------------------------------
(* The theorems *)

\* The invariant holds for every mix, in whichever order it is visited.
THEOREM StartupInductive == Spec => []StartupInv
  BY InitStartup, NextStartup, PTL DEF Spec

\* The variables keep their types, and past Validate of config.go the mix holds
\* percentages.
THEOREM StartupTypeCorrect == Spec => []TypeOK
<1>1. StartupInv => TypeOK
  BY DEF StartupInv
<1> QED
  BY <1>1, StartupInductive, PTL

\* Once Validate has accepted the part options, no division, make or semaphore of
\* client.go panics or blocks on them before the parts of an upload start: what still
\* does is an empty range of sizes, or a multipart_put that was asked for without
\* --multipart-enabled.
THEOREM StartBreaksAreUnvalidated == Spec => []StartBreaksOnlyUnvalidated
<1>1. StartupInv => StartBreaksOnlyUnvalidated
  BY DEF StartupInv
<1> QED
  BY <1>1, StartupInductive, PTL

\* The normalisation of config.go keeps the proportions of every mix, up to less
\* than two points of each operation, and never gives out more than 100.
THEOREM SharesAreNear == Spec => []SharesNearProportional
<1>1. StartupInv => SharesNearProportional
  <2> SUFFICES ASSUME StartupInv, Validated
               PROVE  /\ Total(mix) <= 100
                      /\ \A o \in DOMAIN mix :
                            /\ mix[o] * Total(Asked) <= Asked[o] * 100
                            /\ Asked[o] * 100 < (mix[o] + 2) * Total(Asked)
    BY DEF SharesNearProportional, Validated, Asked
  <2>1. Shared /\ given \in Starts
    BY DEF StartupInv, AcceptedInv, Shared, TypeOK
  <2>2. Percentages(Asked) /\ Total(Asked) # 0 /\ mix = Shares(Asked)
    BY <2>1, GivenIsTyped DEF Percentages, Shared, Shares
  <2>3. Total(mix) <= 100
    BY <2>2, SharesAreMix
  <2>4. Total(Asked) \in Nat \ {0}
    BY <2>2, TotalIsSum
  <2>5. ASSUME NEW o \in DOMAIN mix
        PROVE  /\ mix[o] * Total(Asked) <= Asked[o] * 100
               /\ Asked[o] * 100 < (mix[o] + 2) * Total(Asked)
    <3>1. Asked[o] \in 0 .. 100 /\ mix[o] = Share(Asked[o], Total(Asked))
      BY <2>1 DEF Shared
    <3> QED
      BY <2>4, <3>1, ShareIsNear
  <2> QED
    BY <2>3, <2>5
<1> QED
  BY <1>1, StartupInductive, PTL

\* Of the equally likely numbers that Next of scheduler.go draws from, exactly as
\* many lead to an operation as its share says, for every mix and order.
THEOREM DrawsFollow == Spec => []DrawsFollowShares
<1>1. StartupInv => DrawsFollowShares
  <2> SUFFICES ASSUME StartupInv, HasRun, NEW o \in DOMAIN mix
               PROVE  Cardinality({r \in Draws : Pick(r) = o}) = mix[o]
    BY DEF DrawsFollowShares
  <2> USE DEF StartupInv
  <2> DEFINE D == {r \in Draws : Pick(r) = o}
  <2>1. /\ weights \in Seq(Nat) /\ Len(weights) = Len(ops) /\ Len(ops) \in Nat
        /\ \A i \in 1 .. Len(ops) : weights[i] \in Nat
        /\ mix[o] \in 0 .. 100 /\ todo = {}
    <3>1. phase \notin {"load", "loaded", "refused"}
      BY DEF HasRun
    <3> QED
      BY <3>1 DEF TypeOK, WeighInv
  <2>2. CASE mix[o] = 0
    <3>1. D = {}
      <4> SUFFICES ASSUME NEW r \in Draws, Pick(r) = o
                   PROVE  FALSE
        OBVIOUS
      <4>1. PICK i \in 1 .. Len(ops) : o = ops[i]
        BY PickIsFirst
      <4> QED
        BY <2>2, <4>1 DEF WeighInv
    <3> QED
      BY <2>2, <3>1, FS_EmptySet
  <2>3. CASE mix[o] # 0
    <3>1. PICK i \in 1 .. Len(ops) : ops[i] = o
      BY <2>1, <2>3 DEF WeighInv, HasRun
    <3>2. /\ weights[i] \in Nat /\ weights[i] <= Cumulative /\ Cumulative \in Nat
          /\ weights[i] = Below(i) + mix[o]
          /\ \A j \in 1 .. i - 1 : weights[j] < weights[i] /\ ops[j] # o
      BY <2>1, <3>1, CumulativeIsLast DEF WeighInv
    <3>3. /\ Below(i) \in Nat
          /\ i # 1 => i - 1 \in 1 .. i - 1 /\ i - 1 \in 1 .. Len(ops)
          /\ i # 1 => Below(i) = weights[i - 1]
      <4>1. CASE i = 1
        BY <4>1 DEF Below
      <4>2. CASE i # 1
        <5>1. i - 1 \in 1 .. i - 1 /\ i - 1 \in 1 .. Len(ops)
          BY <2>1, <4>2
        <5>2. weights[i - 1] \in Nat
          BY <2>1, <5>1
        <5> QED
          BY <4>2, <5>1, <5>2 DEF Below
      <4> QED
        BY <4>1, <4>2
    <3>4. ASSUME NEW r \in Draws, Pick(r) = o
          PROVE  r \in Below(i) .. weights[i] - 1
      <4>1. PICK k \in 1 .. Len(ops) : /\ o = ops[k] /\ r < weights[k]
                                       /\ \A j \in 1 .. k - 1 : ~(r < weights[j])
        BY <3>4, PickIsFirst
      <4>2. k = i
        <5>1. k < i => k \in 1 .. i - 1
          BY <2>1
        <5>2. i < k => i \in 1 .. k - 1
          BY <2>1
        <5>3. \A j \in 1 .. k - 1 : ops[j] # ops[k]
          BY DEF WeighInv
        <5>4. ~(k < i) /\ ~(i < k)
          BY <3>1, <3>2, <4>1, <5>1, <5>2, <5>3
        <5> QED
          BY <2>1, <5>4
      <4>3. r \in Int /\ r >= 0
        BY <3>2 DEF Draws
      <4>4. r >= Below(i)
        <5>1. CASE i = 1
          BY <4>3, <5>1 DEF Below
        <5>2. CASE i # 1
          <6>1. ~(r < Below(i))
            BY <3>3, <4>1, <4>2, <5>2
          <6> QED
            BY <3>3, <4>3, <6>1
        <5> QED
          BY <5>1, <5>2
      <4> QED
        BY <3>2, <3>3, <4>1, <4>2, <4>3, <4>4
    <3>5. ASSUME NEW r \in Below(i) .. weights[i] - 1
          PROVE  r \in Draws /\ Pick(r) = o
      <4>1. r \in Int /\ r >= 0 /\ r >= Below(i) /\ r < weights[i] /\ r < Cumulative
        BY <3>2, <3>3
      <4>2. r \in Draws
        BY <3>2, <4>1 DEF Draws
      <4>3. PICK k \in 1 .. Len(ops) : /\ Pick(r) = ops[k] /\ r < weights[k]
                                       /\ \A j \in 1 .. k - 1 : ~(r < weights[j])
        BY <4>2, PickIsFirst
      <4>4. ~(i < k)
        <5>1. i < k => i \in 1 .. k - 1
          BY <2>1
        <5> QED
          BY <4>1, <4>3, <5>1
      <4>5. ~(k < i)
        <5> SUFFICES ASSUME k < i PROVE FALSE
          OBVIOUS
        <5>1. i # 1 /\ weights[k] \in Nat /\ weights[i - 1] = Below(i)
          <6>1. i # 1
            BY <2>1
          <6>2. weights[k] \in Nat
            BY <2>1
          <6> QED
            BY <3>3, <6>1, <6>2
        <5>2. k = i - 1 \/ k \in 1 .. (i - 1) - 1
          BY <2>1
        <5>3. weights[k] <= Below(i)
          <6>1. CASE k = i - 1
            BY <3>3, <5>1, <6>1
          <6>2. CASE k \in 1 .. (i - 1) - 1
            <7>1. weights[k] < weights[i - 1]
              BY <3>3, <5>1, <6>2 DEF WeighInv
            <7> QED
              BY <3>3, <5>1, <7>1
          <6> QED
            BY <5>2, <6>1, <6>2
        <5> QED
          BY <3>3, <4>1, <4>3, <5>1, <5>3
      <4>6. k = i
        BY <2>1, <4>4, <4>5
      <4> QED
        BY <3>1, <4>2, <4>3, <4>6
    <3>6. D = Below(i) .. weights[i] - 1
      BY <3>4, <3>5
    <3>7. Below(i) \in Int /\ weights[i] - 1 \in Int
      BY <3>2, <3>3
    <3>8. Cardinality(Below(i) .. weights[i] - 1)
             = IF Below(i) > weights[i] - 1 THEN 0 ELSE (weights[i] - 1) - Below(i) + 1
      BY <3>7, FS_Interval
    <3>9. mix[o] \in Nat /\ mix[o] > 0
      <4>1. mix[o] \in 0 .. 100 /\ mix[o] # 0
        BY <2>1, <2>3
      <4> QED
        BY <4>1, Positive
    <3>10. (weights[i] - 1) - Below(i) + 1 = mix[o] /\ ~(Below(i) > weights[i] - 1)
      BY <3>2, <3>3, <3>9
    <3> QED
      BY <3>6, <3>8, <3>10
  <2> QED
    BY <2>2, <2>3
<1> QED
  BY <1>1, StartupInductive, PTL
=============================================================================
