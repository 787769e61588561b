---------------------------- MODULE MetricsProofs ----------------------------
(***************************************************************************)
(* For any queue and any length of an encoding: the value the search       *)
(* computes for a metric from an example and the value the solver gave the *)
(* same metric are equal, or differ by exactly what the queue has lost.    *)
(***************************************************************************)
EXTENDS Metrics, SequenceTheorems, WellFoundedInduction, TLAPS

-----------------------------------------------------------------------------
(* Loops.  Every eval is a loop over the time steps; a loop is a function  *)
(* of the number of its rounds.                                            *)

\* A non-empty set of naturals has a least element.
LEMMA LeastNumberExists ==
    ASSUME NEW T \in SUBSET Nat, T # {}
    PROVE  \E x \in T : \A y \in T : x <= y
<1>1. PICK x \in T : \A y \in T : <<y, x>> \notin OpToRel(<, Nat)
  BY NatLessThanWellFounded, WFMin
<1>2. ASSUME NEW y \in T, y < x PROVE <<y, x>> \in OpToRel(<, Nat)
  BY <1>2 DEF OpToRel
<1>3. ASSUME NEW y \in T PROVE ~(y < x)
  BY <1>1, <1>2
<1>4. ASSUME NEW y \in T PROVE x <= y
  BY <1>3
<1> QED
  BY <1>4

\* What holds before the first round and is kept by every round holds after
\* any number of rounds.
LEMMA UpTo ==
    ASSUME NEW m \in Nat, NEW S, 0 \in S, \A n \in 0 .. m - 1 : n \in S => n + 1 \in S
    PROVE  \A n \in 0 .. m : n \in S
<1> DEFINE T == {n \in 0 .. m : n \notin S}
<1> SUFFICES ASSUME T # {} PROVE FALSE
  OBVIOUS
<1>1. PICK k \in T : \A n \in T : k <= n
  <2>1. T \in SUBSET Nat
    OBVIOUS
  <2> QED
    BY <2>1, LeastNumberExists
<1>2. k - 1 \in 0 .. m - 1 /\ k - 1 \notin T /\ (k - 1) + 1 = k
  BY <1>1
<1> QED
  BY <1>2

\* A loop over naturals that starts from 0 has a value after each round.
LEMMA LoopHasValues ==
    ASSUME NEW m \in Nat, NEW round \in [1 .. m -> [Nat -> Nat]]
    PROVE  \E f \in [0 .. m -> Nat] :
              f[0] = 0 /\ \A n \in 1 .. m : f[n] = round[n][f[n - 1]]
<1> DEFINE Values(f, k) ==
              f[0] = 0 /\ \A n \in 1 .. k : f[n] = round[n][f[n - 1]]
           S == {k \in 0 .. m : \E f \in [0 .. k -> Nat] : Values(f, k)}
<1>1. 0 \in S
  <2> DEFINE h == [n \in 0 .. 0 |-> 0]
  <2>1. h \in [0 .. 0 -> Nat] /\ Values(h, 0)
    OBVIOUS
  <2> HIDE DEF h, Values
  <2> QED
    BY <2>1
<1>2. ASSUME NEW k \in 0 .. m - 1, k \in S PROVE k + 1 \in S
  <2>1. PICK f \in [0 .. k -> Nat] : Values(f, k)
    BY <1>2
  <2> DEFINE v == round[k + 1][f[k]]
             h == [n \in 0 .. k + 1 |-> IF n = k + 1 THEN v ELSE f[n]]
  <2>2. v \in Nat
    <3>1. k + 1 \in 1 .. m /\ k \in 0 .. k
      OBVIOUS
    <3>2. round[k + 1] \in [Nat -> Nat] /\ f[k] \in Nat
      BY <3>1
    <3> QED
      BY <3>2
  <2>3. v = round[k + 1][f[k]] /\ k \in Nat /\ k + 1 \in 0 .. m
    OBVIOUS
  <2> HIDE DEF v
  <2>4. h \in [0 .. k + 1 -> Nat]
    <3>1. ASSUME NEW n \in 0 .. k + 1, n # k + 1 PROVE f[n] \in Nat
      <4>1. n \in 0 .. k
        BY <2>3, <3>1
      <4> QED
        BY <4>1
    <3> QED
      BY <2>2, <3>1
  <2>5. h[k + 1] = v /\ \A n \in 0 .. k : h[n] = f[n]
    BY <2>3
  <2> HIDE DEF h
  <2>6. Values(h, k + 1)
    <3>1. h[0] = 0
      <4>1. 0 \in 0 .. k /\ f[0] = 0
        BY <2>1, <2>3
      <4> QED
        BY <4>1, <2>5
    <3>2. ASSUME NEW n \in 1 .. k + 1 PROVE h[n] = round[n][h[n - 1]]
      <4>1. CASE n = k + 1
        <5>1. n - 1 = k /\ k \in 0 .. k
          BY <4>1, <2>3
        <5> QED
          BY <4>1, <5>1, <2>3, <2>5
      <4>2. CASE n # k + 1
        <5>1. n \in 1 .. k /\ n \in 0 .. k /\ n - 1 \in 0 .. k
          BY <4>2, <2>3
        <5> QED
          BY <5>1, <2>1, <2>5
      <4> QED
        BY <4>1, <4>2
    <3> QED
      BY <3>1, <3>2
  <2> HIDE DEF Values
  <2> QED
    BY <2>3, <2>4, <2>6
<1> HIDE DEF S
<1>3. \A k \in 0 .. m : k \in S
  BY <1>1, <1>2, UpTo
<1>4. m \in S
  BY <1>3
<1> QED
  BY <1>4 DEF S

\* Two functions that start alike and go on alike are alike.
LEMMA LoopIsUnique ==
    ASSUME NEW m \in Nat, NEW f, NEW h, f[0] = h[0],
           \A n \in 1 .. m : f[n - 1] = h[n - 1] => f[n] = h[n]
    PROVE  \A n \in 0 .. m : f[n] = h[n]
<1> DEFINE S == {n \in 0 .. m : f[n] = h[n]}
<1>1. 0 \in S
  OBVIOUS
<1>2. ASSUME NEW n \in 0 .. m - 1, n \in S PROVE n + 1 \in S
  <2>1. n + 1 \in 1 .. m /\ n + 1 \in 0 .. m /\ (n + 1) - 1 = n /\ f[n] = h[n]
    BY <1>2
  <2>2. f[n + 1] = h[n + 1]
    BY <2>1
  <2> QED
    BY <2>1, <2>2
<1> HIDE DEF S
<1>3. \A n \in 0 .. m : n \in S
  BY <1>1, <1>2, UpTo
<1> QED
  BY <1>3 DEF S

-----------------------------------------------------------------------------
(* Sums                                                                    *)

\* sum[t] is what the first t entries of s add up to.
Sums(sum, s, m) ==
    sum[0] = 0 /\ \A t \in 1 .. m : sum[t] = sum[t - 1] + s[t]

\* The recursion in SumBefore computes those sums.
LEMMA SumBeforeIs ==
    ASSUME NEW s, NEW m \in Nat, NEW sum, Sums(sum, s, m), NEW n \in 0 .. m
    PROVE  SumBefore(s, n) = sum[n]
<1> DEFINE Loop(f) == f = [t \in 0 .. n |-> IF t = 0 THEN 0 ELSE f[t - 1] + At(s, t - 1)]
           f0 == CHOOSE f : Loop(f)
<1>1. Loop([t \in 0 .. n |-> sum[t]])
  <2> DEFINE h == [t \in 0 .. n |-> sum[t]]
  <2>1. ASSUME NEW t \in 0 .. n
        PROVE  h[t] = IF t = 0 THEN 0 ELSE h[t - 1] + At(s, t - 1)
    <3>1. CASE t = 0
      BY <3>1 DEF Sums
    <3>2. CASE t # 0
      <4>1. t - 1 \in 0 .. n /\ t \in 1 .. m /\ (t - 1) + 1 = t
        BY <3>2
      <4> QED
        BY <3>2, <4>1 DEF Sums, At
    <3> QED
      BY <3>1, <3>2
  <2> QED
    BY <2>1
<1>2. Loop(f0)
  BY <1>1
<1> HIDE DEF f0
<1>3. \A t \in 0 .. n : f0[t] = sum[t]
  <2>1. f0[0] = sum[0]
    BY <1>2 DEF Sums
  <2>2. ASSUME NEW t \in 1 .. n, f0[t - 1] = sum[t - 1] PROVE f0[t] = sum[t]
    <3>1. t \in 0 .. n /\ t # 0 /\ t \in 1 .. m /\ (t - 1) + 1 = t
      OBVIOUS
    <3> QED
      BY <1>2, <2>2, <3>1 DEF Sums, At
  <2> QED
    BY <2>1, <2>2, LoopIsUnique
<1>4. SumBefore(s, n) = f0[n]
  BY DEF SumBefore, f0
<1> QED
  BY <1>3, <1>4

\* The counts of the first m time steps.
Counts(m) == [1 .. m -> Nat]

\* Each entry is a count.
LEMMA CountIsNat ==
    ASSUME NEW m \in Nat, NEW s \in Counts(m), NEW i \in 1 .. m
    PROVE  s[i] \in Nat
BY DEF Counts

\* There are such sums for any counts.
LEMMA SumsExist ==
    ASSUME NEW m \in Nat, NEW s \in Counts(m)
    PROVE  \E sum \in [0 .. m -> Nat] : Sums(sum, s, m)
<1> DEFINE round == [t \in 1 .. m |-> [v \in Nat |-> v + s[t]]]
<1>1. round \in [1 .. m -> [Nat -> Nat]]
  BY CountIsNat
<1> HIDE DEF round
<1>2. PICK sum \in [0 .. m -> Nat] :
         sum[0] = 0 /\ \A t \in 1 .. m : sum[t] = round[t][sum[t - 1]]
  BY <1>1, LoopHasValues
<1>3. \A t \in 1 .. m : sum[t] = sum[t - 1] + s[t]
  <2> TAKE t \in 1 .. m
  <2>1. sum[t - 1] \in Nat
    OBVIOUS
  <2> QED
    BY <1>2, <2>1 DEF round
<1> QED
  BY <1>2, <1>3 DEF Sums

\* The sum of the first t entries, entry by entry.
LEMMA SumStep ==
    ASSUME NEW m \in Nat, NEW s \in Counts(m)
    PROVE  /\ SumBefore(s, 0) = 0
           /\ \A t \in 0 .. m : SumBefore(s, t) \in Nat
           /\ \A t \in 1 .. m : SumBefore(s, t) = SumBefore(s, t - 1) + s[t]
<1>1. PICK sum \in [0 .. m -> Nat] : Sums(sum, s, m)
  BY SumsExist
<1>2. \A t \in 0 .. m : SumBefore(s, t) = sum[t]
  BY <1>1, SumBeforeIs
<1> QED
  BY <1>1, <1>2 DEF Sums

\* What comes later does not matter for a sum.
LEMMA SumOfPrefix ==
    ASSUME NEW m \in Nat, NEW s \in Counts(m), NEW r,
           \A t \in 1 .. m : r[t] = s[t]
    PROVE  \A t \in 0 .. m : SumBefore(r, t) = SumBefore(s, t)
<1>1. PICK sum \in [0 .. m -> Nat] : Sums(sum, s, m)
  BY SumsExist
<1>2. Sums(sum, r, m)
  BY <1>1 DEF Sums
<1> QED
  BY <1>1, <1>2, SumBeforeIs

-----------------------------------------------------------------------------
(* Runs of blocked steps                                                   *)

\* What CBLOCKED::eval takes for a blocked step of an example.
BlockedAt(en, de, t) ==
    SumBefore(en, t) - SumBefore(de, t) > 0 /\ At(de, t) = 0

\* run[t] is how many of the first t steps, the last ones, are blocked.
Runs(run, en, de, m) ==
    /\ run[0] = 0
    /\ \A t \in 1 .. m : run[t] = IF BlockedAt(en, de, t - 1) THEN run[t - 1] + 1 ELSE 0

\* EvalCBlocked of any example.
RunOf(en, de, time_) ==
    LET run[t \in 0 .. time_ + 1] ==
          IF t = 0 THEN 0 ELSE IF BlockedAt(en, de, t - 1) THEN run[t - 1] + 1 ELSE 0
    IN  run[time_ + 1]

\* The recursion in RunOf computes those runs.
LEMMA RunOfIs ==
    ASSUME NEW en, NEW de, NEW m \in Nat, NEW run, Runs(run, en, de, m),
           NEW last \in 0 .. m - 1
    PROVE  RunOf(en, de, last) = run[last + 1]
<1> DEFINE n == last + 1
           Loop(f) == f = [t \in 0 .. n |-> IF t = 0 THEN 0
                                            ELSE IF BlockedAt(en, de, t - 1)
                                            THEN f[t - 1] + 1 ELSE 0]
           f0 == CHOOSE f : Loop(f)
<1>0. n \in 0 .. m /\ n \in Nat
  OBVIOUS
<1>4. RunOf(en, de, last) = f0[n]
  BY DEF RunOf
<1> HIDE DEF n
<1>1. Loop([t \in 0 .. n |-> run[t]])
  <2> DEFINE h == [t \in 0 .. n |-> run[t]]
  <2>1. ASSUME NEW t \in 0 .. n
        PROVE  h[t] = IF t = 0 THEN 0
                      ELSE IF BlockedAt(en, de, t - 1) THEN h[t - 1] + 1 ELSE 0
    <3>1. CASE t = 0
      BY <3>1 DEF Runs
    <3>2. CASE t # 0
      <4>1. t - 1 \in 0 .. n /\ t \in 1 .. m
        BY <1>0, <3>2
      <4> QED
        BY <3>2, <4>1 DEF Runs
    <3> QED
      BY <3>1, <3>2
  <2> QED
    BY <2>1
<1>2. Loop(f0)
  BY <1>1
<1> HIDE DEF f0
<1>3. \A t \in 0 .. n : f0[t] = run[t]
  <2>1. f0[0] = run[0]
    BY <1>0, <1>2 DEF Runs
  <2>2. ASSUME NEW t \in 1 .. n, f0[t - 1] = run[t - 1] PROVE f0[t] = run[t]
    <3>1. t \in 0 .. n /\ t # 0 /\ t \in 1 .. m
      BY <1>0
    <3> QED
      BY <1>2, <2>2, <3>1 DEF Runs
  <2> QED
    BY <1>0, <2>1, <2>2, LoopIsUnique
<1> QED
  BY <1>0, <1>3, <1>4 DEF n

\* There are such runs for any example.
LEMMA RunsExist ==
    ASSUME NEW m \in Nat, NEW en, NEW de
    PROVE  \E run \in [0 .. m -> Nat] : Runs(run, en, de, m)
<1> DEFINE round == [t \in 1 .. m |-> [v \in Nat |->
                       IF BlockedAt(en, de, t - 1) THEN v + 1 ELSE 0]]
<1>1. round \in [1 .. m -> [Nat -> Nat]]
  OBVIOUS
<1> HIDE DEF round
<1>2. PICK run \in [0 .. m -> Nat] :
         run[0] = 0 /\ \A t \in 1 .. m : run[t] = round[t][run[t - 1]]
  BY <1>1, LoopHasValues
<1>3. \A t \in 1 .. m : run[t] = IF BlockedAt(en, de, t - 1) THEN run[t - 1] + 1 ELSE 0
  <2> TAKE t \in 1 .. m
  <2>1. run[t - 1] \in Nat
    OBVIOUS
  <2> QED
    BY <1>2, <2>1 DEF round
<1> QED
  BY <1>2, <1>3 DEF Runs

\* The evaluation, step by step.
LEMMA RunStep ==
    ASSUME NEW en, NEW de, NEW n \in Nat
    PROVE  /\ RunOf(en, de, n) \in Nat
           /\ RunOf(en, de, n) = IF ~BlockedAt(en, de, n) THEN 0
                                 ELSE IF n = 0 THEN 1 ELSE RunOf(en, de, n - 1) + 1
<1>1. PICK run \in [0 .. n + 1 -> Nat] : Runs(run, en, de, n + 1)
  <2>1. n + 1 \in Nat
    OBVIOUS
  <2> QED
    BY <2>1, RunsExist
<1>2. \A last \in 0 .. (n + 1) - 1 : RunOf(en, de, last) = run[last + 1]
  BY <1>1, RunOfIs
<1>3. RunOf(en, de, n) = run[n + 1] /\ run[n + 1] \in Nat
  BY <1>2
<1>4. run[n + 1] = IF BlockedAt(en, de, n) THEN run[n] + 1 ELSE 0
  <2>1. n + 1 \in 1 .. n + 1 /\ (n + 1) - 1 = n
    OBVIOUS
  <2> QED
    BY <1>1, <2>1 DEF Runs
<1>5. CASE n = 0
  BY <1>1, <1>3, <1>4, <1>5 DEF Runs
<1>6. CASE n # 0
  <2>1. RunOf(en, de, n - 1) = run[n]
    BY <1>2, <1>6
  <2> QED
    BY <1>3, <1>4, <1>6, <2>1
<1> QED
  BY <1>5, <1>6

\* What comes later does not matter for a run.
LEMMA RunOfPrefix ==
    ASSUME NEW n \in Nat, NEW m \in Nat, n < m,
           NEW en \in Counts(m), NEW de \in Counts(m),
           NEW en2, NEW de2, \A t \in 1 .. m : en2[t] = en[t] /\ de2[t] = de[t]
    PROVE  RunOf(en2, de2, n) = RunOf(en, de, n)
<1>1. PICK run \in [0 .. m -> Nat] : Runs(run, en, de, m)
  BY RunsExist
<1>2. \A t \in 0 .. m : /\ SumBefore(en2, t) = SumBefore(en, t)
                        /\ SumBefore(de2, t) = SumBefore(de, t)
  BY SumOfPrefix
<1>3. \A t \in 0 .. m - 1 : BlockedAt(en2, de2, t) <=> BlockedAt(en, de, t)
  <2> TAKE t \in 0 .. m - 1
  <2>1. t \in 0 .. m /\ t + 1 \in 1 .. m
    OBVIOUS
  <2> QED
    BY <1>2, <2>1 DEF BlockedAt, At
<1>4. Runs(run, en2, de2, m)
  <2>1. \A t \in 1 .. m : t - 1 \in 0 .. m - 1
    OBVIOUS
  <2> QED
    BY <1>1, <1>3, <2>1 DEF Runs
<1>5. n \in 0 .. m - 1
  OBVIOUS
<1>6. RunOf(en, de, n) = run[n + 1]
  BY <1>1, <1>5, RunOfIs
<1>7. RunOf(en2, de2, n) = run[n + 1]
  BY <1>4, <1>5, RunOfIs
<1> QED
  BY <1>6, <1>7

-----------------------------------------------------------------------------
(* The invariant                                                           *)

TypeOK ==
    /\ enqs \in Seq(Nat)
    /\ deqs \in Seq(Nat)
    /\ len \in Seq(Nat)
    /\ Len(enqs) \in 1 .. TotalTime
    /\ Len(deqs) = Len(enqs)
    /\ Len(len) = Len(enqs)
    /\ lost \in Nat
    /\ cenq \in Nat
    /\ cdeq \in Nat
    /\ cblocked \in Nat

\* The bounds on the counts of a step; no packet leaves that is not there.
InRange ==
    \A i \in 1 .. Len(enqs) :
       /\ enqs[i] <= MaxEnq
       /\ deqs[i] <= MaxDeq
       /\ deqs[i] <= len[i]
       /\ len[i] <= Size

IInv ==
    /\ TypeOK
    /\ InRange
    /\ QSizeOffByLost
    /\ CBlockedUntilLoss
    /\ EvalCEnq(time) = cenq
    /\ EvalCDeq(time) = cdeq

\* A sequence of counts is a function on its time steps.
LEMMA CountsAreFunctions ==
    ASSUME NEW s \in Seq(Nat)
    PROVE  s \in Counts(Len(s)) /\ Len(s) \in Nat
BY LenProperties DEF Counts

\* The values computed from the example, as loops over its counts.
LEMMA EvalsAre ==
    /\ \A t : EvalCEnq(t) = SumBefore(enqs, t + 1)
    /\ \A t : EvalCDeq(t) = SumBefore(deqs, t + 1)
    /\ \A t : EvalQSize(t) = SumBefore(enqs, t) - SumBefore(deqs, t)
    /\ \A t : EvalCBlocked(t) = RunOf(enqs, deqs, t)
BY DEF EvalCEnq, EvalCDeq, EvalQSize, EvalCBlocked, RunOf, BlockedAt

\* The invariant holds in the first step, in which the queue is empty.
LEMMA InitIInv == Init => IInv
<1> SUFFICES ASSUME Init PROVE IInv
  OBVIOUS
<1>0. Size \in Nat /\ MaxEnq \in Nat /\ MaxDeq \in Nat /\ TotalTime \in Nat \ {0}
  BY MetricsAssumption
<1>1. enqs \in Seq(Nat) /\ Len(enqs) = 1 /\ enqs[1] \in Nat /\ enqs[1] <= MaxEnq
  <2>1. enqs \in [1 .. 1 -> 0 .. MaxEnq]
    BY DEF Init
  <2>2. enqs \in Counts(1) /\ enqs[1] \in Nat /\ enqs[1] <= MaxEnq
    BY <1>0, <2>1 DEF Counts
  <2>3. ASSUME NEW n \in Nat, NEW s \in Counts(n)
        PROVE  s \in Seq(Nat) /\ Len(s) = n
    BY SeqDef, LenProperties DEF Counts
  <2> QED
    BY <2>2, <2>3
<1>2. /\ deqs = <<0>> /\ len = <<0>> /\ lost = 0 /\ cenq = enqs[1] /\ cdeq = 0
      /\ cblocked = 0
  BY DEF Init, Counted, Blocked
<1>3. /\ deqs \in Seq(Nat) /\ Len(deqs) = 1 /\ deqs[1] = 0
      /\ len \in Seq(Nat) /\ Len(len) = 1 /\ len[1] = 0
  BY <1>2
<1>4. TypeOK /\ InRange
  BY <1>0, <1>1, <1>2, <1>3 DEF TypeOK, InRange
<1>5. time = 0
  BY <1>1 DEF time
<1>6. /\ SumBefore(enqs, 0) = 0 /\ SumBefore(enqs, 1) = enqs[1]
      /\ SumBefore(deqs, 0) = 0 /\ SumBefore(deqs, 1) = 0
  <2>1. enqs \in Counts(1) /\ deqs \in Counts(1)
    BY <1>1, <1>3, CountsAreFunctions
  <2>2. ASSUME NEW s \in Counts(1)
        PROVE  SumBefore(s, 0) = 0 /\ SumBefore(s, 1) = s[1]
    <3>1. 1 \in Nat /\ 1 \in 1 .. 1 /\ 1 - 1 = 0 /\ s[1] \in Nat
      BY CountIsNat
    <3>2. /\ SumBefore(s, 0) = 0
          /\ SumBefore(s, 1) = SumBefore(s, 1 - 1) + s[1]
      BY <3>1, SumStep
    <3> QED
      BY <3>1, <3>2
  <2> QED
    BY <1>3, <2>1, <2>2
<1>7. RunOf(enqs, deqs, 0) = 0
  <2>1. 0 \in Nat /\ ~BlockedAt(enqs, deqs, 0)
    BY <1>6 DEF BlockedAt
  <2> QED
    BY <2>1, RunStep
<1>8. At(len, time) = 0
  BY <1>3, <1>5 DEF At
<1> QED
  BY <1>1, <1>2, <1>4, <1>5, <1>6, <1>7, <1>8, EvalsAre
     DEF IInv, QSizeOffByLost, CBlockedUntilLoss

\* A count is added to a sequence.
LEMMA Appended ==
    ASSUME NEW s \in Seq(Nat), NEW x \in Nat, NEW n \in Nat, n = Len(s)
    PROVE  /\ Append(s, x) \in Seq(Nat)
           /\ Len(Append(s, x)) = n + 1
           /\ Append(s, x) \in Counts(n + 1)
           /\ \A i \in 1 .. n : Append(s, x)[i] = s[i]
           /\ Append(s, x)[n + 1] = x
<1>1. /\ Append(s, x) \in Seq(Nat)
      /\ Len(Append(s, x)) = n + 1
      /\ \A i \in 1 .. n : Append(s, x)[i] = s[i]
      /\ Append(s, x)[n + 1] = x
  BY AppendProperties
<1> QED
  BY <1>1, CountsAreFunctions

\* Sums over an example that has become a step longer.
LEMMA SumAppended ==
    ASSUME NEW n \in Nat, 1 <= n, NEW s \in Counts(n), NEW r \in Counts(n + 1),
           \A i \in 1 .. n : r[i] = s[i]
    PROVE  /\ SumBefore(r, n) = SumBefore(s, n)
           /\ SumBefore(r, n + 1) = SumBefore(s, n) + r[n + 1]
           /\ SumBefore(s, n) = SumBefore(s, n - 1) + s[n]
           /\ SumBefore(s, n - 1) \in Nat
           /\ s[n] \in Nat
<1>1. /\ n \in 1 .. n /\ n \in 0 .. n /\ n - 1 \in 0 .. n
      /\ n + 1 \in 1 .. n + 1 /\ (n + 1) - 1 = n /\ n + 1 \in Nat
  OBVIOUS
<1>2. SumBefore(r, n) = SumBefore(s, n)
  BY <1>1, SumOfPrefix
<1>3. SumBefore(r, n + 1) = SumBefore(r, (n + 1) - 1) + r[n + 1]
  BY <1>1, SumStep
<1>4. SumBefore(s, n) = SumBefore(s, n - 1) + s[n] /\ SumBefore(s, n - 1) \in Nat
  BY <1>1, SumStep
<1>5. s[n] \in Nat
  BY <1>1, CountIsNat
<1> QED
  BY <1>1, <1>2, <1>3, <1>4, <1>5

\* One time step of a queue that holds l packets and has lost x: the example
\* grows from en and de to en2 and de2, the queue holds now and has lost x2.
OneStep(n, en, en2, de, de2, now, l, x, x2, cb) ==
    /\ n \in Nat /\ 1 <= n
    /\ en \in Counts(n) /\ en2 \in Counts(n + 1)
    /\ de \in Counts(n) /\ de2 \in Counts(n + 1)
    /\ \A i \in 1 .. n : en2[i] = en[i] /\ de2[i] = de[i]
    /\ now \in Nat /\ l \in Nat /\ x \in Nat /\ x2 \in Nat /\ cb \in Nat
    /\ x2 = x + ((l - de[n]) + en[n]) - now
    /\ x2 >= x
    /\ SumBefore(en, n - 1) - SumBefore(de, n - 1) = l + x
    /\ RunOf(en, de, n - 1) >= cb
    /\ x = 0 => RunOf(en, de, n - 1) = cb

\* What QSIZE::eval and CBLOCKED::eval make of the step after it.
LEMMA EvalsStep ==
    ASSUME NEW n, NEW en, NEW en2, NEW de, NEW de2, NEW now, NEW l, NEW x, NEW x2,
           NEW cb, OneStep(n, en, en2, de, de2, now, l, x, x2, cb)
    PROVE  /\ SumBefore(en2, n) - SumBefore(de2, n) = now + x2
           /\ RunOf(en2, de2, n) >= Counted(now, de2[n + 1], cb)
           /\ x2 = 0 => RunOf(en2, de2, n) = Counted(now, de2[n + 1], cb)
<1> USE DEF OneStep
<1>1. SumBefore(en2, n) - SumBefore(de2, n) = now + x2
  <2>1. /\ SumBefore(en2, n) = SumBefore(en, n - 1) + en[n]
        /\ SumBefore(en, n - 1) \in Nat /\ en[n] \in Nat
    BY SumAppended
  <2>2. /\ SumBefore(de2, n) = SumBefore(de, n - 1) + de[n]
        /\ SumBefore(de, n - 1) \in Nat /\ de[n] \in Nat
    BY SumAppended
  <2> QED
    BY <2>1, <2>2
<1>2. RunOf(en2, de2, n - 1) = RunOf(en, de, n - 1) /\ RunOf(en, de, n - 1) \in Nat
  <2>1. n - 1 \in Nat /\ n - 1 < n
    OBVIOUS
  <2> QED
    BY <2>1, RunOfPrefix, RunStep
<1>3. RunOf(en2, de2, n) = IF BlockedAt(en2, de2, n) THEN RunOf(en, de, n - 1) + 1 ELSE 0
  <2>1. n # 0
    OBVIOUS
  <2> QED
    BY <1>2, <2>1, RunStep
<1>4. BlockedAt(en2, de2, n) <=> now + x2 > 0 /\ de2[n + 1] = 0
  BY <1>1 DEF BlockedAt, At
<1>5. CASE now > 0 /\ de2[n + 1] = 0
  <2>1. /\ RunOf(en2, de2, n) = RunOf(en, de, n - 1) + 1
        /\ Counted(now, de2[n + 1], cb) = cb + 1
    BY <1>3, <1>4, <1>5 DEF Counted, Blocked
  <2>2. x2 = 0 => x = 0
    OBVIOUS
  <2> QED
    BY <1>1, <1>2, <2>1, <2>2
<1>6. CASE ~(now > 0 /\ de2[n + 1] = 0)
  <2>1. Counted(now, de2[n + 1], cb) = 0
    BY <1>6 DEF Counted, Blocked
  <2>2. RunOf(en2, de2, n) \in Nat
    BY <1>2, <1>3
  <2>3. x2 = 0 => RunOf(en2, de2, n) = 0
    BY <1>3, <1>4, <1>6
  <2> QED
    BY <1>1, <2>1, <2>2, <2>3
<1> QED
  BY <1>5, <1>6

\* A step adds one entry to each sequence of the example.
LEMMA NextAppends ==
    ASSUME IInv, Next
    PROVE  \E n \in Nat, e \in Nat, d \in Nat, now \in Nat, offered \in Nat :
              /\ n >= 1 /\ n < TotalTime
              /\ Len(enqs) = n /\ Len(deqs) = n /\ Len(len) = n
              /\ e <= MaxEnq /\ d <= MaxDeq /\ d <= now /\ now <= Size
              /\ offered = (len[n] - deqs[n]) + enqs[n] /\ now <= offered
              /\ enqs' = Append(enqs, e)
              /\ deqs' = Append(deqs, d)
              /\ len' = Append(len, now)
              /\ lost' = lost + offered - now
              /\ cenq' = cenq + e
              /\ cdeq' = cdeq + d
              /\ cblocked' = Counted(now, d, cblocked)
<1> DEFINE n == Len(enqs)
           offered == (len[n] - deqs[n]) + enqs[n]
           now == Fitting(offered)
<1>0. Size \in Nat /\ MaxEnq \in Nat /\ MaxDeq \in Nat /\ TotalTime \in Nat
  BY MetricsAssumption
<1>1. /\ enqs \in Counts(n) /\ deqs \in Counts(n) /\ len \in Counts(n)
      /\ n \in Nat /\ n >= 1 /\ Len(deqs) = n /\ Len(len) = n
  BY CountsAreFunctions DEF IInv, TypeOK
<1>2. time = n - 1 /\ time + 1 = n
  BY <1>1 DEF time
<1>3. n < TotalTime
  BY <1>0, <1>1, <1>2 DEF Next
<1>4. deqs[n] <= len[n] /\ deqs[n] \in Nat /\ len[n] \in Nat /\ enqs[n] \in Nat
  <2>1. n \in 1 .. n
    BY <1>1
  <2>2. deqs[n] <= len[n]
    BY <2>1 DEF IInv, InRange
  <2> QED
    BY <1>1, <2>1, <2>2, CountIsNat
<1>5. offered \in Nat
  BY <1>4
<1>6. now \in Nat /\ now <= Size /\ now <= offered
  BY <1>0, <1>5 DEF Fitting, Smaller
<1>7. PICK e \in 0 .. MaxEnq, d \in 0 .. Smaller(MaxDeq, now) :
         /\ enqs' = Append(enqs, e)
         /\ deqs' = Append(deqs, d)
         /\ len' = Append(len, now)
         /\ lost' = lost + offered - now
         /\ cenq' = cenq + e
         /\ cdeq' = cdeq + d
         /\ cblocked' = Counted(now, d, cblocked)
  BY <1>2 DEF Next, At
<1> HIDE DEF now
<1>9. offered = (len[n] - deqs[n]) + enqs[n]
  OBVIOUS
<1> HIDE DEF offered
<1>8. e \in Nat /\ e <= MaxEnq /\ d \in Nat /\ d <= MaxDeq /\ d <= now
  BY <1>0, <1>6 DEF Smaller
<1> HIDE DEF n
<1> QED
  BY <1>1, <1>3, <1>5, <1>6, <1>7, <1>8, <1>9 DEF n

\* A time step of the queue keeps the invariant.
LEMMA NextIInv == IInv /\ [Next]_vars => IInv'
<1> SUFFICES ASSUME IInv, [Next]_vars PROVE IInv'
  OBVIOUS
<1>1. CASE Next
  <2>1. PICK n \in Nat, e \in Nat, d \in Nat, now \in Nat, offered \in Nat :
           /\ n >= 1 /\ n < TotalTime
           /\ Len(enqs) = n /\ Len(deqs) = n /\ Len(len) = n
           /\ e <= MaxEnq /\ d <= MaxDeq /\ d <= now /\ now <= Size
           /\ offered = (len[n] - deqs[n]) + enqs[n] /\ now <= offered
           /\ enqs' = Append(enqs, e)
           /\ deqs' = Append(deqs, d)
           /\ len' = Append(len, now)
           /\ lost' = lost + offered - now
           /\ cenq' = cenq + e
           /\ cdeq' = cdeq + d
           /\ cblocked' = Counted(now, d, cblocked)
    BY <1>1, NextAppends
  <2>2. /\ enqs \in Seq(Nat) /\ deqs \in Seq(Nat) /\ len \in Seq(Nat)
        /\ lost \in Nat /\ cenq \in Nat /\ cdeq \in Nat /\ cblocked \in Nat
    BY DEF IInv, TypeOK
  <2>3. /\ enqs \in Counts(n) /\ deqs \in Counts(n) /\ len \in Counts(n)
    BY <2>1, <2>2, CountsAreFunctions
  <2>4. /\ enqs' \in Seq(Nat) /\ Len(enqs') = n + 1 /\ enqs' \in Counts(n + 1)
        /\ \A i \in 1 .. n : enqs'[i] = enqs[i]
        /\ enqs'[n + 1] = e
    <3>1. enqs' = Append(enqs, e) /\ n = Len(enqs)
      BY <2>1
    <3> QED
      BY <2>2, <3>1, Appended
  <2>5. /\ deqs' \in Seq(Nat) /\ Len(deqs') = n + 1 /\ deqs' \in Counts(n + 1)
        /\ \A i \in 1 .. n : deqs'[i] = deqs[i]
        /\ deqs'[n + 1] = d
    <3>1. deqs' = Append(deqs, d) /\ n = Len(deqs)
      BY <2>1
    <3> QED
      BY <2>2, <3>1, Appended
  <2>6. /\ len' \in Seq(Nat) /\ Len(len') = n + 1
        /\ \A i \in 1 .. n : len'[i] = len[i]
        /\ len'[n + 1] = now
    <3>1. len' = Append(len, now) /\ n = Len(len)
      BY <2>1
    <3> QED
      BY <2>2, <3>1, Appended
  <2>7. time = n - 1 /\ time + 1 = n /\ time' = n /\ time' + 1 = n + 1
    BY <2>1, <2>4 DEF time
  <2>8. len[n] \in Nat /\ 1 <= n
    <3>1. n \in 1 .. n /\ 1 <= n
      BY <2>1
    <3> QED
      BY <2>3, <3>1, CountIsNat
  <2>9. lost' \in Nat /\ lost' >= lost /\ cenq' \in Nat /\ cdeq' \in Nat /\ cblocked' \in Nat
    <3>1. lost' = lost + offered - now /\ now <= offered /\ lost \in Nat
      BY <2>1, <2>2
    <3>2. cenq' \in Nat /\ cdeq' \in Nat /\ cblocked' \in Nat
      BY <2>1, <2>2 DEF Counted
    <3>3. lost' \in Nat /\ lost' >= lost
      BY <3>1
    <3> QED
      BY <3>2, <3>3
  <2>10. TypeOK'
    <3>1. n + 1 \in 1 .. TotalTime
      BY <2>1, MetricsAssumption
    <3> QED
      BY <2>4, <2>5, <2>6, <2>9, <3>1 DEF TypeOK
  <2>11. InRange'
    <3>1. ASSUME NEW i \in 1 .. n + 1
          PROVE  /\ enqs'[i] <= MaxEnq /\ deqs'[i] <= MaxDeq
                 /\ deqs'[i] <= len'[i] /\ len'[i] <= Size
      <4>1. CASE i = n + 1
        BY <4>1, <2>1, <2>4, <2>5, <2>6
      <4>2. CASE i # n + 1
        <5>1. i \in 1 .. n
          BY <4>2
        <5> QED
          BY <5>1, <2>1, <2>4, <2>5, <2>6 DEF IInv, InRange
      <4> QED
        BY <4>1, <4>2
    <3> QED
      BY <2>4, <3>1 DEF InRange
  <2>12. /\ SumBefore(enqs', n + 1) = cenq' /\ SumBefore(deqs', n + 1) = cdeq'
    <3>1. SumBefore(enqs, n) = cenq /\ SumBefore(deqs, n) = cdeq
      BY <2>7, EvalsAre DEF IInv
    <3>2. SumBefore(enqs', n + 1) = SumBefore(enqs, n) + e
      <4>1. SumBefore(enqs', n + 1) = SumBefore(enqs, n) + enqs'[n + 1]
        BY <2>3, <2>4, <2>8, SumAppended
      <4> QED
        BY <4>1, <2>4
    <3>3. SumBefore(deqs', n + 1) = SumBefore(deqs, n) + d
      <4>1. SumBefore(deqs', n + 1) = SumBefore(deqs, n) + deqs'[n + 1]
        BY <2>3, <2>5, <2>8, SumAppended
      <4> QED
        BY <4>1, <2>5
    <3> QED
      BY <2>1, <3>1, <3>2, <3>3
  <2>13. /\ SumBefore(enqs', n) - SumBefore(deqs', n) = now + lost'
         /\ RunOf(enqs', deqs', n) >= cblocked'
         /\ lost' = 0 => RunOf(enqs', deqs', n) = cblocked'
    <3>1. /\ SumBefore(enqs, n - 1) - SumBefore(deqs, n - 1) = len[n] + lost
          /\ RunOf(enqs, deqs, n - 1) >= cblocked
          /\ lost = 0 => RunOf(enqs, deqs, n - 1) = cblocked
      BY <2>7, EvalsAre DEF IInv, QSizeOffByLost, CBlockedUntilLoss, At
    <3>2. \A i \in 1 .. n : enqs'[i] = enqs[i] /\ deqs'[i] = deqs[i]
      BY <2>4, <2>5
    <3>5. lost' = lost + ((len[n] - deqs[n]) + enqs[n]) - now /\ lost' >= lost
      BY <2>1, <2>9
    <3>3. /\ SumBefore(enqs', n) - SumBefore(deqs', n) = now + lost'
          /\ RunOf(enqs', deqs', n) >= Counted(now, deqs'[n + 1], cblocked)
          /\ lost' = 0 => RunOf(enqs', deqs', n) = Counted(now, deqs'[n + 1], cblocked)
      <4>1. OneStep(n, enqs, enqs', deqs, deqs', now, len[n], lost, lost', cblocked)
        BY <2>2, <2>3, <2>4, <2>5, <2>8, <2>9, <3>1, <3>2, <3>5 DEF OneStep
      <4> QED
        BY <4>1, EvalsStep
    <3>4. cblocked' = Counted(now, deqs'[n + 1], cblocked)
      BY <2>1, <2>5
    <3> QED
      BY <3>3, <3>4
  <2>14. QSizeOffByLost'
    BY <2>6, <2>7, <2>13 DEF QSizeOffByLost, EvalQSize, At
  <2>15. CBlockedUntilLoss'
    <3>1. EvalCBlocked(time)' = RunOf(enqs', deqs', n)
      BY <2>7 DEF EvalCBlocked, EvalQSize, RunOf, BlockedAt
    <3> QED
      BY <2>13, <3>1 DEF CBlockedUntilLoss
  <2>16. (EvalCEnq(time) = cenq)' /\ (EvalCDeq(time) = cdeq)'
    BY <2>7, <2>12 DEF EvalCEnq, EvalCDeq
  <2> QED
    BY <2>10, <2>11, <2>14, <2>15, <2>16 DEF IInv
<1>2. CASE UNCHANGED vars
  BY <1>2 DEF vars, IInv, TypeOK, InRange, QSizeOffByLost, CBlockedUntilLoss,
              EvalCEnq, EvalCDeq, EvalQSize, EvalCBlocked, time, At
<1> QED
  BY <1>1, <1>2

\* The strengthened invariant holds throughout.
LEMMA Invariant == Spec => []IInv
BY InitIInv, NextIInv, PTL DEF Spec

-----------------------------------------------------------------------------
(* Gaps between arrivals                                                   *)

\* An upper bound that is in the set is its maximum.
LEMMA MaxIs ==
    ASSUME NEW S \in SUBSET Int, NEW m \in S, \A y \in S : m >= y
    PROVE  Max(S) = m
<1>1. Max(S) \in S /\ \A y \in S : Max(S) >= y
  BY DEF Max
<1>2. Max(S) >= m /\ m >= Max(S) /\ Max(S) \in Int /\ m \in Int
  BY <1>1
<1> QED
  BY <1>2

\* A lower bound that is in the set is its minimum.
LEMMA MinIs ==
    ASSUME NEW S \in SUBSET Int, NEW m \in S, \A y \in S : m <= y
    PROVE  Min(S) = m
<1>1. Min(S) \in S /\ \A y \in S : Min(S) <= y
  BY DEF Min
<1>2. Min(S) <= m /\ m <= Min(S) /\ Min(S) \in Int /\ m \in Int
  BY <1>1
<1> QED
  BY <1>2

\* What the first loop of AIPG has wrapped after n rounds.
LEMMA WrapEarlierIs ==
    ASSUME NEW t \in Nat, NEW v
    PROVE  WrapEarlier(t, v) = IF Arrivals(0, t - 1) = {} THEN v
                               ELSE t - Max(Arrivals(0, t - 1))
<1> DEFINE Closed(n) == IF Arrivals(0, n - 1) = {} THEN v ELSE t - Max(Arrivals(0, n - 1))
           Loop(f) == f = [n \in 0 .. t |->
                             IF n = 0 THEN v
                             ELSE IF At(enqs, n - 1) > 0 THEN t - (n - 1) ELSE f[n - 1]]
           f0 == CHOOSE f : Loop(f)
<1>1. Closed(0) = v
  <2>1. Arrivals(0, 0 - 1) = {}
    BY DEF Arrivals
  <2> QED
    BY <2>1
<1>2. ASSUME NEW n \in 1 .. t
      PROVE  Closed(n) = IF At(enqs, n - 1) > 0 THEN t - (n - 1) ELSE Closed(n - 1)
  <2>1. CASE At(enqs, n - 1) > 0
    <3>1. /\ n - 1 \in Arrivals(0, n - 1)
          /\ Arrivals(0, n - 1) \in SUBSET Int
          /\ \A y \in Arrivals(0, n - 1) : n - 1 >= y
      BY <2>1 DEF Arrivals
    <3>2. Max(Arrivals(0, n - 1)) = n - 1 /\ Arrivals(0, n - 1) # {}
      BY <3>1, MaxIs
    <3> QED
      BY <2>1, <3>2
  <2>2. CASE ~(At(enqs, n - 1) > 0)
    <3>1. Arrivals(0, n - 1) = Arrivals(0, (n - 1) - 1)
      BY <2>2 DEF Arrivals
    <3> QED
      BY <2>2, <3>1
  <2> QED
    BY <2>1, <2>2
<1> HIDE DEF Closed
<1>3. Loop([n \in 0 .. t |-> Closed(n)])
  <2> DEFINE h == [n \in 0 .. t |-> Closed(n)]
  <2>1. ASSUME NEW n \in 0 .. t
        PROVE  h[n] = IF n = 0 THEN v
                      ELSE IF At(enqs, n - 1) > 0 THEN t - (n - 1) ELSE h[n - 1]
    <3>1. CASE n = 0
      BY <3>1, <1>1
    <3>2. CASE n # 0
      <4>1. n - 1 \in 0 .. t /\ n \in 1 .. t
        BY <3>2
      <4> QED
        BY <3>2, <4>1, <1>2
    <3> QED
      BY <3>1, <3>2
  <2> QED
    BY <2>1
<1>4. Loop(f0)
  BY <1>3
<1> DEFINE h0 == [n \in 0 .. t |-> Closed(n)]
<1>5. WrapEarlier(t, v) = f0[t]
  BY DEF WrapEarlier
<1>6. Loop(h0)
  BY <1>3
<1> HIDE DEF f0, h0
<1>7. \A n \in 0 .. t : f0[n] = h0[n]
  <2>1. f0[0] = h0[0]
    BY <1>4, <1>6
  <2>2. ASSUME NEW n \in 1 .. t, f0[n - 1] = h0[n - 1] PROVE f0[n] = h0[n]
    <3>1. n \in 0 .. t /\ n # 0
      OBVIOUS
    <3> QED
      BY <1>4, <1>6, <2>2, <3>1
  <2> HIDE DEF Loop
  <2> QED
    BY <2>1, <2>2, LoopIsUnique
<1>8. h0[t] = Closed(t)
  BY DEF h0
<1>9. f0[t] = h0[t]
  BY <1>7
<1> QED
  BY <1>5, <1>8, <1>9 DEF Closed

\* What the second loop of AIPG has wrapped when it reaches the step after t.
LEMMA WrapLaterIs ==
    ASSUME NEW t \in 0 .. TotalTime - 1
    PROVE  WrapLater(t) = IF Arrivals(t + 1, TotalTime - 1) = {} THEN TotalTime
                          ELSE Min(Arrivals(t + 1, TotalTime - 1)) - t
<1> DEFINE Closed(n) == IF Arrivals(TotalTime - n, TotalTime - 1) = {} THEN TotalTime
                        ELSE Min(Arrivals(TotalTime - n, TotalTime - 1)) - t
           m == TotalTime - 1 - t
           Loop(f) == f = [n \in 0 .. m |->
                             IF n = 0 THEN TotalTime
                             ELSE IF At(enqs, TotalTime - n) > 0 THEN TotalTime - n - t
                             ELSE f[n - 1]]
           f0 == CHOOSE f : Loop(f)
<1>0. TotalTime \in Nat /\ m \in Nat /\ TotalTime - m = t + 1
  BY MetricsAssumption
<1>1. Closed(0) = TotalTime
  <2>1. Arrivals(TotalTime - 0, TotalTime - 1) = {}
    BY <1>0 DEF Arrivals
  <2> QED
    BY <2>1
<1>2. ASSUME NEW n \in 1 .. m
      PROVE  Closed(n) = IF At(enqs, TotalTime - n) > 0 THEN TotalTime - n - t
                         ELSE Closed(n - 1)
  <2> DEFINE k == TotalTime - n
  <2>0. k \in Int /\ k <= TotalTime - 1 /\ TotalTime - (n - 1) = k + 1
    BY <1>0
  <2> HIDE DEF k
  <2>1. CASE At(enqs, k) > 0
    <3>1. /\ k \in Arrivals(k, TotalTime - 1)
          /\ Arrivals(k, TotalTime - 1) \in SUBSET Int
          /\ \A y \in Arrivals(k, TotalTime - 1) : k <= y
      BY <1>0, <2>0, <2>1 DEF Arrivals
    <3>2. Min(Arrivals(k, TotalTime - 1)) = k /\ Arrivals(k, TotalTime - 1) # {}
      BY <3>1, MinIs
    <3> QED
      BY <2>1, <3>2 DEF k
  <2>2. CASE ~(At(enqs, k) > 0)
    <3>1. Arrivals(k, TotalTime - 1) = Arrivals(k + 1, TotalTime - 1)
      BY <1>0, <2>0, <2>2 DEF Arrivals
    <3> QED
      BY <2>0, <2>2, <3>1 DEF k
  <2> QED
    BY <2>1, <2>2
<1>10. WrapLater(t) = f0[m]
  BY DEF WrapLater
<1>11. Closed(m) = IF Arrivals(t + 1, TotalTime - 1) = {} THEN TotalTime
                   ELSE Min(Arrivals(t + 1, TotalTime - 1)) - t
  BY <1>0
<1> HIDE DEF Closed, m
<1>3. Loop([n \in 0 .. m |-> Closed(n)])
  <2> DEFINE h == [n \in 0 .. m |-> Closed(n)]
  <2>1. ASSUME NEW n \in 0 .. m
        PROVE  h[n] = IF n = 0 THEN TotalTime
                      ELSE IF At(enqs, TotalTime - n) > 0 THEN TotalTime - n - t
                      ELSE h[n - 1]
    <3>1. CASE n = 0
      BY <3>1, <1>1
    <3>2. CASE n # 0
      <4>1. n - 1 \in 0 .. m /\ n \in 1 .. m
        BY <3>2, <1>0
      <4> QED
        BY <3>2, <4>1, <1>2
    <3> QED
      BY <3>1, <3>2
  <2> QED
    BY <2>1
<1>4. Loop(f0)
  BY <1>3
<1> DEFINE h0 == [n \in 0 .. m |-> Closed(n)]
<1>6. Loop(h0)
  BY <1>3
<1> HIDE DEF f0, h0
<1>7. \A n \in 0 .. m : f0[n] = h0[n]
  <2>1. f0[0] = h0[0]
    BY <1>0, <1>4, <1>6
  <2>2. ASSUME NEW n \in 1 .. m, f0[n - 1] = h0[n - 1] PROVE f0[n] = h0[n]
    <3>1. n \in 0 .. m /\ n # 0
      BY <1>0
    <3> QED
      BY <1>4, <1>6, <2>2, <3>1
  <2> HIDE DEF Loop
  <2> QED
    BY <1>0, <2>1, <2>2, LoopIsUnique
<1>8. h0[m] = Closed(m)
  BY <1>0 DEF h0
<1>9. f0[m] = h0[m]
  BY <1>0, <1>7
<1> QED
  BY <1>8, <1>9, <1>10, <1>11

\* AIPG::eval as a function of the steps with arrivals it goes back to.
EvalOf(steps) ==
    LET here == Max(steps)
        earlier == Arrivals(0, here - 1)
        later == Arrivals(here + 1, TotalTime - 1)
    IN  IF steps = {} \/ At(enqs, here) > 1 THEN 0
        ELSE IF earlier # {} THEN here - Max(earlier)
        ELSE IF later # {} THEN Min(later) - here
        ELSE TotalTime

\* It takes the same steps as AIPG::populate_val_exprs.
LEMMA EvalAIPGStep ==
    ASSUME NEW s \in 0 .. TotalTime - 1, At(enqs, s) \in Nat
    PROVE  EvalAIPG(s) = IF s = 0 \/ At(enqs, s) > 1 THEN 0
                         ELSE IF At(enqs, s) = 0 THEN EvalAIPG(s - 1)
                         ELSE WrapEarlier(s, WrapLater(s))
<1>0. TotalTime \in Nat
  BY MetricsAssumption
<1>1. \A t : EvalAIPG(t) = EvalOf(Arrivals(1, t))
  BY DEF EvalAIPG, EvalOf, Arrivals
<1>2. CASE s = 0
  <2>1. Arrivals(1, 0) = {}
    BY DEF Arrivals
  <2> QED
    BY <1>1, <1>2, <2>1 DEF EvalOf
<1>3. CASE s # 0 /\ At(enqs, s) = 0
  <2>1. Arrivals(1, s) = Arrivals(1, s - 1)
    BY <1>3 DEF Arrivals
  <2> QED
    BY <1>1, <1>3, <2>1
<1>4. CASE s # 0 /\ At(enqs, s) > 0
  <2>1. /\ s \in Arrivals(1, s) /\ Arrivals(1, s) \in SUBSET Int
        /\ \A y \in Arrivals(1, s) : s >= y
    BY <1>4 DEF Arrivals
  <2>2. Max(Arrivals(1, s)) = s /\ Arrivals(1, s) # {}
    BY <2>1, MaxIs
  <2>3. CASE At(enqs, s) > 1
    BY <1>1, <2>2, <2>3 DEF EvalOf
  <2>4. CASE ~(At(enqs, s) > 1)
    <3>1. EvalAIPG(s) = IF Arrivals(0, s - 1) # {} THEN s - Max(Arrivals(0, s - 1))
                        ELSE IF Arrivals(s + 1, TotalTime - 1) # {}
                        THEN Min(Arrivals(s + 1, TotalTime - 1)) - s
                        ELSE TotalTime
      BY <1>1, <2>2, <2>4 DEF EvalOf
    <3>2. WrapEarlier(s, WrapLater(s)) =
             IF Arrivals(0, s - 1) = {} THEN WrapLater(s)
             ELSE s - Max(Arrivals(0, s - 1))
      <4>1. s \in Nat
        BY <1>0
      <4> QED
        BY <4>1, WrapEarlierIs
    <3>3. WrapLater(s) = IF Arrivals(s + 1, TotalTime - 1) = {} THEN TotalTime
                         ELSE Min(Arrivals(s + 1, TotalTime - 1)) - s
      BY WrapLaterIs
    <3>4. ~(s = 0 \/ At(enqs, s) > 1) /\ At(enqs, s) # 0
      BY <1>4, <2>4
    <3> QED
      BY <3>1, <3>2, <3>3, <3>4
  <2> QED
    BY <2>3, <2>4, <1>4
<1> QED
  BY <1>2, <1>3, <1>4

\* The encoded and the evaluated AIPG of a complete example are the same.
LEMMA GapsAgree ==
    ASSUME TypeOK, Done
    PROVE  \A t \in Steps : EvalAIPG(t) = AIPG(t)
<1>0. TotalTime \in Nat \ {0} /\ Len(enqs) = TotalTime /\ Steps = 0 .. TotalTime - 1
  BY MetricsAssumption DEF TypeOK, Done, Steps, time
<1>1. \A s \in 0 .. TotalTime - 1 : At(enqs, s) \in Nat
  <2> TAKE s \in 0 .. TotalTime - 1
  <2>1. s + 1 \in 1 .. Len(enqs) /\ enqs \in Seq(Nat)
    BY <1>0 DEF TypeOK
  <2> QED
    BY <2>1, ElementOfSeq DEF At
<1> SUFFICES ASSUME NEW t \in 0 .. TotalTime - 1 PROVE EvalAIPG(t) = AIPG(t)
  BY <1>0
<1> DEFINE Round(f, s) == IF s = 0 \/ At(enqs, s) > 1 THEN 0
                          ELSE IF At(enqs, s) = 0 THEN f[s - 1]
                          ELSE WrapEarlier(s, WrapLater(s))
           Loop(f) == f = [s \in 0 .. t |-> Round(f, s)]
           f0 == CHOOSE f : Loop(f)
           h0 == [s \in 0 .. t |-> EvalAIPG(s)]
<1>2. AIPG(t) = f0[t]
  BY DEF AIPG
<1>3. ASSUME NEW s \in 0 .. t PROVE h0[s] = Round(h0, s)
  <2>1. EvalAIPG(s) = IF s = 0 \/ At(enqs, s) > 1 THEN 0
                      ELSE IF At(enqs, s) = 0 THEN EvalAIPG(s - 1)
                      ELSE WrapEarlier(s, WrapLater(s))
    <3>1. s \in 0 .. TotalTime - 1
      BY <1>0
    <3> QED
      BY <1>1, <3>1, EvalAIPGStep
  <2>2. CASE s = 0
    BY <2>1, <2>2
  <2>3. CASE s # 0
    <3>1. s - 1 \in 0 .. t
      BY <2>3
    <3> QED
      BY <2>1, <3>1
  <2> QED
    BY <2>2, <2>3
<1>4. Loop(h0)
  BY <1>3
<1>5. Loop(f0)
  BY <1>4
<1>6. h0[t] = EvalAIPG(t)
  OBVIOUS
<1> HIDE DEF f0, h0
<1>7. \A s \in 0 .. t : f0[s] = h0[s]
  <2>1. f0[0] = h0[0]
    BY <1>4, <1>5
  <2>2. ASSUME NEW s \in 1 .. t, f0[s - 1] = h0[s - 1] PROVE f0[s] = h0[s]
    <3>1. s \in 0 .. t
      OBVIOUS
    <3> QED
      BY <1>4, <1>5, <2>2, <3>1
  <2> HIDE DEF Loop
  <2> QED
    BY <2>1, <2>2, LoopIsUnique
<1> QED
  BY <1>2, <1>6, <1>7

-----------------------------------------------------------------------------
(* What holds of the metrics                                               *)

\* Counts and lengths stay in range, and no packet leaves that is not there.
THEOREM MetricsTypeOK == Spec => [](TypeOK /\ InRange)
<1>1. IInv => TypeOK /\ InRange
  BY DEF IInv
<1> QED
  BY <1>1, Invariant, PTL

\* QSIZE::eval is the length of the queue plus all it has lost (qsize.cpp:17-29).
THEOREM MetricsQSizeOffByLost == Spec => []QSizeOffByLost
<1>1. IInv => QSizeOffByLost
  BY DEF IInv
<1> QED
  BY <1>1, Invariant, PTL

\* CBLOCKED::eval is never below the encoded value, and it is that value until
\* a packet is lost (cblocked.cpp:17-38).
THEOREM MetricsCBlockedUntilLoss == Spec => []CBlockedUntilLoss
<1>1. IInv => CBlockedUntilLoss
  BY DEF IInv
<1> QED
  BY <1>1, Invariant, PTL

\* CENQ, CDEQ and AIPG mean the same to the solver and to the search.
THEOREM MetricsSumsAndGapsAgree == Spec => []SumsAndGapsAgree
<1>1. IInv => SumsAndGapsAgree
  BY GapsAgree DEF IInv, SumsAndGapsAgree
<1> QED
  BY <1>1, Invariant, PTL
=============================================================================
