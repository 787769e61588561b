---------------------------- MODULE WorkloadProofs ----------------------------
(***************************************************************************)
(* For any number of queues and steps, any constants and any executions:   *)
(* normalising a Comp keeps what it asks of an execution, and an execution *)
(* is evaluated against a spec as the solver is asked for it, but for the  *)
(* exceptions that the two properties name.  The entries of a timeline     *)
(* share out the steps, with TimedSpecs that ask what their Comps do; so   *)
(* adding a spec keeps the executions that both admit, removing one loses  *)
(* none, and a zero is taken out of whatever is left with it.              *)
(***************************************************************************)
EXTENDS Workload, FiniteSetTheorems, WellFoundedInduction, TLAPS

(* Sums over the queues ******************************************************)

\* A non-empty set of naturals has a least element.
LEMMA LeastNumberExists ==
    ASSUME NEW T \in SUBSET Nat, T # {}
    PROVE  \E x \in T : \A y \in T : x <= y
<1>1. PICK x \in T : \A y \in T : <<y, x>> \notin OpToRel(<, Nat)
  BY NatLessThanWellFounded, WFMin
<1>2. ASSUME NEW y \in T, y < x PROVE <<y, x>> \in OpToRel(<, Nat)
  BY <1>2 DEF OpToRel
<1>3. ASSUME NEW y \in T PROVE ~(y < x)
  BY <1>1, <1>2
<1>4. ASSUME NEW y \in T PROVE x <= y
  BY <1>3
<1> QED
  BY <1>4

\* What holds at first and passes from each number to the next holds of all.
LEMMA UpTo ==
    ASSUME NEW m \in Nat, NEW S, 0 \in S, \A n \in 0 .. m - 1 : n \in S => n + 1 \in S
    PROVE  \A n \in 0 .. m : n \in S
<1> DEFINE T == {n \in 0 .. m : n \notin S}
<1> SUFFICES ASSUME T # {} PROVE FALSE
  OBVIOUS
<1>1. PICK k \in T : \A n \in T : k <= n
  <2>1. T \in SUBSET Nat
    OBVIOUS
  <2> QED
    BY <2>1, LeastNumberExists
<1>2. k - 1 \in 0 .. m - 1 /\ k - 1 \notin T /\ (k - 1) + 1 = k
  BY <1>1
<1> QED
  BY <1>2

\* s[n] is the sum of the first n numbers.
PartialSums(s, f, n) == s = [i \in 0 .. n |-> IF i = 0 THEN 0 ELSE s[i - 1] + f[i - 1]]

\* A total is the last of its partial sums.
LEMMA SumsExist ==
    ASSUME NEW f \in [Queues -> Int]
    PROVE  \E s \in [0 .. InQueueCnt -> Int] :
              /\ s[0] = 0 /\ Total(f) = s[InQueueCnt]
              /\ \A n \in 0 .. InQueueCnt - 1 : s[n + 1] = s[n] + f[n]
<1> DEFINE S == {k \in 0 .. InQueueCnt : \E s : PartialSums(s, f, k)}
<1>0. InQueueCnt \in Nat
  BY SpecAssumption
<1>1. 0 \in S
  <2>1. PartialSums([i \in 0 .. 0 |-> 0], f, 0)
    BY DEF PartialSums
  <2> QED
    BY <1>0, <2>1
<1>2. ASSUME NEW k \in 0 .. InQueueCnt - 1, k \in S PROVE k + 1 \in S
  <2>1. PICK s : PartialSums(s, f, k)
    BY <1>2
  <2> DEFINE h == [i \in 0 .. k + 1 |-> IF i = k + 1 THEN s[k] + f[k] ELSE s[i]]
  <2>2. ASSUME NEW i \in 0 .. k + 1
        PROVE  h[i] = IF i = 0 THEN 0 ELSE h[i - 1] + f[i - 1]
    <3>1. CASE i = k + 1
      <4>1. k \in 0 .. k + 1 /\ k # k + 1 /\ i # 0 /\ i - 1 = k
        BY <3>1
      <4>2. h[k] = s[k] /\ h[i] = s[k] + f[k]
        BY <3>1, <4>1
      <4> HIDE DEF h
      <4> QED
        BY <3>1, <4>1, <4>2
    <3>2. CASE i # k + 1
      <4>1. i \in 0 .. k /\ h[i] = s[i]
        BY <3>2
      <4>2. i # 0 => i - 1 \in 0 .. k + 1 /\ i - 1 # k + 1 /\ h[i - 1] = s[i - 1]
        BY <4>1
      <4>3. s[i] = IF i = 0 THEN 0 ELSE s[i - 1] + f[i - 1]
        BY <2>1, <4>1 DEF PartialSums
      <4> HIDE DEF h
      <4> QED
        BY <4>1, <4>2, <4>3
    <3> QED
      BY <3>1, <3>2
  <2>3. PartialSums(h, f, k + 1)
    <3>1. h = [i \in 0 .. k + 1 |-> h[i]]
      OBVIOUS
    <3> HIDE DEF h
    <3> QED
      BY <2>2, <3>1 DEF PartialSums
  <2> HIDE DEF h
  <2>4. k + 1 \in 0 .. InQueueCnt
    BY <1>0
  <2> QED
    BY <2>3, <2>4
<1> HIDE DEF S
<1>3. InQueueCnt \in S
  <2>1. \A k \in 0 .. InQueueCnt : k \in S
    BY <1>0, <1>1, <1>2, UpTo
  <2> QED
    BY <1>0, <2>1
<1> DEFINE sum == CHOOSE s : PartialSums(s, f, InQueueCnt)
<1>4. PartialSums(sum, f, InQueueCnt)
  BY <1>3 DEF S
<1>5. Total(f) = sum[InQueueCnt]
  BY DEF Total, PartialSums
<1> HIDE DEF sum
<1>6. sum[0] = 0 /\ DOMAIN sum = 0 .. InQueueCnt
  BY <1>0, <1>4 DEF PartialSums
<1>7. ASSUME NEW n \in 0 .. InQueueCnt - 1 PROVE sum[n + 1] = sum[n] + f[n]
  <2>1. n + 1 \in 0 .. InQueueCnt /\ n + 1 # 0 /\ (n + 1) - 1 = n
    BY <1>0
  <2> QED
    BY <1>4, <2>1 DEF PartialSums
<1> DEFINE T == {k \in 0 .. InQueueCnt : sum[k] \in Int}
<1>8. \A k \in 0 .. InQueueCnt : k \in T
  <2>1. 0 \in T
    BY <1>0, <1>6
  <2>2. ASSUME NEW k \in 0 .. InQueueCnt - 1, k \in T PROVE k + 1 \in T
    <3>1. k \in Queues /\ f[k] \in Int /\ sum[k] \in Int /\ k + 1 \in 0 .. InQueueCnt
      BY <1>0, <2>2 DEF Queues
    <3> QED
      BY <1>7, <3>1
  <2> HIDE DEF T
  <2> QED
    BY <1>0, <2>1, <2>2, UpTo
<1>9. sum \in [0 .. InQueueCnt -> Int]
  <2>1. sum = [i \in 0 .. InQueueCnt |-> sum[i]]
    BY <1>4 DEF PartialSums
  <2> QED
    BY <1>8, <2>1
<1> QED
  BY <1>5, <1>6, <1>7, <1>9

\* A sum of integers is an integer.
LEMMA TotalType ==
    ASSUME NEW f \in [Queues -> Int]
    PROVE  Total(f) \in Int
<1>1. InQueueCnt \in Nat
  BY SpecAssumption
<1> QED
  BY <1>1, SumsExist

\* A sum of smaller numbers is smaller.
LEMMA TotalLess ==
    ASSUME NEW f \in [Queues -> Int], NEW g \in [Queues -> Int], \A q \in Queues : f[q] <= g[q]
    PROVE  Total(f) <= Total(g)
<1>0. InQueueCnt \in Nat
  BY SpecAssumption
<1>1. PICK s \in [0 .. InQueueCnt -> Int] :
              /\ s[0] = 0 /\ Total(f) = s[InQueueCnt]
              /\ \A n \in 0 .. InQueueCnt - 1 : s[n + 1] = s[n] + f[n]
  BY SumsExist
<1>2. PICK t \in [0 .. InQueueCnt -> Int] :
              /\ t[0] = 0 /\ Total(g) = t[InQueueCnt]
              /\ \A n \in 0 .. InQueueCnt - 1 : t[n + 1] = t[n] + g[n]
  BY SumsExist
<1> DEFINE S == {k \in 0 .. InQueueCnt : s[k] <= t[k]}
<1>3. 0 \in S
  BY <1>0, <1>1, <1>2
<1>4. ASSUME NEW k \in 0 .. InQueueCnt - 1, k \in S PROVE k + 1 \in S
  <2>1. k \in Queues /\ k \in 0 .. InQueueCnt /\ k + 1 \in 0 .. InQueueCnt
    BY <1>0 DEF Queues
  <2>2. f[k] \in Int /\ g[k] \in Int /\ f[k] <= g[k] /\ s[k] \in Int /\ t[k] \in Int
    BY <2>1
  <2>3. s[k + 1] = s[k] + f[k] /\ t[k + 1] = t[k] + g[k] /\ s[k] <= t[k]
    BY <1>1, <1>2, <1>4
  <2> QED
    BY <2>1, <2>2, <2>3
<1> HIDE DEF S
<1>5. InQueueCnt \in S
  <2>1. \A k \in 0 .. InQueueCnt : k \in S
    BY <1>0, <1>3, <1>4, UpTo
  <2> QED
    BY <1>0, <2>1
<1> QED
  BY <1>1, <1>2, <1>5 DEF S

\* Sums add up.
LEMMA TotalPlus ==
    ASSUME NEW f \in [Queues -> Int], NEW g \in [Queues -> Int], NEW h \in [Queues -> Int],
           \A q \in Queues : h[q] = f[q] + g[q]
    PROVE  Total(h) = Total(f) + Total(g)
<1>0. InQueueCnt \in Nat
  BY SpecAssumption
<1>1. PICK s \in [0 .. InQueueCnt -> Int] :
              /\ s[0] = 0 /\ Total(f) = s[InQueueCnt]
              /\ \A n \in 0 .. InQueueCnt - 1 : s[n + 1] = s[n] + f[n]
  BY SumsExist
<1>2. PICK t \in [0 .. InQueueCnt -> Int] :
              /\ t[0] = 0 /\ Total(g) = t[InQueueCnt]
              /\ \A n \in 0 .. InQueueCnt - 1 : t[n + 1] = t[n] + g[n]
  BY SumsExist
<1>3. PICK u \in [0 .. InQueueCnt -> Int] :
              /\ u[0] = 0 /\ Total(h) = u[InQueueCnt]
              /\ \A n \in 0 .. InQueueCnt - 1 : u[n + 1] = u[n] + h[n]
  BY SumsExist
<1> DEFINE S == {k \in 0 .. InQueueCnt : u[k] = s[k] + t[k]}
<1>4. 0 \in S
  BY <1>0, <1>1, <1>2, <1>3
<1>5. ASSUME NEW k \in 0 .. InQueueCnt - 1, k \in S PROVE k + 1 \in S
  <2>1. k \in Queues /\ k \in 0 .. InQueueCnt /\ k + 1 \in 0 .. InQueueCnt
    BY <1>0 DEF Queues
  <2>2. /\ f[k] \in Int /\ g[k] \in Int /\ h[k] = f[k] + g[k]
        /\ s[k] \in Int /\ t[k] \in Int /\ u[k] = s[k] + t[k]
    BY <1>5, <2>1
  <2>3. s[k + 1] = s[k] + f[k] /\ t[k + 1] = t[k] + g[k] /\ u[k + 1] = u[k] + h[k]
    BY <1>1, <1>2, <1>3
  <2>4. u[k + 1] = s[k + 1] + t[k + 1]
    BY <2>2, <2>3
  <2> QED
    BY <2>1, <2>4
<1> HIDE DEF S
<1>6. InQueueCnt \in S
  <2>1. \A k \in 0 .. InQueueCnt : k \in S
    BY <1>0, <1>4, <1>5, UpTo
  <2> QED
    BY <1>0, <2>1
<1> QED
  BY <1>1, <1>2, <1>3, <1>6 DEF S

\* A sum over some queues is bounded by their number.
LEMMA TotalBound ==
    ASSUME NEW f \in [Queues -> Int], NEW qs \in SUBSET Queues, NEW b \in Nat,
           \A q \in Queues : f[q] <= IF q \in qs THEN b ELSE 0
    PROVE  Total(f) <= Cardinality(qs) * b
<1>0. InQueueCnt \in Nat
  BY SpecAssumption
<1>1. PICK s \in [0 .. InQueueCnt -> Int] :
              /\ s[0] = 0 /\ Total(f) = s[InQueueCnt]
              /\ \A n \in 0 .. InQueueCnt - 1 : s[n + 1] = s[n] + f[n]
  BY SumsExist
<1>n. \A q \in qs : q \in Nat /\ q < InQueueCnt
  <2>1. \A q \in Queues : q \in Nat /\ q < InQueueCnt
    BY <1>0 DEF Queues
  <2> QED
    BY <2>1
<1> DEFINE S == {k \in 0 .. InQueueCnt : s[k] <= Cardinality({q \in qs : q < k}) * b}
<1>2. 0 \in S
  <2>1. {q \in qs : q < 0} = {}
    BY <1>n
  <2>2. Cardinality({q \in qs : q < 0}) = 0
    BY <2>1, FS_EmptySet
  <2> QED
    BY <1>0, <1>1, <2>2
<1>3. ASSUME NEW k \in 0 .. InQueueCnt - 1, k \in S PROVE k + 1 \in S
  <2> DEFINE A == {q \in qs : q < k}
             B == {q \in qs : q < k + 1}
  <2>1. k \in Queues /\ k \in 0 .. InQueueCnt /\ k + 1 \in 0 .. InQueueCnt
    BY <1>0 DEF Queues
  <2>2. IsFiniteSet(A) /\ k \notin A
    <3>1. IsFiniteSet(Queues)
      BY <1>0, FS_Interval DEF Queues
    <3>2. A \in SUBSET Queues
      OBVIOUS
    <3> QED
      BY <3>1, <3>2, FS_Subset
  <2>3. B = IF k \in qs THEN A \cup {k} ELSE A
    <3>1. \A q \in qs : q < k + 1 <=> q < k \/ q = k
      BY <1>n, <2>1
    <3> QED
      BY <2>1, <3>1
  <2>4. s[k + 1] = s[k] + f[k] /\ s[k] <= Cardinality(A) * b
        /\ s[k] \in Int /\ f[k] \in Int /\ f[k] <= IF k \in qs THEN b ELSE 0
    BY <1>1, <1>3, <2>1
  <2>5. Cardinality(A) \in Nat /\ Cardinality(A \cup {k}) = Cardinality(A) + 1
    BY <2>2, FS_CardinalityType, FS_AddElement
  <2>6. s[k + 1] <= Cardinality(B) * b
    <3> HIDE DEF A, B
    <3>0. (Cardinality(A) + 1) * b = Cardinality(A) * b + b /\ Cardinality(A) * b \in Int
      BY <2>5
    <3>1. CASE k \in qs
      <4>1. Cardinality(B) * b = Cardinality(A) * b + b
        BY <2>3, <2>5, <3>0, <3>1
      <4> QED
        BY <2>4, <3>0, <3>1, <4>1
    <3>2. CASE k \notin qs
      <4>1. B = A
        BY <2>3, <3>2
      <4> QED
        BY <2>4, <3>0, <3>2, <4>1
    <3> QED
      BY <3>1, <3>2
  <2> QED
    BY <2>1, <2>6
<1> HIDE DEF S
<1>4. InQueueCnt \in S
  <2>1. \A k \in 0 .. InQueueCnt : k \in S
    BY <1>0, <1>2, <1>3, UpTo
  <2> QED
    BY <1>0, <2>1
<1>5. {q \in qs : q < InQueueCnt} = qs
  BY <1>n
<1> QED
  BY <1>1, <1>4, <1>5 DEF S

(* The values of an execution ************************************************)

\* The counts of an execution, and what fits into the steps until t.
LEMMA CountsOf ==
    ASSUME NEW e \in Executions, NEW q \in Queues
    PROVE  /\ \A t \in Steps : e.cenq[q][t] \in Nat /\ e.dst[q][t] \in Int
           /\ \A t \in Steps : e.cenq[q][t] <= MaxEnq * (t + 1)
           /\ \A t \in Steps : t # 0 => e.cenq[q][t - 1] <= e.cenq[q][t]
<1>0. TotalTime \in Nat \ {0} /\ MaxEnq \in Nat
  BY SpecAssumption
<1>1. /\ e.cenq \in [Queues -> [Steps -> Nat]]
      /\ e.dst \in [Queues -> [Steps -> Nat \cup {NoValue}]]
  BY ExecutionsAssumption
<1>2. \A t \in Steps : e.cenq[q][t] \in Nat /\ e.dst[q][t] \in Int
  <2>1. e.cenq[q] \in [Steps -> Nat] /\ e.dst[q] \in [Steps -> Nat \cup {NoValue}]
    BY <1>1
  <2>2. NoValue \in Int
    BY DEF NoValue
  <2> QED
    BY <2>1, <2>2
<1>3. ASSUME NEW t \in Steps
      PROVE  /\ t = 0 => e.cenq[q][t] <= MaxEnq
             /\ t # 0 => /\ t - 1 \in Steps /\ e.cenq[q][t - 1] <= e.cenq[q][t]
                         /\ e.cenq[q][t] <= e.cenq[q][t - 1] + MaxEnq
  <2>1. e.cenq[q][t] - (IF t = 0 THEN 0 ELSE e.cenq[q][t - 1]) \in 0 .. MaxEnq
    BY ExecutionsAssumption
  <2>2. t # 0 => t - 1 \in Steps
    BY <1>0 DEF Steps
  <2> QED
    BY <1>0, <1>2, <2>1, <2>2
<1> DEFINE S == {n \in 0 .. TotalTime - 1 : e.cenq[q][n] <= MaxEnq * (n + 1)}
<1>4. 0 \in S
  BY <1>0, <1>3 DEF Steps
<1>5. ASSUME NEW n \in 0 .. (TotalTime - 1) - 1, n \in S PROVE n + 1 \in S
  <2>1. n + 1 \in Steps /\ n \in Steps /\ n + 1 # 0 /\ (n + 1) - 1 = n
    BY <1>0 DEF Steps
  <2>2. e.cenq[q][n + 1] <= e.cenq[q][n] + MaxEnq
    BY <1>3, <2>1
  <2>3. MaxEnq * ((n + 1) + 1) = MaxEnq * (n + 1) + MaxEnq
    BY <1>0
  <2>4. e.cenq[q][n] <= MaxEnq * (n + 1) /\ MaxEnq * (n + 1) \in Int
    BY <1>0, <1>5
  <2>5. e.cenq[q][n] \in Int /\ e.cenq[q][n + 1] \in Int
    BY <1>2, <2>1
  <2>6. e.cenq[q][n + 1] <= MaxEnq * ((n + 1) + 1)
    BY <1>0, <2>2, <2>3, <2>4, <2>5
  <2> QED
    BY <1>0, <2>1, <2>6 DEF Steps
<1> HIDE DEF S
<1>6. \A n \in 0 .. TotalTime - 1 : n \in S
  BY <1>0, <1>4, <1>5, UpTo
<1> QED
  BY <1>2, <1>3, <1>6 DEF S, Steps

\* What a sum adds up.
Summands(m, qs, e, t) == [q \in Queues |-> IF q \in qs THEN Value(m, q, e, t) ELSE 0]

\* The values that are summed are numbers, and so is the sum.
LEMMA SummandsOf ==
    ASSUME NEW m, NEW qs, NEW e \in Executions, NEW t \in Steps
    PROVE  /\ Summands(m, qs, e, t) \in [Queues -> Int]
           /\ SumOf(Metric(m, qs), e, t) = Total(Summands(m, qs, e, t))
           /\ SumOf(Metric(m, qs), e, t) \in Int
<1>1. \A q \in Queues : Value(m, q, e, t) \in Int
  BY CountsOf DEF Value
<1>2. Summands(m, qs, e, t) \in [Queues -> Int]
  BY <1>1 DEF Summands
<1>3. SumOf(Metric(m, qs), e, t) = Total(Summands(m, qs, e, t))
  BY DEF SumOf, Metric, Summands
<1> QED
  BY <1>2, <1>3, TotalType

\* Two sums that share no queue make the sum over both.
LEMMA SumSplits ==
    ASSUME NEW m, NEW A, NEW B, A \cap B = {}, NEW e \in Executions, NEW t \in Steps
    PROVE  SumOf(Metric(m, A \cup B), e, t) = SumOf(Metric(m, A), e, t) + SumOf(Metric(m, B), e, t)
<1> DEFINE f == Summands(m, A, e, t)
           g == Summands(m, B, e, t)
           h == Summands(m, A \cup B, e, t)
<1>1. \A q \in Queues : Value(m, q, e, t) \in Int
  BY CountsOf DEF Value
<1>2. ASSUME NEW q \in Queues PROVE h[q] = f[q] + g[q]
  <2>1. /\ h[q] = IF q \in A \cup B THEN Value(m, q, e, t) ELSE 0
        /\ f[q] = IF q \in A THEN Value(m, q, e, t) ELSE 0
        /\ g[q] = IF q \in B THEN Value(m, q, e, t) ELSE 0
    BY DEF Summands
  <2>2. Value(m, q, e, t) \in Int
    BY <1>1
  <2>3. ~(q \in A /\ q \in B)
    OBVIOUS
  <2> HIDE DEF f, g, h
  <2> QED
    BY <2>1, <2>2, <2>3
<1>3. f \in [Queues -> Int] /\ g \in [Queues -> Int] /\ h \in [Queues -> Int]
  BY SummandsOf
<1>4. /\ SumOf(Metric(m, A \cup B), e, t) = Total(h)
      /\ SumOf(Metric(m, A), e, t) = Total(f) /\ SumOf(Metric(m, B), e, t) = Total(g)
  BY SummandsOf
<1> HIDE DEF f, g, h
<1> QED
  BY <1>2, <1>3, <1>4, TotalPlus

\* An empty sum.
LEMMA SumOfNone ==
    ASSUME NEW m, NEW e \in Executions, NEW t \in Steps
    PROVE  SumOf(Metric(m, {}), e, t) = 0
<1>1. SumOf(Metric(m, {} \cup {}), e, t) = SumOf(Metric(m, {}), e, t) + SumOf(Metric(m, {}), e, t)
  BY SumSplits
<1>2. SumOf(Metric(m, {}), e, t) \in Int
  BY SummandsOf
<1>3. {} \cup {} = {}
  OBVIOUS
<1> QED
  BY <1>1, <1>2, <1>3

\* A sum of CENQ is no less than zero, no more than what its queues can have
\* taken, and never decreases.
LEMMA SumOfCEnq ==
    ASSUME NEW qs \in SUBSET Queues, NEW e \in Executions, NEW t \in Steps
    PROVE  /\ SumOf(Metric("CENQ", qs), e, t) >= 0
           /\ SumOf(Metric("CENQ", qs), e, t) <= Cardinality(qs) * (MaxEnq * (t + 1))
<1> DEFINE f == Summands("CENQ", qs, e, t)
           zero == Summands("CENQ", {}, e, t)
<1>0. t \in Nat /\ MaxEnq \in Nat /\ MaxEnq * (t + 1) \in Nat
  BY SpecAssumption DEF Steps
<1>1. \A q \in Queues : e.cenq[q][t] \in Nat /\ e.cenq[q][t] <= MaxEnq * (t + 1)
  BY CountsOf
<1>2. \A q \in Queues : f[q] = (IF q \in qs THEN e.cenq[q][t] ELSE 0) /\ zero[q] = 0
  BY DEF Summands, Value
<1>3. f \in [Queues -> Int] /\ zero \in [Queues -> Int]
  BY SummandsOf
<1>4. SumOf(Metric("CENQ", qs), e, t) = Total(f) /\ SumOf(Metric("CENQ", {}), e, t) = Total(zero)
  BY SummandsOf
<1> HIDE DEF f, zero
<1>5. \A q \in Queues : zero[q] <= f[q]
  BY <1>1, <1>2
<1>6. \A q \in Queues : f[q] <= IF q \in qs THEN MaxEnq * (t + 1) ELSE 0
  BY <1>0, <1>1, <1>2
<1>7. Total(zero) <= Total(f)
  BY <1>3, <1>5, TotalLess
<1>8. Total(f) <= Cardinality(qs) * (MaxEnq * (t + 1))
  BY <1>0, <1>3, <1>6, TotalBound
<1>9. Total(zero) = 0 /\ Total(f) \in Int
  BY <1>3, <1>4, SumOfNone, TotalType
<1> QED
  BY <1>4, <1>7, <1>8, <1>9

\* CENQ never decreases.
LEMMA SumGrows ==
    ASSUME NEW qs, NEW e \in Executions, NEW t \in Steps, NEW u \in Steps, t <= u
    PROVE  SumOf(Metric("CENQ", qs), e, t) <= SumOf(Metric("CENQ", qs), e, u)
<1>0. TotalTime \in Nat \ {0}
  BY SpecAssumption
<1> DEFINE X(n) == SumOf(Metric("CENQ", qs), e, n)
           S == {n \in 0 .. (TotalTime - 1) - t : X(t) <= X(t + n)}
<1>1. \A n \in Steps : X(n) \in Int
  BY SummandsOf
<1>2. ASSUME NEW n \in Steps, n # 0 PROVE n - 1 \in Steps /\ X(n - 1) <= X(n)
  <2>0. n - 1 \in Steps
    BY <1>0, <1>2 DEF Steps
  <2> DEFINE f == Summands("CENQ", qs, e, n - 1)
             g == Summands("CENQ", qs, e, n)
  <2>1. f \in [Queues -> Int] /\ g \in [Queues -> Int] /\ X(n - 1) = Total(f) /\ X(n) = Total(g)
    BY <2>0, SummandsOf
  <2>2. ASSUME NEW q \in Queues PROVE f[q] <= g[q]
    <3>1. f[q] = (IF q \in qs THEN e.cenq[q][n - 1] ELSE 0)
          /\ g[q] = (IF q \in qs THEN e.cenq[q][n] ELSE 0)
      BY DEF Summands, Value
    <3>2. e.cenq[q][n - 1] <= e.cenq[q][n]
      BY <1>2, CountsOf
    <3> HIDE DEF f, g
    <3> QED
      BY <3>1, <3>2
  <2> HIDE DEF f, g, X
  <2> QED
    BY <2>0, <2>1, <2>2, TotalLess
<1> HIDE DEF X
<1>3. 0 \in S
  <2>1. t \in 0 .. TotalTime - 1 /\ t + 0 = t /\ X(t) \in Int
    BY <1>1 DEF Steps
  <2> QED
    BY <1>0, <2>1
<1>4. ASSUME NEW n \in 0 .. ((TotalTime - 1) - t) - 1, n \in S PROVE n + 1 \in S
  <2>1. /\ t + n \in Steps /\ t + (n + 1) \in Steps /\ t + (n + 1) # 0
        /\ (t + (n + 1)) - 1 = t + n /\ n + 1 \in 0 .. (TotalTime - 1) - t
    BY <1>0 DEF Steps
  <2>2. X(t + n) <= X(t + (n + 1)) /\ X(t) <= X(t + n)
    BY <1>2, <1>4, <2>1
  <2>3. X(t) \in Int /\ X(t + n) \in Int /\ X(t + (n + 1)) \in Int
    BY <1>1, <2>1
  <2>4. X(t) <= X(t + (n + 1))
    BY <2>2, <2>3
  <2> QED
    BY <2>1, <2>4
<1> HIDE DEF S
<1>5. (TotalTime - 1) - t \in Nat /\ u - t \in 0 .. (TotalTime - 1) - t /\ t + (u - t) = u
  BY <1>0 DEF Steps
<1>6. \A n \in 0 .. (TotalTime - 1) - t : n \in S
  BY <1>3, <1>4, <1>5, UpTo
<1>7. u - t \in S
  BY <1>5, <1>6
<1>8. X(t) <= X(u)
  BY <1>5, <1>7 DEF S
<1> QED
  BY <1>8 DEF X

(* Normalising ***************************************************************)

\* Bounds in time that overflow in no step.
Coeffs == {k \in Nat \ {0} : k < MaxInt /\ k * TotalTime <= MaxInt}

\* A bound that was not lowered below -1, as an unsigned int.
IsBound(v) == v \in Nat /\ v <= 2 * MaxInt + 1 /\ Signed(v) \in -1 .. MaxInt - 1

\* A bound on constants below it makes INT_MAX positive.
LEMMA IntIs == MaxInt \in Nat /\ MaxInt > 0
<1>1. MaxInt \in Nat
  BY SpecAssumption
<1> QED
  BY <1>1, WorkloadAssumption

\* What is drawn does not.
LEMMA CoeffsAre == TimeCoeffs \cup {1} \subseteq Coeffs
BY FactoryAssumption, CoeffsAssumption DEF Coeffs

\* The next bounds, with the wrap around zero.
LEMMA NextBounds ==
    ASSUME NEW v, IsBound(v)
    PROVE  /\ Signed(v) \in Int
           /\ Unsigned(v + 1) \in Nat /\ Unsigned(v + 1) <= 2 * MaxInt + 1
           /\ Signed(Unsigned(v + 1)) = Signed(v) + 1
           /\ Unsigned(v - 1) \in Nat /\ Unsigned(v - 1) <= 2 * MaxInt + 1
           /\ Signed(Unsigned(v - 1)) = Signed(v) - 1
<1> DEFINE w == 2 * (MaxInt + 1)
<1>0. MaxInt \in Nat /\ MaxInt > 0 /\ w \in Nat /\ w > 0 /\ w = 2 * MaxInt + 2
  BY IntIs
<1>1. ASSUME NEW x \in 0 .. w - 1 PROVE x % w = x /\ w % w = 0 /\ (-1) % w = w - 1
  <2> HIDE DEF w
  <2> QED
    BY <1>0
<1>2. v \in Nat /\ v <= w - 1
  BY <1>0 DEF IsBound
<1>3. v <= MaxInt - 1 \/ v = w - 1
  BY <1>0, <1>2 DEF IsBound, Signed
<1>4. CASE v <= MaxInt - 1
  <2>1. Unsigned(v + 1) = v + 1
    <3>1. v + 1 \in 0 .. w - 1
      BY <1>0, <1>2, <1>4
    <3> QED
      BY <1>1, <3>1 DEF Unsigned
  <2>2. Unsigned(v - 1) = IF v = 0 THEN w - 1 ELSE v - 1
    <3>1. CASE v = 0
      <4>1. v - 1 = -1 /\ 0 \in 0 .. w - 1
        BY <1>0, <3>1
      <4> QED
        BY <1>1, <3>1, <4>1 DEF Unsigned
    <3>2. CASE v # 0
      <4>1. v - 1 \in 0 .. w - 1
        BY <1>0, <1>2, <3>2
      <4> QED
        BY <1>1, <3>2, <4>1 DEF Unsigned
    <3> QED
      BY <3>1, <3>2
  <2> HIDE DEF w
  <2> QED
    BY <1>0, <1>2, <1>4, <2>1, <2>2 DEF Signed
<1>5. CASE v = w - 1
  <2>1. Unsigned(v + 1) = 0
    <3>1. v + 1 = w /\ 0 \in 0 .. w - 1
      BY <1>0, <1>5
    <3> QED
      BY <1>1, <3>1 DEF Unsigned
  <2>2. Unsigned(v - 1) = v - 1
    <3>1. v - 1 \in 0 .. w - 1
      BY <1>0, <1>2, <1>5
    <3> QED
      BY <1>1, <3>1 DEF Unsigned
  <2> HIDE DEF w
  <2> QED
    BY <1>0, <1>2, <1>5, <2>1, <2>2 DEF Signed
<1> QED
  BY <1>3, <1>4, <1>5

\* A bound in time does not wrap.
LEMMA TimeBound ==
    ASSUME NEW k \in Coeffs, NEW t \in Steps
    PROVE  /\ k \in Nat \ {0} /\ k < MaxInt /\ k * (t + 1) \in Nat /\ k * (t + 1) <= MaxInt
           /\ Unsigned(k * (t + 1)) = k * (t + 1)
           /\ Signed(k * (t + 1)) = k * (t + 1)
<1>0. MaxInt \in Nat /\ TotalTime \in Nat \ {0} /\ t \in Nat /\ t + 1 <= TotalTime
  BY SpecAssumption DEF Steps
<1>1. k \in Nat \ {0} /\ k < MaxInt /\ k * TotalTime <= MaxInt
  BY DEF Coeffs
<1>2. k * (t + 1) <= k * TotalTime /\ k * (t + 1) \in Nat /\ k * TotalTime \in Nat
  BY <1>0, <1>1
<1>3. k * (t + 1) <= MaxInt
  BY <1>0, <1>1, <1>2
<1> DEFINE w == 2 * (MaxInt + 1)
           x == k * (t + 1)
<1>4. x \in 0 .. w - 1 /\ w \in Nat /\ w > 0
  BY <1>0, <1>2, <1>3
<1>5. x % w = x
  <2> HIDE DEF x, w
  <2> QED
    BY <1>4
<1> QED
  BY <1>0, <1>1, <1>2, <1>3, <1>5 DEF Unsigned, Signed

\* What the solver is asked for a Comp.
LEMMA EncodedIs ==
    ASSUME NEW m, NEW qs, NEW op, NEW e, NEW t
    PROVE  /\ \A v : EncodedComp(RawComp(Metric(m, qs), op, Constant(v)), e, t)
                 <=> /\ ExprValid(Metric(m, qs), e, t)
                     /\ Compare(SumOf(Metric(m, qs), e, t), op, Signed(v))
           /\ \A k : EncodedComp(RawComp(Metric(m, qs), op, Time(k)), e, t)
                 <=> /\ ExprValid(Metric(m, qs), e, t)
                     /\ Compare(SumOf(Metric(m, qs), e, t), op, Signed(Unsigned(k * (t + 1))))
           /\ \A n, r : EncodedComp(RawComp(Metric(m, qs), op, Metric(n, r)), e, t)
                 <=> /\ ExprValid(Metric(m, qs), e, t) /\ ExprValid(Metric(n, r), e, t)
                     /\ Compare(SumOf(Metric(m, qs), e, t), op, SumOf(Metric(n, r), e, t))
<1>1. Encoded(Metric(m, qs), e, t) = SumOf(Metric(m, qs), e, t)
  BY DEF Encoded, Metric
<1>2. \A v : Encoded(Constant(v), e, t) = Signed(v) /\ ExprValid(Constant(v), e, t)
  BY DEF Encoded, Constant, ExprValid
<1>3. \A k : Encoded(Time(k), e, t) = Signed(Unsigned(k * (t + 1))) /\ ExprValid(Time(k), e, t)
  BY DEF Encoded, Time, ExprValid
<1>4. \A n, r : Encoded(Metric(n, r), e, t) = SumOf(Metric(n, r), e, t)
  BY DEF Encoded, Metric
<1>5. \A x, y : RawComp(x, op, y).lhs = x /\ RawComp(x, op, y).op = op /\ RawComp(x, op, y).rhs = y
  BY DEF RawComp
<1> QED
  BY <1>1, <1>2, <1>3, <1>4, <1>5 DEF EncodedComp

\* A Comp with a constant becomes one of another constant ...
LEMMA ConstantForm ==
    ASSUME NEW x, NEW op \in Ops, NEW v
    PROVE  LET c == RawComp(x, op, Constant(v))
           IN  /\ AgainstMetric(c) = c
               /\ AgainstTime(AgainstConstant(c)) =
                      IF op = "GT" THEN RawComp(x, "GE", Constant(Unsigned(v + 1)))
                      ELSE IF op = "LT" THEN RawComp(x, "LE", Constant(Unsigned(v - 1)))
                      ELSE c
<1> DEFINE c == RawComp(x, op, Constant(v))
<1>1. c.rhs.kind = "constant" /\ c.rhs.value = v /\ c.op = op
  BY DEF RawComp, Constant
<1>2. AgainstMetric(c) = c
  BY <1>1 DEF AgainstMetric
<1>3. \A o, y : [c EXCEPT !.op = o, !.rhs = y] = RawComp(x, o, y)
  <2>1. ASSUME NEW o, NEW y PROVE [c EXCEPT !.op = o, !.rhs = y] = RawComp(x, o, y)
    <3> DEFINE d == [c EXCEPT !.op = o, !.rhs = y]
    <3>1. d = [f \in {"kind", "lhs", "op", "rhs", "is"} |-> d[f]]
      BY DEF RawComp
    <3>2. d.kind = "comp" /\ d.lhs = x /\ d.op = o /\ d.rhs = y /\ d.is = "some"
      BY DEF RawComp
    <3> HIDE DEF d
    <3>3. d = [kind |-> "comp", lhs |-> x, op |-> o, rhs |-> y, is |-> "some"]
      BY <3>1, <3>2
    <3> QED
      BY <3>3 DEF d, RawComp
  <2> QED
    BY <2>1
<1>4. \A o, u : RawComp(x, o, Constant(u)).rhs.kind = "constant"
  BY DEF RawComp, Constant
<1>5. \A o, u : AgainstTime(RawComp(x, o, Constant(u))) = RawComp(x, o, Constant(u))
  BY <1>4 DEF AgainstTime
<1>6. AgainstConstant(c) =
          IF op = "GT" THEN RawComp(x, "GE", Constant(Unsigned(v + 1)))
          ELSE IF op = "LT" THEN RawComp(x, "LE", Constant(Unsigned(v - 1)))
          ELSE c
  <2> HIDE DEF c
  <2>1. [c EXCEPT !.op = "GE", !.rhs = Constant(Unsigned(c.rhs.value + 1))]
          = RawComp(x, "GE", Constant(Unsigned(v + 1)))
    BY <1>1, <1>3
  <2>2. [c EXCEPT !.op = "LE", !.rhs = Constant(Unsigned(c.rhs.value - 1))]
          = RawComp(x, "LE", Constant(Unsigned(v - 1)))
    BY <1>1, <1>3
  <2> QED
    BY <1>1, <2>1, <2>2 DEF AgainstConstant
<1> QED
  BY <1>2, <1>5, <1>6

\* ... that asks the same.
LEMMA ConstantMeans ==
    ASSUME NEW m, NEW qs, NEW op \in Ops, NEW v, IsBound(v), NEW e \in Executions, NEW t \in Steps
    PROVE  LET c == RawComp(Metric(m, qs), op, Constant(v))
           IN  Means(AgainstTime(AgainstConstant(c)), e, t) <=> EncodedComp(c, e, t)
<1> DEFINE x == Metric(m, qs)
           c == RawComp(x, op, Constant(v))
           s == SumOf(x, e, t)
<1>1. s \in Int
  BY SummandsOf
<1>2. \A o, u : Means(RawComp(x, o, Constant(u)), e, t) <=> EncodedComp(RawComp(x, o, Constant(u)), e, t)
  BY DEF Means, IsEmptySpec, IsAllSpec, IsComp, RawComp
<1>3. \A o, u : EncodedComp(RawComp(x, o, Constant(u)), e, t)
                  <=> ExprValid(x, e, t) /\ Compare(s, o, Signed(u))
  BY EncodedIs
<1>4. /\ Signed(v) \in Int
      /\ Signed(Unsigned(v + 1)) = Signed(v) + 1
      /\ Signed(Unsigned(v - 1)) = Signed(v) - 1
  BY NextBounds
<1>5. \A a, b \in Int : /\ Compare(a, "GT", b) <=> Compare(a, "GE", b + 1)
                        /\ Compare(a, "LT", b) <=> Compare(a, "LE", b - 1)
  BY DEF Compare
<1>6. AgainstTime(AgainstConstant(c)) =
          IF op = "GT" THEN RawComp(x, "GE", Constant(Unsigned(v + 1)))
          ELSE IF op = "LT" THEN RawComp(x, "LE", Constant(Unsigned(v - 1)))
          ELSE c
  BY ConstantForm
<1> HIDE DEF s
<1>7. CASE op = "GT"
  BY <1>1, <1>2, <1>3, <1>4, <1>5, <1>6, <1>7
<1>8. CASE op = "LT"
  BY <1>1, <1>2, <1>3, <1>4, <1>5, <1>6, <1>8
<1>9. CASE op # "GT" /\ op # "LT"
  BY <1>2, <1>6, <1>9
<1> QED
  BY <1>7, <1>8, <1>9

\* A Comp with a bound in time stays, or nothing meets it.
LEMMA TimeForm ==
    ASSUME NEW x, NEW op \in Ops, NEW k \in Coeffs
    PROVE  LET c == RawComp(x, op, Time(k))
           IN  Normalized(c) = IF TooFast(c) THEN Flagged(c, "empty") ELSE c
<1> DEFINE c == RawComp(x, op, Time(k))
<1>1. c.rhs.kind = "time" /\ c.rhs.coeff = k
  BY DEF RawComp, Time
<1>2. AgainstMetric(c) = c /\ AgainstConstant(c) = c
  BY <1>1 DEF AgainstMetric, AgainstConstant
<1>3. k # 0
  BY DEF Coeffs
<1> QED
  BY <1>1, <1>2, <1>3 DEF Normalized, AgainstTime

\* ... and is only flagged where the queues cannot take so many packets.
LEMMA TimeMeans ==
    ASSUME NEW qs \in SUBSET Queues, NEW op \in Ops, NEW k \in Coeffs,
           NEW e \in Executions, NEW t \in Steps,
           ~OneQueueShort(RawComp(Metric("CENQ", qs), op, Time(k)))
    PROVE  LET c == RawComp(Metric("CENQ", qs), op, Time(k))
           IN  Means(Normalized(c), e, t) <=> EncodedComp(c, e, t)
<1> DEFINE x == Metric("CENQ", qs)
           c == RawComp(x, op, Time(k))
           s == SumOf(x, e, t)
           most == Cardinality(qs) * MaxEnq
<1>0. t \in Nat /\ MaxEnq \in Nat \ {0} /\ TotalTime \in Nat /\ InQueueCnt \in Nat
  BY SpecAssumption DEF Steps
<1>1. Normalized(c) = IF TooFast(c) THEN Flagged(c, "empty") ELSE c
  BY TimeForm
<1>2. CASE ~TooFast(c)
  <2>1. Normalized(c) = c
    BY <1>1, <1>2
  <2>2. Means(c, e, t) <=> EncodedComp(c, e, t)
    BY DEF Means, IsEmptySpec, IsAllSpec, IsComp, RawComp
  <2> QED
    BY <2>1, <2>2
<1>3. CASE TooFast(c)
  <2>1. ~Means(Normalized(c), e, t)
    <3>1. IsEmptySpec(Flagged(c, "empty"))
      BY DEF IsEmptySpec, IsComp, Flagged, RawComp
    <3> QED
      BY <1>1, <1>3, <3>1 DEF Means
  <2>2. Cardinality(qs) \in Nat
    <3>1. IsFiniteSet(Queues)
      BY <1>0, FS_Interval DEF Queues
    <3> QED
      BY <3>1, FS_Subset, FS_CardinalityType
  <2>3. /\ c.lhs = x /\ c.op = op /\ c.rhs.kind = "time" /\ c.rhs.coeff = k
        /\ x.kind = "metric" /\ x.queues = qs
    BY DEF RawComp, Time, Metric
  <2>4. k \in Nat \ {0} /\ k * (t + 1) \in Nat /\ Signed(Unsigned(k * (t + 1))) = k * (t + 1)
    BY TimeBound
  <2>5. most \in Nat
    BY <1>0, <2>2
  <2>6. \/ op \in {"GE", "EQ"} /\ k > most
        \/ op = "GT" /\ k >= most
    <3>1. CASE Cardinality(qs) = 1
      <4>1. IsIndiv(x)
        BY <2>3, <3>1 DEF IsIndiv
      <4>2. Growth(x) = MaxEnq /\ most = MaxEnq
        BY <1>0, <3>1, <4>1 DEF Growth
      <4> QED
        BY <1>3, <2>3, <4>2 DEF TooFast
    <3>2. CASE Cardinality(qs) > 1
      <4>1. IsQSum(x)
        BY <2>3, <3>2 DEF IsQSum
      <4>2. ~(IF op = "GT" THEN k < most ELSE k <= most)
        BY <1>3, <2>3, <4>1 DEF OneQueueShort
      <4>3. op \in {"GT", "GE", "EQ"}
        BY <1>3, <2>3 DEF TooFast
      <4> HIDE DEF most
      <4> QED
        BY <2>4, <2>5, <4>2, <4>3
    <3>3. CASE Cardinality(qs) = 0
      <4>1. most = 0
        BY <1>0, <3>3
      <4>2. op \in {"GT", "GE", "EQ"}
        BY <1>3, <2>3 DEF TooFast
      <4> HIDE DEF most
      <4> QED
        BY <2>4, <4>1, <4>2
    <3> QED
      BY <2>2, <3>1, <3>2, <3>3
  <2>7. s \in Int /\ s <= most * (t + 1)
    <3>1. s <= Cardinality(qs) * (MaxEnq * (t + 1)) /\ s \in Int
      BY SumOfCEnq, SummandsOf
    <3>2. Cardinality(qs) * (MaxEnq * (t + 1)) = most * (t + 1)
      BY <1>0, <2>2
    <3> QED
      BY <3>1, <3>2
  <2>8. ~Compare(s, op, k * (t + 1))
    <3> HIDE DEF s, most
    <3>1. ASSUME k >= most PROVE k * (t + 1) >= most * (t + 1)
      BY <1>0, <2>4, <2>5, <3>1
    <3>2. ASSUME k > most PROVE k * (t + 1) > most * (t + 1)
      BY <1>0, <2>4, <2>5, <3>2
    <3>3. most * (t + 1) \in Int
      BY <1>0, <2>5
    <3> QED
      BY <2>4, <2>5, <2>6, <2>7, <3>1, <3>2, <3>3 DEF Compare
  <2>9. ~EncodedComp(c, e, t)
    BY <2>4, <2>8, EncodedIs
  <2> QED
    BY <2>1, <2>9
<1> QED
  BY <1>2, <1>3

\* A Comp of two metrics that is not written anew stays.
LEMMA MetricsStay ==
    ASSUME NEW c, c.rhs.kind = "metric"
    PROVE  AgainstTime(AgainstConstant(c)) = c
BY DEF AgainstTime, AgainstConstant

\* A Comp whose outcome is known, as it is flagged.
LEMMA FlaggedMeans ==
    ASSUME NEW x, NEW op, NEW y, NEW e, NEW t, y.kind = "metric"
    PROVE  LET c == RawComp(x, op, y)
           IN  /\ AgainstTime(AgainstConstant(Flagged(c, "all"))) = Flagged(c, "all")
               /\ AgainstTime(AgainstConstant(Flagged(c, "empty"))) = Flagged(c, "empty")
               /\ Means(Flagged(c, "all"), e, t)
               /\ ~Means(Flagged(c, "empty"), e, t)
<1> DEFINE c == RawComp(x, op, y)
<1>1. \A is : /\ Flagged(c, is).rhs = y /\ Flagged(c, is).kind = "comp"
              /\ Flagged(c, is).is = is
  BY DEF Flagged, RawComp
<1> HIDE DEF c
<1>2. \A is : AgainstTime(AgainstConstant(Flagged(c, is))) = Flagged(c, is)
  BY <1>1, MetricsStay
<1>3. Means(Flagged(c, "all"), e, t) /\ ~Means(Flagged(c, "empty"), e, t)
  BY <1>1 DEF Means, IsEmptySpec, IsAllSpec, IsComp
<1> QED
  BY <1>2, <1>3 DEF c

\* Values of two queues are compared as they are.
LEMMA IndivsMean ==
    ASSUME NEW m, NEW q, NEW n, NEW r, NEW op, NEW e, NEW t,
           ~WrongSide(RawComp(Metric(m, {q}), op, Metric(n, {r})))
    PROVE  LET c == RawComp(Metric(m, {q}), op, Metric(n, {r}))
           IN  /\ Normalized(c) = c
               /\ Means(Normalized(c), e, t) <=> EncodedComp(c, e, t)
<1> DEFINE c == RawComp(Metric(m, {q}), op, Metric(n, {r}))
<1>1. /\ c.lhs = Metric(m, {q}) /\ c.rhs = Metric(n, {r}) /\ c.rhs.kind = "metric"
      /\ c.lhs.metric = m /\ c.rhs.metric = n
  BY DEF RawComp, Metric
<1>2. IsIndiv(c.lhs) /\ IsIndiv(c.rhs)
  <2>1. Cardinality({q}) = 1 /\ Cardinality({r}) = 1
    BY FS_Singleton
  <2> QED
    BY <1>1, <2>1 DEF IsIndiv, Metric
<1>3. m = n
  BY <1>1, <1>2 DEF WrongSide
<1>4. AgainstMetric(c) = c
  BY <1>1, <1>2, <1>3 DEF AgainstMetric
<1>5. Normalized(c) = c
  BY <1>1, <1>4, MetricsStay DEF Normalized
<1>6. Means(c, e, t) <=> EncodedComp(c, e, t)
  BY DEF Means, IsEmptySpec, IsAllSpec, IsComp, RawComp
<1> QED
  BY <1>5, <1>6

\* The rest of a sum, against zero.
LEMMA RestMeans ==
    ASSUME NEW x, NEW qs, NEW op \in Ops, NEW e \in Executions, NEW t \in Steps
    PROVE  LET d == RawComp(Metric("CENQ", qs), op, Constant(0))
           IN  Means(AgainstTime(AgainstConstant(d)), e, t)
                 <=> Compare(SumOf(Metric("CENQ", qs), e, t), op, 0)
<1>1. IsBound(0) /\ Signed(0) = 0
  BY IntIs DEF IsBound, Signed
<1>2. ExprValid(Metric("CENQ", qs), e, t)
  BY DEF ExprValid, Metric, Valid
<1> QED
  BY <1>1, <1>2, ConstantMeans, EncodedIs

\* Two sums of CENQ: what they share cancels out.
LEMMA SumsMean ==
    ASSUME NEW l \in SUBSET Queues, NEW r \in SUBSET Queues, NEW op \in Ops,
           ~IsIndiv(Metric("CENQ", l)),
           NEW e \in Executions, NEW t \in Steps,
           ~WrongSide(RawComp(Metric("CENQ", l), op, Metric("CENQ", r)))
    PROVE  LET c == RawComp(Metric("CENQ", l), op, Metric("CENQ", r))
           IN  Means(Normalized(c), e, t) <=> EncodedComp(c, e, t)
<1> DEFINE S(qs) == SumOf(Metric("CENQ", qs), e, t)
           x == Metric("CENQ", l)
           y == Metric("CENQ", r)
           c == RawComp(x, op, y)
<1> SUFFICES Means(Normalized(c), e, t) <=> EncodedComp(c, e, t)
  OBVIOUS
<1>0. \A qs : S(qs) \in Int
  BY SummandsOf
<1>1. /\ c.lhs = x /\ c.rhs = y /\ c.op = op /\ y.kind = "metric"
      /\ x.metric = "CENQ" /\ y.metric = "CENQ" /\ x.queues = l /\ y.queues = r
  BY DEF RawComp, Metric
<1>2. EncodedComp(c, e, t) <=> Compare(S(l), op, S(r))
  <2>1. \A qs : ExprValid(Metric("CENQ", qs), e, t)
    BY DEF ExprValid, Metric, Valid
  <2> QED
    BY <2>1, EncodedIs
<1>3. l \subseteq r /\ l # r => op \notin {"GE", "LT"}
  <2>1. ~WrongSide(c) /\ ~IsIndiv(c.lhs) /\ c.rhs.kind = "metric"
    BY <1>1
  <2>2. c.lhs.metric = c.rhs.metric /\ c.lhs.queues = l /\ c.rhs.queues = r /\ c.op = op
    BY <1>1
  <2> HIDE DEF c, x, y
  <2> QED
    BY <2>1, <2>2 DEF WrongSide
<1>4. S(l) = S(l \ r) + S(l \cap r) /\ S(r) = S(r \ l) + S(l \cap r)
  <2>1. l = (l \ r) \cup (l \cap r) /\ r = (r \ l) \cup (l \cap r)
    OBVIOUS
  <2>2. (l \ r) \cap (l \cap r) = {} /\ (r \ l) \cap (l \cap r) = {}
    OBVIOUS
  <2>3. /\ S((l \ r) \cup (l \cap r)) = S(l \ r) + S(l \cap r)
        /\ S((r \ l) \cup (l \cap r)) = S(r \ l) + S(l \cap r)
    BY <2>2, SumSplits
  <2> HIDE DEF S
  <2> QED
    BY <2>1, <2>3
<1>5. S({}) = 0 /\ S(l \ r) >= 0 /\ S(r \ l) >= 0
  <2>1. l \ r \in SUBSET Queues /\ r \ l \in SUBSET Queues
    OBVIOUS
  <2> QED
    BY <2>1, SumOfNone, SumOfCEnq
<1>6. \A o, qs : Rest(c, qs, o) = RawComp(Metric("CENQ", qs), o, Constant(0))
  BY <1>1 DEF Rest
<1>7. ~(IsIndiv(c.lhs) /\ IsIndiv(c.rhs)) /\ c.lhs.metric = c.rhs.metric
  BY <1>1
<1>8. AgainstMetric(c) = IF IsQSum(y) THEN BothQSums(c) ELSE QSumAndIndiv(c)
  BY <1>1, <1>7 DEF AgainstMetric
<1>9. Means(c, e, t) <=> EncodedComp(c, e, t)
  BY DEF Means, IsEmptySpec, IsAllSpec, IsComp, RawComp
<1>10. AgainstTime(AgainstConstant(c)) = c
  BY <1>1, MetricsStay
<1>11. /\ AgainstTime(AgainstConstant(Flagged(c, "all"))) = Flagged(c, "all")
       /\ AgainstTime(AgainstConstant(Flagged(c, "empty"))) = Flagged(c, "empty")
       /\ Means(Flagged(c, "all"), e, t)
       /\ ~Means(Flagged(c, "empty"), e, t)
  BY <1>1, FlaggedMeans
<1>12. Means(AgainstTime(AgainstConstant(Rest(c, l \ r, op))), e, t) <=> Compare(S(l \ r), op, 0)
  BY <1>6, RestMeans
<1>22. Means(AgainstTime(AgainstConstant(Rest(c, r \ l, "LE"))), e, t) <=> Compare(S(r \ l), "LE", 0)
  BY <1>6, RestMeans DEF Ops
<1> HIDE DEF S, c
<1>13. ASSUME l = r
       PROVE  /\ op \in {"GE", "LE"} => EncodedComp(c, e, t)
              /\ op \in {"GT", "LT"} => ~EncodedComp(c, e, t)
  BY <1>0, <1>2, <1>13 DEF Compare
<1>14. ASSUME r \subseteq l
       PROVE  /\ op \in {"GE"} => EncodedComp(c, e, t)
              /\ op \in {"LT"} => ~EncodedComp(c, e, t)
              /\ EncodedComp(c, e, t) <=> Compare(S(l \ r), op, 0)
  <2>1. S(r) = S(l \cap r) /\ S(l \ r) \in Int /\ S(l \cap r) \in Int
    <3>1. l \cap r = r
      BY <1>14
    <3> QED
      BY <1>0, <3>1
  <2> QED
    BY <1>2, <1>4, <1>5, <2>1 DEF Compare
<1>15. CASE ~IsQSum(y) /\ r \subseteq l
  <2>1. AgainstMetric(c) = Known(c, {"GE"}, {"LT"}, Rest(c, l \ r, op))
    BY <1>1, <1>8, <1>15 DEF QSumAndIndiv
  <2> QED
    BY <1>1, <1>11, <1>12, <1>14, <1>15, <2>1 DEF Normalized, Known
<1>16. CASE ~IsQSum(y) /\ ~(r \subseteq l)
  <2>1. AgainstMetric(c) = c
    BY <1>1, <1>8, <1>16 DEF QSumAndIndiv
  <2> QED
    BY <1>9, <1>10, <2>1 DEF Normalized
<1>17. CASE IsQSum(y) /\ l = r
  <2>1. AgainstMetric(c) = Known(c, {"GE", "LE"}, {"GT", "LT"}, c)
    BY <1>1, <1>8, <1>17 DEF BothQSums
  <2> QED
    BY <1>1, <1>9, <1>10, <1>11, <1>13, <1>17, <2>1 DEF Normalized, Known
<1>18. CASE IsQSum(y) /\ r \subseteq l /\ l # r
  <2>1. AgainstMetric(c) = Known(c, {"GE"}, {"LT"}, Rest(c, l \ r, op))
    BY <1>1, <1>8, <1>18 DEF BothQSums
  <2> QED
    BY <1>1, <1>11, <1>12, <1>14, <1>18, <2>1 DEF Normalized, Known
<1>19. CASE IsQSum(y) /\ ~(r \subseteq l) /\ ~(l \subseteq r) /\ l \cap r # {}
  <2> DEFINE d == RawComp(Metric("CENQ", l \ r), op, Metric("CENQ", r \ l))
  <2>1. AgainstMetric(c) = d
    BY <1>1, <1>8, <1>19 DEF BothQSums
  <2>2. d.rhs.kind = "metric"
    BY DEF RawComp, Metric
  <2>3. Means(d, e, t) <=> EncodedComp(d, e, t)
    BY DEF Means, IsEmptySpec, IsAllSpec, IsComp, RawComp
  <2>4. EncodedComp(d, e, t) <=> Compare(S(l \ r), op, S(r \ l))
    <3>1. \A qs : ExprValid(Metric("CENQ", qs), e, t)
      BY DEF ExprValid, Metric, Valid
    <3> QED
      BY <3>1, EncodedIs DEF S
  <2> HIDE DEF d
  <2>5. Normalized(c) = d
    BY <2>1, <2>2, MetricsStay DEF Normalized
  <2>6. S(l \ r) \in Int /\ S(r \ l) \in Int /\ S(l \cap r) \in Int
    BY <1>0
  <2>7. Compare(S(l \ r), op, S(r \ l)) <=> Compare(S(l), op, S(r))
    BY <1>4, <2>6 DEF Compare
  <2> QED
    BY <1>2, <2>3, <2>4, <2>5, <2>7
<1>20. CASE IsQSum(y) /\ ~(r \subseteq l) /\ ~(l \subseteq r) /\ l \cap r = {}
  <2>1. AgainstMetric(c) = c
    BY <1>1, <1>8, <1>20 DEF BothQSums
  <2> QED
    BY <1>9, <1>10, <2>1 DEF Normalized
<1>21. CASE IsQSum(y) /\ l \subseteq r /\ l # r
  <2>1. AgainstMetric(c) =
            Known(c, {"LE"}, {"GT"}, Rest(c, r \ l, IF op = "EQ" THEN "LE" ELSE Neg(op)))
    BY <1>1, <1>8, <1>21 DEF BothQSums
  <2>2. op \in {"GT", "LE", "EQ"}
    BY <1>3, <1>21 DEF Ops
  <2>3. S(l) = S(l \cap r) /\ S(r \ l) \in Int /\ S(l \cap r) \in Int
    <3>1. l \cap r = l
      BY <1>21
    <3> QED
      BY <1>0, <3>1
  <2>4. /\ Compare(S(l), "LE", S(r)) /\ ~Compare(S(l), "GT", S(r))
        /\ Compare(S(l), "EQ", S(r)) <=> Compare(S(r \ l), "LE", 0)
    BY <1>4, <1>5, <2>3 DEF Compare
  <2>5. CASE op = "EQ"
    BY <1>1, <1>2, <1>22, <2>1, <2>4, <2>5 DEF Normalized, Known
  <2>6. CASE op # "EQ"
    BY <1>1, <1>2, <1>11, <2>1, <2>2, <2>4, <2>6 DEF Normalized, Known
  <2> QED
    BY <2>5, <2>6
<1> QED
  BY <1>15, <1>16, <1>17, <1>18, <1>19, <1>20, <1>21

(* What is constructed *******************************************************)

AgainstBound(c) ==
    \E m \in Metrics, qs \in SUBSET Queues, op \in Ops, v \in Nat :
        IsBound(v) /\ c = RawComp(Metric(m, qs), op, Constant(v))

AgainstSteps(c) ==
    \E qs \in SUBSET Queues, op \in Ops, k \in Coeffs :
        c = RawComp(Metric("CENQ", qs), op, Time(k))

MadeInv ==
    \/ made.kind \in {"none", "added", "modified"}
    \/ made \in OfOneMetric
    \/ made \in OfTwoMetrics
    \/ AgainstBound(made)
    \/ AgainstSteps(made)

\* The Comps of two metrics are of two queues or of two sums.
LEMMA TwoMetricsAre ==
    ASSUME NEW c \in OfTwoMetrics
    PROVE  \/ \E m, n \in Metrics, q, r \in Queues, op \in Ops :
                 c = RawComp(Metric(m, {q}), op, Metric(n, {r}))
           \/ \E l, r \in SUBSET Queues, op \in Ops :
                 /\ c = RawComp(Metric("CENQ", l), op, Metric("CENQ", r))
                 /\ ~IsIndiv(Metric("CENQ", l))
<1>1. \/ \E x, y \in Indivs, op \in Ops : c = RawComp(x, op, y)
      \/ \E x, y \in Sums, op \in Ops : c = RawComp(x, op, y) /\ ~IsIndiv(x)
  BY DEF OfTwoMetrics
<1>2. \A x \in Indivs : \E m \in Metrics, q \in Queues : x = Metric(m, {q})
  BY DEF Indivs
<1>3. \A x \in Sums : \E qs \in SUBSET Queues : x = Metric("CENQ", qs)
  BY DEF Sums
<1>4. CASE \E x, y \in Indivs, op \in Ops : c = RawComp(x, op, y)
  <2>1. PICK x \in Indivs, y \in Indivs, op \in Ops : c = RawComp(x, op, y)
    BY <1>4
  <2>2. PICK m \in Metrics, q \in Queues : x = Metric(m, {q})
    BY <1>2
  <2>3. PICK n \in Metrics, r \in Queues : y = Metric(n, {r})
    BY <1>2
  <2>4. c = RawComp(Metric(m, {q}), op, Metric(n, {r}))
    BY <2>1, <2>2, <2>3
  <2> QED
    BY <2>4
<1>5. CASE \E x, y \in Sums, op \in Ops : c = RawComp(x, op, y) /\ ~IsIndiv(x)
  BY <1>3, <1>5
<1> QED
  BY <1>1, <1>4, <1>5

\* Each Comp is of one kind.
LEMMA KindsOf ==
    /\ \A c : AgainstBound(c) => c.kind = "comp" /\ c.rhs.kind = "constant"
    /\ \A c : AgainstSteps(c) => c.kind = "comp" /\ c.rhs.kind = "time"
    /\ \A c \in OfTwoMetrics : c.kind = "comp" /\ c.rhs.kind = "metric"
    /\ \A c \in OfOneMetric : c.kind \in {"same", "incr", "decr", "unique"}
<1>1. \A x, op, y : RawComp(x, op, y).kind = "comp" /\ RawComp(x, op, y).rhs = y
  BY DEF RawComp
<1>2. /\ \A v : Constant(v).kind = "constant"
      /\ \A k : Time(k).kind = "time"
      /\ \A m, qs : Metric(m, qs).kind = "metric"
  BY DEF Constant, Time, Metric
<1>3. \A m, q : /\ Same(m, q).kind = "same" /\ Incr(m, q).kind = "incr"
                /\ Decr(m, q).kind = "decr" /\ Unique(m, q).kind = "unique"
  BY DEF Same, Incr, Decr, Unique
<1>4. \A c : AgainstBound(c) => c.kind = "comp" /\ c.rhs.kind = "constant"
  BY <1>1, <1>2 DEF AgainstBound
<1>5. \A c : AgainstSteps(c) => c.kind = "comp" /\ c.rhs.kind = "time"
  BY <1>1, <1>2 DEF AgainstSteps
<1>6. ASSUME NEW c \in OfTwoMetrics PROVE c.kind = "comp" /\ c.rhs.kind = "metric"
  <2>1. \A x, op, m, qs : LET d == RawComp(x, op, Metric(m, qs))
                          IN  d.kind = "comp" /\ d.rhs.kind = "metric"
    BY <1>1, <1>2
  <2>2. CASE \E m, n \in Metrics, q, r \in Queues, op \in Ops :
                 c = RawComp(Metric(m, {q}), op, Metric(n, {r}))
    <3>1. PICK m, n \in Metrics, q, r \in Queues, op \in Ops :
                 c = RawComp(Metric(m, {q}), op, Metric(n, {r}))
      BY <2>2
    <3> QED
      BY <2>1, <3>1
  <2>3. CASE \E l, r \in SUBSET Queues, op \in Ops :
                 c = RawComp(Metric("CENQ", l), op, Metric("CENQ", r))
    BY <2>1, <2>3
  <2>4. CASE \E l, r \in SUBSET Queues, op \in Ops :
                 /\ c = RawComp(Metric("CENQ", l), op, Metric("CENQ", r))
                 /\ ~IsIndiv(Metric("CENQ", l))
    BY <2>3, <2>4
  <2> QED
    BY <2>2, <2>4, TwoMetricsAre
<1>7. \A c \in OfOneMetric : c.kind \in {"same", "incr", "decr", "unique"}
  BY <1>3 DEF OfOneMetric
<1> QED
  BY <1>4, <1>5, <1>6, <1>7

\* A small number is a bound.
LEMMA SmallBound ==
    ASSUME NEW v \in 0 .. MaxInt - 1
    PROVE  IsBound(v) /\ v \in Nat
BY IntIs DEF IsBound, Signed

\* A Comp of the metric x: with a constant, or, for CENQ, with time.
LEMMA CompOf ==
    ASSUME NEW m \in Metrics, NEW qs \in SUBSET Queues, NEW op \in Ops, NEW y,
           \/ \E v \in Nat : IsBound(v) /\ y = Constant(v)
           \/ m # "DST" /\ \E k \in Coeffs : y = Time(k)
    PROVE  LET c == RawComp(Metric(m, qs), op, y) IN AgainstBound(c) \/ AgainstSteps(c)
<1>1. m = "DST" \/ m = "CENQ"
  BY DEF Metrics
<1>2. CASE \E v \in Nat : IsBound(v) /\ y = Constant(v)
  BY <1>2 DEF AgainstBound
<1>3. CASE m # "DST" /\ \E k \in Coeffs : y = Time(k)
  BY <1>1, <1>3 DEF AgainstSteps
<1> QED
  BY <1>2, <1>3

\* The constants that are drawn are ints.
LEMMA ConstantsOf ==
    ASSUME NEW x
    PROVE  Constants(x) \subseteq 0 .. MaxInt - 1
BY FactoryAssumption DEF Constants

\* What is drawn.
LEMMA IndivsAre ==
    /\ \A x \in RandomIndivs : \E m \in Metrics, q \in TargetQueues : x = Metric(m, {q})
    /\ \A x \in RandomQSums : \E qs \in SUBSET TargetQueues : x = Metric("CENQ", qs)
<1>1. \A x \in RandomIndivs : \E m \in Metrics, q \in TargetQueues : x = Metric(m, {q})
  BY DEF RandomIndivs
<1>2. \A x \in RandomQSums : \E qs \in SUBSET TargetQueues : x = Metric("CENQ", qs)
  BY DEF RandomQSums
<1> QED
  BY <1>1, <1>2

\* A Comp that is drawn is against a constant or against time.
LEMMA DrawnIs ==
    ASSUME NEW c \in RandomRaw, c.rhs \in RandomRhs(c.lhs)
    PROVE  AgainstBound(c) \/ AgainstSteps(c)
<1>0. PICK x \in RandomIndivs \cup RandomQSums, op \in Ops : \E y : c = RawComp(x, op, y)
  BY DEF RandomRaw
<1>1. PICK y : c = RawComp(x, op, y)
  BY <1>0
<1>2. PICK m \in Metrics, qs \in SUBSET Queues : x = Metric(m, qs)
  <2>1. CASE x \in RandomIndivs
    <3>1. PICK m \in Metrics, q \in TargetQueues : x = Metric(m, {q})
      BY <2>1, IndivsAre
    <3>2. {q} \in SUBSET Queues
      BY FactoryAssumption
    <3> QED
      BY <3>1, <3>2 DEF Metrics
  <2>2. CASE x \in RandomQSums
    <3>1. PICK qs \in SUBSET TargetQueues : x = Metric("CENQ", qs)
      BY <2>2, IndivsAre
    <3>2. qs \in SUBSET Queues
      BY FactoryAssumption
    <3> QED
      BY <3>1, <3>2 DEF Metrics
  <2> QED
    BY <1>1, <2>1, <2>2
<1>3. c.lhs = x /\ c.rhs = y /\ x.metric = m
  BY <1>1, <1>2 DEF RawComp, Metric
<1>4. \/ \E v \in Constants(x) : y = Constant(v)
      \/ m # "DST" /\ \E k \in TimeCoeffs : y = Time(k)
  BY <1>3 DEF RandomRhs, TimeValid
<1>5. \/ \E v \in Nat : IsBound(v) /\ y = Constant(v)
      \/ m # "DST" /\ \E k \in Coeffs : y = Time(k)
  BY <1>4, ConstantsOf, SmallBound, CoeffsAre
<1> QED
  BY <1>1, <1>2, <1>5, CompOf

\* Neighbors of a Comp are of its metric.
LEMMA NeighborIs ==
    ASSUME NEW m \in Metrics, NEW qs \in SUBSET Queues, NEW op \in Ops, NEW y,
           \/ \E v \in Nat : IsBound(v) /\ y = Constant(v)
           \/ m # "DST" /\ \E k \in Coeffs : y = Time(k),
           NEW c \in RawNeighbors(RawComp(Metric(m, qs), op, y))
    PROVE  AgainstBound(c) \/ AgainstSteps(c)
<1> DEFINE x == Metric(m, qs)
           n == RawComp(x, op, y)
<1>1. n.lhs = x /\ n.op = op /\ n.rhs = y /\ x.metric = m /\ x.queues = qs
  BY DEF RawComp, Metric
<1> HIDE DEF n
<1>2. \/ \E l \in LhsNeighbors(x) : c = RawComp(l, op, y)
      \/ \E o \in Ops : c = RawComp(x, o, y)
      \/ \E r \in RhsNeighbors(x, y) : c = RawComp(x, op, r)
  <2>1. c \in RawNeighbors(n)
    BY DEF n
  <2> HIDE DEF x
  <2> QED
    BY <1>1, <2>1 DEF RawNeighbors
<1>3. CASE \E l \in LhsNeighbors(x) : c = RawComp(l, op, y)
  <2>1. \A l \in LhsNeighbors(x) : \E ps \in SUBSET Queues : l = Metric(m, ps)
    <3>1. \A ps \in OneLess(qs) : ps \in SUBSET Queues
      BY DEF OneLess
    <3>2. \A ps \in OneMore(qs) : ps \in SUBSET Queues
      BY FactoryAssumption DEF OneMore
    <3>3. \A q \in TargetQueues : {q} \in SUBSET Queues
      BY FactoryAssumption
    <3> HIDE DEF x
    <3> QED
      BY <1>1, <3>1, <3>2, <3>3 DEF LhsNeighbors
  <2> QED
    BY <1>3, <2>1, CompOf
<1>4. CASE \E o \in Ops : c = RawComp(x, o, y)
  BY <1>4, CompOf
<1>5. CASE \E r \in RhsNeighbors(x, y) : c = RawComp(x, op, r)
  <2>1. PICK r \in RhsNeighbors(x, y) : c = RawComp(x, op, r)
    BY <1>5
  <2>2. /\ \A v : Constant(v).kind = "constant" /\ Constant(v).value = v
        /\ \A k : Time(k).kind = "time" /\ Time(k).coeff = k
    BY DEF Constant, Time
  <2>3. TimeValid(x) <=> m # "DST"
    BY <1>1 DEF TimeValid
  <2>4. ASSUME NEW k \in Coeffs, y = Time(k)
        PROVE  \/ \E v \in Nat : IsBound(v) /\ r = Constant(v)
               \/ m # "DST" /\ \E j \in Coeffs : r = Time(j)
    <3>1. m # "DST"
      BY <2>2, <2>4
    <3>2. r = Constant(k) \/ \E j \in TimeCoeffs : r = Time(j)
      BY <2>2, <2>4 DEF RhsNeighbors
    <3>3. k \in 0 .. MaxInt - 1
      <4>1. k \in Nat \ {0} /\ k < MaxInt
        BY DEF Coeffs
      <4> QED
        BY <4>1, IntIs
    <3> QED
      BY <3>1, <3>2, <3>3, SmallBound, CoeffsAre
  <2>5. ASSUME NEW v \in Nat, y = Constant(v)
        PROVE  \/ \E u \in Nat : IsBound(u) /\ r = Constant(u)
               \/ m # "DST" /\ \E j \in Coeffs : r = Time(j)
    <3>1. (\E u \in Constants(x) : r = Constant(u)) \/ (m # "DST" /\ r = Time(1))
      BY <2>2, <2>3, <2>5 DEF RhsNeighbors
    <3> QED
      BY <3>1, ConstantsOf, SmallBound, CoeffsAre
  <2> QED
    BY <2>1, <2>4, <2>5, CompOf
<1> QED
  BY <1>2, <1>3, <1>4, <1>5

\* So are those of what is made.
LEMMA NeighborsOfMadeAre ==
    ASSUME MadeInv, NEW c \in NeighborsOfMade
    PROVE  AgainstBound(c) \/ AgainstSteps(c)
<1> DEFINE n == Normalized(made)
<1>1. /\ made.kind = "comp" /\ made.rhs.kind # "metric"
      /\ made.rhs.kind = "constant" => Signed(n.rhs.value) \in -1 .. MaxConst
      /\ n \in Useful({n})
      /\ c \in RawNeighbors(n)
  BY DEF NeighborsOfMade
<1>2. AgainstBound(made) \/ AgainstSteps(made)
  BY <1>1, KindsOf DEF MadeInv
<1>3. CASE AgainstBound(made)
  <2>1. PICK m \in Metrics, qs \in SUBSET Queues, op \in Ops, v \in Nat :
            IsBound(v) /\ made = RawComp(Metric(m, qs), op, Constant(v))
    BY <1>3 DEF AgainstBound
  <2>2. n = IF op = "GT" THEN RawComp(Metric(m, qs), "GE", Constant(Unsigned(v + 1)))
            ELSE IF op = "LT" THEN RawComp(Metric(m, qs), "LE", Constant(Unsigned(v - 1)))
            ELSE made
    BY <2>1, ConstantForm DEF Normalized
  <2>3. PICK o \in Ops, u \in Nat :
            u <= 2 * MaxInt + 1 /\ n = RawComp(Metric(m, qs), o, Constant(u))
    BY <2>1, <2>2, NextBounds DEF Ops, IsBound
  <2>4. n.rhs.value = u
    BY <2>3 DEF RawComp, Constant
  <2>5. Signed(u) \in -1 .. MaxConst
    BY <1>1, <1>3, <2>4, KindsOf
  <2>6. IsBound(u)
    BY <2>3, <2>5, IntIs, WorkloadAssumption DEF IsBound
  <2> HIDE DEF n
  <2> QED
    BY <1>1, <2>3, <2>6, NeighborIs
<1>4. CASE AgainstSteps(made)
  <2>1. PICK qs \in SUBSET Queues, op \in Ops, k \in Coeffs :
            made = RawComp(Metric("CENQ", qs), op, Time(k))
    BY <1>4 DEF AgainstSteps
  <2>2. n = made
    <3>1. n = IF TooFast(made) THEN Flagged(made, "empty") ELSE made
      BY <2>1, TimeForm
    <3>2. IsEmptySpec(Flagged(made, "empty"))
      BY <2>1 DEF IsEmptySpec, IsComp, Flagged, RawComp
    <3>3. ~IsEmptySpec(n)
      BY <1>1 DEF Useful
    <3> HIDE DEF n
    <3> QED
      BY <3>1, <3>2, <3>3
  <2>3. "CENQ" \in Metrics /\ "CENQ" # "DST"
    BY DEF Metrics
  <2> HIDE DEF n
  <2>4. c \in RawNeighbors(RawComp(Metric("CENQ", qs), op, Time(k)))
    BY <1>1, <2>1, <2>2
  <2> QED
    BY <2>3, <2>4, NeighborIs
<1> QED
  BY <1>2, <1>3, <1>4

\* What is constructed.
LEMMA ConstructedIs ==
    ASSUME MadeInv, NEW c \in Constructible \cup NeighborsOfMade
    PROVE  AgainstBound(c) \/ AgainstSteps(c) \/ c \in OfOneMetric \/ c \in OfTwoMetrics
<1>1. CASE c \in Constructible
  BY <1>1, DrawnIs, OthersAssumption DEF Constructible
<1>2. CASE c \in NeighborsOfMade
  BY <1>2, NeighborsOfMadeAre
<1> QED
  BY <1>1, <1>2

\* At first nothing is made.
LEMMA InitMadeInv == Init => MadeInv
BY DEF Init, None, MadeInv

\* Whatever is constructed next is of these kinds.
LEMMA NextMadeInv == MadeInv /\ [Next]_vars => MadeInv'
<1> SUFFICES ASSUME MadeInv, [Next]_vars PROVE MadeInv'
  OBVIOUS
<1>1. ASSUME made'.kind \in {"none", "added", "modified"} PROVE MadeInv'
  BY <1>1 DEF MadeInv
<1>2. ASSUME NEW ts, Add(ts) PROVE MadeInv'
  BY <1>1, <1>2 DEF Add
<1>3. ASSUME NEW s, NEW r, Remove(s, r) PROVE MadeInv'
  BY <1>1, <1>3 DEF Remove, None
<1>4. ASSUME NEW s, NEW r, NEW ts, Modify(s, r, ts) PROVE MadeInv'
  BY <1>1, <1>4 DEF Modify
<1>5. CASE MakeClear
  BY <1>1, <1>5 DEF MakeClear, None
<1>6. ASSUME NEW c \in Constructible \cup NeighborsOfMade, Construct(c) PROVE MadeInv'
  <2>1. made' = c
    BY <1>6 DEF Construct
  <2> QED
    BY <2>1, ConstructedIs DEF MadeInv
<1>7. CASE UNCHANGED vars
  BY <1>7 DEF vars, MadeInv
<1> QED
  BY <1>2, <1>3, <1>4, <1>5, <1>6, <1>7 DEF Next

\* What is constructed is always of these kinds.
LEMMA MadeInvariant == Spec => []MadeInv
<1>1. Init => MadeInv
  BY InitMadeInv
<1>2. MadeInv /\ [Next]_vars => MadeInv'
  BY NextMadeInv
<1> QED
  BY <1>1, <1>2, PTL DEF Spec

\* Normalising a Comp keeps what it asks of any execution, but for the two kinds
\* of Comps named (workload.cpp:519-755).
THEOREM WorkloadNormalizeKeepsMeaning == Spec => []NormalizeKeepsMeaning
<1>1. MadeInv => NormalizeKeepsMeaning
  <2> SUFFICES ASSUME MadeInv, made.kind = "comp", ~OneQueueShort(made), ~WrongSide(made),
                      NEW e \in Executions, NEW t \in Steps
               PROVE  Means(Normalized(made), e, t) <=> EncodedComp(made, e, t)
    BY DEF NormalizeKeepsMeaning
  <2>1. made \in OfTwoMetrics \/ AgainstBound(made) \/ AgainstSteps(made)
    BY KindsOf DEF MadeInv
  <2>2. CASE AgainstBound(made)
    <3>1. PICK m \in Metrics, qs \in SUBSET Queues, op \in Ops, v \in Nat :
              IsBound(v) /\ made = RawComp(Metric(m, qs), op, Constant(v))
      BY <2>2 DEF AgainstBound
    <3>2. Normalized(made) = AgainstTime(AgainstConstant(made))
      BY <3>1, ConstantForm DEF Normalized
    <3> QED
      BY <3>1, <3>2, ConstantMeans
  <2>3. CASE AgainstSteps(made)
    BY <2>3, TimeMeans DEF AgainstSteps
  <2>4. CASE made \in OfTwoMetrics
    <3>1. CASE \E m, n \in Metrics, q, r \in Queues, op \in Ops :
                   made = RawComp(Metric(m, {q}), op, Metric(n, {r}))
      <4>1. PICK m, n \in Metrics, q, r \in Queues, op \in Ops :
                   made = RawComp(Metric(m, {q}), op, Metric(n, {r}))
        BY <3>1
      <4>2. ~WrongSide(RawComp(Metric(m, {q}), op, Metric(n, {r})))
        BY <4>1
      <4>3. Means(Normalized(RawComp(Metric(m, {q}), op, Metric(n, {r}))), e, t)
              <=> EncodedComp(RawComp(Metric(m, {q}), op, Metric(n, {r})), e, t)
        BY <4>2, IndivsMean
      <4> QED
        BY <4>1, <4>3
    <3>2. CASE \E l, r \in SUBSET Queues, op \in Ops :
                   /\ made = RawComp(Metric("CENQ", l), op, Metric("CENQ", r))
                   /\ ~IsIndiv(Metric("CENQ", l))
      <4>1. PICK l \in SUBSET Queues, r \in SUBSET Queues, op \in Ops :
                   /\ made = RawComp(Metric("CENQ", l), op, Metric("CENQ", r))
                   /\ ~IsIndiv(Metric("CENQ", l))
        BY <3>2
      <4> QED
        BY <4>1, SumsMean
    <3> QED
      BY <2>4, <3>1, <3>2, TwoMetricsAre
  <2> QED
    BY <2>1, <2>2, <2>3, <2>4
<1> QED
  BY <1>1, MadeInvariant, PTL


\* Over the steps of a range, a bound that did not wrap is the same bound to the
\* evaluation.
LEMMA SameBounds ==
    ASSUME NEW y, NEW e, NEW t \in Steps,
           \/ \E v \in Nat : v <= MaxInt /\ y = Constant(v)
           \/ \E k \in Coeffs : y = Time(k)
           \/ \E m, qs : y = Metric(m, qs)
    PROVE  Encoded(y, e, t) = Evaluated(y, e, t)
<1>1. CASE \E v \in Nat : v <= MaxInt /\ y = Constant(v)
  <2>1. PICK v \in Nat : v <= MaxInt /\ y = Constant(v)
    BY <1>1
  <2>2. Signed(v) = v
    BY <2>1, IntIs DEF Signed
  <2>3. y.kind = "constant" /\ y.value = v
    BY <2>1 DEF Constant
  <2> QED
    BY <2>2, <2>3 DEF Encoded, Evaluated
<1>2. CASE \E k \in Coeffs : y = Time(k)
  <2>1. PICK k \in Coeffs : y = Time(k)
    BY <1>2
  <2>2. Signed(Unsigned(k * (t + 1))) = Unsigned(k * (t + 1))
    BY TimeBound
  <2>3. y.kind = "time" /\ y.coeff = k
    BY <2>1 DEF Time
  <2> QED
    BY <2>2, <2>3 DEF Encoded, Evaluated
<1>3. CASE \E m, qs : y = Metric(m, qs)
  <2>1. y.kind = "metric"
    BY <1>3 DEF Metric
  <2> QED
    BY <2>1 DEF Encoded, Evaluated
<1> QED
  BY <1>1, <1>2, <1>3

\* A Comp of such bounds is evaluated as it is encoded.
LEMMA SameComps ==
    ASSUME NEW m, NEW qs, NEW op, NEW y, NEW e, NEW t \in Steps,
           \/ \E v \in Nat : v <= MaxInt /\ y = Constant(v)
           \/ \E k \in Coeffs : y = Time(k)
           \/ \E n, r : y = Metric(n, r)
    PROVE  LET c == RawComp(Metric(m, qs), op, y)
           IN  EncodedComp(c, e, t) <=> EvaluatedComp(c, e, t)
<1> DEFINE c == RawComp(Metric(m, qs), op, y)
<1> SUFFICES EncodedComp(c, e, t) <=> EvaluatedComp(c, e, t)
  OBVIOUS
<1>1. c.lhs = Metric(m, qs) /\ c.op = op /\ c.rhs = y
  BY DEF RawComp
<1>2. Encoded(Metric(m, qs), e, t) = Evaluated(Metric(m, qs), e, t)
  BY SameBounds
<1>3. Encoded(y, e, t) = Evaluated(y, e, t)
  BY SameBounds
<1> HIDE DEF c
<1> QED
  BY <1>1, <1>2, <1>3 DEF EncodedComp, EvaluatedComp

\* What normalising leaves of a Comp that is made, as a Comp of a metric.
Plain(c) ==
    \E m, qs, op, y :
        /\ c = RawComp(Metric(m, qs), op, y)
        /\ \/ \E v \in Nat : y = Constant(v)
           \/ \E k \in Coeffs : y = Time(k)
           \/ \E n, r : y = Metric(n, r)

Settled(c) == IsEmptySpec(c) \/ IsAllSpec(c) \/ Plain(c)

\* A Comp whose outcome is known settles as flagged,
LEMMA FlaggedSettles ==
    ASSUME NEW x, NEW op, NEW y, y.kind = "metric", NEW is \in {"all", "empty"}
    PROVE  Settled(AgainstTime(AgainstConstant(Flagged(RawComp(x, op, y), is))))
<1> DEFINE c == RawComp(x, op, y)
<1>1. Flagged(c, is).rhs = y /\ Flagged(c, is).kind = "comp" /\ Flagged(c, is).is = is
  BY DEF Flagged, RawComp
<1> HIDE DEF c
<1>2. AgainstTime(AgainstConstant(Flagged(c, is))) = Flagged(c, is)
  BY <1>1, MetricsStay
<1>3. Settled(Flagged(c, is))
  BY <1>1 DEF Settled, IsEmptySpec, IsAllSpec, IsComp
<1> QED
  BY <1>2, <1>3 DEF c

\* one of two metrics as it is,
LEMMA MetricsSettle ==
    ASSUME NEW m, NEW qs, NEW op, NEW n, NEW r
    PROVE  LET c == RawComp(Metric(m, qs), op, Metric(n, r))
           IN  Settled(AgainstTime(AgainstConstant(c)))
<1> DEFINE c == RawComp(Metric(m, qs), op, Metric(n, r))
<1>1. c.rhs.kind = "metric"
  BY DEF RawComp, Metric
<1>2. Plain(c)
  BY DEF Plain
<1>3. AgainstTime(AgainstConstant(c)) = c
  BY <1>1, MetricsStay
<1> QED
  BY <1>2, <1>3 DEF Settled

\* and one with a constant as one with another constant.
LEMMA ConstantSettles ==
    ASSUME NEW m, NEW qs, NEW op \in Ops, NEW v \in Nat, IsBound(v)
    PROVE  LET c == RawComp(Metric(m, qs), op, Constant(v))
           IN  Settled(AgainstTime(AgainstConstant(c)))
<1> DEFINE c == RawComp(Metric(m, qs), op, Constant(v))
<1>1. \A o, u : u \in Nat => Settled(RawComp(Metric(m, qs), o, Constant(u)))
  BY DEF Settled, Plain
<1>2. Unsigned(v + 1) \in Nat /\ Unsigned(v - 1) \in Nat
  BY NextBounds
<1>3. AgainstTime(AgainstConstant(c)) =
          IF op = "GT" THEN RawComp(Metric(m, qs), "GE", Constant(Unsigned(v + 1)))
          ELSE IF op = "LT" THEN RawComp(Metric(m, qs), "LE", Constant(Unsigned(v - 1)))
          ELSE c
  BY ConstantForm
<1> QED
  BY <1>1, <1>2, <1>3

\* Values of two queues.
LEMMA IndivsSettle ==
    ASSUME NEW m, NEW q, NEW n, NEW r, NEW op
    PROVE  Settled(Normalized(RawComp(Metric(m, {q}), op, Metric(n, {r}))))
<1> DEFINE x == Metric(m, {q})
           y == Metric(n, {r})
           c == RawComp(x, op, y)
<1>1. c.lhs = x /\ c.rhs = y /\ y.kind = "metric" /\ IsIndiv(x) /\ IsIndiv(y)
  BY FS_Singleton DEF RawComp, Metric, IsIndiv
<1>2. AgainstMetric(c) = IF x.metric # y.metric THEN Flagged(c, "empty") ELSE c
  BY <1>1 DEF AgainstMetric
<1>3. Settled(AgainstTime(AgainstConstant(Flagged(c, "empty"))))
  BY <1>1, FlaggedSettles
<1>4. Settled(AgainstTime(AgainstConstant(c)))
  BY MetricsSettle
<1> QED
  BY <1>2, <1>3, <1>4 DEF Normalized

\* And two sums of them.
LEMMA SumsSettle ==
    ASSUME NEW l \in SUBSET Queues, NEW r \in SUBSET Queues, NEW op \in Ops,
           ~IsIndiv(Metric("CENQ", l))
    PROVE  Settled(Normalized(RawComp(Metric("CENQ", l), op, Metric("CENQ", r))))
<1> DEFINE x == Metric("CENQ", l)
           y == Metric("CENQ", r)
           c == RawComp(x, op, y)
<1>1. /\ c.lhs = x /\ c.rhs = y /\ c.op = op /\ y.kind = "metric"
      /\ x.metric = "CENQ" /\ y.metric = "CENQ" /\ x.queues = l /\ y.queues = r
  BY DEF RawComp, Metric
<1>2. AgainstMetric(c) = IF IsQSum(y) THEN BothQSums(c) ELSE QSumAndIndiv(c)
  BY <1>1 DEF AgainstMetric
<1>3. /\ Settled(AgainstTime(AgainstConstant(Flagged(c, "all"))))
      /\ Settled(AgainstTime(AgainstConstant(Flagged(c, "empty"))))
  BY <1>1, FlaggedSettles
<1>4. Settled(AgainstTime(AgainstConstant(c)))
  BY MetricsSettle
<1>5. Settled(AgainstTime(AgainstConstant(RawComp(Metric("CENQ", l \ r), op, Metric("CENQ", r \ l)))))
  BY MetricsSettle
<1>6. \A qs, o : o \in Ops => Settled(AgainstTime(AgainstConstant(Rest(c, qs, o))))
  <2>1. IsBound(0)
    BY IntIs DEF IsBound, Signed
  <2>2. \A qs, o : Rest(c, qs, o) = RawComp(Metric("CENQ", qs), o, Constant(0))
    BY <1>1 DEF Rest
  <2> QED
    BY <2>1, <2>2, ConstantSettles
<1>7. (IF op = "EQ" THEN "LE" ELSE Neg(op)) \in Ops
  BY DEF Ops, Neg
<1> DEFINE same == Known(c, {"GE", "LE"}, {"GT", "LT"}, c)
           left == Known(c, {"LE"}, {"GT"}, Rest(c, r \ l, IF op = "EQ" THEN "LE" ELSE Neg(op)))
           right == Known(c, {"GE"}, {"LT"}, Rest(c, l \ r, op))
           both == RawComp(Metric("CENQ", l \ r), op, Metric("CENQ", r \ l))
<1>8. /\ Settled(AgainstTime(AgainstConstant(same)))
      /\ Settled(AgainstTime(AgainstConstant(left)))
      /\ Settled(AgainstTime(AgainstConstant(right)))
  <2> HIDE DEF c
  <2> QED
    BY <1>3, <1>4, <1>6, <1>7 DEF Known
<1>9. BothQSums(c) \in {same, left, right, both, c} /\ QSumAndIndiv(c) \in {right, c}
  <2> HIDE DEF c
  <2>1. QSumAndIndiv(c) = IF r \subseteq l THEN right ELSE c
    BY <1>1 DEF QSumAndIndiv
  <2>2. CASE l = r
    BY <1>1, <2>1, <2>2 DEF BothQSums
  <2>3. CASE l \subseteq r /\ l # r
    BY <1>1, <2>1, <2>3 DEF BothQSums
  <2>4. CASE r \subseteq l /\ l # r
    BY <1>1, <2>1, <2>4 DEF BothQSums
  <2>5. CASE ~(l \subseteq r) /\ ~(r \subseteq l)
    BY <1>1, <2>1, <2>5 DEF BothQSums
  <2> QED
    BY <2>2, <2>3, <2>4, <2>5
<1> HIDE DEF same, left, right, both, c
<1>10. Settled(AgainstTime(AgainstConstant(AgainstMetric(c))))
  BY <1>2, <1>4, <1>5, <1>8, <1>9 DEF both
<1> QED
  BY <1>10 DEF Normalized, c

\* All Comps that are made settle.
LEMMA MadeSettles ==
    ASSUME MadeInv, made.kind = "comp"
    PROVE  Settled(Normalized(made))
<1>1. made \in OfTwoMetrics \/ AgainstBound(made) \/ AgainstSteps(made)
  BY KindsOf DEF MadeInv
<1>2. CASE AgainstBound(made)
  <2>1. PICK m \in Metrics, qs \in SUBSET Queues, op \in Ops, v \in Nat :
            IsBound(v) /\ made = RawComp(Metric(m, qs), op, Constant(v))
    BY <1>2 DEF AgainstBound
  <2>2. Normalized(made) = AgainstTime(AgainstConstant(made))
    BY <2>1, ConstantForm DEF Normalized
  <2>3. Settled(AgainstTime(AgainstConstant(RawComp(Metric(m, qs), op, Constant(v)))))
    BY <2>1, ConstantSettles
  <2> QED
    BY <2>1, <2>2, <2>3
<1>3. CASE AgainstSteps(made)
  <2>1. PICK qs \in SUBSET Queues, op \in Ops, k \in Coeffs :
            made = RawComp(Metric("CENQ", qs), op, Time(k))
    BY <1>3 DEF AgainstSteps
  <2>2. Normalized(made) = IF TooFast(made) THEN Flagged(made, "empty") ELSE made
    BY <2>1, TimeForm
  <2>3. IsEmptySpec(Flagged(made, "empty"))
    BY <2>1 DEF IsEmptySpec, IsComp, Flagged, RawComp
  <2>4. Plain(made)
    BY <2>1 DEF Plain
  <2> QED
    BY <2>2, <2>3, <2>4 DEF Settled
<1>4. CASE made \in OfTwoMetrics
  <2>1. CASE \E m, n \in Metrics, q, r \in Queues, op \in Ops :
                 made = RawComp(Metric(m, {q}), op, Metric(n, {r}))
    <3>1. PICK m, n \in Metrics, q, r \in Queues, op \in Ops :
                 made = RawComp(Metric(m, {q}), op, Metric(n, {r}))
      BY <2>1
    <3>2. Settled(Normalized(RawComp(Metric(m, {q}), op, Metric(n, {r}))))
      BY IndivsSettle
    <3> QED
      BY <3>1, <3>2
  <2>2. CASE \E l, r \in SUBSET Queues, op \in Ops :
                 /\ made = RawComp(Metric("CENQ", l), op, Metric("CENQ", r))
                 /\ ~IsIndiv(Metric("CENQ", l))
    <3>1. PICK l \in SUBSET Queues, r \in SUBSET Queues, op \in Ops :
                 /\ made = RawComp(Metric("CENQ", l), op, Metric("CENQ", r))
                 /\ ~IsIndiv(Metric("CENQ", l))
      BY <2>2
    <3> QED
      BY <3>1, SumsSettle
  <2> QED
    BY <1>4, <2>1, <2>2, TwoMetricsAre
<1> QED
  BY <1>1, <1>2, <1>3, <1>4

\* A normalised Comp that did not wrap is evaluated as it is encoded.
LEMMA PlainIsSame ==
    ASSUME NEW c, Plain(c), ~Wraps(c), NEW e, NEW t \in Steps
    PROVE  c.kind = "comp" /\ (EncodedComp(c, e, t) <=> EvaluatedComp(c, e, t))
<1>1. PICK m, qs, op, y :
          /\ c = RawComp(Metric(m, qs), op, y)
          /\ \/ \E v \in Nat : y = Constant(v)
             \/ \E k \in Coeffs : y = Time(k)
             \/ \E n, r : y = Metric(n, r)
  BY DEF Plain
<1>2. c.kind = "comp" /\ c.rhs = y
  BY <1>1 DEF RawComp
<1>3. ASSUME NEW v \in Nat, y = Constant(v) PROVE v <= MaxInt
  <2>1. y.kind = "constant" /\ y.value = v
    BY <1>3 DEF Constant
  <2> QED
    BY <1>2, <2>1, IntIs DEF Wraps, IsComp
<1>4. \/ \E v \in Nat : v <= MaxInt /\ y = Constant(v)
      \/ \E k \in Coeffs : y = Time(k)
      \/ \E n, r : y = Metric(n, r)
  BY <1>1, <1>3
<1>5. EncodedComp(RawComp(Metric(m, qs), op, y), e, t)
        <=> EvaluatedComp(RawComp(Metric(m, qs), op, y), e, t)
  BY <1>4, SameComps
<1> QED
  BY <1>1, <1>2, <1>5

\* An example is evaluated against a spec as the solver is asked for it
\* (contention_point.cpp:733-1006), but for the three cases that the property
\* names: a constant that wraps, Same without an arrival, Unique in its first step.
THEOREM WorkloadEvaluatesAsEncoded == Spec => []EvaluatesAsEncoded
<1>1. MadeInv => EvaluatesAsEncoded
  <2> DEFINE s == IF IsComp(made) THEN Normalized(made) ELSE made
             Agrees(e, lo, hi) ==
                CASE s.kind = "same" ->
                       EncodedOver(s, e, lo, hi) <=>
                           (\/ EvaluatedOver(s, e, lo, hi)
                            \/ \A t \in lo + 1 .. hi : Arrived(e, s.queue, t) = 0)
                  [] s.kind = "unique" ->
                       EncodedOver(s, e, lo, hi) <=>
                           (EvaluatedOver(s, e, lo, hi) /\ Distinct(s, e, lo))
                  [] OTHER -> EncodedOver(s, e, lo, hi) <=> EvaluatedOver(s, e, lo, hi)
  <2> SUFFICES ASSUME MadeInv, made.kind \notin {"none", "added", "modified"},
                      ~Wraps(s), ~IsEmptySpec(s), ~IsAllSpec(s),
                      NEW e \in Executions, NEW lo \in Steps, NEW hi \in Steps, lo <= hi
               PROVE  Agrees(e, lo, hi)
    BY DEF EvaluatesAsEncoded
  <2>0. lo \in Int /\ hi \in Int /\ \A t \in lo .. hi : t \in Steps
    BY SpecAssumption DEF Steps
  <2>1. CASE made.kind = "comp"
    <3>1. s = Normalized(made)
      BY <2>1 DEF IsComp
    <3>2. Plain(s)
      BY <2>1, <3>1, MadeSettles DEF Settled
    <3>3. s.kind = "comp"
      BY <2>0, <3>2, PlainIsSame
    <3>4. \A t \in lo .. hi : EncodedComp(s, e, t) <=> EvaluatedComp(s, e, t)
      BY <2>0, <3>2, PlainIsSame
    <3> HIDE DEF s
    <3> QED
      BY <3>3, <3>4 DEF EncodedOver, EvaluatedOver
  <2>2. CASE made \in OfOneMetric
    <3>1. s = made /\ s.kind \in {"same", "incr", "decr", "unique"}
      BY <2>2, KindsOf DEF IsComp
    <3> HIDE DEF s
    <3>2. CASE s.kind = "same"
      BY <3>2 DEF EncodedOver, EvaluatedOver
    <3>3. CASE s.kind = "unique"
      <4>1. /\ EncodedOver(s, e, lo, hi) <=> \A t \in lo .. hi : Distinct(s, e, t)
            /\ EvaluatedOver(s, e, lo, hi) <=> \A t \in lo + 1 .. hi : Distinct(s, e, t)
        BY <3>3 DEF EncodedOver, EvaluatedOver
      <4>2. \A t : t \in lo .. hi <=> t = lo \/ t \in lo + 1 .. hi
        BY <2>0
      <4> QED
        BY <3>3, <4>1, <4>2
    <3>4. CASE s.kind \in {"incr", "decr"}
      BY <3>4 DEF EncodedOver, EvaluatedOver
    <3> QED
      BY <3>1, <3>2, <3>3, <3>4
  <2> QED
    BY <2>1, <2>2, KindsOf DEF MadeInv
<1> QED
  BY <1>1, MadeInvariant, PTL
(* The specs of a timeline ***************************************************)

\* What a Comp of the metric m is compared with in a timeline: a strict
\* comparison is left of one with Time(0) only.
IsNumber(m, op, y) ==
    \/ \E v \in Int : y = Constant(v) /\ (op \in {"GT", "LT"} => v = 0)
    \/ m = "CENQ" /\ \E k \in Coeffs : y = Time(k)

\* The specs in a timeline.  A Comp is one of numbers, and known to be empty
\* only where it is taken to grow too fast.
IsShape(s, m, qs) ==
    /\ s.kind = "comp" /\ s.op \in Ops /\ s.is \in {"some", "empty"}
    /\ s.lhs = Metric(m, qs)
    /\ IsNumber(m, s.op, s.rhs)
    /\ s.is = "empty" => s.rhs.kind = "time" /\ TooFast(s)

Shaped(s) ==
    \/ s.kind \in {"same", "incr", "decr", "unique"}
    \/ \E m \in Metrics, qs \in SUBSET Queues : IsShape(s, m, qs)

\* The parts of an expression, and of a Comp.
LEMMA Fields ==
    /\ \A v : Constant(v).kind = "constant" /\ Constant(v).value = v
    /\ \A k : Time(k).kind = "time" /\ Time(k).coeff = k
    /\ \A m, qs : Metric(m, qs).kind = "metric" /\ Metric(m, qs).metric = m /\ Metric(m, qs).queues = qs
    /\ \A x, op, y : LET c == RawComp(x, op, y)
                     IN  /\ c.kind = "comp" /\ c.lhs = x /\ c.op = op /\ c.rhs = y /\ c.is = "some"
                         /\ Flagged(c, "empty").kind = "comp" /\ Flagged(c, "empty").lhs = x
                         /\ Flagged(c, "empty").op = op /\ Flagged(c, "empty").rhs = y
                         /\ Flagged(c, "empty").is = "empty"
BY DEF Constant, Time, Metric, RawComp, Flagged

\* A Comp that has this shape,
LEMMA ShapedRaw ==
    ASSUME NEW m \in Metrics, NEW qs \in SUBSET Queues, NEW op \in Ops, NEW y, IsNumber(m, op, y)
    PROVE  LET c == RawComp(Metric(m, qs), op, y) IN Shaped(c) /\ IsShape(c, m, qs)
<1> DEFINE c == RawComp(Metric(m, qs), op, y)
<1>1. c.kind = "comp" /\ c.lhs = Metric(m, qs) /\ c.op = op /\ c.rhs = y /\ c.is = "some"
  BY Fields
<1> HIDE DEF c
<1>2. IsShape(c, m, qs)
  BY <1>1 DEF IsShape
<1> QED
  BY <1>2 DEF Shaped, c

\* Normalising gives a Comp this shape.
LEMMA NormalizedShaped ==
    ASSUME NEW m \in Metrics, NEW qs \in SUBSET Queues, NEW op \in Ops, NEW y,
           \/ \E v \in Int : y = Constant(v)
           \/ m = "CENQ" /\ \E k \in Coeffs \cup {0} : y = Time(k)
    PROVE  LET d == Normalized(RawComp(Metric(m, qs), op, y))
           IN  Shaped(d) /\ IsShape(d, m, qs)
<1> DEFINE x == Metric(m, qs)
           c == RawComp(x, op, y)
<1>0. "GE" \in Ops /\ "LE" \in Ops
  BY DEF Ops
<1>1. CASE \E v \in Int : y = Constant(v)
  <2>0. PICK v \in Int : y = Constant(v)
    BY <1>1
  <2>1. Normalized(c) =
            IF op = "GT" THEN RawComp(x, "GE", Constant(Unsigned(v + 1)))
            ELSE IF op = "LT" THEN RawComp(x, "LE", Constant(Unsigned(v - 1)))
            ELSE c
    BY <2>0, ConstantForm DEF Normalized
  <2>2. Unsigned(v + 1) \in Int /\ Unsigned(v - 1) \in Int
    BY IntIs DEF Unsigned
  <2>3. /\ IsNumber(m, "GE", Constant(Unsigned(v + 1)))
        /\ IsNumber(m, "LE", Constant(Unsigned(v - 1)))
        /\ op \notin {"GT", "LT"} => IsNumber(m, op, y)
    BY <2>0, <2>2 DEF IsNumber
  <2> QED
    BY <1>0, <2>1, <2>3, ShapedRaw
<1>2. CASE m = "CENQ" /\ \E k \in Coeffs : y = Time(k)
  <2>0. PICK k \in Coeffs : y = Time(k)
    BY <1>2
  <2>1. IsNumber(m, op, y)
    BY <1>2 DEF IsNumber
  <2>2. Normalized(c) = IF TooFast(c) THEN Flagged(c, "empty") ELSE c
    BY <2>0, TimeForm
  <2>3. CASE ~TooFast(c)
    BY <2>1, <2>2, <2>3, ShapedRaw
  <2>4. CASE TooFast(c)
    <3> DEFINE d == Flagged(c, "empty")
    <3>1. /\ d.kind = "comp" /\ d.lhs = x /\ d.op = op /\ d.rhs = y /\ d.is = "empty"
          /\ c.lhs = x /\ c.op = op /\ c.rhs = y /\ y.kind = "time"
      BY <2>0, Fields
    <3> HIDE DEF d, c
    <3>2. TooFast(d)
      BY <2>4, <3>1 DEF TooFast
    <3>3. IsShape(d, m, qs)
      BY <2>1, <3>1, <3>2 DEF IsShape
    <3>4. Shaped(d)
      BY <3>3 DEF Shaped
    <3> QED
      BY <2>2, <2>4, <3>3, <3>4 DEF d, c
  <2> QED
    BY <2>3, <2>4
<1>3. CASE y = Time(0)
  <2>1. Normalized(c) = RawComp(x, op, Constant(0))
    <3>1. c.rhs = y /\ y.kind = "time" /\ y.coeff = 0
      BY <1>3, Fields
    <3>2. [c EXCEPT !.rhs = Constant(0)] = RawComp(x, op, Constant(0))
      BY DEF RawComp
    <3> HIDE DEF c
    <3>3. AgainstMetric(c) = c /\ AgainstConstant(c) = c
      BY <3>1 DEF AgainstMetric, AgainstConstant
    <3> QED
      BY <3>1, <3>2, <3>3 DEF Normalized, AgainstTime
  <2>2. IsNumber(m, op, Constant(0))
    BY DEF IsNumber
  <2> QED
    BY <2>1, <2>2, ShapedRaw
<1> QED
  BY <1>1, <1>2, <1>3

\* ... so what is drawn has it,
LEMMA DrawnShaped ==
    ASSUME NEW ts \in Drawn
    PROVE  Shaped(ts.spec) /\ ts.lo \in Steps /\ ts.hi \in Steps /\ ts.lo <= ts.hi
<1>1. PICK c \in RandomComps : \E r \in {x \in Steps \X Steps : x[1] <= x[2]} : ts = Timed(c, r[1], r[2])
  BY WorkloadAssumption DEF RandomTimedSpecs
<1>1a. PICK r \in {x \in Steps \X Steps : x[1] <= x[2]} : ts = Timed(c, r[1], r[2])
  BY <1>1
<1>2. PICK d \in RandomRaw : d.rhs \in RandomRhs(d.lhs) /\ c = Normalized(d)
  BY DEF RandomComps, Useful
<1>3. AgainstBound(d) \/ AgainstSteps(d)
  BY <1>2, DrawnIs
<1>4. Shaped(Normalized(d))
  <2>1. CASE AgainstBound(d)
    <3>1. PICK m \in Metrics, qs \in SUBSET Queues, op \in Ops, v \in Nat :
              d = RawComp(Metric(m, qs), op, Constant(v))
      BY <2>1 DEF AgainstBound
    <3> QED
      BY <3>1, NormalizedShaped
  <2>2. CASE AgainstSteps(d)
    <3>1. PICK qs \in SUBSET Queues, op \in Ops, k \in Coeffs : d = RawComp(Metric("CENQ", qs), op, Time(k))
      BY <2>2 DEF AgainstSteps
    <3>2. "CENQ" \in Metrics
      BY DEF Metrics
    <3> QED
      BY <3>1, <3>2, NormalizedShaped
  <2> QED
    BY <1>3, <2>1, <2>2
<1>5. ts.spec = c /\ ts.lo \in {0, r[1]} /\ ts.hi \in {TotalTime - 1, r[2]}
  BY <1>1a DEF Timed
<1> QED
  BY <1>1a, <1>2, <1>4, <1>5, SpecAssumption DEF Steps

\* and what is written,
LEMMA WrittenShaped ==
    ASSUME NEW ts \in Written
    PROVE  Shaped(ts.spec) /\ ts.lo \in Steps /\ ts.hi \in Steps /\ ts.lo <= ts.hi
<1>1. ts.lo \in Steps /\ ts.hi \in Steps /\ ts.lo <= ts.hi
  BY TimedAssumption
<1>2. CASE ts.spec \in OfOneMetric
  BY <1>1, <1>2, KindsOf DEF Shaped
<1>3. CASE \E c \in OfNumbers : ts.spec = Normalized(c)
  <2>1. PICK c \in OfNumbers : ts.spec = Normalized(c)
    BY <1>3
  <2>2. PICK x \in Indivs \cup Sums, op \in Ops :
            \/ \E v \in 0 .. MaxInt - 1 : c = RawComp(x, op, Constant(v))
            \/ TimeValid(x) /\ \E k \in 0 .. MaxInt - 1 : k * TotalTime <= MaxInt /\ c = RawComp(x, op, Time(k))
    BY DEF OfNumbers
  <2>3. PICK m \in Metrics, qs \in SUBSET Queues : x = Metric(m, qs)
    <3>1. CASE x \in Indivs
      <4>0. \A z \in Indivs : \E m \in Metrics, q \in Queues : z = Metric(m, {q})
        BY DEF Indivs
      <4>1. PICK m \in Metrics, q \in Queues : x = Metric(m, {q})
        BY <3>1, <4>0
      <4> QED
        BY <4>1
    <3>2. CASE x \in Sums
      BY <3>2 DEF Sums, Metrics
    <3> QED
      BY <3>1, <3>2
  <2>4. ASSUME NEW v \in 0 .. MaxInt - 1, c = RawComp(x, op, Constant(v)) PROVE Shaped(ts.spec)
    <3>1. v \in Int
      OBVIOUS
    <3> QED
      BY <2>1, <2>3, <2>4, <3>1, NormalizedShaped
  <2>5. ASSUME TimeValid(x), NEW k \in 0 .. MaxInt - 1, k * TotalTime <= MaxInt,
               c = RawComp(x, op, Time(k))
        PROVE  Shaped(ts.spec)
    <3>1. m = "CENQ"
      BY <2>3, <2>5, Fields DEF TimeValid, Metrics
    <3>2. k \in Coeffs \cup {0}
      BY <2>5, IntIs DEF Coeffs
    <3> QED
      BY <2>1, <2>3, <2>5, <3>1, <3>2, NormalizedShaped
  <2> QED
    BY <1>1, <2>2, <2>4, <2>5
<1> QED
  BY <1>2, <1>3, TimedAssumption

\* and the neighbors of those.
LEMMA NeighborShaped ==
    ASSUME NEW c, Shaped(c), c.kind = "comp", NEW d \in NeighborComps(c)
    PROVE  Shaped(d)
<1>1. PICK n \in RawNeighbors(c) : d = Normalized(n)
  BY DEF NeighborComps, Useful
<1>2. PICK m \in Metrics, qs \in SUBSET Queues : IsShape(c, m, qs)
  BY DEF Shaped
<1> DEFINE x == c.lhs
           y == c.rhs
           Number(r) == \/ \E v \in Int : r = Constant(v)
                        \/ m = "CENQ" /\ \E k \in Coeffs \cup {0} : r = Time(k)
<1>3. x = Metric(m, qs) /\ c.op \in Ops /\ IsNumber(m, c.op, y)
  BY <1>2 DEF IsShape
<1>4. Number(y)
  BY <1>3 DEF IsNumber
<1>5. \/ \E l \in LhsNeighbors(x) : n = RawComp(l, c.op, y)
      \/ \E o \in Ops : n = RawComp(x, o, y)
      \/ \E r \in RhsNeighbors(x, y) : n = RawComp(x, c.op, r)
  BY <1>1 DEF RawNeighbors
<1>6. CASE \E l \in LhsNeighbors(x) : n = RawComp(l, c.op, y)
  <2>1. \A l \in LhsNeighbors(x) : \E ps \in SUBSET Queues : l = Metric(m, ps)
    <3>1. \A ps \in OneLess(qs) : ps \in SUBSET Queues
      BY DEF OneLess
    <3>2. \A ps \in OneMore(qs) : ps \in SUBSET Queues
      BY FactoryAssumption DEF OneMore
    <3>3. \A q \in TargetQueues : {q} \in SUBSET Queues
      BY FactoryAssumption
    <3>4. x.metric = m /\ x.queues = qs
      BY <1>3, Fields
    <3> HIDE DEF x
    <3> QED
      BY <3>1, <3>2, <3>3, <3>4 DEF LhsNeighbors
  <2>2. PICK l \in LhsNeighbors(x) : n = RawComp(l, c.op, y)
    BY <1>6
  <2>3. PICK ps \in SUBSET Queues : l = Metric(m, ps)
    BY <2>1
  <2> QED
    BY <1>1, <1>3, <1>4, <2>2, <2>3, NormalizedShaped
<1>7. CASE \E o \in Ops : n = RawComp(x, o, y)
  BY <1>1, <1>3, <1>4, <1>7, NormalizedShaped
<1>8. CASE \E r \in RhsNeighbors(x, y) : n = RawComp(x, c.op, r)
  <2>1. PICK r \in RhsNeighbors(x, y) : n = RawComp(x, c.op, r)
    BY <1>8
  <2>2. TimeValid(x) => m = "CENQ"
    BY <1>3, Fields DEF TimeValid, Metrics
  <2>3. Number(r)
    <3>1. CASE m = "CENQ" /\ \E k \in Coeffs : y = Time(k)
      <4>0. PICK k \in Coeffs : y = Time(k)
        BY <3>1
      <4>1. r = Constant(k) \/ \E j \in TimeCoeffs : r = Time(j)
        BY <4>0, Fields DEF RhsNeighbors
      <4>2. k \in Int
        BY DEF Coeffs
      <4> QED
        BY <3>1, <4>1, <4>2, CoeffsAre
    <3>2. CASE \E v \in Int : y = Constant(v)
      <4>0. PICK v \in Int : y = Constant(v)
        BY <3>2
      <4>1. (TimeValid(x) /\ r = Time(1)) \/ \E u \in Constants(x) : r = Constant(u)
        BY <4>0, Fields DEF RhsNeighbors
      <4> QED
        BY <2>2, <4>1, ConstantsOf, IntIs, CoeffsAre
    <3> QED
      BY <1>3, <3>1, <3>2 DEF IsNumber
  <2> QED
    BY <1>1, <1>3, <2>1, <2>3, NormalizedShaped
<1> QED
  BY <1>5, <1>6, <1>7, <1>8
(* The ranges of a timeline **************************************************)

Covers(r, t) == r[1] <= t /\ t <= r[2]

\* The ranges share out the steps.
Parts(D) ==
    /\ \A r \in D : r \in Steps \X Steps /\ r[1] <= r[2]
    /\ \A t \in Steps : \E r \in D : Covers(r, t)
    /\ \A t \in Steps : \A r, x \in D : Covers(r, t) /\ Covers(x, t) => r = x

Fine(tl) ==
    /\ Parts(DOMAIN tl)
    /\ \A r \in DOMAIN tl : \A s \in BagToSet(tl[r]) : Shaped(s)

\* Steps are numbers.
LEMMA StepsAre ==
    /\ TotalTime \in Nat \ {0}
    /\ \A t : t \in Steps <=> t \in Int /\ 0 <= t /\ t < TotalTime
BY SpecAssumption DEF Steps

\* A timeline with the same ranges and no spec of another shape.
LEMMA SameRanges ==
    ASSUME NEW tl, Fine(tl), NEW ul, DOMAIN ul = DOMAIN tl,
           \A r \in DOMAIN tl : \A s \in BagToSet(ul[r]) : s \in BagToSet(tl[r]) \/ Shaped(s)
    PROVE  Fine(ul)
BY DEF Fine

\* Cutting an entry in two leaves a partition ...
LEMMA PartsOfCut ==
    ASSUME NEW D, Parts(D), NEW t \in Int
    PROVE  LET cut == {r \in D : r[1] < t /\ t <= r[2]}
               parts == UNION {{<<r[1], t - 1>>, <<t, r[2]>>} : r \in cut}
               E == (D \ cut) \cup parts
           IN  Parts(E) /\ \A x \in E : \E r \in D : r[1] <= x[1] /\ x[2] <= r[2]
<1> DEFINE cut == {r \in D : r[1] < t /\ t <= r[2]}
           parts == UNION {{<<r[1], t - 1>>, <<t, r[2]>>} : r \in cut}
           E == (D \ cut) \cup parts
<1>1. \A r \in D : r[1] \in Steps /\ r[2] \in Steps /\ r[1] <= r[2]
  BY DEF Parts
<1>2. \A r \in cut : r \in D /\ t - 1 \in Steps /\ t \in Steps /\ r[1] <= t - 1 /\ t <= r[2] /\ t - 1 <= r[2]
  BY <1>1, StepsAre
<1>3. ASSUME NEW x \in parts
      PROVE  \E r \in cut : x = <<r[1], t - 1>> \/ x = <<t, r[2]>>
  OBVIOUS
<1>4. \A r \in cut : <<r[1], t - 1>> \in parts /\ <<t, r[2]>> \in parts
  OBVIOUS
<1> HIDE DEF parts, cut
<1>5. ASSUME NEW x \in E
      PROVE  /\ x \in Steps \X Steps /\ x[1] <= x[2]
             /\ \E r \in D :
                  /\ r[1] <= x[1] /\ x[2] <= r[2]
                  /\ \/ r \notin cut /\ x = r
                     \/ r \in cut /\ x = <<r[1], t - 1>>
                     \/ r \in cut /\ x = <<t, r[2]>>
  <2>1. CASE x \in D \ cut
    <3>1. x \in Steps \X Steps /\ x[1] <= x[2]
      BY <2>1 DEF Parts
    <3>2. x[1] <= x[1] /\ x[2] <= x[2]
      BY <1>1, <2>1, StepsAre
    <3> QED
      BY <2>1, <3>1, <3>2
  <2>2. CASE x \in parts
    <3>1. PICK r \in cut : x = <<r[1], t - 1>> \/ x = <<t, r[2]>>
      BY <1>3, <2>2
    <3>2. r[1] \in Steps /\ r[2] \in Steps /\ t - 1 \in Steps /\ t \in Steps
      BY <1>1, <1>2
    <3>3. r[1] <= t /\ r[1] <= r[1] /\ r[2] <= r[2]
      BY <1>2, <3>2, StepsAre
    <3> QED
      BY <1>2, <3>1, <3>2, <3>3
  <2> QED
    BY <2>1, <2>2
<1>6. ASSUME NEW u \in Steps PROVE \E x \in E : Covers(x, u)
  <2>1. PICK r \in D : Covers(r, u)
    BY DEF Parts
  <2>2. CASE r \notin cut
    BY <2>1, <2>2
  <2>3. CASE r \in cut /\ u < t
    <3>1. Covers(<<r[1], t - 1>>, u)
      BY <2>1, <2>3, StepsAre DEF Covers
    <3> QED
      BY <1>4, <2>3, <3>1
  <2>4. CASE r \in cut /\ ~(u < t)
    <3>1. Covers(<<t, r[2]>>, u)
      BY <2>1, <2>4, StepsAre DEF Covers
    <3> QED
      BY <1>4, <2>4, <3>1
  <2> QED
    BY <2>2, <2>3, <2>4
<1>7. ASSUME NEW u \in Steps, NEW x \in E, NEW y \in E, Covers(x, u), Covers(y, u)
      PROVE  x = y
  <2>1. PICK r \in D : /\ r[1] <= x[1] /\ x[2] <= r[2]
                       /\ \/ r \notin cut /\ x = r
                          \/ r \in cut /\ x = <<r[1], t - 1>>
                          \/ r \in cut /\ x = <<t, r[2]>>
    BY <1>5
  <2>2. PICK s \in D : /\ s[1] <= y[1] /\ y[2] <= s[2]
                       /\ \/ s \notin cut /\ y = s
                          \/ s \in cut /\ y = <<s[1], t - 1>>
                          \/ s \in cut /\ y = <<t, s[2]>>
    BY <1>5
  <2>3. x[1] \in Int /\ x[2] \in Int /\ y[1] \in Int /\ y[2] \in Int /\ u \in Int
    BY <1>5, StepsAre
  <2>4. r[1] \in Int /\ r[2] \in Int /\ s[1] \in Int /\ s[2] \in Int
    BY <1>1, StepsAre
  <2>5. Covers(r, u) /\ Covers(s, u)
    BY <1>7, <2>1, <2>2, <2>3, <2>4 DEF Covers
  <2>6. r = s
    BY <2>5 DEF Parts
  <2>7. ~(Covers(<<r[1], t - 1>>, u) /\ Covers(<<t, r[2]>>, u))
    BY <2>3, <2>4 DEF Covers
  <2> QED
    BY <1>7, <2>1, <2>2, <2>6, <2>7
<1>8. Parts(E)
  BY <1>5, <1>6, <1>7 DEF Parts
<1> QED
  BY <1>5, <1>8 DEF parts, cut

\* ... of a timeline.
LEMMA CutFine ==
    ASSUME NEW tl, Fine(tl), NEW t \in Int
    PROVE  Fine(CutBefore(tl, t))
<1> DEFINE D == DOMAIN tl
           cut == {r \in D : r[1] < t /\ t <= r[2]}
           parts == UNION {{<<r[1], t - 1>>, <<t, r[2]>>} : r \in cut}
           E == (D \ cut) \cup parts
           whole(x) == CHOOSE r \in D : r[1] <= x[1] /\ x[2] <= r[2]
<1>1. Parts(E) /\ \A x \in E : \E r \in D : r[1] <= x[1] /\ x[2] <= r[2]
  BY PartsOfCut DEF Fine
<1>2. CutBefore(tl, t) = [x \in E |-> tl[whole(x)]]
  BY DEF CutBefore
<1> HIDE DEF E, D
<1>3. \A x \in E : whole(x) \in D
  BY <1>1
<1> HIDE DEF whole
<1> QED
  BY <1>1, <1>2, <1>3 DEF Fine, D
(* Merging *******************************************************************)

\* A set of numbers that is bounded has a greatest one.
LEMMA GreatestExists ==
    ASSUME NEW n \in Nat, NEW T \in SUBSET (0 .. n), T # {}
    PROVE  \E x \in T : \A y \in T : y <= x
<1> DEFINE U == {i \in Nat : n - i \in T}
<1>1. U \in SUBSET Nat
  OBVIOUS
<1>2. U # {}
  <2>1. PICK x \in T : TRUE
    OBVIOUS
  <2>2. n - x \in Nat /\ n - (n - x) = x
    OBVIOUS
  <2> QED
    BY <2>1, <2>2
<1>3. PICK i \in U : \A j \in U : i <= j
  BY <1>1, <1>2, LeastNumberExists
<1>4. ASSUME NEW y \in T PROVE y <= n - i
  <2>1. n - y \in U
    OBVIOUS
  <2> QED
    BY <1>3, <2>1
<1> QED
  BY <1>3, <1>4

\* Entries of the same objects: the relation is symmetric and transitive.
LEMMA AlikeIs ==
    /\ \A b, c : Alike(b, c) => Alike(c, b)
    /\ \A b, c, d : Alike(b, c) /\ Alike(c, d) => Alike(b, d)
BY DEF Alike

\* Ranges that differ are apart, and one that starts late has one before it.
LEMMA RangesAre ==
    ASSUME NEW D, Parts(D)
    PROVE  /\ \A x \in D : /\ x[1] \in Int /\ x[2] \in Int /\ x[1] <= x[2]
                           /\ x[1] >= 0 /\ x[2] < TotalTime
           /\ \A x, y \in D : x = y \/ x[2] < y[1] \/ y[2] < x[1]
           /\ \A x \in D : x[1] > 0 => \E p \in D : p[2] = x[1] - 1
<1>1. ASSUME NEW x \in D
      PROVE  /\ x[1] \in Steps /\ x[2] \in Steps
             /\ x[1] \in Int /\ x[2] \in Int /\ x[1] <= x[2]
             /\ x[1] >= 0 /\ x[2] < TotalTime
  BY StepsAre DEF Parts
<1>2. ASSUME NEW x \in D, NEW y \in D, ~(x[2] < y[1]), ~(y[2] < x[1])
      PROVE  x = y
  <2>1. CASE x[1] <= y[1]
    <3>1. Covers(x, y[1]) /\ Covers(y, y[1])
      BY <1>1, <1>2, <2>1 DEF Covers
    <3> QED
      BY <1>1, <3>1 DEF Parts
  <2>2. CASE y[1] <= x[1]
    <3>1. Covers(x, x[1]) /\ Covers(y, x[1])
      BY <1>1, <1>2, <2>2 DEF Covers
    <3> QED
      BY <1>1, <3>1 DEF Parts
  <2> QED
    BY <1>1, <2>1, <2>2
<1>3. ASSUME NEW x \in D, x[1] > 0 PROVE \E p \in D : p[2] = x[1] - 1
  <2>1. x[1] - 1 \in Steps
    BY <1>1, <1>3, StepsAre
  <2>2. PICK p \in D : Covers(p, x[1] - 1)
    BY <2>1 DEF Parts
  <2>3. p # x /\ ~(p[2] < x[1] - 1) /\ p[1] <= x[1] - 1
    BY <1>1, <2>2 DEF Covers
  <2>4. p[2] < x[1] \/ x[2] < p[1]
    BY <1>2, <2>3
  <2> QED
    BY <1>1, <2>3, <2>4
<1> QED
  BY <1>1, <1>2, <1>3

\* All entries from r to y are like r.
Reaches(tl, r, y) ==
    /\ r[1] <= y[1]
    /\ \A x \in DOMAIN tl : r[1] <= x[1] /\ x[1] <= y[1] => Alike(tl[r], tl[x]) \/ x = r

\* A run ends with the last entry that it reaches.
LEMMA RunIs ==
    ASSUME NEW tl, Parts(DOMAIN tl), NEW r \in DOMAIN tl
    PROVE  \E y \in DOMAIN tl :
              /\ RunFrom(tl, r) = <<r[1], y[2]>> /\ Reaches(tl, r, y)
              /\ \A z \in DOMAIN tl : Reaches(tl, r, z) => z[2] <= y[2]
<1> DEFINE D == DOMAIN tl
           T == {x[2] : x \in {y \in D : Reaches(tl, r, y)}}
<1>1. \A x \in D : x[1] \in Int /\ x[2] \in 0 .. TotalTime
  BY RangesAre, StepsAre
<1>2. Reaches(tl, r, r)
  <2>1. \A x \in D : r[1] <= x[1] /\ x[1] <= r[1] => x = r
    BY RangesAre
  <2> QED
    BY <1>1, <2>1 DEF Reaches
<1>3. T \in SUBSET (0 .. TotalTime) /\ T # {}
  BY <1>1, <1>2
<1>4. \E m \in T : \A n \in T : n <= m
  BY <1>3, GreatestExists, StepsAre
<1>5. Max(T) \in T /\ \A n \in T : Max(T) >= n
  BY <1>4 DEF Max
<1>6. RunFrom(tl, r) = <<r[1], Max(T)>>
  BY DEF RunFrom, Reaches
<1>7. PICK y \in D : Reaches(tl, r, y) /\ Max(T) = y[2]
  BY <1>5
<1>8. \A z \in D : Reaches(tl, r, z) => z[2] <= y[2]
  BY <1>1, <1>5, <1>7
<1> QED
  BY <1>6, <1>7, <1>8

\* Each entry is reached from the start of a run.
LEMMA StartReaches ==
    ASSUME NEW tl, Parts(DOMAIN tl), NEW z \in DOMAIN tl
    PROVE  \E r \in DOMAIN tl : StartsRun(tl, r) /\ Reaches(tl, r, z)
<1> DEFINE D == DOMAIN tl
           S == {x[1] : x \in {r \in D : StartsRun(tl, r) /\ r[1] <= z[1]}}
<1>1. \A x \in D : /\ x[1] \in Int /\ x[2] \in Int /\ x[1] <= x[2]
                   /\ x[1] >= 0 /\ x[1] \in 0 .. TotalTime /\ x[2] >= 0
  BY RangesAre, StepsAre
<1>2. S \in SUBSET (0 .. TotalTime) /\ S # {}
  <2>1. 0 \in Steps
    BY StepsAre
  <2>2. PICK x \in D : Covers(x, 0)
    BY <2>1 DEF Parts
  <2>3. x[1] = 0
    BY <1>1, <2>2 DEF Covers
  <2>4. StartsRun(tl, x)
    BY <1>1, <2>3 DEF StartsRun
  <2> QED
    BY <1>1, <2>3, <2>4
<1>3. PICK m \in S : \A n \in S : n <= m
  BY <1>2, GreatestExists, StepsAre
<1>4. PICK r \in D : StartsRun(tl, r) /\ r[1] <= z[1] /\ r[1] = m
  BY <1>3
<1> DEFINE B == {x[1] : x \in {y \in D : /\ r[1] <= y[1] /\ y[1] <= z[1]
                                         /\ y # r /\ ~Alike(tl[r], tl[y])}}
<1>5. ASSUME B # {} PROVE FALSE
  <2>1. B \in SUBSET Nat
    BY <1>1
  <2>2. PICK b \in B : \A n \in B : b <= n
    BY <1>5, <2>1, LeastNumberExists
  <2>3. PICK y \in D : /\ r[1] <= y[1] /\ y[1] <= z[1] /\ y[1] = b
                       /\ y # r /\ ~Alike(tl[r], tl[y])
    BY <2>2
  <2>4. r[1] < y[1]
    BY <1>1, <2>3, RangesAre
  <2>5. PICK p \in D : p[2] = y[1] - 1
    BY <1>1, <2>4, RangesAre
  <2>6. r[1] <= p[1] /\ p[1] < y[1] /\ p[1] <= z[1]
    <3>1. p = r \/ p[2] < r[1] \/ r[2] < p[1]
      BY RangesAre
    <3> QED
      BY <1>1, <2>3, <2>4, <2>5, <3>1
  <2>7. p = r \/ Alike(tl[r], tl[p])
    <3>1. p[1] \notin B
      BY <1>1, <2>2, <2>3, <2>6
    <3> QED
      BY <2>6, <3>1
  <2>8. ~StartsRun(tl, y)
    <3>1. y[1] \notin S
      BY <1>1, <1>3, <1>4, <2>4
    <3> QED
      BY <2>3, <3>1
  <2>9. PICK x \in D : x[2] = y[1] - 1 /\ Alike(tl[x], tl[y])
    BY <2>8 DEF StartsRun
  <2>10. x = p
    <3>1. x = p \/ x[2] < p[1] \/ p[2] < x[1]
      BY RangesAre
    <3> QED
      BY <1>1, <2>5, <2>9, <3>1
  <2> QED
    BY <2>3, <2>7, <2>9, <2>10, AlikeIs
<1> QED
  BY <1>4, <1>5 DEF Reaches

\* A run reaches no start of another.
LEMMA RunsApart ==
    ASSUME NEW tl, Parts(DOMAIN tl), NEW r \in DOMAIN tl, NEW s \in DOMAIN tl,
           StartsRun(tl, s), r[1] < s[1],
           NEW y \in DOMAIN tl, Reaches(tl, r, y)
    PROVE  y[2] < s[1]
<1> SUFFICES ASSUME ~(y[2] < s[1]) PROVE FALSE
  OBVIOUS
<1>1. \A x \in DOMAIN tl : x[1] \in Int /\ x[2] \in Int /\ x[1] <= x[2] /\ x[1] >= 0
  BY RangesAre
<1>2. s[1] <= y[1]
  <2>1. s = y \/ s[2] < y[1] \/ y[2] < s[1]
    BY RangesAre
  <2> QED
    BY <1>1, <2>1
<1>3. PICK p \in DOMAIN tl : p[2] = s[1] - 1
  BY <1>1, RangesAre
<1>4. r[1] <= p[1]
  <2>1. p = r \/ p[2] < r[1] \/ r[2] < p[1]
    BY RangesAre
  <2> QED
    BY <1>1, <1>3, <2>1
<1>5. p = r \/ Alike(tl[r], tl[p])
  BY <1>1, <1>2, <1>3, <1>4 DEF Reaches
<1>6. Alike(tl[r], tl[s])
  BY <1>1, <1>2 DEF Reaches
<1>7. Alike(tl[p], tl[s])
  BY <1>5, <1>6, AlikeIs
<1> QED
  BY <1>3, <1>7 DEF StartsRun

\* Merging leaves a timeline.
LEMMA MergedFine ==
    ASSUME NEW tl, Fine(tl)
    PROVE  Fine(Merged(tl))
<1> DEFINE D == DOMAIN tl
           starts == {r \in D : StartsRun(tl, r)}
           runs == {RunFrom(tl, r) : r \in starts}
           first(u) == CHOOSE r \in starts : r[1] = u[1]
<1>0. Parts(D)
  BY DEF Fine
<1>1. \A x \in D : /\ x[1] \in Int /\ x[2] \in Int /\ x[1] <= x[2]
                   /\ x[1] \in Steps /\ x[2] \in Steps
  BY <1>0, RangesAre DEF Parts
<1>2. Merged(tl) = [u \in runs |-> tl[first(u)]]
  BY DEF Merged
<1>3. ASSUME NEW u \in runs
      PROVE  \E r \in starts, y \in D :
                /\ u = RunFrom(tl, r) /\ u = <<r[1], y[2]>> /\ Reaches(tl, r, y)
                /\ \A z \in D : Reaches(tl, r, z) => z[2] <= y[2]
  BY <1>0, RunIs
<1>4. ASSUME NEW u \in runs PROVE first(u) \in D
  <2>1. PICK r \in starts, y \in D : u = <<r[1], y[2]>>
    BY <1>3
  <2> QED
    BY <2>1
<1>5. ASSUME NEW u \in runs PROVE u \in Steps \X Steps /\ u[1] <= u[2]
  <2>1. PICK r \in starts, y \in D : u = <<r[1], y[2]>> /\ Reaches(tl, r, y)
    BY <1>3
  <2> QED
    BY <1>1, <2>1 DEF Reaches
<1>6. ASSUME NEW t \in Steps PROVE \E u \in runs : Covers(u, t)
  <2>1. PICK z \in D : Covers(z, t)
    BY <1>0 DEF Parts
  <2>2. PICK r \in D : StartsRun(tl, r) /\ Reaches(tl, r, z)
    BY <1>0, StartReaches
  <2>3. PICK y \in D : RunFrom(tl, r) = <<r[1], y[2]>> /\ z[2] <= y[2]
    BY <1>0, <2>2, RunIs
  <2>4. Covers(<<r[1], y[2]>>, t)
    BY <1>1, <2>1, <2>2, <2>3, StepsAre DEF Covers, Reaches
  <2> QED
    BY <2>2, <2>3, <2>4
<1>7. ASSUME NEW t \in Steps, NEW u \in runs, NEW v \in runs, Covers(u, t), Covers(v, t)
      PROVE  u = v
  <2>1. PICK r \in starts, y \in D :
            u = RunFrom(tl, r) /\ u = <<r[1], y[2]>> /\ Reaches(tl, r, y)
    BY <1>3
  <2>2. PICK s \in starts, z \in D :
            v = RunFrom(tl, s) /\ v = <<s[1], z[2]>> /\ Reaches(tl, s, z)
    BY <1>3
  <2>3. r[1] <= t /\ t <= y[2] /\ s[1] <= t /\ t <= z[2] /\ t \in Int
    BY <1>7, <2>1, <2>2, StepsAre DEF Covers
  <2>4. CASE r[1] < s[1]
    BY <1>0, <1>1, <2>1, <2>2, <2>3, <2>4, RunsApart
  <2>5. CASE s[1] < r[1]
    BY <1>0, <1>1, <2>1, <2>2, <2>3, <2>5, RunsApart
  <2>6. CASE r[1] = s[1]
    <3>1. r = s
      BY <1>0, <1>1, <2>6, RangesAre
    <3> QED
      BY <2>1, <2>2, <3>1
  <2> QED
    BY <1>1, <2>4, <2>5, <2>6
<1> HIDE DEF runs, first, D
<1>8. Parts(runs)
  BY <1>5, <1>6, <1>7 DEF Parts
<1> QED
  BY <1>2, <1>4, <1>8 DEF Fine, D
(* Changes of the timeline ***************************************************)

\* Taking the queues that are zero out of a Comp keeps its shape,
LEMMA PropagatedShaped ==
    ASSUME NEW s, Shaped(s), NEW zeros, NEW r
    PROVE  /\ Shaped(Propagated(s, zeros, r))
           /\ IsComp(Propagated(s, zeros, r)) <=> IsComp(s)
<1>1. CASE ~Affected(s, zeros)
  BY <1>1 DEF Propagated
<1>2. CASE Affected(s, zeros)
  <2> DEFINE c == Comp(Metric(s.lhs.metric, NonZero(s, zeros)), s.op, s.rhs)
             d == [kind |-> "comp", lhs |-> c.lhs, op |-> c.op, rhs |-> c.rhs,
                   is |-> "empty", in |-> r]
  <2>1. s.kind = "comp"
    BY <1>2 DEF Affected, IsComp
  <2>2. PICK m \in Metrics, qs \in SUBSET Queues : IsShape(s, m, qs)
    BY <2>1 DEF Shaped
  <2> DEFINE ps == NonZero(s, zeros)
  <2>3. ps \in SUBSET Queues /\ s.lhs.metric = m
    BY <2>2, Fields DEF IsShape, NonZero
  <2>4. IsShape(c, m, ps) /\ Shaped(c)
    <3>1. c = Normalized(RawComp(Metric(m, ps), s.op, s.rhs))
      BY <2>3 DEF Comp
    <3>2. s.op \in Ops /\ IsNumber(m, s.op, s.rhs)
      BY <2>2 DEF IsShape
    <3> HIDE DEF c, ps
    <3> QED
      BY <2>3, <3>1, <3>2, NormalizedShaped DEF IsNumber
  <2>5. Propagated(s, zeros, r) = IF c.is = "empty" THEN d ELSE c
    BY <1>2 DEF Propagated
  <2>6. d.op = c.op /\ d.lhs = c.lhs /\ d.rhs = c.rhs /\ d.kind = "comp" /\ d.is = "empty"
    OBVIOUS
  <2> HIDE DEF c, d, ps
  <2>7. c.is = "empty" => TooFast(d) /\ d.rhs.kind = "time"
    BY <2>4, <2>6 DEF IsShape, TooFast
  <2>8. c.is = "empty" => IsShape(d, m, ps)
    BY <2>4, <2>6, <2>7 DEF IsShape
  <2>9. c.is = "empty" => Shaped(d)
    BY <2>3, <2>8 DEF Shaped
  <2>10. c.kind = "comp"
    BY <2>4 DEF IsShape
  <2> QED
    BY <2>1, <2>4, <2>5, <2>6, <2>9, <2>10 DEF IsComp
<1> QED
  BY <1>1, <1>2

\* so an entry keeps its specs in shape.
LEMMA EntryShaped ==
    ASSUME NEW b, \A s \in BagToSet(b) : Shaped(s), NEW r, NEW s \in BagToSet(Entry(b, r))
    PROVE  Shaped(s)
<1>1. CASE Marked(b) # {}
  <2>1. s \in Marked(b)
    BY <1>1 DEF Entry, BagToSet, SetToBag
  <2> QED
    BY <2>1 DEF Marked
<1>2. CASE Marked(b) = {}
  <2> DEFINE zeros == Zeros(b)
             live == {x \in BagToSet(b) : ~IsAllSpec(x) /\ ~Drops(x, zeros)}
  <2>1. Entry(b, r) = BagOfAll(LAMBDA x : Propagated(x, zeros, r), OnlySuch(b, live))
    BY <1>2 DEF Entry
  <2>2. \E x \in BagToSet(OnlySuch(b, live)) : s = Propagated(x, zeros, r)
    BY <2>1 DEF BagOfAll, BagToSet
  <2>3. BagToSet(OnlySuch(b, live)) \subseteq BagToSet(b)
    BY DEF OnlySuch, BagToSet
  <2> QED
    BY <2>2, <2>3, PropagatedShaped
<1> QED
  BY <1>1, <1>2

\* Normalising leaves a timeline,
LEMMA CleanedFine ==
    ASSUME NEW tl, Fine(tl)
    PROVE  Fine(Cleaned(tl))
<1> DEFINE ul == [r \in DOMAIN tl |-> Entry(tl[r], r)]
<1>1. Fine(ul)
  <2>1. \A r \in DOMAIN tl : \A s \in BagToSet(ul[r]) : Shaped(s)
    BY EntryShaped DEF Fine
  <2> QED
    BY <2>1, SameRanges
<1> QED
  BY <1>1, MergedFine DEF Cleaned

\* as do adding a spec,
LEMMA WithSpecFine ==
    ASSUME NEW tl, Fine(tl), NEW ts, Shaped(ts.spec), ts.lo \in Int, ts.hi \in Int
    PROVE  Fine(WithSpec(tl, ts))
<1> DEFINE cut == CutBefore(CutBefore(tl, ts.lo), ts.hi + 1)
           ul == [r \in DOMAIN cut |->
            IF ts.lo <= r[1] /\ r[2] <= ts.hi THEN Inserted(cut[r], ts.spec) ELSE cut[r]]
<1>1. Fine(cut)
  <2>1. Fine(CutBefore(tl, ts.lo))
    BY CutFine
  <2>2. ts.hi + 1 \in Int
    OBVIOUS
  <2> QED
    BY <2>1, <2>2, CutFine
<1>2. WithSpec(tl, ts) = ul
  BY DEF WithSpec
<1> HIDE DEF cut
<1>3. \A b : \A s \in BagToSet(Inserted(b, ts.spec)) : s \in BagToSet(b) \/ s = ts.spec
  BY DEF Inserted, BagToSet, (+), SetToBag
<1>4. \A r \in DOMAIN cut : \A s \in BagToSet(ul[r]) : s \in BagToSet(cut[r]) \/ Shaped(s)
  BY <1>3
<1>5. Fine(ul)
  BY <1>1, <1>4, SameRanges
<1> QED
  BY <1>2, <1>5

\* removing one,
LEMMA WithoutSpecFine ==
    ASSUME NEW tl, Fine(tl), NEW s, NEW r
    PROVE  Fine(WithoutSpec(tl, s, r))
<1> DEFINE x == Extent(tl, s, r)
           erased(y) == IF Kept(s) THEN x[1] <= y[1] /\ y[2] <= x[2] ELSE y = r
           ul == [y \in DOMAIN tl |-> IF erased(y) THEN tl[y] (-) SetToBag({s}) ELSE tl[y]]
<1>1. WithoutSpec(tl, s, r) = ul
  BY DEF WithoutSpec
<1>2. \A b, c : BagToSet(b (-) c) \subseteq BagToSet(b)
  BY DEF BagToSet, (-)
<1> HIDE DEF erased
<1>3. \A y \in DOMAIN tl : \A z \in BagToSet(ul[y]) : z \in BagToSet(tl[y])
  BY <1>2
<1>4. Fine(ul)
  BY <1>3, SameRanges
<1> QED
  BY <1>1, <1>4

\* and clearing it.
LEMMA ClearFine ==
    ASSUME NEW tl, tl = [r \in {Whole} |-> EmptyBag]
    PROVE  Fine(tl)
<1>1. DOMAIN tl = {Whole} /\ tl[Whole] = EmptyBag
  OBVIOUS
<1>2. BagToSet(EmptyBag) = {}
  BY DEF BagToSet, EmptyBag, SetToBag
<1>3. Whole[1] = 0 /\ Whole[2] = TotalTime - 1 /\ Whole \in Steps \X Steps /\ 0 <= TotalTime - 1
  BY StepsAre DEF Whole
<1>4. Parts({Whole})
  BY <1>3, StepsAre DEF Parts, Covers
<1> QED
  BY <1>1, <1>2, <1>4 DEF Fine

\* A TimedSpec that is put in the timeline.
LEMMA AddedShaped ==
    ASSUME Fine(timeline), NEW r \in DOMAIN timeline, NEW s \in BagToSet(timeline[r]),
           NEW ts \in Near \cap NeighborTimedSpecs(TimedOf(timeline, s, r))
    PROVE  Shaped(ts.spec) /\ ts.lo \in Steps /\ ts.hi \in Steps /\ ts.lo <= ts.hi
<1> DEFINE u == TimedOf(timeline, s, r)
<1>1. u.spec = s
  BY DEF TimedOf, Timed
<1>2. ts.lo \in Steps /\ ts.hi \in Steps /\ ts.lo <= ts.hi
  BY TimedAssumption
<1>3. ts.spec = s \/ (s.kind = "comp" /\ ts.spec \in NeighborComps(s))
  <2>1. \A c, lo, hi : Timed(c, lo, hi).spec = c
    BY DEF Timed
  <2>2. ts \in NeighborTimedSpecs(u)
    OBVIOUS
  <2> HIDE DEF u
  <2>3. \/ \E c \in IF IsComp(u.spec) THEN NeighborComps(u.spec) ELSE {} : ts = Timed(c, u.lo, u.hi)
        \/ \E lo : ts = Timed(u.spec, lo, u.hi)
        \/ \E hi : ts = Timed(u.spec, u.lo, hi)
    BY <2>2 DEF NeighborTimedSpecs
  <2> QED
    BY <1>1, <2>1, <2>3 DEF IsComp
<1>4. Shaped(s)
  BY DEF Fine
<1> QED
  BY <1>2, <1>3, <1>4, NeighborShaped

\* Every change leaves one.
LEMMA NextFine == Fine(timeline) /\ [Next]_vars => Fine(timeline)'
<1> SUFFICES ASSUME Fine(timeline), [Next]_vars PROVE Fine(timeline')
  BY DEF Fine
<1>1. ASSUME NEW ts \in Drawn \cup Written, Add(ts) PROVE Fine(timeline')
  BY <1>1, DrawnShaped, WrittenShaped, StepsAre, WithSpecFine, CleanedFine DEF Add, Becomes
<1>2. ASSUME NEW s, NEW r, Remove(s, r) PROVE Fine(timeline')
  BY <1>2, WithoutSpecFine, CleanedFine DEF Remove, Becomes
<1>3. ASSUME NEW r \in DOMAIN timeline, NEW s \in BagToSet(timeline[r]),
             NEW ts \in Drawn \cup (Near \cap NeighborTimedSpecs(TimedOf(timeline, s, r))),
             Modify(s, r, ts)
      PROVE  Fine(timeline')
  <2>1. Shaped(ts.spec) /\ ts.lo \in Int /\ ts.hi \in Int
    BY DrawnShaped, AddedShaped, StepsAre
  <2>2. timeline' = Cleaned(WithSpec(Cleaned(WithoutSpec(timeline, s, r)), ts))
    BY <1>3 DEF Modify, Becomes
  <2>3. Fine(Cleaned(WithoutSpec(timeline, s, r)))
    BY WithoutSpecFine, CleanedFine
  <2> QED
    BY <2>1, <2>2, <2>3, WithSpecFine, CleanedFine
<1>4. CASE MakeClear
  BY <1>4, ClearFine DEF MakeClear
<1>5. ASSUME NEW c, Construct(c) PROVE Fine(timeline')
  BY <1>5 DEF Construct
<1>6. CASE UNCHANGED vars
  BY <1>6 DEF vars
<1> QED
  BY <1>1, <1>2, <1>3, <1>4, <1>5, <1>6 DEF Next

\* What is in a workload is always a timeline, of specs with this shape.
LEMMA TimelineFine == Spec => []Fine(timeline)
<1>1. Init => Fine(timeline)
  BY ClearFine DEF Init, Clear
<1>2. Fine(timeline) /\ [Next]_vars => Fine(timeline)'
  BY NextFine
<1> QED
  BY <1>1, <1>2, PTL DEF Spec

(* The TimedSpecs of a timeline *********************************************)

\* A bound on a sum that never decreases holds in the steps that the range of
\* its TimedSpec is widened by.
LEMMA BoundHoldsOn ==
    ASSUME NEW s, Shaped(s), s.kind = "comp", s.lhs.metric = "CENQ", s.rhs.kind = "constant",
           NEW e \in Executions, NEW t \in Steps, NEW u \in Steps, t <= u
    PROVE  /\ s.op \in {"LE", "LT"} /\ EncodedComp(s, e, u) => EncodedComp(s, e, t)
           /\ s.op \in {"GE", "GT"} /\ EncodedComp(s, e, t) => EncodedComp(s, e, u)
<1>0. PICK m \in Metrics, qs \in SUBSET Queues : IsShape(s, m, qs)
  BY DEF Shaped
<1>1. s.lhs = Metric("CENQ", qs)
  BY <1>0, Fields DEF IsShape
<1>2. PICK v \in Int : s.rhs = Constant(v)
  BY <1>0, Fields DEF IsShape, IsNumber
<1>3. \A n \in Steps : /\ ExprValid(s.lhs, e, n) /\ ExprValid(s.rhs, e, n)
                       /\ Encoded(s.lhs, e, n) = SumOf(Metric("CENQ", qs), e, n)
                       /\ Encoded(s.rhs, e, n) = Signed(v)
  <2>1. \A n : ExprValid(Metric("CENQ", qs), e, n)
    BY DEF ExprValid, Valid, Metric
  <2>2. \A n : ExprValid(Constant(v), e, n) /\ Encoded(Constant(v), e, n) = Signed(v)
    BY DEF ExprValid, Constant, Encoded
  <2>3. \A n : Encoded(Metric("CENQ", qs), e, n) = SumOf(Metric("CENQ", qs), e, n)
    BY DEF Encoded, Metric
  <2> QED
    BY <1>1, <1>2, <2>1, <2>2, <2>3
<1>4. \A n \in Steps : EncodedComp(s, e, n) <=> Compare(SumOf(Metric("CENQ", qs), e, n), s.op, Signed(v))
  BY <1>3 DEF EncodedComp
<1> DEFINE X(n) == SumOf(Metric("CENQ", qs), e, n)
<1>5. X(t) \in Int /\ X(u) \in Int /\ X(t) <= X(u)
  BY SummandsOf, SumGrows
<1>6. Signed(v) \in Int
  BY IntIs DEF Signed
<1>7. /\ EncodedComp(s, e, t) <=> Compare(X(t), s.op, Signed(v))
      /\ EncodedComp(s, e, u) <=> Compare(X(u), s.op, Signed(v))
  BY <1>4
<1> HIDE DEF X
<1> QED
  BY <1>5, <1>6, <1>7 DEF Compare

\* So a Comp asks the same in its entry and in its TimedSpec.
LEMMA WidenedMeans ==
    ASSUME NEW s, Shaped(s), s.kind = "comp",
           NEW lo \in Steps, NEW hi \in Steps, lo <= hi, NEW e \in Executions
    PROVE  Satisfies(e, Timed(s, lo, hi)) <=> EncodedOver(s, e, lo, hi)
<1> DEFINE ts == Timed(s, lo, hi)
           steady == s.lhs.metric = "CENQ" /\ s.rhs.kind = "constant"
<1>1. /\ ts.spec = s
      /\ ts.lo = lo \/ (steady /\ s.op \in {"LE", "LT"} /\ ts.lo = 0)
      /\ ts.hi = hi \/ (steady /\ s.op \in {"GE", "GT"} /\ ts.hi = TotalTime - 1)
  BY DEF Timed, NonDecreasing
<1>2. \A a, b : EncodedOver(s, e, a, b) <=> \A t \in a .. b : EncodedComp(s, e, t)
  BY DEF EncodedOver
<1>3. Satisfies(e, ts) <=> \A t \in ts.lo .. ts.hi : EncodedComp(s, e, t)
  BY <1>1, <1>2 DEF Satisfies
<1> HIDE DEF ts
<1>4. /\ ts.lo \in Steps /\ ts.hi \in Steps /\ ts.lo <= lo /\ hi <= ts.hi
      /\ lo \in Int /\ hi \in Int
  BY <1>1, StepsAre
<1>5. ASSUME \A t \in lo .. hi : EncodedComp(s, e, t), NEW t \in ts.lo .. ts.hi
      PROVE  EncodedComp(s, e, t)
  <2>0. t \in Steps /\ t \in Int /\ EncodedComp(s, e, lo) /\ EncodedComp(s, e, hi)
    BY <1>4, <1>5, StepsAre
  <2>1. CASE t \in lo .. hi
    BY <1>5, <2>1
  <2>2. CASE t < lo
    <3>1. steady /\ s.op \in {"LE", "LT"}
      BY <1>1, <1>4, <2>0, <2>2
    <3>2. t <= lo
      BY <1>4, <2>0, <2>2
    <3> QED
      BY <2>0, <3>1, <3>2, BoundHoldsOn
  <2>3. CASE hi < t
    <3>1. steady /\ s.op \in {"GE", "GT"}
      BY <1>1, <1>4, <2>0, <2>3, StepsAre
    <3>2. hi <= t
      BY <1>4, <2>0, <2>3
    <3> QED
      BY <2>0, <3>1, <3>2, BoundHoldsOn
  <2> QED
    BY <1>4, <2>0, <2>1, <2>2, <2>3
<1>6. \A t \in lo .. hi : t \in ts.lo .. ts.hi
  BY <1>4, StepsAre
<1> QED
  BY <1>2, <1>3, <1>5, <1>6 DEF ts

\* The entries of a timeline share out the steps, and its TimedSpecs
\* (workload.cpp:822-903, 1352-1384), widened where a metric never decreases,
\* ask of an execution what the Comps of its entries do.
THEOREM WorkloadTimelineIsTheSpecs == Spec => []TimelineIsTheSpecs
<1>1. ASSUME Fine(timeline), NEW t \in Steps
      PROVE  Cardinality({r \in DOMAIN timeline : r[1] <= t /\ t <= r[2]}) = 1
  <2>1. PICK r \in DOMAIN timeline : Covers(r, t)
    BY <1>1 DEF Fine, Parts
  <2>2. \A x \in DOMAIN timeline : Covers(x, t) => x = r
    BY <1>1, <2>1 DEF Fine, Parts
  <2>3. {x \in DOMAIN timeline : x[1] <= t /\ t <= x[2]} = {r}
    BY <2>1, <2>2 DEF Covers
  <2> QED
    BY <2>3, FS_Singleton
<1>2. ASSUME Fine(timeline), ~IsEmpty, NEW e \in Executions,
             NEW r \in DOMAIN timeline, NEW s \in BagToSet(timeline[r])
      PROVE  LET ts == TimedOf(timeline, s, r)
             IN  /\ ts \in AllSpecs(timeline) /\ ts.spec = s
                 /\ IsComp(s) => (Satisfies(e, ts) <=> EncodedOver(s, e, r[1], r[2]))
  <2> DEFINE ts == TimedOf(timeline, s, r)
  <2>1. ts.spec = s
    BY DEF TimedOf, Timed
  <2>2. ts \in AllSpecs(timeline)
    BY DEF AllSpecs
  <2>3. ASSUME IsComp(s) PROVE Satisfies(e, ts) <=> EncodedOver(s, e, r[1], r[2])
    <3>1. ~Kept(s)
      BY <1>2, <2>1, <2>2, <2>3 DEF IsEmpty, IsEmptySpec, Kept
    <3>2. ts = Timed(s, r[1], r[2])
      BY <3>1 DEF TimedOf, Extent
    <3>3. r[1] \in Steps /\ r[2] \in Steps /\ r[1] <= r[2] /\ Shaped(s)
      BY <1>2 DEF Fine, Parts
    <3> QED
      BY <2>3, <3>2, <3>3, WidenedMeans DEF IsComp
  <2> QED
    BY <2>1, <2>2, <2>3
<1>3. \A ts \in AllSpecs(timeline) :
          \E r \in DOMAIN timeline : \E s \in BagToSet(timeline[r]) : ts = TimedOf(timeline, s, r)
  BY DEF AllSpecs
<1>4. ASSUME Fine(timeline), ~IsEmpty, NEW e \in Executions
      PROVE  (\A ts \in AllSpecs(timeline) : IsComp(ts.spec) => Satisfies(e, ts))
             <=> \A r \in DOMAIN timeline : \A s \in BagToSet(timeline[r]) :
                     IsComp(s) => EncodedOver(s, e, r[1], r[2])
  <2>1. ASSUME \A ts \in AllSpecs(timeline) : IsComp(ts.spec) => Satisfies(e, ts),
               NEW r \in DOMAIN timeline, NEW s \in BagToSet(timeline[r]), IsComp(s)
        PROVE  EncodedOver(s, e, r[1], r[2])
    BY <1>2, <1>4, <2>1
  <2>2. ASSUME \A r \in DOMAIN timeline : \A s \in BagToSet(timeline[r]) :
                   IsComp(s) => EncodedOver(s, e, r[1], r[2]),
               NEW ts \in AllSpecs(timeline), IsComp(ts.spec)
        PROVE  Satisfies(e, ts)
    <3>1. PICK r \in DOMAIN timeline : \E s \in BagToSet(timeline[r]) : ts = TimedOf(timeline, s, r)
      BY <1>3
    <3>2. PICK s \in BagToSet(timeline[r]) : ts = TimedOf(timeline, s, r)
      BY <3>1
    <3> QED
      BY <1>2, <1>4, <2>2, <3>2
  <2> QED
    BY <2>1, <2>2
<1>5. Fine(timeline) => TimelineIsTheSpecs
  BY <1>1, <1>4 DEF TimelineIsTheSpecs
<1> QED
  BY <1>5, TimelineFine, PTL

(* What holds in a step ******************************************************)

\* The specs of the entry that a step is in.
At(tl, t) == tl[CHOOSE r \in DOMAIN tl : Covers(r, t)]

\* A step is in one entry.
LEMMA AtIs ==
    ASSUME NEW tl, Fine(tl), NEW t \in Steps
    PROVE  /\ \E r \in DOMAIN tl : Covers(r, t)
           /\ \A r \in DOMAIN tl : Covers(r, t) => At(tl, t) = tl[r]
<1>1. \E r \in DOMAIN tl : Covers(r, t)
  BY DEF Fine, Parts
<1>2. \A r, x \in DOMAIN tl : Covers(r, t) /\ Covers(x, t) => r = x
  BY DEF Fine, Parts
<1> QED
  BY <1>1, <1>2 DEF At

\* Cutting an entry leaves what holds in each step, and no range across t.
LEMMA CutAt ==
    ASSUME NEW tl, Fine(tl), NEW t \in Int
    PROVE  LET ul == CutBefore(tl, t)
           IN  /\ \A x \in DOMAIN ul :
                     /\ ~(x[1] < t /\ t <= x[2])
                     /\ \E r \in DOMAIN tl : r[1] <= x[1] /\ x[2] <= r[2]
               /\ \A u \in Steps : At(ul, u) = At(tl, u)
<1> DEFINE D == DOMAIN tl
           cut == {r \in D : r[1] < t /\ t <= r[2]}
           parts == UNION {{<<r[1], t - 1>>, <<t, r[2]>>} : r \in cut}
           E == (D \ cut) \cup parts
           whole(x) == CHOOSE r \in D : r[1] <= x[1] /\ x[2] <= r[2]
           ul == CutBefore(tl, t)
<1>1. Parts(E) /\ \A x \in E : \E r \in D : r[1] <= x[1] /\ x[2] <= r[2]
  BY PartsOfCut DEF Fine
<1>2. ul = [x \in E |-> tl[whole(x)]]
  BY DEF CutBefore
<1>3. ASSUME NEW x \in E PROVE ~(x[1] < t /\ t <= x[2])
  <2>1. CASE x \in D \ cut
    BY <2>1
  <2>2. CASE x \in parts
    <3>1. PICK r \in cut : x = <<r[1], t - 1>> \/ x = <<t, r[2]>>
      BY <2>2
    <3> QED
      BY <3>1
  <2> QED
    BY <2>1, <2>2
<1>4. Fine(ul)
  BY CutFine
<1> HIDE DEF E, D, ul
<1>5. \A x \in E : whole(x) \in D /\ whole(x)[1] <= x[1] /\ x[2] <= whole(x)[2]
  BY <1>1
<1>6. \A x \in E : x[1] \in Int /\ x[2] \in Int
  BY <1>1, RangesAre
<1>7. \A x \in D : x[1] \in Int /\ x[2] \in Int
  BY RangesAre DEF Fine, D
<1> HIDE DEF whole
<1>8. ASSUME NEW u \in Steps PROVE At(ul, u) = At(tl, u)
  <2>1. PICK x \in DOMAIN ul : Covers(x, u)
    BY <1>4, AtIs
  <2>2. At(ul, u) = ul[x]
    BY <1>4, <2>1, AtIs
  <2>3. x \in E /\ ul[x] = tl[whole(x)]
    BY <1>2, <2>1
  <2>4. whole(x) \in D /\ Covers(whole(x), u)
    BY <1>5, <1>6, <1>7, <2>1, <2>3, StepsAre DEF Covers
  <2> QED
    BY <2>2, <2>3, <2>4, AtIs DEF D
<1>9. DOMAIN ul = E
  BY <1>2
<1> QED
  BY <1>1, <1>3, <1>8, <1>9 DEF ul, D

\* Merging leaves what holds in each step.
LEMMA MergedAt ==
    ASSUME NEW tl, Fine(tl), NEW t \in Steps
    PROVE  At(Merged(tl), t) = At(tl, t)
<1> DEFINE D == DOMAIN tl
           starts == {r \in D : StartsRun(tl, r)}
           runs == {RunFrom(tl, r) : r \in starts}
           first(u) == CHOOSE r \in starts : r[1] = u[1]
<1>0. Parts(D)
  BY DEF Fine
<1>1. PICK z \in D : Covers(z, t)
  BY AtIs
<1>2. PICK r \in D : StartsRun(tl, r) /\ Reaches(tl, r, z)
  BY <1>0, StartReaches
<1>3. PICK y \in D : /\ RunFrom(tl, r) = <<r[1], y[2]>> /\ Reaches(tl, r, y)
                     /\ \A x \in D : Reaches(tl, r, x) => x[2] <= y[2]
  BY <1>0, RunIs
<1> DEFINE u == RunFrom(tl, r)
<1>4. \A x \in D : x[1] \in Int /\ x[2] \in Int /\ x[1] <= x[2]
  BY <1>0, RangesAre
<1>5. Covers(u, t)
  <2>1. z[2] <= y[2] /\ r[1] <= z[1] /\ z[1] <= t /\ t <= z[2]
    BY <1>1, <1>2, <1>3 DEF Reaches, Covers
  <2>2. r[1] <= t /\ t <= y[2]
    BY <1>4, <2>1, StepsAre
  <2> QED
    BY <1>3, <2>2 DEF Covers
<1>6. u \in runs /\ r \in starts /\ u[1] = r[1]
  BY <1>2, <1>3
<1>7. Merged(tl) = [x \in runs |-> tl[first(x)]]
  BY DEF Merged
<1>8. first(u) = r
  <2>1. first(u) \in starts /\ first(u)[1] = r[1]
    BY <1>6
  <2> HIDE DEF first
  <2>2. \A x \in D : x[1] = r[1] => x = r
    <3> TAKE x \in D
    <3>1. x = r \/ x[2] < r[1] \/ r[2] < x[1]
      BY <1>0, RangesAre
    <3> QED
      BY <1>4, <3>1
  <2> QED
    BY <2>1, <2>2
<1>9. tl[r] = tl[z]
  <2>1. r[1] <= z[1] /\ z[1] <= z[1]
    BY <1>2, <1>4 DEF Reaches
  <2> QED
    BY <1>2, <2>1 DEF Reaches, Alike
<1> HIDE DEF u, runs, first, D
<1>10. Merged(tl)[u] = tl[r] /\ u \in DOMAIN Merged(tl)
  BY <1>6, <1>7, <1>8
<1> QED
  BY <1>1, <1>5, <1>9, <1>10, AtIs, MergedFine DEF D

\* Normalising replaces each entry.
LEMMA CleanedAt ==
    ASSUME NEW tl, Fine(tl), NEW t \in Steps, NEW r \in DOMAIN tl, Covers(r, t)
    PROVE  At(Cleaned(tl), t) = Entry(tl[r], r)
<1> DEFINE ul == [x \in DOMAIN tl |-> Entry(tl[x], x)]
<1>1. Fine(ul)
  <2>1. \A x \in DOMAIN tl : \A s \in BagToSet(ul[x]) : Shaped(s)
    BY EntryShaped DEF Fine
  <2> QED
    BY <2>1, SameRanges
<1>2. At(ul, t) = ul[r]
  BY <1>1, AtIs
<1>3. At(Merged(ul), t) = At(ul, t)
  BY <1>1, MergedAt
<1> QED
  BY <1>2, <1>3 DEF Cleaned

\* Adding a spec puts it in the steps of its range, and in no others.
LEMMA WithSpecAt ==
    ASSUME NEW tl, Fine(tl), NEW ts, ts.lo \in Int, ts.hi \in Int, Fine(WithSpec(tl, ts)),
           NEW t \in Steps
    PROVE  BagToSet(At(WithSpec(tl, ts), t))
             = BagToSet(At(tl, t)) \cup (IF ts.lo <= t /\ t <= ts.hi THEN {ts.spec} ELSE {})
<1> DEFINE half == CutBefore(tl, ts.lo)
           cut == CutBefore(half, ts.hi + 1)
           ul == WithSpec(tl, ts)
           within(r) == ts.lo <= r[1] /\ r[2] <= ts.hi
<1>0. ts.hi + 1 \in Int
  OBVIOUS
<1>1. Fine(half) /\ At(half, t) = At(tl, t) /\ \A x \in DOMAIN half : ~(x[1] < ts.lo /\ ts.lo <= x[2])
  BY CutFine, CutAt
<1> HIDE DEF half
<1>2. /\ Fine(cut) /\ At(cut, t) = At(half, t)
      /\ \A x \in DOMAIN cut : /\ ~(x[1] < ts.hi + 1 /\ ts.hi + 1 <= x[2])
                               /\ \E r \in DOMAIN half : r[1] <= x[1] /\ x[2] <= r[2]
  BY <1>0, <1>1, CutFine, CutAt
<1>3. ul = [r \in DOMAIN cut |-> IF within(r) THEN Inserted(cut[r], ts.spec) ELSE cut[r]]
  BY DEF WithSpec, half
<1> HIDE DEF cut, ul
<1>4. PICK r \in DOMAIN cut : Covers(r, t)
  BY <1>2, AtIs
<1>5. At(cut, t) = cut[r] /\ At(ul, t) = ul[r]
  BY <1>2, <1>3, <1>4, AtIs DEF ul
<1>6. within(r) <=> ts.lo <= t /\ t <= ts.hi
  <2>1. PICK h \in DOMAIN half : h[1] <= r[1] /\ r[2] <= h[2]
    BY <1>2
  <2>2. h[1] \in Int /\ h[2] \in Int /\ r[1] \in Int /\ r[2] \in Int /\ t \in Int
    BY <1>1, <1>2, RangesAre, StepsAre DEF Fine
  <2>3. r[1] <= t /\ t <= r[2]
    BY <1>4 DEF Covers
  <2> QED
    BY <1>1, <1>2, <2>1, <2>2, <2>3
<1>7. \A b : BagToSet(Inserted(b, ts.spec)) = BagToSet(b) \cup {ts.spec}
  BY DEF Inserted, BagToSet, (+), SetToBag
<1>8. ul[r] = IF within(r) THEN Inserted(cut[r], ts.spec) ELSE cut[r]
  BY <1>3
<1>9. At(ul, t) = IF within(r) THEN Inserted(At(tl, t), ts.spec) ELSE At(tl, t)
  BY <1>1, <1>2, <1>5, <1>8
<1> HIDE DEF within
<1>10. BagToSet(At(ul, t)) = BagToSet(At(tl, t)) \cup (IF ts.lo <= t /\ t <= ts.hi THEN {ts.spec} ELSE {})
  <2>1. CASE within(r)
    BY <1>6, <1>7, <1>9, <2>1
  <2>2. CASE ~within(r)
    BY <1>6, <1>9, <2>2
  <2> QED
    BY <2>1, <2>2
<1> QED
  BY <1>10 DEF ul

(* Taking zeros out of an entry **********************************************)

\* What a Comp asks depends on its two sides and its comparison.
LEMMA ByParts ==
    ASSUME NEW s, NEW e, NEW t
    PROVE  EncodedComp(s, e, t) <=> EncodedComp(RawComp(s.lhs, s.op, s.rhs), e, t)
<1> DEFINE c == RawComp(s.lhs, s.op, s.rhs)
<1>1. c.lhs = s.lhs /\ c.op = s.op /\ c.rhs = s.rhs
  BY DEF RawComp
<1> HIDE DEF c
<1>2. EncodedComp(s, e, t) <=> EncodedComp(c, e, t)
  BY <1>1 DEF EncodedComp
<1> QED
  BY <1>2 DEF c

\* A sum of one number.
LEMMA TotalSingle ==
    ASSUME NEW f \in [Queues -> Int], NEW q \in Queues, \A p \in Queues : p # q => f[p] = 0
    PROVE  Total(f) = f[q]
<1>0. InQueueCnt \in Nat /\ q \in Nat /\ q < InQueueCnt
  BY SpecAssumption DEF Queues
<1>1. PICK s \in [0 .. InQueueCnt -> Int] :
              /\ s[0] = 0 /\ Total(f) = s[InQueueCnt]
              /\ \A n \in 0 .. InQueueCnt - 1 : s[n + 1] = s[n] + f[n]
  BY SumsExist
<1> DEFINE S == {n \in 0 .. InQueueCnt : s[n] = IF n <= q THEN 0 ELSE f[q]}
<1>2. 0 \in S
  BY <1>0, <1>1
<1>3. ASSUME NEW n \in 0 .. InQueueCnt - 1, n \in S PROVE n + 1 \in S
  <2>1. n + 1 \in 0 .. InQueueCnt /\ n \in Queues /\ f[n] \in Int /\ f[q] \in Int /\ n \in Int
    BY <1>0 DEF Queues
  <2>2. s[n + 1] = s[n] + f[n] /\ s[n] = IF n <= q THEN 0 ELSE f[q]
    BY <1>1, <1>3
  <2>3. n # q => f[n] = 0
    BY <2>1
  <2>4. s[n + 1] = IF n + 1 <= q THEN 0 ELSE f[q]
    <3>1. CASE n < q
      BY <1>0, <2>1, <2>2, <2>3, <3>1
    <3>2. CASE n = q
      BY <1>0, <2>1, <2>2, <3>2
    <3>3. CASE n > q
      BY <1>0, <2>1, <2>2, <2>3, <3>3
    <3> QED
      BY <1>0, <2>1, <3>1, <3>2, <3>3
  <2> QED
    BY <2>1, <2>4
<1> HIDE DEF S
<1>4. \A n \in 0 .. InQueueCnt : n \in S
  BY <1>0, <1>2, <1>3, UpTo
<1>5. InQueueCnt \in S
  BY <1>0, <1>4
<1> QED
  BY <1>0, <1>1, <1>5 DEF S

\* A Comp that says that a sum is zero says it of each of its queues.
LEMMA ZeroMeans ==
    ASSUME NEW z, Shaped(z), IsZero(z), NEW e \in Executions, NEW t \in Steps, EncodedComp(z, e, t),
           NEW m, NEW q, <<m, q>> \in ZeroQueues(z)
    PROVE  Valid(m, q, e, t) /\ Value(m, q, e, t) = 0
<1>1. /\ z.kind = "comp" /\ z.op = "LE" /\ z.rhs = Constant(0)
      /\ m = z.lhs.metric /\ q \in z.lhs.queues
  BY DEF ZeroQueues, IsComp
<1>2. PICK n \in Metrics, qs \in SUBSET Queues : IsShape(z, n, qs)
  BY <1>1 DEF Shaped
<1>3. z.lhs = Metric(m, qs) /\ m \in Metrics /\ q \in qs
  BY <1>1, <1>2, Fields DEF IsShape
<1>4. EncodedComp(RawComp(Metric(m, qs), "LE", Constant(0)), e, t)
  BY <1>1, <1>3, ByParts
<1>5. Signed(0) = 0
  BY IntIs DEF Signed
<1>6. ExprValid(Metric(m, qs), e, t) /\ SumOf(Metric(m, qs), e, t) <= 0
  <2>1. ExprValid(Metric(m, qs), e, t) /\ Compare(SumOf(Metric(m, qs), e, t), "LE", 0)
    BY <1>4, <1>5, EncodedIs
  <2>2. SumOf(Metric(m, qs), e, t) \in Int
    BY SummandsOf
  <2> QED
    BY <2>1, <2>2 DEF Compare
<1>7. \A p \in qs : Valid(m, p, e, t)
  BY <1>6, Fields DEF ExprValid
<1>8. \A p \in qs : Value(m, p, e, t) \in Nat
  <2> TAKE p \in qs
  <2>1. e.cenq[p][t] \in Nat
    BY CountsOf
  <2>2. e.dst[p][t] \in Nat \cup {NoValue}
    <3>1. e.dst \in [Queues -> [Steps -> Nat \cup {NoValue}]]
      BY ExecutionsAssumption
    <3> QED
      BY <3>1
  <2> QED
    BY <1>7, <2>1, <2>2 DEF Value, Valid
<1> DEFINE rest == Summands(m, qs \ {q}, e, t)
           one == Summands(m, {q}, e, t)
           none == Summands(m, {}, e, t)
<1>9. /\ rest \in [Queues -> Int] /\ one \in [Queues -> Int] /\ none \in [Queues -> Int]
      /\ SumOf(Metric(m, qs \ {q}), e, t) = Total(rest)
      /\ SumOf(Metric(m, {q}), e, t) = Total(one)
      /\ SumOf(Metric(m, {}), e, t) = Total(none)
      /\ Total(rest) \in Int /\ Total(one) \in Int
  BY SummandsOf
<1>10. \A p \in Queues : none[p] <= rest[p]
  BY <1>8 DEF Summands
<1>11. \A p \in Queues : p # q => one[p] = 0
  BY DEF Summands
<1>12. one[q] = Value(m, q, e, t)
  BY <1>3 DEF Summands
<1> HIDE DEF rest, one, none
<1>13. Total(none) = 0 /\ Total(none) <= Total(rest)
  BY <1>9, <1>10, TotalLess, SumOfNone
<1>14. Total(one) = Value(m, q, e, t)
  BY <1>3, <1>9, <1>11, <1>12, TotalSingle
<1>15. SumOf(Metric(m, qs), e, t) = Total(one) + Total(rest)
  <2>1. {q} \cup (qs \ {q}) = qs /\ {q} \cap (qs \ {q}) = {}
    BY <1>3
  <2>2. SumOf(Metric(m, {q} \cup (qs \ {q})), e, t)
          = SumOf(Metric(m, {q}), e, t) + SumOf(Metric(m, qs \ {q}), e, t)
    BY <2>1, SumSplits
  <2> QED
    BY <1>9, <2>1, <2>2
<1>16. Value(m, q, e, t) \in Nat
  BY <1>3, <1>8
<1> QED
  BY <1>3, <1>6, <1>7, <1>9, <1>13, <1>14, <1>15, <1>16

\* Queues whose value is zero add nothing.
LEMMA WithoutZeros ==
    ASSUME NEW m, NEW qs \in SUBSET Queues, NEW ps \in SUBSET qs, NEW op, NEW y,
           NEW e \in Executions, NEW t \in Steps,
           \A q \in qs \ ps : Valid(m, q, e, t) /\ Value(m, q, e, t) = 0
    PROVE  EncodedComp(RawComp(Metric(m, qs), op, y), e, t)
             <=> EncodedComp(RawComp(Metric(m, ps), op, y), e, t)
<1>1. ExprValid(Metric(m, qs), e, t) <=> ExprValid(Metric(m, ps), e, t)
  BY Fields DEF ExprValid
<1>2. Summands(m, qs, e, t) = Summands(m, ps, e, t)
  BY DEF Summands
<1>3. SumOf(Metric(m, qs), e, t) = SumOf(Metric(m, ps), e, t)
  BY <1>2, SummandsOf
<1>4. \A rs : Encoded(Metric(m, rs), e, t) = SumOf(Metric(m, rs), e, t)
  BY DEF Encoded, Metric
<1> QED
  BY <1>1, <1>3, <1>4, Fields DEF EncodedComp

\* Without a wrap the zero test reads a bound as the solver does.
LEMMA NumberIs ==
    ASSUME NEW m, NEW op, NEW y, IsNumber(m, op, y), ~(y.kind = "constant" /\ y.value > MaxInt),
           NEW e, NEW t \in Steps
    PROVE  Encoded(y, e, t) = Evaluated(y, None, t) /\ ExprValid(y, e, t)
<1>1. CASE \E v \in Int : y = Constant(v)
  BY <1>1 DEF Encoded, Evaluated, ExprValid, Constant, Signed
<1>2. CASE \E k \in Coeffs : y = Time(k)
  <2>1. PICK k \in Coeffs : y = Time(k)
    BY <1>2
  <2>2. Unsigned(k * (t + 1)) = k * (t + 1) /\ Signed(k * (t + 1)) = k * (t + 1)
    BY TimeBound
  <2>3. y.kind = "time" /\ y.coeff = k
    BY <2>1, Fields
  <2> QED
    BY <2>2, <2>3 DEF Encoded, Evaluated, ExprValid
<1> QED
  BY <1>1, <1>2 DEF IsNumber

\* A Comp that is known to be empty asks for what no execution does.
LEMMA EmptyMeans ==
    ASSUME NEW s, Shaped(s), s.kind = "comp", s.is = "empty", ~OneQueueShort(s),
           NEW e \in Executions, NEW t \in Steps
    PROVE  ~EncodedComp(s, e, t)
<1>1. PICK m \in Metrics, qs \in SUBSET Queues : IsShape(s, m, qs)
  BY DEF Shaped
<1>2. PICK k \in Coeffs : s.rhs = Time(k) /\ m = "CENQ"
  BY <1>1, Fields DEF IsShape, IsNumber
<1> DEFINE c == RawComp(Metric("CENQ", qs), s.op, Time(k))
<1>3. c.lhs = s.lhs /\ c.op = s.op /\ c.rhs = s.rhs /\ s.op \in Ops /\ TooFast(s)
  BY <1>1, <1>2, Fields DEF IsShape
<1>4. IsEmptySpec(Flagged(c, "empty"))
  BY DEF IsEmptySpec, IsComp, Flagged, RawComp
<1>5. Normalized(c) = IF TooFast(c) THEN Flagged(c, "empty") ELSE c
  BY <1>3, TimeForm
<1>6. EncodedComp(s, e, t) <=> EncodedComp(c, e, t)
  BY <1>1, <1>2, ByParts DEF IsShape
<1>7. ~OneQueueShort(c) => (Means(Normalized(c), e, t) <=> EncodedComp(c, e, t))
  BY <1>3, TimeMeans
<1> HIDE DEF c
<1>8. TooFast(c) /\ ~OneQueueShort(c)
  BY <1>3 DEF TooFast, OneQueueShort
<1>9. ~Means(Normalized(c), e, t)
  BY <1>4, <1>5, <1>8 DEF Means
<1> QED
  BY <1>6, <1>7, <1>8, <1>9

\* What the Comps of an entry ask of a step.
HoldsAt(b, e, t) == \A s \in BagToSet(b) : IsComp(s) => EncodedComp(s, e, t)

ZerosHold(b, e, t) == \A z \in BagToSet(b) : IsZero(z) => EncodedComp(z, e, t)

\* Where the zeros of an entry hold, its Comps mean the same without them.
LEMMA WithoutThem ==
    ASSUME NEW b, \A s \in BagToSet(b) : Shaped(s), NEW e \in Executions, NEW t \in Steps,
           ZerosHold(b, e, t),
           NEW s, NEW m \in Metrics, NEW qs \in SUBSET Queues, IsShape(s, m, qs)
    PROVE  /\ NonZero(s, Zeros(b)) \in SUBSET qs
           /\ EncodedComp(s, e, t)
                <=> EncodedComp(RawComp(Metric(m, NonZero(s, Zeros(b))), s.op, s.rhs), e, t)
<1> DEFINE ps == NonZero(s, Zeros(b))
<1>1. s.lhs = Metric(m, qs) /\ s.lhs.metric = m /\ s.lhs.queues = qs
  BY Fields DEF IsShape
<1>2. ps \in SUBSET qs /\ \A q \in qs \ ps : <<m, q>> \in Zeros(b)
  BY <1>1 DEF NonZero
<1>3. ASSUME NEW q, <<m, q>> \in Zeros(b)
      PROVE  Valid(m, q, e, t) /\ Value(m, q, e, t) = 0
  <2>1. PICK z \in BagToSet(b) : <<m, q>> \in ZeroQueues(z)
    BY <1>3 DEF Zeros
  <2>2. IsZero(z)
    BY <2>1 DEF IsZero
  <2>3. EncodedComp(z, e, t) /\ Shaped(z)
    BY <2>2 DEF ZerosHold
  <2> QED
    BY <2>1, <2>2, <2>3, ZeroMeans
<1> HIDE DEF ps
<1>4. \A op, y : EncodedComp(RawComp(Metric(m, qs), op, y), e, t)
                   <=> EncodedComp(RawComp(Metric(m, ps), op, y), e, t)
  BY <1>2, <1>3, WithoutZeros
<1>5. EncodedComp(s, e, t) <=> EncodedComp(RawComp(Metric(m, qs), s.op, s.rhs), e, t)
  BY <1>1, ByParts
<1> QED
  BY <1>2, <1>4, <1>5 DEF ps

\* A Comp of nothing but zeros is decided by its bound.
LEMMA DropMeans ==
    ASSUME NEW b, \A s \in BagToSet(b) : Shaped(s), NEW e \in Executions, NEW t \in Steps,
           ZerosHold(b, e, t),
           NEW s \in BagToSet(b), ~Wraps(s), Drops(s, Zeros(b))
    PROVE  EncodedComp(s, e, t) <=> ZeroIs(s, t)
<1>1. s.kind = "comp" /\ NonZero(s, Zeros(b)) = {}
  BY DEF Drops, Affected, IsComp
<1>2. PICK m \in Metrics, qs \in SUBSET Queues : IsShape(s, m, qs)
  BY <1>1 DEF Shaped
<1>3. EncodedComp(s, e, t) <=> EncodedComp(RawComp(Metric(m, {}), s.op, s.rhs), e, t)
  BY <1>1, <1>2, WithoutThem
<1>4. ~(s.rhs.kind = "constant" /\ s.rhs.value > MaxInt) /\ IsNumber(m, s.op, s.rhs)
  BY <1>1, <1>2 DEF Wraps, IsComp, IsShape
<1>5. Encoded(s.rhs, e, t) = Evaluated(s.rhs, None, t) /\ ExprValid(s.rhs, e, t)
  BY <1>4, NumberIs
<1>6. ExprValid(Metric(m, {}), e, t) /\ Encoded(Metric(m, {}), e, t) = SumOf(Metric(m, {}), e, t)
  BY DEF ExprValid, Metric, Encoded
<1>7. SumOf(Metric(m, {}), e, t) = 0
  BY SumOfNone
<1>8. EncodedComp(RawComp(Metric(m, {}), s.op, s.rhs), e, t) <=> Compare(0, s.op, Encoded(s.rhs, e, t))
  BY <1>5, <1>6, <1>7, Fields DEF EncodedComp
<1> QED
  BY <1>3, <1>5, <1>8 DEF ZeroIs

\* What is left of any other means the same, or is known to be empty.
LEMMA PropagatedMeans ==
    ASSUME NEW b, \A s \in BagToSet(b) : Shaped(s), NEW e \in Executions, NEW t \in Steps,
           ZerosHold(b, e, t),
           NEW s \in BagToSet(b), s.kind = "comp", s.is # "empty", NEW r
    PROVE  LET d == Propagated(s, Zeros(b), r)
           IN  /\ d.is # "empty" => (EncodedComp(d, e, t) <=> EncodedComp(s, e, t))
               /\ d.is = "empty" /\ ~OneQueueShort(d) => ~EncodedComp(s, e, t)
<1> DEFINE zeros == Zeros(b)
           ps == NonZero(s, zeros)
           d == Propagated(s, zeros, r)
<1>1. CASE ~Affected(s, zeros)
  BY <1>1 DEF Propagated
<1>2. CASE Affected(s, zeros)
  <2>1. PICK m \in Metrics, qs \in SUBSET Queues : IsShape(s, m, qs)
    BY DEF Shaped
  <2> DEFINE c0 == RawComp(Metric(m, ps), s.op, s.rhs)
             c == Normalized(c0)
             f == [kind |-> "comp", lhs |-> c.lhs, op |-> c.op, rhs |-> c.rhs,
                   is |-> "empty", in |-> r]
  <2>2. /\ ps \in SUBSET Queues /\ s.op \in Ops /\ s.lhs.metric = m
        /\ EncodedComp(s, e, t) <=> EncodedComp(c0, e, t)
    BY <2>1, WithoutThem, Fields DEF IsShape
  <2>3. d = IF c.is = "empty" THEN f ELSE c
    BY <1>2, <2>2 DEF Propagated, Comp
  <2>4. /\ f.lhs = c.lhs /\ f.op = c.op /\ f.rhs = c.rhs /\ f.is = "empty"
    OBVIOUS
  <2> HIDE DEF f, ps, zeros, d
  <2>5. CASE \E v \in Int : s.rhs = Constant(v) /\ (s.op \in {"GT", "LT"} => v = 0)
    <3>1. PICK v \in Int : s.rhs = Constant(v) /\ (s.op \in {"GT", "LT"} => v = 0)
      BY <2>5
    <3>2. c = IF s.op = "GT" THEN RawComp(Metric(m, ps), "GE", Constant(Unsigned(v + 1)))
              ELSE IF s.op = "LT" THEN RawComp(Metric(m, ps), "LE", Constant(Unsigned(v - 1)))
              ELSE c0
      BY <2>2, <3>1, ConstantForm DEF Normalized
    <3>3. c.is = "some" /\ c.kind = "comp"
      BY <3>2, Fields
    <3>4. c = AgainstTime(AgainstConstant(c0))
      BY <2>2, <3>1, ConstantForm DEF Normalized
    <3> HIDE DEF c
    <3>5. EncodedComp(c, e, t) <=> EncodedComp(c0, e, t)
      <4>1. CASE s.op \notin {"GT", "LT"}
        BY <3>2, <4>1
      <4>2. CASE v = 0
        <5>1. IsBound(v)
          BY <4>2, SmallBound, IntIs
        <5>2. Means(c, e, t) <=> EncodedComp(c0, e, t)
          BY <2>2, <3>1, <3>4, <5>1, ConstantMeans
        <5> QED
          BY <3>3, <5>2 DEF Means, IsEmptySpec, IsAllSpec
      <4> QED
        BY <3>1, <4>1, <4>2
    <3> QED
      BY <2>2, <2>3, <3>3, <3>5 DEF d, zeros
  <2>6. CASE m = "CENQ" /\ \E k \in Coeffs : s.rhs = Time(k)
    <3>1. PICK k \in Coeffs : s.rhs = Time(k)
      BY <2>6
    <3>2. c = IF TooFast(c0) THEN Flagged(c0, "empty") ELSE c0
      BY <2>2, <3>1, TimeForm
    <3>3. ~OneQueueShort(c0) => (Means(c, e, t) <=> EncodedComp(c0, e, t))
      BY <2>2, <2>6, <3>1, TimeMeans
    <3>4. c0.lhs = Metric(m, ps) /\ c0.op = s.op /\ c0.rhs = s.rhs /\ c0.is = "some"
      BY Fields
    <3>5. CASE ~TooFast(c0)
      <4>1. c = c0 /\ c.is = "some"
        BY <3>2, <3>4, <3>5
      <4> QED
        BY <2>2, <2>3, <4>1 DEF d, zeros
    <3>6. CASE TooFast(c0)
      <4>1. c.lhs = c0.lhs /\ c.op = c0.op /\ c.rhs = c0.rhs /\ c.is = "empty" /\ c.kind = "comp"
        BY <3>2, <3>6, Fields
      <4> HIDE DEF c, c0
      <4>2. d = f
        BY <2>3, <4>1
      <4>3. OneQueueShort(d) <=> OneQueueShort(c0)
        BY <2>4, <4>1, <4>2 DEF OneQueueShort, TooFast
      <4>4. ~Means(c, e, t)
        BY <4>1 DEF Means, IsEmptySpec, IsComp
      <4> QED
        BY <2>2, <2>4, <3>3, <4>2, <4>3, <4>4 DEF d, zeros
    <3> QED
      BY <3>5, <3>6
  <2> QED
    BY <2>1, <2>5, <2>6 DEF IsShape, IsNumber
<1> QED
  BY <1>1, <1>2

\* What is in an entry that has no empty spec when it is normalised.
LEMMA EntryHas ==
    ASSUME NEW b, Marked(b) = {}, NEW r
    PROVE  /\ \A d \in BagToSet(Entry(b, r)) :
                 \E s \in BagToSet(b) : ~Drops(s, Zeros(b)) /\ d = Propagated(s, Zeros(b), r)
           /\ \A s \in BagToSet(b) :
                 ~IsAllSpec(s) /\ ~Drops(s, Zeros(b)) => Propagated(s, Zeros(b), r) \in BagToSet(Entry(b, r))
<1> DEFINE zeros == Zeros(b)
           live == {x \in BagToSet(b) : ~IsAllSpec(x) /\ ~Drops(x, zeros)}
           G(s) == Propagated(s, zeros, r)
<1>1. Entry(b, r) = BagOfAll(LAMBDA x : Propagated(x, zeros, r), OnlySuch(b, live))
  BY DEF Entry
<1>2. BagToSet(Entry(b, r)) = {Propagated(s, zeros, r) : s \in BagToSet(OnlySuch(b, live))}
  BY <1>1 DEF BagOfAll, BagToSet
<1>3. BagToSet(OnlySuch(b, live)) = live
  BY DEF OnlySuch, BagToSet
<1> QED
  BY <1>2, <1>3

\* Normalising an entry keeps what it asks of a step, but for what it finds
\* to be impossible, which no execution does there.
LEMMA EntryMeans ==
    ASSUME NEW b, \A s \in BagToSet(b) : Shaped(s) /\ ~Wraps(s), NEW r,
           NEW e \in Executions, NEW t \in Steps
    PROVE  /\ \A d \in BagToSet(Entry(b, r)) :
                 IsEmptySpec(d) /\ ~OneQueueShort(d) => ~HoldsAt(b, e, t)
           /\ Marked(b) = {} =>
                 \A s \in BagToSet(b) : Drops(s, Zeros(b)) /\ ~ZeroIs(s, t) => ~HoldsAt(b, e, t)
           /\ /\ \A d \in BagToSet(Entry(b, r)) : ~IsEmptySpec(d)
              /\ \A s \in BagToSet(b) : Drops(s, Zeros(b)) => ZeroIs(s, t)
              => (HoldsAt(Entry(b, r), e, t) <=> HoldsAt(b, e, t))
<1> DEFINE zeros == Zeros(b)
           E == Entry(b, r)
           G(s) == Propagated(s, zeros, r)
<1>1. HoldsAt(b, e, t) => ZerosHold(b, e, t)
  BY DEF HoldsAt, ZerosHold, IsZero, ZeroQueues
<1>2. CASE Marked(b) # {}
  <2>1. PICK d \in Marked(b) : BagToSet(E) = {d}
    BY <1>2 DEF Entry, BagToSet, SetToBag
  <2>2. d \in BagToSet(b) /\ IsEmptySpec(d)
    BY DEF Marked
  <2>3. ~OneQueueShort(d) => ~EncodedComp(d, e, t)
    BY <2>2, EmptyMeans DEF IsEmptySpec, IsComp
  <2> QED
    BY <1>2, <2>1, <2>2, <2>3 DEF HoldsAt, IsEmptySpec
<1>3. CASE Marked(b) = {}
  <2>0. \A s \in BagToSet(b) : ~IsAllSpec(s) /\ ~IsEmptySpec(s)
    BY <1>3 DEF Marked, Shaped, IsShape, IsAllSpec, IsComp
  <2>1. /\ \A d \in BagToSet(E) : \E s \in BagToSet(b) : ~Drops(s, zeros) /\ d = G(s)
        /\ \A s \in BagToSet(b) : ~Drops(s, zeros) => G(s) \in BagToSet(E)
    BY <1>3, <2>0, EntryHas
  <2>2. ASSUME NEW s \in BagToSet(b)
        PROVE  /\ IsComp(G(s)) <=> IsComp(s)
               /\ Drops(s, zeros) => IsComp(s)
               /\ IsZero(s) => ~Drops(s, zeros) /\ G(s) = s /\ IsComp(s)
    <3>1. IsComp(G(s)) <=> IsComp(s)
      BY PropagatedShaped
    <3> QED
      BY <3>1 DEF Drops, Affected, Propagated, IsZero, ZeroQueues
  <2>3. ASSUME ZerosHold(b, e, t), NEW s \in BagToSet(b), IsComp(s)
        PROVE  /\ Drops(s, zeros) => (EncodedComp(s, e, t) <=> ZeroIs(s, t))
               /\ ~IsEmptySpec(G(s)) => (EncodedComp(G(s), e, t) <=> EncodedComp(s, e, t))
               /\ IsEmptySpec(G(s)) /\ ~OneQueueShort(G(s)) => ~EncodedComp(s, e, t)
    <3>1. s.kind = "comp" /\ s.is # "empty" /\ IsComp(G(s))
      BY <2>0, <2>2, <2>3 DEF IsComp, IsEmptySpec
    <3>2. Drops(s, zeros) => (EncodedComp(s, e, t) <=> ZeroIs(s, t))
      BY <2>3, DropMeans
    <3>3. /\ G(s).is # "empty" => (EncodedComp(G(s), e, t) <=> EncodedComp(s, e, t))
          /\ G(s).is = "empty" /\ ~OneQueueShort(G(s)) => ~EncodedComp(s, e, t)
      BY <2>3, <3>1, PropagatedMeans
    <3> HIDE DEF G
    <3> QED
      BY <3>1, <3>2, <3>3 DEF IsEmptySpec
  <2> HIDE DEF G, E, zeros
  <2>4. ASSUME NEW d \in BagToSet(E), IsEmptySpec(d), ~OneQueueShort(d), HoldsAt(b, e, t)
        PROVE  FALSE
    <3>1. PICK s \in BagToSet(b) : d = G(s)
      BY <2>1
    <3>2. IsComp(s)
      BY <2>2, <2>4, <3>1 DEF IsEmptySpec
    <3> QED
      BY <1>1, <2>3, <2>4, <3>1, <3>2 DEF HoldsAt
  <2>5. ASSUME NEW s \in BagToSet(b), Drops(s, zeros), ~ZeroIs(s, t), HoldsAt(b, e, t)
        PROVE  FALSE
    BY <1>1, <2>2, <2>3, <2>5 DEF HoldsAt
  <2>6. ASSUME \A d \in BagToSet(E) : ~IsEmptySpec(d),
               \A s \in BagToSet(b) : Drops(s, zeros) => ZeroIs(s, t)
        PROVE  HoldsAt(E, e, t) <=> HoldsAt(b, e, t)
    <3>1. ASSUME HoldsAt(b, e, t) PROVE HoldsAt(E, e, t)
      <4> SUFFICES ASSUME NEW d \in BagToSet(E), IsComp(d) PROVE EncodedComp(d, e, t)
        BY DEF HoldsAt
      <4>1. PICK s \in BagToSet(b) : d = G(s)
        BY <2>1
      <4> QED
        BY <1>1, <2>2, <2>3, <2>6, <3>1, <4>1 DEF HoldsAt
    <3>2. ASSUME HoldsAt(E, e, t) PROVE HoldsAt(b, e, t)
      <4>1. ZerosHold(b, e, t)
        BY <2>1, <2>2, <3>2 DEF HoldsAt, ZerosHold
      <4>2. ASSUME NEW s \in BagToSet(b), IsComp(s) PROVE EncodedComp(s, e, t)
        <5>1. CASE Drops(s, zeros)
          BY <2>3, <2>6, <4>1, <4>2, <5>1
        <5>2. CASE ~Drops(s, zeros)
          <6>1. G(s) \in BagToSet(E) /\ IsComp(G(s))
            BY <2>1, <2>2, <4>2, <5>2
          <6> QED
            BY <2>3, <2>6, <3>2, <4>1, <4>2, <6>1 DEF HoldsAt
        <5> QED
          BY <5>1, <5>2
      <4> QED
        BY <4>2 DEF HoldsAt
    <3> QED
      BY <3>1, <3>2
  <2> QED
    BY <1>3, <2>4, <2>5, <2>6 DEF E, zeros
<1> QED
  BY <1>2, <1>3

(* Specs of successive steps *************************************************)

IsOver(s) == s.kind \in {"same", "incr", "decr", "unique"}

\* A spec that is not a Comp asks no more of fewer steps.
LEMMA OverPart ==
    ASSUME NEW s, IsOver(s), NEW e, NEW a \in Int, NEW b \in Int, NEW lo \in Int, NEW hi \in Int,
           a <= lo, hi <= b, EncodedOver(s, e, a, b)
    PROVE  EncodedOver(s, e, lo, hi)
<1>1. /\ \A t \in lo .. hi : t \in a .. b
      /\ \A t \in lo + 1 .. hi : t \in a + 1 .. b
  OBVIOUS
<1>2. \A op : Follows(s, e, a, b, op) => Follows(s, e, lo, hi, op)
  BY <1>1 DEF Follows, AllValid
<1> QED
  BY <1>1, <1>2 DEF EncodedOver, IsOver

\* The TimedSpec of such a spec has the steps around the entry that have it,
\* all of them.
LEMMA ExtentIs ==
    ASSUME NEW tl, Fine(tl), NEW r \in DOMAIN tl, NEW s \in BagToSet(tl[r]), Kept(s)
    PROVE  LET x == Extent(tl, s, r)
           IN  /\ x[1] \in Steps /\ x[2] \in Steps /\ x[1] <= r[1] /\ r[2] <= x[2]
               /\ \A t \in x[1] .. x[2] : s \in BagToSet(At(tl, t))
               /\ \A lo, hi \in Steps :
                     /\ lo <= r[2] /\ r[1] <= hi
                     /\ \A t \in lo .. hi : s \in BagToSet(At(tl, t))
                     => x[1] <= lo /\ hi <= x[2]
<1> DEFINE D == DOMAIN tl
           with(lo, hi) == \A x \in D : lo <= x[2] /\ x[1] <= hi => s \in BagToSet(tl[x])
           A == {x[1] : x \in {y \in D : y[1] <= r[1] /\ with(y[1], r[2])}}
           B == {x[2] : x \in {y \in D : y[2] >= r[2] /\ with(r[1], y[2])}}
           x == Extent(tl, s, r)
<1>1. Parts(D)
  BY DEF Fine
<1>2. /\ \A y \in D : y[1] \in Int /\ y[2] \in Int /\ y[1] <= y[2] /\ y[1] >= 0 /\ y[2] < TotalTime
      /\ \A y, z \in D : y = z \/ y[2] < z[1] \/ z[2] < y[1]
  BY <1>1, RangesAre
<1>3. with(r[1], r[2])
  <2> SUFFICES ASSUME NEW y \in D, r[1] <= y[2], y[1] <= r[2] PROVE y = r
    OBVIOUS
  <2> QED
    BY <1>2
<1>4. x = <<Min(A), Max(B)>>
  BY DEF Extent
<1>5. Min(A) \in A /\ \A a \in A : Min(A) <= a
  <2>1. A \in SUBSET Nat /\ A # {}
    BY <1>2, <1>3
  <2>2. \E a \in A : \A c \in A : a <= c
    BY <2>1, LeastNumberExists
  <2> HIDE DEF A
  <2> QED
    BY <2>2 DEF Min
<1>6. Max(B) \in B /\ \A c \in B : Max(B) >= c
  <2>1. B \in SUBSET (0 .. TotalTime) /\ B # {}
    BY <1>2, <1>3, StepsAre
  <2>2. \E c \in B : \A a \in B : a <= c
    BY <2>1, GreatestExists, StepsAre
  <2> HIDE DEF B
  <2> QED
    BY <2>2 DEF Max
<1>7. PICK y \in D : x[1] = y[1] /\ y[1] <= r[1] /\ with(y[1], r[2])
  <2>1. \A a \in A : \E y \in D : a = y[1] /\ y[1] <= r[1] /\ with(y[1], r[2])
    OBVIOUS
  <2> HIDE DEF A, with
  <2> QED
    BY <1>4, <1>5, <2>1
<1>8. PICK z \in D : x[2] = z[2] /\ z[2] >= r[2] /\ with(r[1], z[2])
  BY <1>4, <1>6
<1>9. /\ \A u \in D : u[1] <= r[1] /\ with(u[1], r[2]) => x[1] <= u[1]
      /\ \A u \in D : u[2] >= r[2] /\ with(r[1], u[2]) => u[2] <= x[2]
  BY <1>2, <1>4, <1>5, <1>6
<1> HIDE DEF A, B, x
<1>10. x[1] \in Steps /\ x[2] \in Steps /\ x[1] <= r[1] /\ r[2] <= x[2]
  BY <1>2, <1>7, <1>8, StepsAre
<1>11. ASSUME NEW t \in x[1] .. x[2] PROVE s \in BagToSet(At(tl, t))
  <2>1. t \in Steps
    BY <1>10, StepsAre
  <2>2. PICK u \in D : Covers(u, t) /\ At(tl, t) = tl[u]
    BY <2>1, AtIs
  <2>3. t <= r[2] \/ r[1] <= t
    BY <1>2, <2>1, StepsAre
  <2>4. (y[1] <= u[2] /\ u[1] <= r[2]) \/ (r[1] <= u[2] /\ u[1] <= z[2])
    BY <1>2, <1>7, <1>8, <1>10, <2>1, <2>2, <2>3, StepsAre DEF Covers
  <2> QED
    BY <1>7, <1>8, <2>2, <2>4
<1>12. ASSUME NEW lo \in Steps, NEW hi \in Steps, lo <= r[2], r[1] <= hi,
              \A t \in lo .. hi : s \in BagToSet(At(tl, t))
       PROVE  x[1] <= lo /\ hi <= x[2]
  <2>0. lo \in Int /\ hi \in Int /\ r[1] \in Int /\ r[2] \in Int /\ r[1] <= r[2]
        /\ x[1] \in Int /\ x[2] \in Int
    BY <1>2, <1>10, StepsAre
  <2>1. CASE lo > hi
    BY <1>10, <1>12, <2>0, <2>1
  <2>2. CASE lo <= hi
    <3>1. \A u \in D, t \in lo .. hi : Covers(u, t) => s \in BagToSet(tl[u])
      <4> TAKE u \in D, t \in lo .. hi
      <4>1. t \in Steps
        BY <1>12, StepsAre
      <4> QED
        BY <1>12, <4>1, AtIs
    <3>2. \A u \in D : u[1] <= r[2] /\ r[1] <= u[2] => u = r
      BY <1>2
    <3>3. x[1] <= lo
      <4>1. PICK u \in D : Covers(u, lo)
        BY AtIs
      <4>2. CASE u[1] > r[1]
        BY <1>2, <1>10, <2>0, <4>1, <4>2 DEF Covers
      <4>3. CASE u[1] <= r[1]
        <5>1. ASSUME NEW w \in D, u[1] <= w[2], w[1] <= r[2] PROVE s \in BagToSet(tl[w])
          <6>1. CASE w = u
            BY <2>0, <2>2, <3>1, <4>1, <6>1
          <6>2. CASE w = r
            BY <6>2
          <6>3. CASE w # u /\ w # r
            <7>1. u[2] < w[1] /\ w[2] < r[1]
              BY <1>2, <5>1, <6>3
            <7>2. w[1] \in lo .. hi /\ Covers(w, w[1])
              BY <1>2, <1>12, <2>0, <4>1, <7>1 DEF Covers
            <7> QED
              BY <3>1, <7>2
          <6> QED
            BY <6>1, <6>2, <6>3
        <5>2. x[1] <= u[1]
          BY <1>9, <4>3, <5>1
        <5> QED
          BY <1>2, <2>0, <4>1, <5>2 DEF Covers
      <4> QED
        BY <1>2, <4>2, <4>3
    <3>4. hi <= x[2]
      <4>1. PICK u \in D : Covers(u, hi)
        BY AtIs
      <4>2. CASE u[2] < r[2]
        BY <1>2, <1>10, <2>0, <4>1, <4>2 DEF Covers
      <4>3. CASE u[2] >= r[2]
        <5>1. ASSUME NEW w \in D, r[1] <= w[2], w[1] <= u[2] PROVE s \in BagToSet(tl[w])
          <6>1. CASE w = u
            BY <2>0, <2>2, <3>1, <4>1, <6>1
          <6>2. CASE w = r
            BY <6>2
          <6>3. CASE w # u /\ w # r
            <7>1. w[2] < u[1] /\ r[2] < w[1]
              BY <1>2, <5>1, <6>3
            <7>2. w[2] \in lo .. hi /\ Covers(w, w[2])
              BY <1>2, <1>12, <2>0, <4>1, <7>1 DEF Covers
            <7> QED
              BY <3>1, <7>2
          <6> QED
            BY <6>1, <6>2, <6>3
        <5>2. u[2] <= x[2]
          BY <1>9, <4>3, <5>1
        <5> QED
          BY <1>2, <2>0, <4>1, <5>2 DEF Covers
      <4> QED
        BY <1>2, <4>2, <4>3
    <3> QED
      BY <3>3, <3>4
  <2> QED
    BY <2>0, <2>1, <2>2
<1> QED
  BY <1>10, <1>11, <1>12 DEF x

\* What the other specs ask of the steps that they are in.
RunsHold(tl, e) ==
    \A s : ~IsComp(s) =>
        \A lo, hi \in Steps :
            lo <= hi /\ (\A t \in lo .. hi : s \in BagToSet(At(tl, t))) => EncodedOver(s, e, lo, hi)

\* The TimedSpec of a Comp, and of another spec.
LEMMA TimedMeans ==
    ASSUME NEW tl, Fine(tl), NEW r \in DOMAIN tl, NEW s \in BagToSet(tl[r]), ~IsEmptySpec(s),
           NEW e \in Executions
    PROVE  LET ts == TimedOf(tl, s, r)
               x == Extent(tl, s, r)
           IN  /\ ts \in AllSpecs(tl) /\ ts.spec = s
               /\ IsComp(s) => (Satisfies(e, ts) <=> \A t \in r[1] .. r[2] : EncodedComp(s, e, t))
               /\ ~IsComp(s) => /\ ts.lo = x[1] /\ ts.hi = x[2]
                                /\ Satisfies(e, ts) <=> EncodedOver(s, e, x[1], x[2])
<1> DEFINE ts == TimedOf(tl, s, r)
           x == Extent(tl, s, r)
<1>1. ts.spec = s /\ ts = Timed(s, x[1], x[2])
  BY DEF TimedOf, Timed
<1>2. ts \in AllSpecs(tl)
  BY DEF AllSpecs
<1> HIDE DEF x, ts
<1>3. ASSUME IsComp(s) PROVE Satisfies(e, ts) <=> \A t \in r[1] .. r[2] : EncodedComp(s, e, t)
  <2>1. ~Kept(s)
    BY <1>3 DEF IsEmptySpec, Kept
  <2>2. x = r
    BY <2>1 DEF Extent, x
  <2>3. r[1] \in Steps /\ r[2] \in Steps /\ r[1] <= r[2] /\ Shaped(s)
    BY DEF Fine, Parts
  <2>4. Satisfies(e, ts) <=> EncodedOver(s, e, r[1], r[2])
    BY <1>1, <1>3, <2>2, <2>3, WidenedMeans DEF IsComp
  <2> QED
    BY <1>3, <2>4 DEF EncodedOver, IsComp
<1>4. ASSUME ~IsComp(s)
      PROVE  ts.lo = x[1] /\ ts.hi = x[2] /\ (Satisfies(e, ts) <=> EncodedOver(s, e, x[1], x[2]))
  <2>1. ts.lo = x[1] /\ ts.hi = x[2]
    BY <1>1, <1>4 DEF Timed
  <2> QED
    BY <1>1, <2>1 DEF Satisfies
<1> QED
  BY <1>1, <1>2, <1>3, <1>4 DEF x, ts

\* The TimedSpecs of a timeline ask of an execution what its Comps ask of
\* each step, and its other specs of each run of steps that they are in.
LEMMA SpecsMean ==
    ASSUME NEW tl, Fine(tl), \A ts \in AllSpecs(tl) : ~IsEmptySpec(ts.spec), NEW e \in Executions
    PROVE  (\A ts \in AllSpecs(tl) : Satisfies(e, ts))
             <=> (\A t \in Steps : HoldsAt(At(tl, t), e, t)) /\ RunsHold(tl, e)
<1>0. ASSUME NEW r \in DOMAIN tl, NEW s \in BagToSet(tl[r])
      PROVE  ~IsEmptySpec(s) /\ Shaped(s)
  <2>1. TimedOf(tl, s, r) \in AllSpecs(tl) /\ TimedOf(tl, s, r).spec = s
    BY DEF AllSpecs, TimedOf, Timed
  <2> QED
    BY <2>1 DEF Fine
<1>1. \A r \in DOMAIN tl : r[1] \in Steps /\ r[2] \in Steps /\ r[1] <= r[2]
  BY DEF Fine, Parts
<1>2. ASSUME \A ts \in AllSpecs(tl) : Satisfies(e, ts)
      PROVE  (\A t \in Steps : HoldsAt(At(tl, t), e, t)) /\ RunsHold(tl, e)
  <2>1. ASSUME NEW t \in Steps PROVE HoldsAt(At(tl, t), e, t)
    <3>1. PICK r \in DOMAIN tl : Covers(r, t) /\ At(tl, t) = tl[r]
      BY AtIs
    <3>2. t \in r[1] .. r[2]
      BY <1>1, <3>1, StepsAre DEF Covers
    <3>3. \A s \in BagToSet(tl[r]) : IsComp(s) => EncodedComp(s, e, t)
      BY <1>0, <1>2, <3>2, TimedMeans
    <3> QED
      BY <3>1, <3>3 DEF HoldsAt
  <2>2. ASSUME NEW s, ~IsComp(s), NEW lo \in Steps, NEW hi \in Steps, lo <= hi,
               \A t \in lo .. hi : s \in BagToSet(At(tl, t))
        PROVE  EncodedOver(s, e, lo, hi)
    <3>1. PICK r \in DOMAIN tl : Covers(r, lo) /\ At(tl, lo) = tl[r]
      BY AtIs
    <3>2. s \in BagToSet(tl[r]) /\ lo <= r[2] /\ r[1] <= hi /\ Kept(s)
      BY <1>1, <2>2, <3>1, StepsAre DEF Covers, Kept
    <3> DEFINE x == Extent(tl, s, r)
    <3>3. x[1] <= lo /\ hi <= x[2] /\ x[1] \in Int /\ x[2] \in Int /\ lo \in Int /\ hi \in Int
      BY <2>2, <3>2, ExtentIs, StepsAre
    <3>4. EncodedOver(s, e, x[1], x[2])
      BY <1>0, <1>2, <2>2, <3>2, TimedMeans
    <3>5. IsOver(s)
      BY <1>0, <2>2, <3>2 DEF Shaped, IsShape, IsComp, IsOver
    <3> HIDE DEF x
    <3> QED
      BY <3>3, <3>4, <3>5, OverPart
  <2> QED
    BY <2>1, <2>2 DEF RunsHold
<1>3. ASSUME \A t \in Steps : HoldsAt(At(tl, t), e, t), RunsHold(tl, e), NEW ts \in AllSpecs(tl)
      PROVE  Satisfies(e, ts)
  <2>1. PICK r \in DOMAIN tl : \E s \in BagToSet(tl[r]) : ts = TimedOf(tl, s, r)
    BY DEF AllSpecs
  <2>2. PICK s \in BagToSet(tl[r]) : ts = TimedOf(tl, s, r)
    BY <2>1
  <2>3. CASE IsComp(s)
    <3>1. ASSUME NEW t \in r[1] .. r[2] PROVE EncodedComp(s, e, t)
      <4>1. t \in Steps /\ Covers(r, t)
        BY <1>1, StepsAre DEF Covers
      <4>2. At(tl, t) = tl[r]
        BY <4>1, AtIs
      <4> QED
        BY <1>3, <2>3, <4>1, <4>2 DEF HoldsAt
    <3> QED
      BY <1>0, <2>2, <2>3, <3>1, TimedMeans
  <2>4. CASE ~IsComp(s)
    <3> DEFINE x == Extent(tl, s, r)
    <3>1. /\ x[1] \in Steps /\ x[2] \in Steps /\ x[1] <= r[1] /\ r[2] <= x[2]
          /\ \A t \in x[1] .. x[2] : s \in BagToSet(At(tl, t))
      BY <2>4, ExtentIs DEF Kept
    <3>2. Satisfies(e, ts) <=> EncodedOver(s, e, x[1], x[2])
      BY <1>0, <2>2, <2>4, TimedMeans
    <3> HIDE DEF x
    <3>3. x[1] <= x[2]
      BY <1>1, <3>1, StepsAre
    <3> QED
      BY <1>3, <2>4, <3>1, <3>2, <3>3 DEF RunsHold
  <2> QED
    BY <2>3, <2>4
<1> QED
  BY <1>2, <1>3

\* Adding a spec of successive steps adds what it asks, where its range does
\* not meet another of its own and join with it.
LEMMA RunsWith ==
    ASSUME NEW tl, Fine(tl), NEW ul, NEW ts, Shaped(ts.spec),
           ts.lo \in Steps, ts.hi \in Steps, ts.lo <= ts.hi,
           \A t \in Steps : \A s : ~IsComp(s) =>
               (s \in BagToSet(At(ul, t))
                  <=> s \in BagToSet(At(tl, t)) \/ (s = ts.spec /\ ts.lo <= t /\ t <= ts.hi)),
           ~Joins(tl, ts),
           NEW e \in Executions
    PROVE  RunsHold(ul, e) <=> RunsHold(tl, e) /\ (~IsComp(ts.spec) => Satisfies(e, ts))
<1> DEFINE w == ts.spec
<1>0. ts.lo \in Int /\ ts.hi \in Int
  BY StepsAre
<1>1. Satisfies(e, ts) <=> EncodedOver(w, e, ts.lo, ts.hi)
  BY DEF Satisfies
<1>2. ASSUME RunsHold(ul, e) PROVE RunsHold(tl, e) /\ (~IsComp(w) => Satisfies(e, ts))
  <2>1. RunsHold(tl, e)
    <3> SUFFICES ASSUME NEW s, ~IsComp(s), NEW lo \in Steps, NEW hi \in Steps, lo <= hi,
                        \A t \in lo .. hi : s \in BagToSet(At(tl, t))
                 PROVE  EncodedOver(s, e, lo, hi)
      BY DEF RunsHold
    <3>1. \A t \in lo .. hi : t \in Steps
      BY StepsAre
    <3>2. \A t \in lo .. hi : s \in BagToSet(At(ul, t))
      BY <3>1
    <3> QED
      BY <1>2, <3>2 DEF RunsHold
  <2>2. ASSUME ~IsComp(w) PROVE EncodedOver(w, e, ts.lo, ts.hi)
    <3>1. \A t \in ts.lo .. ts.hi : t \in Steps /\ ts.lo <= t /\ t <= ts.hi
      BY StepsAre
    <3>2. \A t \in ts.lo .. ts.hi : w \in BagToSet(At(ul, t))
      BY <2>2, <3>1
    <3> QED
      BY <1>2, <2>2, <3>2 DEF RunsHold
  <2> QED
    BY <1>1, <2>1, <2>2
<1>3. ASSUME RunsHold(tl, e), ~IsComp(w) => Satisfies(e, ts),
             NEW s, ~IsComp(s), NEW lo \in Steps, NEW hi \in Steps, lo <= hi,
             \A t \in lo .. hi : s \in BagToSet(At(ul, t))
      PROVE  EncodedOver(s, e, lo, hi)
  <2>0. lo \in Int /\ hi \in Int /\ \A t \in lo .. hi : t \in Steps /\ t \in Int
    BY StepsAre
  <2>1. \A t \in lo .. hi : s \in BagToSet(At(tl, t)) \/ (s = w /\ ts.lo <= t /\ t <= ts.hi)
    BY <1>3, <2>0
  <2>2. CASE \A t \in lo .. hi : s \in BagToSet(At(tl, t))
    BY <1>3, <2>2 DEF RunsHold
  <2>3. CASE s = w /\ ts.lo <= lo /\ hi <= ts.hi
    <3>1. IsOver(w) /\ EncodedOver(w, e, ts.lo, ts.hi)
      BY <1>1, <1>3, <2>3 DEF Shaped, IsShape, IsComp, IsOver
    <3> QED
      BY <1>0, <2>0, <2>3, <3>1, OverPart
  <2>4. CASE s = w /\ s.kind = "unique"
    <3>1. \A a, b : EncodedOver(s, e, a, b) <=> \A t \in a .. b : Distinct(s, e, t)
      BY <2>4 DEF EncodedOver
    <3>2. ASSUME NEW t \in lo .. hi PROVE Distinct(s, e, t)
      <4>1. CASE s \in BagToSet(At(tl, t))
        <5>1. \A u \in t .. t : u = t
          BY <2>0
        <5>2. t \in t .. t /\ t <= t /\ t \in Steps
          BY <2>0
        <5>3. EncodedOver(s, e, t, t)
          BY <1>3, <4>1, <5>1, <5>2 DEF RunsHold
        <5> QED
          BY <3>1, <5>2, <5>3
      <4>2. CASE ts.lo <= t /\ t <= ts.hi
        <5>1. t \in ts.lo .. ts.hi
          BY <1>0, <2>0, <4>2
        <5> QED
          BY <1>1, <1>3, <2>4, <3>1, <5>1
      <4> QED
        BY <2>1, <4>1, <4>2
    <3> QED
      BY <3>1, <3>2
  <2>5. CASE s = w /\ s.kind # "unique" /\ ~(ts.lo <= lo /\ hi <= ts.hi)
             /\ ~ \A t \in lo .. hi : s \in BagToSet(At(tl, t))
    <3>1. PICK p \in lo .. hi : ~(ts.lo <= p /\ p <= ts.hi)
      <4>1. lo \in lo .. hi /\ hi \in lo .. hi
        BY <1>3, <2>0
      <4> QED
        BY <1>0, <2>0, <2>5, <4>1
    <3>2. p \in Steps /\ s \in BagToSet(At(tl, p))
      BY <2>0, <2>1, <3>1
    <3>3. PICK r \in DOMAIN tl : Covers(r, p) /\ At(tl, p) = tl[r]
      BY <3>2, AtIs
    <3> DEFINE x == Extent(tl, s, r)
               ys == TimedOf(tl, s, r)
    <3>4. Kept(s) /\ s \in BagToSet(tl[r]) /\ ~IsEmptySpec(s)
      BY <1>3, <3>2, <3>3 DEF Kept, IsEmptySpec
    <3>5. /\ x[1] \in Steps /\ x[2] \in Steps /\ x[1] <= r[1] /\ r[2] <= x[2]
          /\ \A t \in x[1] .. x[2] : s \in BagToSet(At(tl, t))
          /\ \A l, h \in Steps :
                l <= r[2] /\ r[1] <= h /\ (\A t \in l .. h : s \in BagToSet(At(tl, t)))
                => x[1] <= l /\ h <= x[2]
      BY <3>4, ExtentIs
    <3>6. ys \in AllSpecs(tl) /\ ys.spec = w /\ ys.lo = x[1] /\ ys.hi = x[2]
      BY <1>3, <2>5, <3>4, TimedMeans
    <3>7. /\ r[1] \in Int /\ r[2] \in Int /\ r[1] <= p /\ p <= r[2]
          /\ x[1] \in Int /\ x[2] \in Int /\ p \in Int /\ lo <= p /\ p <= hi
      BY <2>0, <3>3, <3>5, StepsAre DEF Covers, Fine, Parts
    <3> HIDE DEF x, ys
    <3>8. ~(/\ x[1] <= ts.hi + 1 /\ ts.lo <= x[2] + 1
            /\ ~(x[1] <= ts.lo /\ ts.hi <= x[2]) /\ ~(ts.lo <= x[1] /\ x[2] <= ts.hi))
      BY <1>3, <2>5, <3>6 DEF Joins
    <3>9. ~(lo < x[1])
      <4> SUFFICES ASSUME lo < x[1] PROVE FALSE
        OBVIOUS
      <4> DEFINE u == x[1] - 1
      <4>1. u \in Int /\ u \in Steps /\ u \in lo .. hi /\ u <= p
        BY <2>0, <3>5, <3>7, StepsAre
      <4>2. ts.lo <= u /\ u <= ts.hi
        <5>1. CASE s \in BagToSet(At(tl, u))
          <6>1. \A t \in u .. x[2] : s \in BagToSet(At(tl, t))
            <7> TAKE t \in u .. x[2]
            <7>1. t = u \/ t \in x[1] .. x[2]
              BY <3>7, <4>1
            <7> QED
              BY <3>5, <5>1, <7>1
          <6>2. x[1] <= u
            <7>1. u <= r[2] /\ r[1] <= x[2]
              BY <3>5, <3>7, <4>1
            <7> QED
              BY <3>5, <4>1, <6>1, <7>1
          <6> QED
            BY <3>7, <6>2
        <5> QED
          BY <2>1, <4>1, <5>1
      <4> QED
        BY <1>0, <3>1, <3>5, <3>7, <3>8, <4>2
    <3>10. ~(x[2] < hi)
      <4> SUFFICES ASSUME x[2] < hi PROVE FALSE
        OBVIOUS
      <4> DEFINE u == x[2] + 1
      <4>1. u \in Int /\ u \in Steps /\ u \in lo .. hi /\ p <= u
        BY <2>0, <3>5, <3>7, StepsAre
      <4>2. ts.lo <= u /\ u <= ts.hi
        <5>1. CASE s \in BagToSet(At(tl, u))
          <6>1. \A t \in x[1] .. u : s \in BagToSet(At(tl, t))
            <7> TAKE t \in x[1] .. u
            <7>1. t = u \/ t \in x[1] .. x[2]
              BY <3>7, <4>1
            <7> QED
              BY <3>5, <5>1, <7>1
          <6>2. u <= x[2]
            <7>1. x[1] <= r[2] /\ r[1] <= u
              BY <3>5, <3>7, <4>1
            <7> QED
              BY <3>5, <4>1, <6>1, <7>1
          <6> QED
            BY <3>7, <6>2
        <5> QED
          BY <2>1, <4>1, <5>1
      <4> QED
        BY <1>0, <3>1, <3>5, <3>7, <3>8, <4>2
    <3>11. \A t \in lo .. hi : t \in x[1] .. x[2]
      BY <2>0, <3>7, <3>9, <3>10
    <3> QED
      BY <2>5, <3>5, <3>11
  <2>6. s = w \/ \A t \in lo .. hi : s \in BagToSet(At(tl, t))
    BY <2>1
  <2> QED
    BY <2>2, <2>3, <2>4, <2>5, <2>6
<1> QED
  BY <1>2, <1>3 DEF RunsHold

(* Adding a spec *************************************************************)

\* Adding a spec and normalising: what is found to be impossible is met by no
\* execution, and otherwise the TimedSpecs ask what they did and the new one.
LEMMA AddMeans ==
    ASSUME NEW tl, Fine(tl), \A x \in AllSpecs(tl) : ~IsEmptySpec(x.spec), ~AnyWraps(tl),
           NEW ts, Shaped(ts.spec), ~Wraps(ts.spec),
           ts.lo \in Steps, ts.hi \in Steps, ts.lo <= ts.hi,
           ~Joins(tl, ts),
           ~Mistaken(Cleaned(WithSpec(tl, ts))),
           NEW e \in Executions
    PROVE  LET wl == WithSpec(tl, ts)
               nl == Cleaned(wl)
           IN  (\A x \in AllSpecs(tl) : Satisfies(e, x)) /\ Satisfies(e, ts)
                 <=> /\ ~ \E r \in DOMAIN wl : Contradicts(wl[r], r)
                     /\ \A x \in AllSpecs(nl) : ~IsEmptySpec(x.spec)
                     /\ \A x \in AllSpecs(nl) : Satisfies(e, x)
<1> DEFINE w == ts.spec
           wl == WithSpec(tl, ts)
           nl == Cleaned(wl)
           In(t) == ts.lo <= t /\ t <= ts.hi
<1>0. ts.lo \in Int /\ ts.hi \in Int
  BY StepsAre
<1>1. Fine(wl)
  BY <1>0, WithSpecFine
<1>2. Fine(nl)
  BY <1>1, CleanedFine
<1>3. \A t \in Steps : BagToSet(At(wl, t)) = BagToSet(At(tl, t)) \cup (IF In(t) THEN {w} ELSE {})
  BY <1>0, <1>1, WithSpecAt
<1> HIDE DEF wl
<1>4. \A t \in Steps : \A r \in DOMAIN wl :
          Covers(r, t) => At(wl, t) = wl[r] /\ At(nl, t) = Entry(wl[r], r)
  BY <1>1, AtIs, CleanedAt
<1> HIDE DEF nl
<1>5. \A r \in DOMAIN wl : r[1] \in Steps /\ Covers(r, r[1])
  BY <1>1, RangesAre, StepsAre DEF Fine, Covers
<1>6. ASSUME NEW r \in DOMAIN wl, NEW s \in BagToSet(wl[r]) PROVE Shaped(s) /\ ~Wraps(s)
  <2>1. Shaped(s)
    BY <1>1 DEF Fine
  <2>2. s \in BagToSet(At(tl, r[1])) \/ s = w
    BY <1>3, <1>4, <1>5
  <2>3. PICK u \in DOMAIN tl : At(tl, r[1]) = tl[u]
    BY <1>5, AtIs
  <2> QED
    BY <2>1, <2>2, <2>3 DEF AnyWraps
<1>7. ASSUME NEW t \in Steps
      PROVE  HoldsAt(At(wl, t), e, t)
               <=> HoldsAt(At(tl, t), e, t) /\ (IsComp(w) /\ In(t) => EncodedComp(w, e, t))
  BY <1>3 DEF HoldsAt
<1>8. IsComp(w) => (Satisfies(e, ts) <=> \A t \in Steps : In(t) => EncodedComp(w, e, t))
  <2>1. \A t : t \in ts.lo .. ts.hi <=> t \in Steps /\ In(t)
    BY <1>0, StepsAre
  <2> QED
    BY <2>1 DEF Satisfies, EncodedOver, IsComp
<1>9. (\A x \in AllSpecs(tl) : Satisfies(e, x))
        <=> (\A t \in Steps : HoldsAt(At(tl, t), e, t)) /\ RunsHold(tl, e)
  BY SpecsMean
<1>10. (\A x \in AllSpecs(tl) : Satisfies(e, x)) /\ Satisfies(e, ts)
         <=> /\ \A t \in Steps : HoldsAt(At(wl, t), e, t)
             /\ RunsHold(tl, e) /\ (~IsComp(w) => Satisfies(e, ts))
  BY <1>7, <1>8, <1>9
<1>11. \A r \in DOMAIN wl, t \in Steps : Covers(r, t) <=> t \in r[1] .. r[2]
  BY <1>1, RangesAre, StepsAre DEF Fine, Covers
<1>12. ASSUME \A t \in Steps : HoldsAt(At(wl, t), e, t)
       PROVE  /\ ~ \E r \in DOMAIN wl : Contradicts(wl[r], r)
              /\ \A x \in AllSpecs(nl) : ~IsEmptySpec(x.spec)
  <2>1. ASSUME NEW r \in DOMAIN wl, Contradicts(wl[r], r) PROVE FALSE
    <3>1. Marked(wl[r]) = {}
      BY <2>1 DEF Contradicts
    <3>2. PICK s \in BagToSet(wl[r]) : Drops(s, Zeros(wl[r])) /\ \E t \in r[1] .. r[2] : ~ZeroIs(s, t)
      BY <2>1 DEF Contradicts, Impossible
    <3>3. PICK t \in r[1] .. r[2] : ~ZeroIs(s, t)
      BY <3>2
    <3>4. t \in Steps
      <4>1. r[1] \in Steps /\ r[2] \in Steps
        BY <1>1 DEF Fine, Parts
      <4> QED
        BY <4>1, StepsAre
    <3>5. HoldsAt(wl[r], e, t)
      BY <1>4, <1>11, <1>12, <3>4
    <3> QED
      BY <1>6, <3>1, <3>2, <3>3, <3>4, <3>5, EntryMeans
  <2>2. ASSUME NEW x \in AllSpecs(nl), IsEmptySpec(x.spec) PROVE FALSE
    <3>1. ~OneQueueShort(x.spec)
      BY <2>2 DEF Mistaken, nl, wl
    <3>2. PICK r \in DOMAIN nl : \E s \in BagToSet(nl[r]) : x = TimedOf(nl, s, r)
      BY DEF AllSpecs
    <3>3. x.spec \in BagToSet(nl[r])
      BY <3>2 DEF TimedOf, Timed
    <3>4. r[1] \in Steps /\ Covers(r, r[1])
      BY <1>2, RangesAre, StepsAre DEF Fine, Covers
    <3>5. At(nl, r[1]) = nl[r]
      BY <1>2, <3>4, AtIs
    <3>6. PICK u \in DOMAIN wl : Covers(u, r[1])
      BY <1>1, <3>4, AtIs
    <3>7. At(wl, r[1]) = wl[u] /\ nl[r] = Entry(wl[u], u)
      BY <1>4, <3>4, <3>5, <3>6
    <3>8. HoldsAt(wl[u], e, r[1])
      BY <1>12, <3>4, <3>7
    <3> QED
      BY <1>6, <2>2, <3>1, <3>3, <3>4, <3>7, <3>8, EntryMeans
  <2> QED
    BY <2>1, <2>2
<1>13. ASSUME ~ \E r \in DOMAIN wl : Contradicts(wl[r], r),
              \A x \in AllSpecs(nl) : ~IsEmptySpec(x.spec)
       PROVE  /\ \A t \in Steps : HoldsAt(At(nl, t), e, t) <=> HoldsAt(At(wl, t), e, t)
              /\ RunsHold(nl, e) <=> RunsHold(tl, e) /\ (~IsComp(w) => Satisfies(e, ts))
  <2>1. ASSUME NEW t \in Steps, NEW r \in DOMAIN wl, Covers(r, t)
        PROVE  \A d \in BagToSet(Entry(wl[r], r)) : ~IsEmptySpec(d)
    <3>1. PICK u \in DOMAIN nl : At(nl, t) = nl[u]
      BY <1>2, AtIs
    <3>2. nl[u] = Entry(wl[r], r)
      BY <1>4, <2>1, <3>1
    <3>3. ASSUME NEW d \in BagToSet(nl[u]) PROVE ~IsEmptySpec(d)
      <4>1. TimedOf(nl, d, u) \in AllSpecs(nl) /\ TimedOf(nl, d, u).spec = d
        BY DEF AllSpecs, TimedOf, Timed
      <4> QED
        BY <1>13, <4>1
    <3> QED
      BY <3>2, <3>3
  <2>2. ASSUME NEW t \in Steps, NEW r \in DOMAIN wl, Covers(r, t)
        PROVE  Marked(wl[r]) = {}
    <3> SUFFICES ASSUME Marked(wl[r]) # {} PROVE FALSE
      OBVIOUS
    <3>1. PICK d \in Marked(wl[r]) : BagToSet(Entry(wl[r], r)) = {d}
      BY DEF Entry, BagToSet, SetToBag
    <3> QED
      BY <2>1, <2>2, <3>1 DEF Marked
  <2>3. ASSUME NEW t \in Steps PROVE HoldsAt(At(nl, t), e, t) <=> HoldsAt(At(wl, t), e, t)
    <3>1. PICK r \in DOMAIN wl : Covers(r, t)
      BY <1>1, AtIs
    <3>2. At(wl, t) = wl[r] /\ At(nl, t) = Entry(wl[r], r)
      BY <1>4, <3>1
    <3>3. \A s \in BagToSet(wl[r]) : Drops(s, Zeros(wl[r])) => ZeroIs(s, t)
      <4>1. Marked(wl[r]) = {} /\ t \in r[1] .. r[2]
        BY <1>11, <2>2, <3>1
      <4> QED
        BY <1>13, <4>1 DEF Contradicts, Impossible
    <3>4. \A d \in BagToSet(Entry(wl[r], r)) : ~IsEmptySpec(d)
      BY <2>1, <3>1
    <3> QED
      BY <1>6, <3>2, <3>3, <3>4, EntryMeans
  <2>4. ASSUME NEW t \in Steps, NEW s, ~IsComp(s)
        PROVE  s \in BagToSet(At(nl, t)) <=> s \in BagToSet(At(tl, t)) \/ (s = w /\ In(t))
    <3>1. PICK r \in DOMAIN wl : Covers(r, t)
      BY <1>1, AtIs
    <3>2. At(wl, t) = wl[r] /\ At(nl, t) = Entry(wl[r], r)
      BY <1>4, <3>1
    <3> DEFINE zeros == Zeros(wl[r])
    <3>3. \A x \in BagToSet(wl[r]) : IsComp(Propagated(x, zeros, r)) <=> IsComp(x)
      BY <1>6, PropagatedShaped
    <3>4. \A x : ~IsComp(x) => /\ Propagated(x, zeros, r) = x
                               /\ ~IsAllSpec(x) /\ ~Drops(x, zeros)
      BY DEF Propagated, Affected, Drops, IsAllSpec
    <3>5. /\ \A d \in BagToSet(Entry(wl[r], r)) :
                \E x \in BagToSet(wl[r]) : d = Propagated(x, zeros, r)
          /\ \A x \in BagToSet(wl[r]) : ~IsAllSpec(x) /\ ~Drops(x, zeros)
                => Propagated(x, zeros, r) \in BagToSet(Entry(wl[r], r))
      BY <2>2, <3>1, EntryHas
    <3> HIDE DEF zeros
    <3>6. s \in BagToSet(Entry(wl[r], r)) <=> s \in BagToSet(wl[r])
      BY <2>4, <3>3, <3>4, <3>5
    <3> QED
      BY <1>3, <3>2, <3>6
  <2>5. RunsHold(nl, e) <=> RunsHold(tl, e) /\ (~IsComp(w) => Satisfies(e, ts))
    BY <2>4, RunsWith
  <2> QED
    BY <2>3, <2>5
<1>14. (\A x \in AllSpecs(nl) : ~IsEmptySpec(x.spec)) =>
          ((\A x \in AllSpecs(nl) : Satisfies(e, x))
             <=> (\A t \in Steps : HoldsAt(At(nl, t), e, t)) /\ RunsHold(nl, e))
  BY <1>2, SpecsMean
<1> QED
  BY <1>10, <1>12, <1>13, <1>14 DEF wl, nl

\* Adding a spec to a workload (workload.cpp:949-962, 1039-1336) leaves the
\* executions that both admit, though normalising rewrites, splits, joins and
\* drops the specs of the entries, but for the exceptions that are named.
THEOREM WorkloadAddIsConjunction == Spec => AddIsConjunction
<1>1. ASSUME Fine(timeline), MadeInv, Next, made'.kind = "added"
      PROVE  \E ts \in Drawn \cup Written : Add(ts)
  <2>1. ASSUME NEW c \in Constructible \cup NeighborsOfMade, Construct(c) PROVE FALSE
    <3>1. made' = c
      BY <2>1 DEF Construct
    <3> QED
      BY <1>1, <2>1, <3>1, ConstructedIs, KindsOf
  <2>2. \A s, r : ~Remove(s, r)
    BY <1>1 DEF Remove, None
  <2>3. \A s, r, ts : ~Modify(s, r, ts)
    BY <1>1 DEF Modify
  <2>4. ~MakeClear
    BY <1>1 DEF MakeClear, None
  <2> QED
    BY <1>1, <2>1, <2>2, <2>3, <2>4 DEF Next
<1>2. ASSUME Fine(timeline), NEW ts \in Drawn \cup Written, Add(ts), ~IsEmpty,
             ~(Size(timeline') > MaxSize), ~Mistaken(timeline'), ~Joins(timeline, ts),
             ~AnyWraps(timeline), ~Wraps(ts.spec)
      PROVE  Admits' = {e \in Admits : Satisfies(e, ts)}
  <2> DEFINE wl == WithSpec(timeline, ts)
             nl == Cleaned(wl)
             contradicts == \E r \in DOMAIN wl : Contradicts(wl[r], r)
             void == \E x \in AllSpecs(nl) : IsEmptySpec(x.spec)
  <2>1. timeline' = nl /\ (empty' <=> contradicts)
    BY <1>2 DEF Add, Becomes
  <2>2. Shaped(ts.spec) /\ ts.lo \in Steps /\ ts.hi \in Steps /\ ts.lo <= ts.hi
    BY DrawnShaped, WrittenShaped
  <2>3. Admits = {e \in Executions : \A x \in AllSpecs(timeline) : Satisfies(e, x)}
    BY <1>2 DEF Admits
  <2>4. IsEmpty' <=> contradicts \/ void
    BY <2>1 DEF IsEmpty
  <2>5. Admits' = IF contradicts \/ void THEN {}
                  ELSE {e \in Executions : \A x \in AllSpecs(nl) : Satisfies(e, x)}
    BY <2>1, <2>4 DEF Admits
  <2>6. \A x \in AllSpecs(timeline) : ~IsEmptySpec(x.spec)
    BY <1>2 DEF IsEmpty
  <2>7. ~Mistaken(nl)
    BY <1>2, <2>1
  <2>8. ASSUME NEW e \in Executions
        PROVE  (\A x \in AllSpecs(timeline) : Satisfies(e, x)) /\ Satisfies(e, ts)
                 <=> ~contradicts /\ ~void /\ \A x \in AllSpecs(nl) : Satisfies(e, x)
    BY <1>2, <2>2, <2>6, <2>7, AddMeans
  <2> HIDE DEF contradicts, void, nl
  <2> QED
    BY <2>3, <2>5, <2>8
<1>3. Fine(timeline) /\ MadeInv /\ [Next]_vars =>
        [made'.kind = "added" /\ ~IsEmpty
           /\ ~(Size(timeline') > MaxSize) /\ ~Mistaken(timeline') /\ ~Joins(timeline, made'.spec)
           /\ ~AnyWraps(timeline) /\ ~Wraps(made'.spec.spec) =>
         Admits' = {e \in Admits : Satisfies(e, made'.spec)}]_vars
  <2> SUFFICES ASSUME Fine(timeline), MadeInv, Next, made'.kind = "added", ~IsEmpty,
                      ~(Size(timeline') > MaxSize), ~Mistaken(timeline'), ~Joins(timeline, made'.spec),
                      ~AnyWraps(timeline), ~Wraps(made'.spec.spec)
               PROVE  Admits' = {e \in Admits : Satisfies(e, made'.spec)}
    OBVIOUS
  <2>1. PICK ts \in Drawn \cup Written : Add(ts)
    BY <1>1
  <2>2. made'.spec = ts
    BY <2>1 DEF Add
  <2> QED
    BY <1>2, <2>1, <2>2
<1> QED
  BY <1>3, TimelineFine, MadeInvariant, PTL DEF Spec, AddIsConjunction

(* Removing a spec ***********************************************************)

\* Nothing in an entry has queues left that the entry says are zero.
ZerosOut(b) == \A s \in BagToSet(b) : ~Affected(s, Zeros(b))

\* What is left of a Comp has none of the zeros, and makes no new one.
LEMMA PropagatedZeros ==
    ASSUME NEW s, Shaped(s), NEW zeros, NEW r, Affected(s, zeros)
    PROVE  LET d == Propagated(s, zeros, r)
           IN  ZeroQueues(d) = {} /\ NonZero(d, zeros) = d.lhs.queues
<1> DEFINE ps == NonZero(s, zeros)
           d == Propagated(s, zeros, r)
<1>1. s.kind = "comp" /\ ~IsZero(s)
  BY DEF Affected, IsComp
<1>2. PICK m \in Metrics, qs \in SUBSET Queues : IsShape(s, m, qs)
  BY <1>1 DEF Shaped
<1>3. s.lhs = Metric(m, qs) /\ s.lhs.metric = m /\ s.lhs.queues = qs /\ s.op \in Ops
  BY <1>2, Fields DEF IsShape
<1> DEFINE c0 == RawComp(Metric(m, ps), s.op, s.rhs)
           c == Normalized(c0)
           f == [kind |-> "comp", lhs |-> c.lhs, op |-> c.op, rhs |-> c.rhs,
                 is |-> "empty", in |-> r]
<1>4. d = IF c.is = "empty" THEN f ELSE c
  BY <1>3 DEF Propagated, Comp
<1>5. f.lhs = c.lhs /\ f.op = c.op /\ f.rhs = c.rhs
  OBVIOUS
<1>6. ps \subseteq qs /\ \A q \in ps : <<m, q>> \notin zeros
  BY <1>3 DEF NonZero
<1>7. ~(s.op = "LE" /\ s.rhs = Constant(0))
  <2>1. CASE qs = {}
    BY <1>3, <2>1 DEF Affected, NonZero
  <2>2. CASE qs # {}
    <3> SUFFICES ASSUME s.op = "LE", s.rhs = Constant(0) PROVE FALSE
      OBVIOUS
    <3>1. ZeroQueues(s) = {<<m, q>> : q \in qs}
      BY <1>1, <1>3 DEF ZeroQueues, IsComp, NonNegative
    <3> QED
      BY <1>1, <2>2, <3>1 DEF IsZero
  <2> QED
    BY <2>1, <2>2
<1> HIDE DEF f, ps
<1>8. c.lhs = Metric(m, ps) /\ ~(c.op = "LE" /\ c.rhs = Constant(0))
  <2>1. CASE \E v \in Int : s.rhs = Constant(v) /\ (s.op \in {"GT", "LT"} => v = 0)
    <3>1. PICK v \in Int : s.rhs = Constant(v) /\ (s.op \in {"GT", "LT"} => v = 0)
      BY <2>1
    <3>2. c = IF s.op = "GT" THEN RawComp(Metric(m, ps), "GE", Constant(Unsigned(v + 1)))
              ELSE IF s.op = "LT" THEN RawComp(Metric(m, ps), "LE", Constant(Unsigned(v - 1)))
              ELSE c0
      BY <1>3, <3>1, ConstantForm DEF Normalized
    <3>3. Unsigned(0 - 1) # 0
      BY IntIs DEF Unsigned
    <3>4. s.op = "LT" => Constant(Unsigned(v - 1)) # Constant(0)
      BY <3>1, <3>3 DEF Constant
    <3>5. c0.lhs = Metric(m, ps) /\ c0.op = s.op /\ c0.rhs = s.rhs
      BY Fields
    <3> HIDE DEF c, c0
    <3> QED
      BY <1>7, <3>2, <3>4, <3>5, Fields
  <2>2. CASE \E k \in Coeffs : s.rhs = Time(k)
    <3>1. PICK k \in Coeffs : s.rhs = Time(k)
      BY <2>2
    <3>2. c = IF TooFast(c0) THEN Flagged(c0, "empty") ELSE c0
      BY <1>3, <3>1, TimeForm
    <3>3. c.lhs = Metric(m, ps) /\ c.rhs = Time(k)
      BY <3>1, <3>2, Fields
    <3> QED
      BY <3>3, Fields
  <2> QED
    BY <1>2, <2>1, <2>2 DEF IsShape, IsNumber
<1>9. d.lhs = Metric(m, ps) /\ ~(d.op = "LE" /\ d.rhs = Constant(0))
  BY <1>4, <1>5, <1>8
<1> HIDE DEF c, d
<1>10. d.lhs.metric = m /\ d.lhs.queues = ps
  BY <1>9, Fields
<1> QED
  BY <1>6, <1>9, <1>10 DEF ZeroQueues, NonZero, d

\* Normalising an entry once takes all of its zeros out.
LEMMA EntryZerosOut ==
    ASSUME NEW b, \A s \in BagToSet(b) : Shaped(s), NEW r
    PROVE  ZerosOut(Entry(b, r))
<1> DEFINE E == Entry(b, r)
           zeros == Zeros(b)
<1>1. CASE Marked(b) # {}
  <2>1. PICK d \in Marked(b) : BagToSet(E) = {d}
    BY <1>1 DEF Entry, BagToSet, SetToBag
  <2>2. d.kind = "comp" /\ d.is = "empty" /\ Shaped(d)
    BY DEF Marked, IsEmptySpec, IsComp
  <2>3. d.rhs # Constant(0)
    BY <2>2, Fields DEF Shaped, IsShape
  <2>4. Zeros(E) = {}
    BY <2>1, <2>3 DEF Zeros, ZeroQueues
  <2>5. NonZero(d, {}) = d.lhs.queues
    BY DEF NonZero
  <2> QED
    BY <2>1, <2>4, <2>5 DEF ZerosOut, Affected
<1>2. CASE Marked(b) = {}
  <2>1. \A d \in BagToSet(E) : \E s \in BagToSet(b) : d = Propagated(s, zeros, r)
    BY <1>2, EntryHas
  <2>2. ASSUME NEW d \in BagToSet(E)
        PROVE  ZeroQueues(d) \subseteq zeros /\ ~Affected(d, zeros)
    <3>1. PICK s \in BagToSet(b) : d = Propagated(s, zeros, r)
      BY <2>1
    <3>2. CASE Affected(s, zeros)
      BY <3>1, <3>2, PropagatedZeros DEF Affected
    <3>3. CASE ~Affected(s, zeros)
      <4>1. d = s
        BY <3>1, <3>3 DEF Propagated
      <4> QED
        BY <3>3, <4>1 DEF Zeros
    <3> QED
      BY <3>2, <3>3
  <2>3. Zeros(E) \subseteq zeros
    BY <2>2 DEF Zeros
  <2> HIDE DEF E, zeros
  <2>4. ASSUME NEW d \in BagToSet(E) PROVE ~Affected(d, Zeros(E))
    <3>1. NonZero(d, zeros) = d.lhs.queues => NonZero(d, Zeros(E)) = d.lhs.queues
      BY <2>3 DEF NonZero
    <3> QED
      BY <2>2, <3>1 DEF Affected
  <2> QED
    BY <2>4 DEF ZerosOut, E
<1> QED
  BY <1>1, <1>2

\* ... and so does normalising a timeline.
LEMMA CleanedZerosOut ==
    ASSUME NEW tl, Fine(tl), NEW x \in DOMAIN Cleaned(tl)
    PROVE  ZerosOut(Cleaned(tl)[x])
<1>1. Fine(Cleaned(tl))
  BY CleanedFine
<1>2. x[1] \in Steps /\ Covers(x, x[1])
  BY <1>1, RangesAre, StepsAre DEF Fine, Covers
<1>3. PICK r \in DOMAIN tl : Covers(r, x[1])
  BY <1>2, AtIs
<1>4. Cleaned(tl)[x] = Entry(tl[r], r)
  BY <1>1, <1>2, <1>3, AtIs, CleanedAt
<1> QED
  BY <1>4, EntryZerosOut DEF Fine

TimelineZerosOut == \A r \in DOMAIN timeline : ZerosOut(timeline[r])

\* Every change leaves nothing with a zero of its entry.
LEMMA NextZerosOut == Fine(timeline) /\ TimelineZerosOut /\ [Next]_vars => TimelineZerosOut'
<1> SUFFICES ASSUME Fine(timeline), TimelineZerosOut, [Next]_vars
             PROVE  \A r \in DOMAIN timeline' : ZerosOut(timeline'[r])
  BY DEF TimelineZerosOut
<1> DEFINE Goal == \A r \in DOMAIN timeline' : ZerosOut(timeline'[r])
<1>1. ASSUME NEW ts \in Drawn \cup Written, Add(ts) PROVE Goal
  <2>1. Fine(WithSpec(timeline, ts)) /\ timeline' = Cleaned(WithSpec(timeline, ts))
    BY <1>1, DrawnShaped, WrittenShaped, StepsAre, WithSpecFine DEF Add, Becomes
  <2> QED
    BY <2>1, CleanedZerosOut
<1>2. ASSUME NEW s, NEW r, Remove(s, r) PROVE Goal
  BY <1>2, WithoutSpecFine, CleanedZerosOut DEF Remove, Becomes
<1>3. ASSUME NEW r \in DOMAIN timeline, NEW s \in BagToSet(timeline[r]),
             NEW ts \in Drawn \cup (Near \cap NeighborTimedSpecs(TimedOf(timeline, s, r))),
             Modify(s, r, ts)
      PROVE  Goal
  <2>1. Shaped(ts.spec) /\ ts.lo \in Int /\ ts.hi \in Int
    BY DrawnShaped, AddedShaped, StepsAre
  <2>2. timeline' = Cleaned(WithSpec(Cleaned(WithoutSpec(timeline, s, r)), ts))
    BY <1>3 DEF Modify, Becomes
  <2>3. Fine(WithSpec(Cleaned(WithoutSpec(timeline, s, r)), ts))
    BY <2>1, WithoutSpecFine, CleanedFine, WithSpecFine
  <2> QED
    BY <2>2, <2>3, CleanedZerosOut
<1>4. CASE MakeClear
  BY <1>4 DEF MakeClear, ZerosOut, BagToSet, EmptyBag, SetToBag
<1>5. CASE UNCHANGED timeline
  BY <1>5 DEF TimelineZerosOut
<1> QED
  BY <1>1, <1>2, <1>3, <1>4, <1>5 DEF Next, Construct, vars

\* After every change no Comp has a queue left that its entry says is zero:
\* the loop that takes them out (normalize, workload.cpp:1192-1336) is done
\* after one pass, for that makes no new zero.
THEOREM WorkloadZerosTakenOut ==
    Spec => [](\A r \in DOMAIN timeline : \A s \in BagToSet(timeline[r]) :
                   ~Affected(s, Zeros(timeline[r])))
<1>1. Init => TimelineZerosOut
  BY DEF Init, Clear, TimelineZerosOut, ZerosOut, BagToSet, EmptyBag, SetToBag
<1>2. Fine(timeline) /\ TimelineZerosOut /\ [Next]_vars => TimelineZerosOut'
  BY NextZerosOut
<1>3. Spec => []TimelineZerosOut
  BY <1>1, <1>2, TimelineFine, PTL DEF Spec
<1>4. TimelineZerosOut => \A r \in DOMAIN timeline : \A s \in BagToSet(timeline[r]) :
                              ~Affected(s, Zeros(timeline[r]))
  BY DEF TimelineZerosOut, ZerosOut
<1> QED
  BY <1>3, <1>4, PTL

\* A timeline with nothing more in any step asks for no more.
LEMMA PartMeans ==
    ASSUME NEW tl, Fine(tl), \A x \in AllSpecs(tl) : ~IsEmptySpec(x.spec),
           NEW ul, Fine(ul),
           \A t \in Steps : BagToSet(At(ul, t)) \subseteq BagToSet(At(tl, t)),
           NEW e \in Executions, \A x \in AllSpecs(tl) : Satisfies(e, x)
    PROVE  \A x \in AllSpecs(ul) : Satisfies(e, x)
<1>1. (\A t \in Steps : HoldsAt(At(tl, t), e, t)) /\ RunsHold(tl, e)
  BY SpecsMean
<1>2. \A t \in Steps : HoldsAt(At(ul, t), e, t)
  BY <1>1 DEF HoldsAt
<1>3. RunsHold(ul, e)
  <2> SUFFICES ASSUME NEW s, ~IsComp(s), NEW lo \in Steps, NEW hi \in Steps, lo <= hi,
                      \A t \in lo .. hi : s \in BagToSet(At(ul, t))
               PROVE  EncodedOver(s, e, lo, hi)
    BY DEF RunsHold
  <2>1. \A t \in lo .. hi : t \in Steps
    BY StepsAre
  <2>2. \A t \in lo .. hi : s \in BagToSet(At(tl, t))
    BY <2>1
  <2> QED
    BY <1>1, <2>2 DEF RunsHold
<1>4. \A x \in AllSpecs(ul) : ~IsEmptySpec(x.spec)
  <2> SUFFICES ASSUME NEW x \in AllSpecs(ul) PROVE ~IsEmptySpec(x.spec)
    OBVIOUS
  <2>1. PICK r \in DOMAIN ul : \E s \in BagToSet(ul[r]) : x = TimedOf(ul, s, r)
    BY DEF AllSpecs
  <2>2. x.spec \in BagToSet(ul[r])
    BY <2>1 DEF TimedOf, Timed
  <2>3. r[1] \in Steps /\ Covers(r, r[1])
    BY RangesAre, StepsAre DEF Fine, Covers
  <2>4. x.spec \in BagToSet(At(tl, r[1]))
    BY <2>2, <2>3, AtIs
  <2>5. PICK u \in DOMAIN tl : At(tl, r[1]) = tl[u]
    BY <2>3, AtIs
  <2>6. TimedOf(tl, x.spec, u) \in AllSpecs(tl) /\ TimedOf(tl, x.spec, u).spec = x.spec
    BY <2>4, <2>5 DEF AllSpecs, TimedOf, Timed
  <2> QED
    BY <2>6
<1> QED
  BY <1>2, <1>3, <1>4, SpecsMean

\* Erasing a spec from normalised entries leaves nothing to normalise: the
\* steps keep what they have but the spec, and nothing is impossible.
LEMMA RemoveMeans ==
    ASSUME NEW tl, Fine(tl), \A x \in AllSpecs(tl) : ~IsEmptySpec(x.spec),
           \A u \in DOMAIN tl : ZerosOut(tl[u]), NEW s, NEW r
    PROVE  LET wl == WithoutSpec(tl, s, r)
           IN  /\ ~ \E y \in DOMAIN wl : Contradicts(wl[y], y)
               /\ \A t \in Steps : BagToSet(At(Cleaned(wl), t)) \subseteq BagToSet(At(tl, t))
               /\ \A x \in AllSpecs(Cleaned(wl)) : ~IsEmptySpec(x.spec)
<1> DEFINE wl == WithoutSpec(tl, s, r)
           nl == Cleaned(wl)
<1>1. Fine(wl) /\ Fine(nl)
  BY WithoutSpecFine, CleanedFine
<1>2. DOMAIN wl = DOMAIN tl /\ \A y \in DOMAIN tl : BagToSet(wl[y]) \subseteq BagToSet(tl[y])
  <2> DEFINE x == Extent(tl, s, r)
             erased(y) == IF Kept(s) THEN x[1] <= y[1] /\ y[2] <= x[2] ELSE y = r
             ul == [y \in DOMAIN tl |-> IF erased(y) THEN tl[y] (-) SetToBag({s}) ELSE tl[y]]
  <2>1. wl = ul
    BY DEF WithoutSpec
  <2>2. \A b, c : BagToSet(b (-) c) \subseteq BagToSet(b)
    BY DEF BagToSet, (-)
  <2> HIDE DEF erased, wl
  <2> QED
    BY <2>1, <2>2
<1> HIDE DEF wl
<1>3. ASSUME NEW u \in DOMAIN tl, NEW z \in BagToSet(tl[u]) PROVE ~IsEmptySpec(z)
  <2>1. TimedOf(tl, z, u) \in AllSpecs(tl)
    BY DEF AllSpecs
  <2>2. TimedOf(tl, z, u).spec = z
    BY DEF TimedOf, Timed
  <2> QED
    BY <2>1, <2>2
<1>4. ASSUME NEW y \in DOMAIN wl, NEW z \in BagToSet(wl[y])
      PROVE  ~IsEmptySpec(z) /\ ~Affected(z, Zeros(wl[y]))
  <2>1. y \in DOMAIN tl /\ z \in BagToSet(tl[y])
    BY <1>2
  <2>2. Zeros(wl[y]) \subseteq Zeros(tl[y])
    BY <1>2 DEF Zeros
  <2>3. NonZero(z, Zeros(tl[y])) = z.lhs.queues => NonZero(z, Zeros(wl[y])) = z.lhs.queues
    BY <2>2 DEF NonZero
  <2> QED
    BY <1>3, <2>1, <2>3 DEF ZerosOut, Affected
<1>5. ASSUME NEW y \in DOMAIN wl
      PROVE  /\ Marked(wl[y]) = {} /\ ~Contradicts(wl[y], y)
             /\ BagToSet(Entry(wl[y], y)) \subseteq BagToSet(wl[y])
  <2>1. Marked(wl[y]) = {}
    BY <1>4 DEF Marked
  <2>2. ~Contradicts(wl[y], y)
    BY <1>4 DEF Contradicts, Impossible, Drops
  <2>3. \A d \in BagToSet(Entry(wl[y], y)) :
            \E z \in BagToSet(wl[y]) : d = Propagated(z, Zeros(wl[y]), y)
    BY <2>1, EntryHas
  <2>4. \A z \in BagToSet(wl[y]) : Propagated(z, Zeros(wl[y]), y) = z
    BY <1>4 DEF Propagated
  <2> QED
    BY <2>1, <2>2, <2>3, <2>4
<1> HIDE DEF nl
<1>6. ASSUME NEW t \in Steps, NEW z \in BagToSet(At(nl, t))
      PROVE  z \in BagToSet(At(tl, t)) /\ ~IsEmptySpec(z)
  <2>1. PICK y \in DOMAIN wl : Covers(y, t)
    BY <1>1, AtIs
  <2>2. At(nl, t) = Entry(wl[y], y)
    BY <1>1, <2>1, CleanedAt DEF nl
  <2>3. At(tl, t) = tl[y] /\ y \in DOMAIN tl
    BY <1>2, <2>1, AtIs
  <2> QED
    BY <1>2, <1>4, <1>5, <1>6, <2>2, <2>3
<1>7. ASSUME NEW x \in AllSpecs(nl) PROVE ~IsEmptySpec(x.spec)
  <2>1. PICK y \in DOMAIN nl : \E z \in BagToSet(nl[y]) : x = TimedOf(nl, z, y)
    BY DEF AllSpecs
  <2>2. x.spec \in BagToSet(nl[y])
    BY <2>1 DEF TimedOf, Timed
  <2>3. y[1] \in Steps /\ Covers(y, y[1])
    BY <1>1, RangesAre, StepsAre DEF Fine, Covers
  <2>4. At(nl, y[1]) = nl[y]
    BY <1>1, <2>3, AtIs
  <2> QED
    BY <1>6, <2>2, <2>3, <2>4
<1> QED
  BY <1>5, <1>6, <1>7 DEF wl, nl

TimelineZerosKept == Fine(timeline) /\ TimelineZerosOut

\* So it is always, in a timeline of specs with their shape.
LEMMA TimelineZerosInvariant == Spec => []TimelineZerosKept
<1>1. Spec => [](\A r \in DOMAIN timeline : \A s \in BagToSet(timeline[r]) :
                     ~Affected(s, Zeros(timeline[r])))
  BY WorkloadZerosTakenOut
<1>2. Fine(timeline) /\ (\A r \in DOMAIN timeline : \A s \in BagToSet(timeline[r]) :
                            ~Affected(s, Zeros(timeline[r])))
        => TimelineZerosKept
  BY DEF TimelineZerosKept, TimelineZerosOut, ZerosOut
<1> QED
  BY <1>1, <1>2, TimelineFine, PTL

\* Removing a spec (Workload::rm_spec, workload.cpp:964-977) only widens what
\* the workload admits, though the specs that are left were rewritten while
\* it was there; unless the rest is too much, which makes it empty.
THEOREM WorkloadRemoveWeakens ==
    Spec => [][\A r \in DOMAIN timeline : \A s \in BagToSet(timeline[r]) :
                  Remove(s, r) /\ ~(Size(timeline') > MaxSize) => Admits \subseteq Admits']_vars
<1>1. ASSUME TimelineZerosKept, NEW r \in DOMAIN timeline, NEW s \in BagToSet(timeline[r]),
             Remove(s, r), ~(Size(timeline') > MaxSize)
      PROVE  Admits \subseteq Admits'
  <2> DEFINE wl == WithoutSpec(timeline, s, r)
             nl == Cleaned(wl)
  <2>1. timeline' = nl /\ (empty' <=> \E y \in DOMAIN wl : Contradicts(wl[y], y)) /\ ~IsEmpty
    BY <1>1 DEF Remove, Becomes
  <2>2. /\ Fine(timeline) /\ \A u \in DOMAIN timeline : ZerosOut(timeline[u])
        /\ \A x \in AllSpecs(timeline) : ~IsEmptySpec(x.spec)
    BY <1>1, <2>1 DEF TimelineZerosKept, TimelineZerosOut, IsEmpty
  <2>3. /\ ~ \E y \in DOMAIN wl : Contradicts(wl[y], y)
        /\ \A t \in Steps : BagToSet(At(nl, t)) \subseteq BagToSet(At(timeline, t))
        /\ \A x \in AllSpecs(nl) : ~IsEmptySpec(x.spec)
    BY <2>2, RemoveMeans
  <2>4. Fine(nl)
    BY <2>2, WithoutSpecFine, CleanedFine
  <2> HIDE DEF wl, nl
  <2>5. ~IsEmpty'
    BY <2>1, <2>3 DEF IsEmpty
  <2>6. Admits' = {e \in Executions : \A x \in AllSpecs(nl) : Satisfies(e, x)}
    BY <2>1, <2>5 DEF Admits
  <2>7. Admits = {e \in Executions : \A x \in AllSpecs(timeline) : Satisfies(e, x)}
    BY <2>1 DEF Admits
  <2>8. ASSUME NEW e \in Executions, \A x \in AllSpecs(timeline) : Satisfies(e, x)
        PROVE  \A x \in AllSpecs(nl) : Satisfies(e, x)
    BY <2>2, <2>3, <2>4, <2>8, PartMeans
  <2> QED
    BY <2>6, <2>7, <2>8
<1>2. TimelineZerosKept /\ [Next]_vars =>
        [\A r \in DOMAIN timeline : \A s \in BagToSet(timeline[r]) :
            Remove(s, r) /\ ~(Size(timeline') > MaxSize) => Admits \subseteq Admits']_vars
  BY <1>1
<1> QED
  BY <1>2, TimelineZerosInvariant, PTL DEF Spec

\* Putting a spec in place of another (mod_spec, workload.cpp:979-984) loses
\* no execution that the workload admits and the new spec does: what is
\* erased and what is added are normalised one after the other.
THEOREM WorkloadModifyKeeps ==
    Spec => [][\A r \in DOMAIN timeline : \A s \in BagToSet(timeline[r]) :
               \A ts \in Drawn \cup (Near \cap NeighborTimedSpecs(TimedOf(timeline, s, r))) :
                  /\ Modify(s, r, ts)
                  /\ ~(Size(timeline') > MaxSize) /\ ~Mistaken(timeline')
                  /\ ~Joins(Cleaned(WithoutSpec(timeline, s, r)), ts)
                  /\ ~AnyWraps(timeline) /\ ~Wraps(ts.spec)
                  => {e \in Admits : Satisfies(e, ts)} \subseteq Admits']_vars
<1>1. ASSUME TimelineZerosKept, NEW r \in DOMAIN timeline, NEW s \in BagToSet(timeline[r]),
             NEW ts \in Drawn \cup (Near \cap NeighborTimedSpecs(TimedOf(timeline, s, r))),
             Modify(s, r, ts), ~(Size(timeline') > MaxSize), ~Mistaken(timeline'),
             ~Joins(Cleaned(WithoutSpec(timeline, s, r)), ts),
             ~AnyWraps(timeline), ~Wraps(ts.spec)
      PROVE  {e \in Admits : Satisfies(e, ts)} \subseteq Admits'
  <2> DEFINE ml == Cleaned(WithoutSpec(timeline, s, r))
             wl == WithSpec(ml, ts)
             nl == Cleaned(wl)
             contradicts == \E y \in DOMAIN wl : Contradicts(wl[y], y)
             void == \E x \in AllSpecs(nl) : IsEmptySpec(x.spec)
  <2>1. timeline' = nl /\ (empty' <=> contradicts) /\ ~IsEmpty
    BY <1>1 DEF Modify, Becomes
  <2>2. /\ Fine(timeline) /\ \A u \in DOMAIN timeline : ZerosOut(timeline[u])
        /\ \A x \in AllSpecs(timeline) : ~IsEmptySpec(x.spec)
    BY <1>1, <2>1 DEF TimelineZerosKept, TimelineZerosOut, IsEmpty
  <2>3. /\ \A t \in Steps : BagToSet(At(ml, t)) \subseteq BagToSet(At(timeline, t))
        /\ \A x \in AllSpecs(ml) : ~IsEmptySpec(x.spec)
    BY <2>2, RemoveMeans
  <2>4. Fine(ml)
    BY <2>2, WithoutSpecFine, CleanedFine
  <2>5. Shaped(ts.spec) /\ ts.lo \in Steps /\ ts.hi \in Steps /\ ts.lo <= ts.hi
    BY <2>2, DrawnShaped, AddedShaped
  <2> HIDE DEF ml
  <2>6. ~AnyWraps(ml)
    <3> SUFFICES ASSUME NEW y \in DOMAIN ml, NEW z \in BagToSet(ml[y]) PROVE ~Wraps(z)
      BY DEF AnyWraps
    <3>1. y[1] \in Steps /\ Covers(y, y[1])
      BY <2>4, RangesAre, StepsAre DEF Fine, Covers
    <3>2. z \in BagToSet(At(timeline, y[1]))
      BY <2>3, <2>4, <3>1, AtIs
    <3>3. PICK u \in DOMAIN timeline : At(timeline, y[1]) = timeline[u]
      BY <2>2, <3>1, AtIs
    <3> QED
      BY <1>1, <3>2, <3>3 DEF AnyWraps
  <2>7. ~Mistaken(nl) /\ ~Joins(ml, ts)
    BY <1>1, <2>1 DEF ml
  <2>8. ASSUME NEW e \in Executions
        PROVE  (\A x \in AllSpecs(ml) : Satisfies(e, x)) /\ Satisfies(e, ts)
                 <=> ~contradicts /\ ~void /\ \A x \in AllSpecs(nl) : Satisfies(e, x)
    BY <1>1, <2>3, <2>4, <2>5, <2>6, <2>7, AddMeans
  <2>9. ASSUME NEW e \in Executions, \A x \in AllSpecs(timeline) : Satisfies(e, x)
        PROVE  \A x \in AllSpecs(ml) : Satisfies(e, x)
    BY <2>2, <2>3, <2>4, <2>9, PartMeans
  <2>10. Admits = {e \in Executions : \A x \in AllSpecs(timeline) : Satisfies(e, x)}
    BY <2>1 DEF Admits
  <2>11. IsEmpty' <=> contradicts \/ void
    BY <2>1 DEF IsEmpty
  <2>12. Admits' = IF contradicts \/ void THEN {}
                   ELSE {e \in Executions : \A x \in AllSpecs(nl) : Satisfies(e, x)}
    BY <2>1, <2>11 DEF Admits
  <2> HIDE DEF contradicts, void, nl
  <2> QED
    BY <2>8, <2>9, <2>10, <2>12
<1>2. TimelineZerosKept /\ [Next]_vars =>
        [\A r \in DOMAIN timeline : \A s \in BagToSet(timeline[r]) :
         \A ts \in Drawn \cup (Near \cap NeighborTimedSpecs(TimedOf(timeline, s, r))) :
            /\ Modify(s, r, ts)
            /\ ~(Size(timeline') > MaxSize) /\ ~Mistaken(timeline')
            /\ ~Joins(Cleaned(WithoutSpec(timeline, s, r)), ts)
            /\ ~AnyWraps(timeline) /\ ~Wraps(ts.spec)
            => {e \in Admits : Satisfies(e, ts)} \subseteq Admits']_vars
  BY <1>1
<1> QED
  BY <1>2, TimelineZerosInvariant, PTL DEF Spec
===============================================================================
