---------------------------- MODULE LoomNICProofs ----------------------------
(***************************************************************************)
(* For any number of cores and any load: slots are filled in order, the    *)
(* NIC is work conserving, and it neither loses nor doubles packets but    *)
(* where PacketsKept says so.                                              *)
(*                                                                         *)
(* A loop over slots or cores is followed round by round (UpTo).  NICInv   *)
(* relates the queues of one step along the chain of modules; KeptInv      *)
(* counts, per core and class, what the queues hold before and after a     *)
(* step.                                                                   *)
(***************************************************************************)
EXTENDS LoomNIC, SequenceTheorems, FiniteSetTheorems, WellFoundedInduction, TLAPS

(* Minima and loops **********************************************************)

\* A non-empty set of naturals has a least element.
LEMMA LeastNumberExists ==
    ASSUME NEW T \in SUBSET Nat, T # {}
    PROVE  \E x \in T : \A y \in T : x <= y
<1>1. PICK x \in T : \A y \in T : <<y, x>> \notin OpToRel(<, Nat)
  BY NatLessThanWellFounded, WFMin
<1>2. ASSUME NEW y \in T, y < x PROVE <<y, x>> \in OpToRel(<, Nat)
  BY <1>2 DEF OpToRel
<1>3. ASSUME NEW y \in T PROVE ~(y < x)
  BY <1>1, <1>2
<1>4. ASSUME NEW y \in T PROVE x <= y
  BY <1>3
<1> QED
  BY <1>4

\* It is what Min gives.
LEMMA MinIsLeast ==
    ASSUME NEW T \in SUBSET Nat, T # {}
    PROVE  Min(T) \in T /\ \A y \in T : Min(T) <= y
<1>1. \E x \in T : \A y \in T : x =< y
  BY LeastNumberExists
<1> QED
  BY <1>1 DEF Min

\* The smaller of two numbers.
LEMMA MinOfTwo ==
    ASSUME NEW a \in Nat, NEW b \in Nat
    PROVE  Min({a, b}) = IF a <= b THEN a ELSE b
<1>1. Min({a, b}) \in {a, b} /\ \A y \in {a, b} : Min({a, b}) <= y
  BY MinIsLeast
<1> QED
  BY <1>1

\* What holds of the first round and passes from each round to the next holds
\* of all.
LEMMA UpTo ==
    ASSUME NEW m \in Nat, NEW S, 0 \in S, \A n \in 0 .. m - 1 : n \in S => n + 1 \in S
    PROVE  \A n \in 0 .. m : n \in S
<1> DEFINE T == {n \in 0 .. m : n \notin S}
<1> SUFFICES ASSUME T # {} PROVE FALSE
  OBVIOUS
<1>1. PICK k \in T : \A n \in T : k <= n
  <2>1. T \in SUBSET Nat
    OBVIOUS
  <2> QED
    BY <2>1, LeastNumberExists
<1>2. k - 1 \in 0 .. m - 1 /\ k - 1 \notin T /\ (k - 1) + 1 = k
  BY <1>1
<1> QED
  BY <1>2

(* Slots *********************************************************************)

\* What slot i adds to the slots s before it.
WithSlot(valid, i, s) ==
    LET open == {j \in valid : j >= i - 1 /\ j \notin Range(s)}
    IN  IF open = {} THEN s ELSE Append(s, Min(open))

\* f[i] is what the first i slots hold.
Fills(f, valid, n) ==
    f = [i \in 0 .. n |-> IF i = 0 THEN <<>> ELSE WithSlot(valid, i, f[i - 1])]

\* The recursion in Taken fills one slot after the other.
LEMMA TakenFills ==
    ASSUME NEW valid, NEW n \in Nat
    PROVE  \E f : Fills(f, valid, n) /\ Taken(valid, n) = f[n]
<1> DEFINE S == {k \in 0 .. n : \E f : Fills(f, valid, k)}
<1>1. 0 \in S
  <2>1. Fills([i \in 0 .. 0 |-> <<>>], valid, 0)
    BY DEF Fills
  <2> QED
    BY <2>1
<1>2. ASSUME NEW k \in 0 .. n - 1, k \in S PROVE k + 1 \in S
  <2>1. PICK f : Fills(f, valid, k)
    BY <1>2
  <2> DEFINE h == [i \in 0 .. k + 1 |->
                     IF i = k + 1 THEN WithSlot(valid, k + 1, f[k]) ELSE f[i]]
  <2>2. ASSUME NEW i \in 0 .. k + 1
        PROVE  h[i] = IF i = 0 THEN <<>> ELSE WithSlot(valid, i, h[i - 1])
    <3>1. CASE i = k + 1
      <4>1. k \in 0 .. k + 1 /\ k # k + 1 /\ i # 0 /\ i - 1 = k
        BY <3>1
      <4>2. h[k] = f[k] /\ h[i] = WithSlot(valid, k + 1, f[k])
        BY <3>1, <4>1
      <4> HIDE DEF h
      <4> QED
        BY <3>1, <4>1, <4>2
    <3>2. CASE i # k + 1
      <4>1. i \in 0 .. k /\ h[i] = f[i]
        BY <3>2
      <4>2. i # 0 => i - 1 \in 0 .. k + 1 /\ i - 1 # k + 1 /\ h[i - 1] = f[i - 1]
        BY <4>1
      <4>3. f[i] = IF i = 0 THEN <<>> ELSE WithSlot(valid, i, f[i - 1])
        BY <2>1, <4>1 DEF Fills
      <4> HIDE DEF h
      <4> QED
        BY <4>1, <4>2, <4>3
    <3> QED
      BY <3>1, <3>2
  <2>3. Fills(h, valid, k + 1)
    <3>1. h = [i \in 0 .. k + 1 |-> h[i]]
      OBVIOUS
    <3> HIDE DEF h
    <3> QED
      BY <2>2, <3>1 DEF Fills
  <2> HIDE DEF h
  <2> QED
    BY <2>3
<1> HIDE DEF S
<1>3. n \in S
  <2>1. \A k \in 0 .. n : k \in S
    BY <1>1, <1>2, UpTo
  <2> QED
    BY <2>1
<1> DEFINE taken == CHOOSE f : Fills(f, valid, n)
<1>4. Fills(taken, valid, n)
  BY <1>3 DEF S
<1>5. Taken(valid, n) = taken[n]
  BY DEF Taken, Fills, WithSlot
<1> HIDE DEF taken
<1> QED
  BY <1>4, <1>5

\* How many of the numbers in S are smaller.
Rank(S, u) == Cardinality({x \in S : x < u})

\* Greater numbers have greater ranks, and there are no more ranks than numbers.
LEMMA RanksGrow ==
    ASSUME NEW S \in SUBSET Nat, IsFiniteSet(S)
    PROVE  /\ Cardinality(S) \in Nat
           /\ \A u \in S : Rank(S, u) \in 0 .. Cardinality(S) - 1 /\ Rank(S, u) <= u
           /\ \A u, w \in S : u < w => Rank(S, u) < Rank(S, w)
<1>0. Cardinality(S) \in Nat
  BY FS_CardinalityType
<1>1. ASSUME NEW u \in S
      PROVE  Rank(S, u) \in 0 .. Cardinality(S) - 1 /\ Rank(S, u) <= u
  <2> DEFINE T == {x \in S : x < u}
  <2>1. T \in SUBSET S /\ u \notin T /\ T # S /\ IsFiniteSet(T)
    BY FS_Subset
  <2>2. Cardinality(T) \in Nat /\ Cardinality(T) <= Cardinality(S)
    BY <2>1, FS_Subset, FS_CardinalityType
  <2>3. Cardinality(T) # Cardinality(S)
    BY <2>1, FS_Subset
  <2>4. Cardinality(T) <= u
    <3>1. T \in SUBSET (0 .. u - 1) /\ u \in Nat
      <4>1. u \in Nat
        OBVIOUS
      <4>2. ASSUME NEW x \in T PROVE x \in 0 .. u - 1
        <5>1. x \in S /\ x < u
          OBVIOUS
        <5>2. x \in Nat
          BY <5>1
        <5> QED
          BY <4>1, <5>1, <5>2
      <4> QED
        BY <4>1, <4>2
    <3>2. IsFiniteSet(0 .. u - 1) /\ Cardinality(0 .. u - 1) = u
      BY <3>1, FS_Interval
    <3> QED
      BY <3>1, <3>2, FS_Subset
  <2> QED
    BY <1>0, <2>2, <2>3, <2>4 DEF Rank
<1>2. ASSUME NEW u \in S, NEW w \in S, u < w PROVE Rank(S, u) < Rank(S, w)
  <2> DEFINE T == {x \in S : x < u}
             U == {x \in S : x < w}
  <2>1. T \in SUBSET U /\ T # U /\ IsFiniteSet(U)
    <3>0. \A x \in S : x \in Nat
      OBVIOUS
    <3>1. u \in U /\ u \notin T
      BY <1>2, <3>0
    <3>2. U \in SUBSET S /\ T \in SUBSET U
      <4>1. ASSUME NEW x \in T PROVE x \in U
        <5>1. x \in Nat /\ u \in Nat /\ w \in Nat /\ x \in S /\ x < u
          BY <3>0
        <5> QED
          BY <1>2, <5>1
      <4> QED
        BY <4>1
    <3> QED
      BY <3>1, <3>2, FS_Subset
  <2>2. Cardinality(T) <= Cardinality(U) /\ Cardinality(T) # Cardinality(U)
    BY <2>1, FS_Subset
  <2>3. Cardinality(T) \in Nat /\ Cardinality(U) \in Nat
    BY <2>1, FS_Subset, FS_CardinalityType
  <2> QED
    BY <2>2, <2>3 DEF Rank
<1> QED
  BY <1>0, <1>1, <1>2

\* The first i slots hold the smallest candidates, in order.
Filled(s, valid, i) ==
    /\ s \in Seq(valid)
    /\ Len(s) = IF i <= Cardinality(valid) THEN i ELSE Cardinality(valid)
    /\ \A p \in 1 .. Len(s) : Rank(valid, s[p]) = p - 1

\* The next slot gets the smallest candidate that is left.
LEMMA WithSlotFilled ==
    ASSUME NEW valid \in SUBSET Nat, IsFiniteSet(valid), NEW i \in Nat \ {0},
           NEW s, Filled(s, valid, i - 1)
    PROVE  Filled(WithSlot(valid, i, s), valid, i)
<1> DEFINE open == {j \in valid : j >= i - 1 /\ j \notin Range(s)}
           n == Cardinality(valid)
<1>1. /\ n \in Nat /\ s \in Seq(valid) /\ Len(s) \in Nat
      /\ Len(s) = IF i - 1 <= n THEN i - 1 ELSE n
      /\ \A p \in 1 .. Len(s) : Rank(valid, s[p]) = p - 1 /\ s[p] \in valid
      /\ Range(s) = {s[p] : p \in 1 .. Len(s)}
  BY RanksGrow, LenProperties, ElementOfSeq DEF Filled, Range
<1>2. /\ \A u \in valid : Rank(valid, u) \in 0 .. n - 1 /\ Rank(valid, u) <= u
      /\ \A u, w \in valid : u < w => Rank(valid, u) < Rank(valid, w)
  BY RanksGrow
<1>n. \A u \in valid : u \in Nat /\ Rank(valid, u) \in Int
  BY <1>1, <1>2
<1>3. ASSUME NEW j \in valid PROVE j \in Range(s) <=> Rank(valid, j) < Len(s)
  <2>1. ASSUME j \in Range(s) PROVE Rank(valid, j) < Len(s)
    BY <1>1, <2>1
  <2>2. ASSUME Rank(valid, j) < Len(s) PROVE j \in Range(s)
    <3> DEFINE p == Rank(valid, j) + 1
    <3>1. p \in 1 .. Len(s) /\ Rank(valid, j) = p - 1
      BY <1>1, <1>2, <2>2
    <3>2. Rank(valid, s[p]) = Rank(valid, j) /\ s[p] \in valid
      BY <1>1, <3>1
    <3>3. s[p] = j
      <4>1. s[p] \in Nat /\ j \in Nat /\ Rank(valid, j) \in Int
        BY <1>n, <3>2
      <4>2. ~(s[p] < j) /\ ~(j < s[p])
        BY <1>2, <3>2, <4>1
      <4> QED
        BY <4>1, <4>2
    <3> QED
      BY <1>1, <3>1, <3>3
  <2> QED
    BY <2>1, <2>2
<1>4. CASE n <= i - 1
  <2>1. Len(s) = n
    BY <1>1, <1>4
  <2>2. open = {}
    <3>1. \A j \in valid : Rank(valid, j) < Len(s)
      BY <1>1, <1>2, <2>1
    <3> QED
      BY <1>3, <3>1
  <2>3. WithSlot(valid, i, s) = s
    BY <2>2 DEF WithSlot
  <2> QED
    BY <1>1, <1>4, <2>1, <2>3 DEF Filled
<1>5. CASE i <= n
  <2>1. Len(s) = i - 1
    BY <1>1, <1>5
  <2>2. open = {j \in valid : Rank(valid, j) >= i - 1}
    <3>1. ASSUME NEW j \in valid
          PROVE  j \in open <=> Rank(valid, j) >= i - 1
      <4>1. j \in Nat /\ Rank(valid, j) \in Int /\ Rank(valid, j) <= j
        BY <1>2, <1>n
      <4>2. j \notin Range(s) <=> Rank(valid, j) >= i - 1
        BY <1>3, <2>1, <4>1
      <4> QED
        BY <4>1, <4>2
    <3> QED
      BY <3>1
  <2>3. /\ IsFiniteSet(Range(s)) /\ Cardinality(Range(s)) = i - 1
        /\ Range(s) \in SUBSET valid
    <3> DEFINE f == [p \in 1 .. i - 1 |-> s[p]]
    <3>1. f \in Surjection(1 .. i - 1, Range(s))
      BY <1>1, <2>1 DEF Surjection
    <3>2. f \in Injection(1 .. i - 1, Range(s))
      <4>1. ASSUME NEW p \in 1 .. i - 1, NEW q \in 1 .. i - 1, f[p] = f[q] PROVE p = q
        <5>1. p - 1 = q - 1
          BY <1>1, <2>1, <4>1
        <5> QED
          BY <5>1
      <4> QED
        BY <3>1, <4>1 DEF Injection, IsInjective, Surjection
    <3>3. IsFiniteSet(1 .. i - 1) /\ Cardinality(1 .. i - 1) = i - 1
      BY FS_Interval
    <3> HIDE DEF f
    <3> QED
      BY <1>1, <3>1, <3>2, <3>3, FS_Surjection
  <2>4. open # {}
    <3> SUFFICES ASSUME open = {} PROVE FALSE
      OBVIOUS
    <3>1. \A j \in valid : j \in Range(s)
      BY <1>2, <1>3, <2>1, <2>2
    <3>2. Range(s) = valid
      BY <2>3, <3>1
    <3>3. n = i - 1
      BY <2>3, <3>2
    <3> QED
      BY <1>1, <1>5, <3>3
  <2> DEFINE m == Min(open)
  <2>5. m \in open /\ \A y \in open : m <= y
    <3>1. open \in SUBSET Nat
      OBVIOUS
    <3> HIDE DEF open
    <3> QED
      BY <2>4, <3>1, MinIsLeast
  <2> HIDE DEF m
  <2>6. {x \in valid : x < m} = Range(s)
    <3>1. m \in valid /\ m \in Nat /\ Rank(valid, m) >= i - 1
      BY <2>2, <2>5
    <3>2. ASSUME NEW x \in valid, x < m PROVE x \in Range(s)
      <4>1. x \notin open
        BY <2>5, <3>1, <3>2
      <4> QED
        BY <1>2, <1>3, <2>1, <2>2, <4>1
    <3>3. ASSUME NEW x \in Range(s) PROVE x \in valid /\ x < m
      <4>1. x \in valid /\ Rank(valid, x) < i - 1
        BY <1>3, <2>1, <2>3, <3>3
      <4>2. x \in Nat /\ Rank(valid, x) \in Int /\ Rank(valid, m) \in Int
        BY <1>2, <3>1, <4>1
      <4>3. x # m /\ ~(m < x)
        BY <1>2, <3>1, <4>1, <4>2
      <4> QED
        BY <3>1, <4>1, <4>2, <4>3
    <3> QED
      BY <3>2, <3>3
  <2>7. Rank(valid, m) = i - 1
    BY <2>3, <2>6 DEF Rank
  <2>8. WithSlot(valid, i, s) = Append(s, m)
    BY <2>4 DEF WithSlot, m
  <2>9. /\ Append(s, m) \in Seq(valid) /\ Len(Append(s, m)) = i
        /\ \A p \in 1 .. i - 1 : Append(s, m)[p] = s[p]
        /\ Append(s, m)[i] = m
    BY <1>1, <2>1, <2>5, AppendProperties
  <2>10. ASSUME NEW p \in 1 .. i PROVE Rank(valid, Append(s, m)[p]) = p - 1
    <3>1. CASE p = i
      BY <2>7, <2>9, <3>1
    <3>2. CASE p # i
      BY <1>1, <2>1, <2>9, <3>2
    <3> QED
      BY <3>1, <3>2
  <2> QED
    BY <1>5, <2>8, <2>9, <2>10 DEF Filled
<1> QED
  BY <1>1, <1>4, <1>5

\* However many slots there are, they hold the smallest candidates, in order.
LEMMA TakenInOrder ==
    ASSUME NEW valid \in SUBSET Nat, IsFiniteSet(valid), NEW n \in Nat
    PROVE  Filled(Taken(valid, n), valid, n)
<1>1. PICK f : Fills(f, valid, n) /\ Taken(valid, n) = f[n]
  BY TakenFills
<1> DEFINE S == {i \in 0 .. n : Filled(f[i], valid, i)}
<1>2. 0 \in S
  <2>1. f[0] = <<>>
    BY <1>1 DEF Fills
  <2>2. <<>> \in Seq(valid) /\ Len(<<>>) = 0
    OBVIOUS
  <2>3. Filled(<<>>, valid, 0)
    BY <2>2, RanksGrow DEF Filled
  <2> QED
    BY <2>1, <2>3
<1>3. ASSUME NEW i \in 0 .. n - 1, i \in S PROVE i + 1 \in S
  <2>1. i + 1 \in Nat \ {0} /\ i + 1 \in 0 .. n /\ (i + 1) - 1 = i /\ Filled(f[i], valid, i)
    BY <1>3
  <2>2. f[i + 1] = WithSlot(valid, i + 1, f[i])
    BY <1>1, <2>1 DEF Fills
  <2>3. Filled(WithSlot(valid, i + 1, f[i]), valid, i + 1)
    BY <2>1, WithSlotFilled
  <2> QED
    BY <2>1, <2>2, <2>3
<1> HIDE DEF S
<1>4. n \in S
  <2>1. \A i \in 0 .. n : i \in S
    BY <1>2, <1>3, UpTo
  <2> QED
    BY <2>1
<1> QED
  BY <1>1, <1>4 DEF S

(* The invariant *************************************************************)

\* The types of the NIC's queues.
LoomTypes ==
    /\ flow \in [Cores -> [Classes -> 0 .. Size]]
    /\ deq \in [Cores -> [Classes -> 0 .. Size]]
    /\ tenant \in [Cores -> [1 .. 2 -> Seq(Classes)]]
    /\ last \in [Cores -> 1 .. 2]
    /\ memcached \in 0 .. Size
    /\ spark \in Seq({Tenant1Spark, Tenant2Spark})

\* No flow loses what it does not hold, and an idle output means an empty NIC.
NICInv ==
    /\ LoomTypes
    /\ \A c \in Cores : \A k \in Classes : deq[c][k] <= flow[c][k]
    /\ WorkConserving

\* What a queue keeps of a sequence.
LEMMA KeptOf ==
    ASSUME NEW S, NEW s \in Seq(S)
    PROVE  /\ Keep(s) \in Seq(S) /\ Len(Keep(s)) <= Size /\ Len(Keep(s)) <= Len(s)
           /\ Keep(s) = <<>> => s = <<>>
           /\ Len(s) <= Size => Keep(s) = s
<1> DEFINE n == Min({Len(s), Size})
<1>1. Len(s) \in Nat /\ Size \in Nat /\ Size > 0
  BY LoomAssumption
<1>2. n = IF Len(s) <= Size THEN Len(s) ELSE Size
  BY <1>1, MinOfTwo
<1> HIDE DEF n
<1>3. n \in Nat /\ n <= Len(s) /\ n <= Size /\ (n = 0 => Len(s) = 0)
  BY <1>1, <1>2
<1>4. Keep(s) = SubSeq(s, 1, n)
  BY DEF Keep, n
<1>5. Keep(s) \in Seq(S) /\ Len(Keep(s)) = n
  BY <1>3, <1>4, SubSeqProperties
<1>6. Len(s) <= Size => Keep(s) = s
  BY <1>2, <1>4
<1>7. Keep(s) = <<>> => s = <<>>
  BY <1>3, <1>5, EmptySeq
<1> QED
  BY <1>3, <1>5, <1>6, <1>7

\* Nothing is left out of the slots, and they hold only candidates.
LEMMA SlotsOf ==
    ASSUME NEW valid \in SUBSET Nat, IsFiniteSet(valid), NEW n \in Nat \ {0}
    PROVE  /\ Taken(valid, n) \in Seq(valid)
           /\ Taken(valid, n) = <<>> <=> valid = {}
<1>1. Taken(valid, n) \in Seq(valid)
      /\ Len(Taken(valid, n)) = IF n <= Cardinality(valid) THEN n ELSE Cardinality(valid)
  BY TakenInOrder DEF Filled
<1>2. Cardinality(valid) \in Nat /\ (Cardinality(valid) = 0 <=> valid = {})
  BY FS_CardinalityType, FS_EmptySet
<1> QED
  BY <1>1, <1>2, EmptySeq

\* The packets of Tenant 2 that may take a slot.
LEMMA CandidatesAre ==
    ASSUME NEW f \in [Classes -> Nat]
    PROVE  /\ Candidates(f) \in SUBSET Nat /\ IsFiniteSet(Candidates(f))
           /\ \A j \in Nat : FlowOf(j) \in {Tenant2Spark, Tenant2Memcached}
           /\ Candidates(f) = {} <=> f[Tenant2Spark] = 0 /\ f[Tenant2Memcached] = 0
<1>1. MaxEnq \in Nat /\ MaxEnq > 0
  BY LoomAssumption
<1>2. Candidates(f) \in SUBSET (0 .. 2 * MaxEnq - 1)
  BY DEF Candidates
<1>3. IsFiniteSet(0 .. 2 * MaxEnq - 1) /\ 0 .. 2 * MaxEnq - 1 \in SUBSET Nat
  BY <1>1, FS_Interval
<1>4. \A j \in Nat : FlowOf(j) \in {Tenant2Spark, Tenant2Memcached}
  BY DEF FlowOf, Tenant2Spark, Tenant2Memcached
<1>5. Candidates(f) = {} <=> f[Tenant2Spark] = 0 /\ f[Tenant2Memcached] = 0
  <2>1. \A k \in Classes : f[k] \in Nat
    OBVIOUS
  <2>2. Tenant2Spark \in Classes /\ Tenant2Memcached \in Classes
    BY DEF Classes
  <2>3. FlowOf(0) = Tenant2Spark /\ FlowOf(1) = Tenant2Memcached
    BY DEF FlowOf, Tenant2Spark, Tenant2Memcached
  <2>4. 0 \in 0 .. 2 * MaxEnq - 1 /\ 1 \in 0 .. 2 * MaxEnq - 1
        /\ 0 \div 2 = 0 /\ 1 \div 2 = 0
    BY <1>1
  <2>5. Candidates(f) = {} => f[Tenant2Spark] = 0 /\ f[Tenant2Memcached] = 0
    <3>1. f[Tenant2Spark] # 0 => 0 \in Candidates(f)
      BY <2>1, <2>2, <2>3, <2>4 DEF Candidates
    <3>2. f[Tenant2Memcached] # 0 => 1 \in Candidates(f)
      BY <2>1, <2>2, <2>3, <2>4 DEF Candidates
    <3> QED
      BY <3>1, <3>2
  <2>6. ASSUME f[Tenant2Spark] = 0, f[Tenant2Memcached] = 0, NEW j \in Candidates(f) PROVE FALSE
    <3>1. j \in Nat /\ j \div 2 < f[FlowOf(j)]
      BY <1>2, <1>3 DEF Candidates
    <3>2. f[FlowOf(j)] = 0 /\ j \div 2 >= 0
      BY <1>4, <2>6, <3>1
    <3> QED
      BY <3>1, <3>2
  <2> QED
    BY <2>5, <2>6
<1> QED
  BY <1>2, <1>3, <1>4, <1>5, FS_Subset

\* What a core's flows hand on in a step.
LEMMA FlowsHandOn ==
    ASSUME NEW f \in [Classes -> Nat]
    PROVE  /\ ToTenant1(f) \in Seq({Tenant1Spark})
           /\ ToTenant2(f) \in Seq({Tenant2Spark, Tenant2Memcached})
           /\ ToTenant1(f) = <<>> <=> f[Tenant1Spark] = 0
           /\ ToTenant2(f) = <<>> <=> f[Tenant2Spark] = 0 /\ f[Tenant2Memcached] = 0
<1>1. MaxEnq \in Nat /\ MaxEnq > 0 /\ MaxEnq \in Nat \ {0} /\ f[Tenant1Spark] \in Nat
  BY LoomAssumption DEF Classes
<1>2. ToTenant1(f) \in Seq({Tenant1Spark}) /\ (ToTenant1(f) = <<>> <=> f[Tenant1Spark] = 0)
  <2> DEFINE n == Min({MaxEnq, f[Tenant1Spark]})
  <2>1. n \in Nat /\ (n = 0 <=> f[Tenant1Spark] = 0)
    BY <1>1, MinOfTwo
  <2>2. ToTenant1(f) = [i \in 1 .. n |-> Tenant1Spark]
    BY DEF ToTenant1
  <2> HIDE DEF n
  <2>3. ToTenant1(f) \in Seq({Tenant1Spark}) /\ Len(ToTenant1(f)) = n
    BY <2>1, <2>2
  <2> QED
    BY <2>1, <2>3, EmptySeq
<1>3. /\ ToTenant2(f) \in Seq({Tenant2Spark, Tenant2Memcached})
      /\ Len(ToTenant2(f)) = Len(Taken(Candidates(f), MaxEnq))
  <2> DEFINE slots == Taken(Candidates(f), MaxEnq)
  <2>1. slots \in Seq(Candidates(f))
    BY <1>1, CandidatesAre, SlotsOf
  <2>2. \A i \in 1 .. Len(slots) : FlowOf(slots[i]) \in {Tenant2Spark, Tenant2Memcached}
    <3> TAKE i \in 1 .. Len(slots)
    <3>1. slots[i] \in Nat
      BY <2>1, CandidatesAre, ElementOfSeq
    <3> QED
      BY <3>1, CandidatesAre
  <2>3. ToTenant2(f) = [i \in 1 .. Len(slots) |-> FlowOf(slots[i])] /\ Len(slots) \in Nat
    BY <2>1 DEF ToTenant2
  <2> HIDE DEF slots
  <2>4. ToTenant2(f) \in Seq({Tenant2Spark, Tenant2Memcached}) /\ Len(ToTenant2(f)) = Len(slots)
    BY <2>2, <2>3
  <2> QED
    BY <2>4 DEF slots
<1>4. Taken(Candidates(f), MaxEnq) \in Seq(Candidates(f))
      /\ (Taken(Candidates(f), MaxEnq) = <<>> <=> Candidates(f) = {})
  BY <1>1, CandidatesAre, SlotsOf
<1>5. ToTenant2(f) = <<>> <=> Candidates(f) = {}
  BY <1>3, <1>4, EmptySeq
<1> QED
  BY <1>2, <1>3, <1>5, CandidatesAre


\* What leaves a tenant queue of a core, and what stays.
LEMMA CoreServes ==
    ASSUME NEW q \in [1 .. 2 -> Seq(Classes)], NEW l \in 1 .. 2
    PROVE  /\ Turn(q, l) \in 1 .. 2
           /\ Left(q, l) \in [1 .. 2 -> Seq(Classes)]
           /\ Served(q, l) \in Classes \cup {NoPkt}
           /\ Served(q, l) = NoPkt <=> Idle(q)
<1>1. 3 - l \in 1 .. 2 /\ Turn(q, l) \in 1 .. 2
  BY DEF Turn
<1>2. \A i \in 1 .. 2 : q[i] \in Seq(Classes)
  OBVIOUS
<1>3. \A s \in Seq(Classes) : Rest(s) \in Seq(Classes)
  BY HeadTailProperties DEF Rest
<1>4. Left(q, l) \in [1 .. 2 -> Seq(Classes)]
  BY <1>1, <1>2, <1>3 DEF Left
<1>5. \A s \in Seq(Classes) : s # <<>> => Head(s) \in Classes
  BY HeadTailProperties
<1>6. NoPkt \notin Classes
  BY DEF NoPkt, Classes, Tenant1Spark, Tenant2Spark, Tenant2Memcached
<1>7. Idle(q) <=> q[l] = <<>> /\ q[3 - l] = <<>>
  BY DEF Idle
<1>8. q[Turn(q, l)] = <<>> <=> Idle(q)
  BY <1>7 DEF Turn
<1>9. Served(q, l) = IF Idle(q) THEN NoPkt ELSE Head(q[Turn(q, l)])
  BY <1>8 DEF Served
<1> QED
  BY <1>1, <1>2, <1>4, <1>5, <1>6, <1>8, <1>9

\* Packets that the cores hand on and that are for one of these queues.
LEMMA JoiningIs ==
    ASSUME NEW pkts \in [Cores -> Classes \cup {NoPkt}], NEW classes \in SUBSET Classes
    PROVE  /\ Enqueued(pkts, classes) \in Seq(classes)
           /\ Enqueued(pkts, classes) = <<>> <=> \A c \in Cores : pkts[c] \notin classes
<1> DEFINE valid == {c \in Cores : pkts[c] \in classes}
           slots == Taken(valid, CoreCnt)
<1>1. CoreCnt \in Nat \ {0} /\ IsFiniteSet(Cores) /\ Cores \in SUBSET Nat
  BY LoomAssumption, FS_Interval DEF Cores
<1>2. valid \in SUBSET Nat /\ IsFiniteSet(valid)
  <2>1. valid \in SUBSET Cores
    OBVIOUS
  <2> QED
    BY <1>1, <2>1, FS_Subset
<1>3. slots \in Seq(valid) /\ (slots = <<>> <=> valid = {})
  <2> HIDE DEF valid
  <2> QED
    BY <1>1, <1>2, SlotsOf
<1>4. \A i \in 1 .. Len(slots) : pkts[slots[i]] \in classes
  BY <1>3, ElementOfSeq
<1>5. Enqueued(pkts, classes) = [i \in 1 .. Len(slots) |-> pkts[slots[i]]] /\ Len(slots) \in Nat
  BY <1>3 DEF Enqueued
<1> HIDE DEF slots
<1>6. Enqueued(pkts, classes) \in Seq(classes) /\ Len(Enqueued(pkts, classes)) = Len(slots)
  BY <1>4, <1>5
<1>7. Enqueued(pkts, classes) = <<>> <=> valid = {}
  BY <1>3, <1>6, EmptySeq
<1> QED
  BY <1>6, <1>7

\* The NIC starts empty.
LEMMA InitNICInv == Init => NICInv
<1> SUFFICES ASSUME Init PROVE NICInv
  OBVIOUS
<1>1. Size \in Nat /\ 0 \in 0 .. Size
  BY LoomAssumption
<1>2. \A c \in Cores : tenant[c] = <<(<<>>), (<<>>)>>
  BY DEF Init
<1>3. <<(<<>>), (<<>>)>> \in [1 .. 2 -> Seq(Classes)]
  <2>1. \A x, y \in Seq(Classes) : <<x, y>> \in [1 .. 2 -> Seq(Classes)]
    OBVIOUS
  <2>2. <<>> \in Seq(Classes)
    OBVIOUS
  <2> QED
    BY <2>1, <2>2
<1>4. tenant \in [Cores -> [1 .. 2 -> Seq(Classes)]]
  BY <1>3 DEF Init
<1>5. LoomTypes
  BY <1>1, <1>4 DEF Init, LoomTypes
<1>6. WorkConserving
  BY <1>2 DEF Init, WorkConserving, Output, Idle
<1> QED
  BY <1>1, <1>5, <1>6 DEF Init, NICInv

\* The flows' queues stay within their size, and no more leaves than they hold.
LEMMA FlowEnqKeeps ==
    ASSUME NICInv, NEW in \in Arrivals, FlowEnq(in)
    PROVE  /\ flow' \in [Cores -> [Classes -> 0 .. Size]]
           /\ deq' \in [Cores -> [Classes -> 0 .. Size]]
           /\ \A c \in Cores : \A k \in Classes : deq'[c][k] <= flow'[c][k]
<1>1. Size \in Nat /\ in \in [Cores -> [Classes -> 0 .. MaxEnq]] /\ MaxEnq \in Nat
  BY LoomAssumption
<1>2. ASSUME NEW c \in Cores, NEW k \in Classes
      PROVE  Min({Size, flow[c][k] - deq[c][k] + in[c][k]}) \in 0 .. Size
  <2>1. /\ flow[c][k] \in 0 .. Size /\ deq[c][k] \in 0 .. Size /\ deq[c][k] <= flow[c][k]
        /\ in[c][k] \in 0 .. MaxEnq
    BY <1>1 DEF NICInv, LoomTypes
  <2> DEFINE n == flow[c][k] - deq[c][k] + in[c][k]
  <2>2. n \in Nat
    BY <1>1, <2>1
  <2> HIDE DEF n
  <2>3. Min({Size, n}) \in 0 .. Size
    BY <1>1, <2>2, MinOfTwo
  <2> QED
    BY <2>3 DEF n
<1>3. flow' \in [Cores -> [Classes -> 0 .. Size]]
  BY <1>2 DEF FlowEnq
<1>4. \A c \in Cores : deq'[c] \in Dequeues(flow'[c])
  BY DEF FlowEnq
<1>5. \A c \in Cores : deq'[c] \in [Classes -> 0 .. Size] /\ \A k \in Classes : deq'[c][k] <= flow'[c][k]
  BY <1>4 DEF Dequeues
<1>6. DOMAIN deq' = Cores /\ deq' = [c \in Cores |-> deq'[c]]
  BY DEF FlowEnq
<1>7. deq' \in [Cores -> [Classes -> 0 .. Size]]
  BY <1>5, <1>6
<1> QED
  BY <1>3, <1>5, <1>7

\* A packet sent by none means one enqueued by none: an empty output leads back,
\* module by module, to empty flows.
LEMMA StepNICInv == NICInv /\ Next => NICInv'
<1> SUFFICES ASSUME NICInv, Next PROVE NICInv'
  OBVIOUS
<1> PICK in \in Arrivals : FlowEnq(in)
  BY DEF Next
<1>0. /\ Size \in Nat /\ Size > 0 /\ CoreCnt \in Nat \ {0}
      /\ RoundRobin /\ NICEnq
  BY LoomAssumption DEF Next
<1>1. /\ flow' \in [Cores -> [Classes -> 0 .. Size]]
      /\ deq' \in [Cores -> [Classes -> 0 .. Size]]
      /\ \A c \in Cores : \A k \in Classes : deq'[c][k] <= flow'[c][k]
  BY FlowEnqKeeps
<1>2. ASSUME NEW c \in Cores
      PROVE  /\ tenant'[c] \in [1 .. 2 -> Seq(Classes)]
             /\ last'[c] \in 1 .. 2
             /\ Idle(tenant'[c]) => \A k \in Classes : flow'[c][k] = 0
  <2> DEFINE left == Left(tenant[c], last[c])
             q1 == left[1] \o ToTenant1(flow'[c])
             q2 == left[2] \o ToTenant2(flow'[c])
  <2>1. tenant[c] \in [1 .. 2 -> Seq(Classes)] /\ last[c] \in 1 .. 2
    BY DEF NICInv, LoomTypes
  <2>2. left[1] \in Seq(Classes) /\ left[2] \in Seq(Classes) /\ Turn(tenant[c], last[c]) \in 1 .. 2
    BY <2>1, CoreServes
  <2>3. flow'[c] \in [Classes -> Nat]
    BY <1>1
  <2>4. /\ ToTenant1(flow'[c]) \in Seq(Classes) /\ ToTenant2(flow'[c]) \in Seq(Classes)
        /\ ToTenant1(flow'[c]) = <<>> <=> flow'[c][Tenant1Spark] = 0
        /\ ToTenant2(flow'[c]) = <<>> <=> flow'[c][Tenant2Spark] = 0 /\ flow'[c][Tenant2Memcached] = 0
    <3>1. Seq({Tenant1Spark}) \in SUBSET Seq(Classes)
          /\ Seq({Tenant2Spark, Tenant2Memcached}) \in SUBSET Seq(Classes)
      BY DEF Classes
    <3> QED
      BY <2>3, <3>1, FlowsHandOn
  <2>5. /\ q1 \in Seq(Classes) /\ q2 \in Seq(Classes)
        /\ q1 = <<>> => ToTenant1(flow'[c]) = <<>>
        /\ q2 = <<>> => ToTenant2(flow'[c]) = <<>>
    <3> HIDE DEF left
    <3> QED
      BY <2>2, <2>4, ConcatProperties, ConcatEmptySeq
  <2>6. tenant'[c] = <<Keep(q1), Keep(q2)>>
    BY <1>0 DEF RoundRobin
  <2> HIDE DEF q1, q2
  <2>7. /\ Keep(q1) \in Seq(Classes) /\ Keep(q2) \in Seq(Classes)
        /\ Keep(q1) = <<>> => q1 = <<>>
        /\ Keep(q2) = <<>> => q2 = <<>>
    BY <2>5, KeptOf
  <2>8. tenant'[c] \in [1 .. 2 -> Seq(Classes)]
    BY <2>6, <2>7
  <2>9. last'[c] \in 1 .. 2
    BY <1>0, <2>1, <2>2 DEF RoundRobin
  <2>10. ASSUME Idle(tenant'[c]) PROVE \A k \in Classes : flow'[c][k] = 0
    <3>1. q1 = <<>> /\ q2 = <<>>
      BY <2>6, <2>7, <2>10 DEF Idle
    <3> QED
      BY <2>4, <2>5, <3>1 DEF Classes
  <2> QED
    BY <2>8, <2>9, <2>10
<1>3. tenant' \in [Cores -> [1 .. 2 -> Seq(Classes)]] /\ last' \in [Cores -> 1 .. 2]
  BY <1>0, <1>2 DEF RoundRobin
<1> DEFINE pkts == [c \in Cores |-> Served(tenant'[c], last'[c])]
           left == IF memcached > 0 THEN spark ELSE Rest(spark)
           m == Enqueued(pkts, {Tenant2Memcached})
           s == Enqueued(pkts, {Tenant1Spark, Tenant2Spark})
<1>4. pkts \in [Cores -> Classes \cup {NoPkt}] /\ \A c \in Cores : pkts[c] = NoPkt <=> Idle(tenant'[c])
  BY <1>2, CoreServes
<1> HIDE DEF pkts
<1>5. /\ m \in Seq({Tenant2Memcached}) /\ Len(m) \in Nat
      /\ m = <<>> <=> \A c \in Cores : pkts[c] # Tenant2Memcached
  BY <1>4, JoiningIs DEF Classes
<1>6. /\ s \in Seq({Tenant1Spark, Tenant2Spark})
      /\ s = <<>> <=> \A c \in Cores : pkts[c] # Tenant1Spark /\ pkts[c] # Tenant2Spark
  BY <1>4, JoiningIs DEF Classes
<1>7. /\ memcached' = Min({Size, memcached - (IF memcached > 0 THEN 1 ELSE 0) + Len(m)})
      /\ spark' = Keep(left \o s)
  BY <1>0 DEF NICEnq, pkts
<1>8. memcached' \in 0 .. Size /\ (memcached' = 0 => m = <<>>)
  <2> DEFINE n == memcached - (IF memcached > 0 THEN 1 ELSE 0)
  <2>1. n \in Nat
    BY <1>0 DEF NICInv, LoomTypes
  <2> HIDE DEF n
  <2>2. Min({Size, n + Len(m)}) = IF Size <= n + Len(m) THEN Size ELSE n + Len(m)
    <3> HIDE DEF m
    <3>1. n + Len(m) \in Nat
      BY <1>5, <2>1
    <3> QED
      BY <1>0, <3>1, MinOfTwo
  <2>3. memcached' = Min({Size, n + Len(m)})
    BY <1>7 DEF n
  <2>4. memcached' = 0 => Len(m) = 0
    BY <1>0, <1>5, <2>1, <2>2, <2>3
  <2>5. memcached' \in 0 .. Size
    BY <1>0, <1>5, <2>1, <2>2, <2>3
  <2> QED
    BY <1>5, <2>4, <2>5, EmptySeq
<1>9. spark' \in Seq({Tenant1Spark, Tenant2Spark}) /\ (spark' = <<>> => s = <<>>)
  <2>1. left \in Seq({Tenant1Spark, Tenant2Spark})
    <3>1. spark \in Seq({Tenant1Spark, Tenant2Spark})
      BY DEF NICInv, LoomTypes
    <3> QED
      BY <3>1, HeadTailProperties DEF Rest
  <2> HIDE DEF left
  <2>2. left \o s \in Seq({Tenant1Spark, Tenant2Spark}) /\ (left \o s = <<>> => s = <<>>)
    BY <1>6, <2>1, ConcatProperties, ConcatEmptySeq
  <2> QED
    BY <1>7, <2>2, KeptOf
<1>10. LoomTypes'
  BY <1>1, <1>3, <1>8, <1>9 DEF LoomTypes
<1>11. (Output = NoPkt)' <=> memcached' = 0 /\ spark' = <<>>
  <2>1. spark' # <<>> => Head(spark') \in {Tenant1Spark, Tenant2Spark}
    BY <1>9, HeadTailProperties
  <2> QED
    BY <1>8, <2>1 DEF Output, NoPkt, Tenant1Spark, Tenant2Spark, Tenant2Memcached
<1>12. ASSUME memcached' = 0, spark' = <<>>, NEW c \in Cores
       PROVE  Idle(tenant'[c]) /\ \A k \in Classes : flow'[c][k] = 0
  <2>1. pkts[c] \notin Classes
    BY <1>5, <1>6, <1>8, <1>9, <1>12 DEF Classes
  <2>2. Idle(tenant'[c])
    BY <1>4, <2>1
  <2> QED
    BY <1>2, <2>2
<1>13. WorkConserving'
  BY <1>11, <1>12 DEF WorkConserving
<1> QED
  BY <1>1, <1>10, <1>13 DEF NICInv

\* So types are kept, and the NIC is work conserving.
LEMMA NICInvariant == Spec => []NICInv
<1>1. NICInv /\ [Next]_vars => NICInv'
  <2>1. NICInv /\ UNCHANGED vars => NICInv'
    BY DEF NICInv, LoomTypes, WorkConserving, Output, Idle, vars
  <2> QED
    BY <2>1, StepNICInv
<1> QED
  BY <1>1, InitNICInv, PTL DEF Spec

\* In every step the NIC sends a packet if one of its queues holds one: no module
\* keeps a packet that the next could take (loom_mqprio.cpp, the whole chain).
THEOREM LoomWorkConserving == Spec => []WorkConserving
BY NICInvariant, PTL DEF NICInv

\* The chain of implications by which packets take slots gives the slots to the
\* first packets in order, however many there are of either
\* (loom_nic_enq_qm.cpp:88, loom_flow_enq_qm.cpp:71).
THEOREM LoomSlotsInOrder == Spec => []SlotsInOrder
<1>1. ASSUME NEW valid \in SUBSET Nat, IsFiniteSet(valid), NEW n \in Nat
      PROVE  InOrder(valid, n)
  <2>1. Filled(Taken(valid, n), valid, n)
    BY <1>1, TakenInOrder
  <2>2. Cardinality(valid) \in Nat
    BY <1>1, FS_CardinalityType
  <2>3. Min({n, Cardinality(valid)}) = IF n <= Cardinality(valid) THEN n ELSE Cardinality(valid)
    BY <2>2, MinOfTwo
  <2>4. \A i \in 1 .. Len(Taken(valid, n)) : Taken(valid, n)[i] \in valid
    BY <2>1, ElementOfSeq DEF Filled
  <2> QED
    BY <2>1, <2>3, <2>4 DEF Filled, Rank, InOrder
<1>2. NICInv => SlotsInOrder
  <2> SUFFICES ASSUME NICInv PROVE SlotsInOrder
    OBVIOUS
  <2>1. MaxEnq \in Nat /\ CoreCnt \in Nat
    BY LoomAssumption
  <2>2. ASSUME NEW c \in Cores PROVE InOrder(Candidates(flow[c]), MaxEnq)
    <3>1. flow[c] \in [Classes -> Nat]
      BY LoomAssumption DEF NICInv, LoomTypes
    <3> QED
      BY <1>1, <2>1, <3>1, CandidatesAre
  <2>3. ASSUME NEW k \in SUBSET Classes
        PROVE  InOrder({b \in Cores : Served(tenant[b], last[b]) \in k}, CoreCnt)
    <3> DEFINE valid == {b \in Cores : Served(tenant[b], last[b]) \in k}
    <3>1. IsFiniteSet(Cores) /\ Cores \in SUBSET Nat
      BY <2>1, FS_Interval DEF Cores
    <3>2. valid \in SUBSET Nat /\ IsFiniteSet(valid)
      <4>1. valid \in SUBSET Cores
        OBVIOUS
      <4> QED
        BY <3>1, <4>1, FS_Subset
    <3> HIDE DEF valid
    <3>3. InOrder(valid, CoreCnt)
      BY <1>1, <2>1, <3>2
    <3> QED
      BY <3>3 DEF valid
  <2> QED
    BY <2>2, <2>3 DEF SlotsInOrder
<1> QED
  BY <1>2, NICInvariant, PTL

(* Sums over the cores *******************************************************)

\* s[n] is the sum of the first n numbers.
PartialSums(s, f, n) == s = [i \in 0 .. n |-> IF i = 0 THEN 0 ELSE s[i - 1] + f[i - 1]]

\* The sum over the cores is the last of its partial sums.
LEMMA SumsExist ==
    ASSUME NEW f \in [Cores -> Int]
    PROVE  \E s \in [0 .. CoreCnt -> Int] :
              /\ s[0] = 0 /\ OverCores(f) = s[CoreCnt]
              /\ \A n \in 0 .. CoreCnt - 1 : s[n + 1] = s[n] + f[n]
<1> DEFINE S == {k \in 0 .. CoreCnt : \E s : PartialSums(s, f, k)}
<1>0. CoreCnt \in Nat
  BY LoomAssumption
<1>1. 0 \in S
  <2>1. PartialSums([i \in 0 .. 0 |-> 0], f, 0)
    BY DEF PartialSums
  <2> QED
    BY <1>0, <2>1
<1>2. ASSUME NEW k \in 0 .. CoreCnt - 1, k \in S PROVE k + 1 \in S
  <2>1. PICK s : PartialSums(s, f, k)
    BY <1>2
  <2> DEFINE h == [i \in 0 .. k + 1 |-> IF i = k + 1 THEN s[k] + f[k] ELSE s[i]]
  <2>2. ASSUME NEW i \in 0 .. k + 1
        PROVE  h[i] = IF i = 0 THEN 0 ELSE h[i - 1] + f[i - 1]
    <3>1. CASE i = k + 1
      <4>1. k \in 0 .. k + 1 /\ k # k + 1 /\ i # 0 /\ i - 1 = k
        BY <3>1
      <4>2. h[k] = s[k] /\ h[i] = s[k] + f[k]
        BY <3>1, <4>1
      <4> HIDE DEF h
      <4> QED
        BY <3>1, <4>1, <4>2
    <3>2. CASE i # k + 1
      <4>1. i \in 0 .. k /\ h[i] = s[i]
        BY <3>2
      <4>2. i # 0 => i - 1 \in 0 .. k + 1 /\ i - 1 # k + 1 /\ h[i - 1] = s[i - 1]
        BY <4>1
      <4>3. s[i] = IF i = 0 THEN 0 ELSE s[i - 1] + f[i - 1]
        BY <2>1, <4>1 DEF PartialSums
      <4> HIDE DEF h
      <4> QED
        BY <4>1, <4>2, <4>3
    <3> QED
      BY <3>1, <3>2
  <2>3. PartialSums(h, f, k + 1)
    <3>1. h = [i \in 0 .. k + 1 |-> h[i]]
      OBVIOUS
    <3> HIDE DEF h
    <3> QED
      BY <2>2, <3>1 DEF PartialSums
  <2> HIDE DEF h
  <2>4. k + 1 \in 0 .. CoreCnt
    BY <1>0
  <2> QED
    BY <2>3, <2>4
<1> HIDE DEF S
<1>3. CoreCnt \in S
  <2>1. \A k \in 0 .. CoreCnt : k \in S
    BY <1>0, <1>1, <1>2, UpTo
  <2> QED
    BY <1>0, <2>1
<1> DEFINE sum == CHOOSE s : PartialSums(s, f, CoreCnt)
<1>4. PartialSums(sum, f, CoreCnt)
  BY <1>3 DEF S
<1>5. OverCores(f) = sum[CoreCnt]
  BY DEF OverCores, PartialSums
<1> HIDE DEF sum
<1>6. sum[0] = 0 /\ DOMAIN sum = 0 .. CoreCnt
  BY <1>0, <1>4 DEF PartialSums
<1>7. ASSUME NEW n \in 0 .. CoreCnt - 1 PROVE sum[n + 1] = sum[n] + f[n]
  <2>1. n + 1 \in 0 .. CoreCnt /\ n + 1 # 0 /\ (n + 1) - 1 = n
    BY <1>0
  <2> QED
    BY <1>4, <2>1 DEF PartialSums
<1> DEFINE T == {k \in 0 .. CoreCnt : sum[k] \in Int}
<1>8. \A k \in 0 .. CoreCnt : k \in T
  <2>1. 0 \in T
    BY <1>0, <1>6
  <2>2. ASSUME NEW k \in 0 .. CoreCnt - 1, k \in T PROVE k + 1 \in T
    <3>1. k \in Cores /\ f[k] \in Int /\ sum[k] \in Int /\ k + 1 \in 0 .. CoreCnt
      BY <1>0, <2>2 DEF Cores
    <3> QED
      BY <1>7, <3>1
  <2> HIDE DEF T
  <2> QED
    BY <1>0, <2>1, <2>2, UpTo
<1>9. sum \in [0 .. CoreCnt -> Int]
  <2>1. sum = [i \in 0 .. CoreCnt |-> sum[i]]
    BY <1>4 DEF PartialSums
  <2> QED
    BY <1>8, <2>1
<1> QED
  BY <1>5, <1>6, <1>7, <1>9

\* A sum of integers is an integer.
LEMMA SumType ==
    ASSUME NEW f \in [Cores -> Int]
    PROVE  OverCores(f) \in Int
<1>1. CoreCnt \in Nat
  BY LoomAssumption
<1> QED
  BY <1>1, SumsExist

\* A sum of smaller numbers is smaller.
LEMMA SumLess ==
    ASSUME NEW f \in [Cores -> Int], NEW g \in [Cores -> Int], \A c \in Cores : f[c] <= g[c]
    PROVE  OverCores(f) <= OverCores(g)
<1>0. CoreCnt \in Nat
  BY LoomAssumption
<1>1. PICK s \in [0 .. CoreCnt -> Int] :
              /\ s[0] = 0 /\ OverCores(f) = s[CoreCnt]
              /\ \A n \in 0 .. CoreCnt - 1 : s[n + 1] = s[n] + f[n]
  BY SumsExist
<1>2. PICK t \in [0 .. CoreCnt -> Int] :
              /\ t[0] = 0 /\ OverCores(g) = t[CoreCnt]
              /\ \A n \in 0 .. CoreCnt - 1 : t[n + 1] = t[n] + g[n]
  BY SumsExist
<1> DEFINE S == {k \in 0 .. CoreCnt : s[k] <= t[k]}
<1>3. 0 \in S
  BY <1>0, <1>1, <1>2
<1>4. ASSUME NEW k \in 0 .. CoreCnt - 1, k \in S PROVE k + 1 \in S
  <2>1. k \in Cores /\ k \in 0 .. CoreCnt /\ k + 1 \in 0 .. CoreCnt
    BY <1>0 DEF Cores
  <2>2. f[k] \in Int /\ g[k] \in Int /\ f[k] <= g[k] /\ s[k] \in Int /\ t[k] \in Int
    BY <2>1
  <2>3. s[k + 1] = s[k] + f[k] /\ t[k + 1] = t[k] + g[k] /\ s[k] <= t[k]
    BY <1>1, <1>2, <1>4
  <2> QED
    BY <2>1, <2>2, <2>3
<1> HIDE DEF S
<1>5. CoreCnt \in S
  <2>1. \A k \in 0 .. CoreCnt : k \in S
    BY <1>0, <1>3, <1>4, UpTo
  <2> QED
    BY <1>0, <2>1
<1> QED
  BY <1>1, <1>2, <1>5 DEF S

\* Sums add up.
LEMMA SumPlus ==
    ASSUME NEW f \in [Cores -> Int], NEW g \in [Cores -> Int], NEW h \in [Cores -> Int],
           \A c \in Cores : h[c] = f[c] + g[c]
    PROVE  OverCores(h) = OverCores(f) + OverCores(g)
<1>0. CoreCnt \in Nat
  BY LoomAssumption
<1>1. PICK s \in [0 .. CoreCnt -> Int] :
              /\ s[0] = 0 /\ OverCores(f) = s[CoreCnt]
              /\ \A n \in 0 .. CoreCnt - 1 : s[n + 1] = s[n] + f[n]
  BY SumsExist
<1>2. PICK t \in [0 .. CoreCnt -> Int] :
              /\ t[0] = 0 /\ OverCores(g) = t[CoreCnt]
              /\ \A n \in 0 .. CoreCnt - 1 : t[n + 1] = t[n] + g[n]
  BY SumsExist
<1>3. PICK u \in [0 .. CoreCnt -> Int] :
              /\ u[0] = 0 /\ OverCores(h) = u[CoreCnt]
              /\ \A n \in 0 .. CoreCnt - 1 : u[n + 1] = u[n] + h[n]
  BY SumsExist
<1> DEFINE S == {k \in 0 .. CoreCnt : u[k] = s[k] + t[k]}
<1>4. 0 \in S
  BY <1>0, <1>1, <1>2, <1>3
<1>5. ASSUME NEW k \in 0 .. CoreCnt - 1, k \in S PROVE k + 1 \in S
  <2>1. k \in Cores /\ k \in 0 .. CoreCnt /\ k + 1 \in 0 .. CoreCnt
    BY <1>0 DEF Cores
  <2>2. /\ f[k] \in Int /\ g[k] \in Int /\ h[k] = f[k] + g[k]
        /\ s[k] \in Int /\ t[k] \in Int /\ u[k] = s[k] + t[k]
    BY <1>5, <2>1
  <2>3. s[k + 1] = s[k] + f[k] /\ t[k + 1] = t[k] + g[k] /\ u[k + 1] = u[k] + h[k]
    BY <1>1, <1>2, <1>3
  <2>4. u[k + 1] = s[k + 1] + t[k + 1]
    BY <2>2, <2>3
  <2> QED
    BY <2>1, <2>4
<1> HIDE DEF S
<1>6. CoreCnt \in S
  <2>1. \A k \in 0 .. CoreCnt : k \in S
    BY <1>0, <1>4, <1>5, UpTo
  <2> QED
    BY <1>0, <2>1
<1> QED
  BY <1>1, <1>2, <1>3, <1>6 DEF S

\* A sum of naturals is at least each of them.
LEMMA SumOfNaturals ==
    ASSUME NEW f \in [Cores -> Nat]
    PROVE  OverCores(f) \in Nat /\ \A c \in Cores : f[c] <= OverCores(f)
<1>0. CoreCnt \in Nat /\ \A c \in Cores : f[c] \in Nat
  BY LoomAssumption
<1>1. PICK s \in [0 .. CoreCnt -> Int] :
              /\ s[0] = 0 /\ OverCores(f) = s[CoreCnt]
              /\ \A n \in 0 .. CoreCnt - 1 : s[n + 1] = s[n] + f[n]
  BY SumsExist
<1> DEFINE S == {k \in 0 .. CoreCnt : s[k] >= 0 /\ \A c \in Cores : c < k => f[c] <= s[k]}
<1>2. 0 \in S
  BY <1>0, <1>1 DEF Cores
<1>3. ASSUME NEW k \in 0 .. CoreCnt - 1, k \in S PROVE k + 1 \in S
  <2>1. k \in Cores /\ k \in 0 .. CoreCnt /\ k + 1 \in 0 .. CoreCnt
    BY <1>0 DEF Cores
  <2>2. f[k] \in Nat /\ s[k] \in Int /\ s[k] >= 0 /\ s[k + 1] = s[k] + f[k]
    BY <1>0, <1>1, <1>3, <2>1
  <2>3. ASSUME NEW c \in Cores, c < k + 1 PROVE f[c] <= s[k + 1]
    <3>1. CASE c = k
      BY <2>2, <3>1
    <3>2. CASE c # k
      <4>1. c < k
        BY <2>3, <3>2 DEF Cores
      <4>2. f[c] <= s[k] /\ f[c] \in Nat
        BY <1>0, <1>3, <4>1
      <4> QED
        BY <2>2, <4>2
    <3> QED
      BY <3>1, <3>2
  <2> QED
    BY <2>1, <2>2, <2>3
<1> HIDE DEF S
<1>4. CoreCnt \in S
  <2>1. \A k \in 0 .. CoreCnt : k \in S
    BY <1>0, <1>2, <1>3, UpTo
  <2> QED
    BY <1>0, <2>1
<1>5. s[CoreCnt] \in Int
  BY <1>0, <1>1
<1>6. \A c \in Cores : c < CoreCnt
  BY <1>0 DEF Cores
<1> QED
  BY <1>1, <1>4, <1>5, <1>6 DEF S

\* Counting cores is summing ones.
LEMMA SumOfOnes ==
    ASSUME NEW U \in SUBSET Cores
    PROVE  OverCores([c \in Cores |-> IF c \in U THEN 1 ELSE 0]) = Cardinality(U)
<1> DEFINE f == [c \in Cores |-> IF c \in U THEN 1 ELSE 0]
<1>0. CoreCnt \in Nat /\ f \in [Cores -> Int]
  BY LoomAssumption
<1>1. PICK s \in [0 .. CoreCnt -> Int] :
              /\ s[0] = 0 /\ OverCores(f) = s[CoreCnt]
              /\ \A n \in 0 .. CoreCnt - 1 : s[n + 1] = s[n] + f[n]
  BY <1>0, SumsExist
<1>n. \A c \in U : c \in Nat /\ c < CoreCnt
  <2>1. \A c \in Cores : c \in Nat /\ c < CoreCnt
    BY <1>0 DEF Cores
  <2> QED
    BY <2>1
<1> DEFINE S == {k \in 0 .. CoreCnt : s[k] = Cardinality({c \in U : c < k})}
<1>2. 0 \in S
  <2>1. {c \in U : c < 0} = {}
    BY <1>n
  <2>2. Cardinality({c \in U : c < 0}) = 0
    BY <2>1, FS_EmptySet
  <2> QED
    BY <1>0, <1>1, <2>2
<1>3. ASSUME NEW k \in 0 .. CoreCnt - 1, k \in S PROVE k + 1 \in S
  <2> DEFINE A == {c \in U : c < k}
             B == {c \in U : c < k + 1}
  <2>1. k \in Cores /\ k \in 0 .. CoreCnt /\ k + 1 \in 0 .. CoreCnt
    BY <1>0 DEF Cores
  <2>2. IsFiniteSet(A) /\ k \notin A
    <3>1. IsFiniteSet(Cores)
      BY <1>0, FS_Interval DEF Cores
    <3>2. A \in SUBSET Cores
      OBVIOUS
    <3> QED
      BY <3>1, <3>2, FS_Subset
  <2>3. B = IF k \in U THEN A \cup {k} ELSE A
    <3>1. \A c \in U : c < k + 1 <=> c < k \/ c = k
      BY DEF Cores
    <3> QED
      BY <2>1, <3>1
  <2>4. s[k + 1] = s[k] + (IF k \in U THEN 1 ELSE 0) /\ s[k] = Cardinality(A)
    BY <1>1, <1>3, <2>1
  <2>5. Cardinality(A) \in Nat /\ Cardinality(A \cup {k}) = Cardinality(A) + 1
    BY <2>2, FS_CardinalityType, FS_AddElement
  <2>6. s[k + 1] = Cardinality(B)
    <3> HIDE DEF A, B
    <3>1. CASE k \in U
      BY <2>3, <2>4, <2>5, <3>1
    <3>2. CASE k \notin U
      BY <2>3, <2>4, <2>5, <3>2
    <3> QED
      BY <3>1, <3>2
  <2> QED
    BY <2>1, <2>6
<1> HIDE DEF S
<1>4. CoreCnt \in S
  <2>1. \A k \in 0 .. CoreCnt : k \in S
    BY <1>0, <1>2, <1>3, UpTo
  <2> QED
    BY <1>0, <2>1
<1>5. {c \in U : c < CoreCnt} = U
  BY <1>n
<1> QED
  BY <1>1, <1>4, <1>5 DEF S

(* Counting packets **********************************************************)

\* The first n numbers.
LEMMA IntervalOf ==
    ASSUME NEW n \in Nat
    PROVE  /\ IsFiniteSet(1 .. n) /\ Cardinality(1 .. n) = n
           /\ IsFiniteSet(0 .. n - 1) /\ Cardinality(0 .. n - 1) = n
<1>1. IsFiniteSet(1 .. n) /\ Cardinality(1 .. n) = n
  BY FS_Interval
<1>2. IsFiniteSet(0 .. n - 1) /\ Cardinality(0 .. n - 1) = n
  BY FS_Interval
<1> QED
  BY <1>1, <1>2

\* There are at most as many packets of a class as packets.
LEMMA CountIs ==
    ASSUME NEW S, NEW s \in Seq(S), NEW k
    PROVE  /\ IsFiniteSet({i \in 1 .. Len(s) : s[i] = k})
           /\ Count(s, k) = Cardinality({i \in 1 .. Len(s) : s[i] = k})
           /\ Count(s, k) \in Nat /\ Count(s, k) <= Len(s)
<1> DEFINE A == {i \in 1 .. Len(s) : s[i] = k}
<1>1. Len(s) \in Nat /\ DOMAIN s = 1 .. Len(s)
  BY LenProperties
<1>2. IsFiniteSet(1 .. Len(s)) /\ Cardinality(1 .. Len(s)) = Len(s)
  BY <1>1, FS_Interval
<1>3. A \in SUBSET (1 .. Len(s))
  OBVIOUS
<1>4. Count(s, k) = Cardinality(A)
  BY <1>1 DEF Count
<1> HIDE DEF A
<1>5. IsFiniteSet(A) /\ Cardinality(A) <= Len(s) /\ Cardinality(A) \in Nat
  BY <1>2, <1>3, FS_Subset, FS_CardinalityType
<1> QED
  BY <1>4, <1>5 DEF A

\* The packets of a class in two sequences, one after the other.
LEMMA CountConcat ==
    ASSUME NEW S, NEW s \in Seq(S), NEW t \in Seq(S), NEW k
    PROVE  Count(s \o t, k) = Count(s, k) + Count(t, k)
<1> DEFINE m == Len(s)
           A == {i \in 1 .. m : s[i] = k}
           B == {i \in 1 .. Len(t) : t[i] = k}
           C == {i \in m + 1 .. m + Len(t) : t[i - m] = k}
           f == [i \in B |-> m + i]
<1>1. m \in Nat /\ Len(t) \in Nat
  BY LenProperties
<1>2. /\ IsFiniteSet(A) /\ Count(s, k) = Cardinality(A) /\ Cardinality(A) \in Nat
      /\ IsFiniteSet(B) /\ Count(t, k) = Cardinality(B) /\ Cardinality(B) \in Nat
  BY CountIs
<1>3. IsFiniteSet(C) /\ Cardinality(C) = Cardinality(B)
  <2>1. \A i \in B : m + i \in C
    BY <1>1
  <2>2. \A j \in C : j - m \in B /\ m + (j - m) = j
    BY <1>1
  <2>3. \A i, j \in B : m + i = m + j => i = j
    BY <1>1
  <2>4. f \in [B -> C] /\ (\A i, j \in B : f[i] = f[j] => i = j) /\ \A j \in C : \E i \in B : f[i] = j
    <3> HIDE DEF B, C, m
    <3> QED
      BY <2>1, <2>2, <2>3
  <2> HIDE DEF f, B, C, m
  <2>5. f \in Bijection(B, C)
    BY <2>4 DEF Bijection, Injection, IsInjective, Surjection
  <2>6. ExistsBijection(B, C)
    BY <2>5 DEF ExistsBijection
  <2> QED
    BY <1>2, <2>6, FS_Bijection
<1>4. A \cap C = {}
  BY <1>1
<1>5. /\ s \o t \in Seq(S) /\ Len(s \o t) = m + Len(t)
      /\ \A i \in 1 .. m + Len(t) : (s \o t)[i] = IF i <= m THEN s[i] ELSE t[i - m]
  BY ConcatProperties
<1>6. {i \in 1 .. Len(s \o t) : (s \o t)[i] = k} = A \cup C
  <2>1. ASSUME NEW i \in 1 .. m + Len(t) PROVE (s \o t)[i] = k <=> i \in A \/ i \in C
    <3>1. CASE i <= m
      <4>1. (s \o t)[i] = s[i] /\ i \in 1 .. m /\ i \notin m + 1 .. m + Len(t)
        BY <1>1, <1>5, <3>1
      <4> HIDE DEF m
      <4> QED
        BY <4>1
    <3>2. CASE ~(i <= m)
      <4>1. (s \o t)[i] = t[i - m] /\ i \notin 1 .. m /\ i \in m + 1 .. m + Len(t)
        BY <1>1, <1>5, <3>2
      <4> HIDE DEF m
      <4> QED
        BY <4>1
    <3> QED
      BY <3>1, <3>2
  <2>2. A \cup C \in SUBSET (1 .. m + Len(t))
    BY <1>1
  <2> HIDE DEF A, C, m
  <2> QED
    BY <1>5, <2>1, <2>2
<1>7. Count(s \o t, k) = Cardinality(A \cup C)
  <2> DEFINE u == s \o t
  <2>1. u \in Seq(S) /\ {i \in 1 .. Len(u) : u[i] = k} = A \cup C
    BY <1>5, <1>6
  <2> HIDE DEF u, A, C
  <2>2. Count(u, k) = Cardinality({i \in 1 .. Len(u) : u[i] = k})
    BY <2>1, CountIs
  <2> QED
    BY <2>1, <2>2 DEF u
<1> HIDE DEF A, B, C
<1>8. Cardinality(A \cup C) = Cardinality(A) + Cardinality(C)
  <2>1. Cardinality(A \cap C) = 0
    BY <1>4, FS_EmptySet
  <2>2. Cardinality(A \cup C) = Cardinality(A) + Cardinality(C) - Cardinality(A \cap C)
    BY <1>2, <1>3, FS_Union
  <2> QED
    BY <1>2, <1>3, <2>1, <2>2
<1> QED
  BY <1>2, <1>3, <1>7, <1>8

\* A queue keeps at most what it gets.
LEMMA CountKept ==
    ASSUME NEW S, NEW s \in Seq(S), NEW k
    PROVE  Count(Keep(s), k) <= Count(s, k)
<1> DEFINE n == Min({Len(s), Size})
           A == {i \in 1 .. n : s[i] = k}
           B == {i \in 1 .. Len(s) : s[i] = k}
<1>1. Len(s) \in Nat /\ Size \in Nat
  BY LoomAssumption
<1>2. n \in Nat /\ n <= Len(s)
  <2>1. n = IF Len(s) <= Size THEN Len(s) ELSE Size
    BY <1>1, MinOfTwo
  <2> HIDE DEF n
  <2> QED
    BY <1>1, <2>1
<1> HIDE DEF n
<1>3. Keep(s) = SubSeq(s, 1, n)
  BY DEF Keep, n
<1>4. Len(Keep(s)) = n /\ \A i \in 1 .. n : Keep(s)[i] = s[i]
  BY <1>2, <1>3, SubSeqProperties
<1>5. {i \in 1 .. Len(Keep(s)) : Keep(s)[i] = k} = A /\ A \in SUBSET B
  BY <1>1, <1>2, <1>4
<1>6. Keep(s) \in Seq(S)
  BY KeptOf
<1>7. Count(Keep(s), k) = Cardinality(A)
  <2>1. Count(Keep(s), k) = Cardinality({i \in 1 .. Len(Keep(s)) : Keep(s)[i] = k})
    BY <1>6, CountIs
  <2> QED
    BY <1>5, <2>1
<1>8. Count(s, k) = Cardinality(B) /\ IsFiniteSet(B)
  BY CountIs
<1> HIDE DEF A, B
<1> QED
  BY <1>5, <1>7, <1>8, FS_Subset

\* Packets of a sequence that has no others, or none of them.
LEMMA CountAllOrNone ==
    ASSUME NEW S, NEW s \in Seq(S), NEW k
    PROVE  /\ k \notin S => Count(s, k) = 0
           /\ S = {k} => Count(s, k) = Len(s)
<1>1. Len(s) \in Nat /\ \A i \in 1 .. Len(s) : s[i] \in S
  BY LenProperties, ElementOfSeq
<1>2. Count(s, k) = Cardinality({i \in 1 .. Len(s) : s[i] = k})
  BY CountIs
<1>3. k \notin S => {i \in 1 .. Len(s) : s[i] = k} = {}
  BY <1>1
<1>4. S = {k} => {i \in 1 .. Len(s) : s[i] = k} = 1 .. Len(s)
  BY <1>1
<1>5. Cardinality({}) = 0 /\ Cardinality(1 .. Len(s)) = Len(s)
  <2>1. Cardinality(1 .. Len(s)) = Len(s)
    BY <1>1, IntervalOf
  <2> QED
    BY <2>1, FS_EmptySet
<1>6. ASSUME k \notin S PROVE Count(s, k) = 0
  BY <1>2, <1>3, <1>5, <1>6
<1>7. ASSUME S = {k} PROVE Count(s, k) = Len(s)
  <2>1. {i \in 1 .. Len(s) : s[i] = k} = 1 .. Len(s)
    BY <1>4, <1>7
  <2> QED
    BY <1>2, <1>5, <2>1
<1> QED
  BY <1>6, <1>7

\* Taking the head of a queue takes one packet.
LEMMA CountBehind ==
    ASSUME NEW S, NEW s \in Seq(S), NEW k
    PROVE  Count(s, k) = Count(Rest(s), k) + (IF s # <<>> /\ Head(s) = k THEN 1 ELSE 0)
<1>1. CASE s = <<>>
  <2>1. Rest(s) = s /\ Count(s, k) \in Nat
    BY <1>1, CountIs DEF Rest
  <2> QED
    BY <1>1, <2>1
<1>2. CASE s # <<>>
  <2>1. Head(s) \in S /\ Tail(s) \in Seq(S) /\ s = <<Head(s)>> \o Tail(s) /\ <<Head(s)>> \in Seq(S)
    BY <1>2, HeadTailProperties
  <2>2. Count(s, k) = Count(<<Head(s)>>, k) + Count(Tail(s), k)
    BY <2>1, CountConcat
  <2>3. Count(<<Head(s)>>, k) = IF Head(s) = k THEN 1 ELSE 0
    <3>1. <<Head(s)>> \in Seq({Head(s)}) /\ Len(<<Head(s)>>) = 1
      OBVIOUS
    <3> QED
      BY <3>1, CountAllOrNone
  <2>4. Count(Tail(s), k) \in Nat
    BY <2>1, CountIs
  <2>5. Rest(s) = Tail(s)
    BY <1>2 DEF Rest
  <2> QED
    BY <1>2, <2>2, <2>3, <2>4, <2>5
<1> QED
  BY <1>1, <1>2

\* Each core's packet is enqueued once: there is a slot for every core.
LEMMA CountJoining ==
    ASSUME NEW pkts \in [Cores -> Classes \cup {NoPkt}], NEW classes \in SUBSET Classes,
           NEW k \in classes
    PROVE  Count(Enqueued(pkts, classes), k) = Cardinality({c \in Cores : pkts[c] = k})
<1> DEFINE valid == {c \in Cores : pkts[c] \in classes}
           slots == Taken(valid, CoreCnt)
           n == Len(slots)
<1>1. CoreCnt \in Nat /\ IsFiniteSet(Cores) /\ Cores \in SUBSET Nat /\ Cardinality(Cores) = CoreCnt
  <2>1. CoreCnt \in Nat
    BY LoomAssumption
  <2> QED
    BY <2>1, FS_Interval DEF Cores
<1>2. /\ valid \in SUBSET Cores /\ valid \in SUBSET Nat /\ IsFiniteSet(valid)
      /\ Cardinality(valid) <= CoreCnt /\ Cardinality(valid) \in Nat
  <2>1. valid \in SUBSET Cores
    OBVIOUS
  <2> QED
    BY <1>1, <2>1, FS_Subset, FS_CardinalityType
<1>3. slots \in Seq(valid) /\ n = Cardinality(valid) /\ \A i \in 1 .. n : Rank(valid, slots[i]) = i - 1
  <2> HIDE DEF valid
  <2>1. Filled(slots, valid, CoreCnt)
    BY <1>1, <1>2, TakenInOrder
  <2> HIDE DEF slots
  <2> QED
    BY <1>1, <1>2, <2>1 DEF Filled
<1> HIDE DEF slots
<1>4. n \in Nat /\ \A i \in 1 .. n : slots[i] \in valid
  BY <1>2, <1>3, ElementOfSeq
<1>5. \A i, j \in 1 .. n : slots[i] = slots[j] => i = j
  <2> TAKE i, j \in 1 .. n
  <2>1. Rank(valid, slots[i]) = i - 1 /\ Rank(valid, slots[j]) = j - 1
    BY <1>3
  <2> QED
    BY <1>4, <2>1
<1>6. \A c \in valid : \E i \in 1 .. n : slots[i] = c
  <2> DEFINE f == [i \in 1 .. n |-> slots[i]]
  <2> HIDE DEF valid
  <2>1. f \in Injection(1 .. n, valid)
    BY <1>4, <1>5 DEF Injection, IsInjective
  <2>2. Cardinality(1 .. n) = Cardinality(valid)
    BY <1>3, <1>4, FS_Interval
  <2> HIDE DEF f
  <2>3. f \in Surjection(1 .. n, valid)
    BY <1>2, <2>1, <2>2, FS_Injection
  <2> QED
    BY <2>3 DEF Surjection, f
<1>7. Enqueued(pkts, classes) = [i \in 1 .. n |-> pkts[slots[i]]]
  BY <1>3 DEF Enqueued, slots
<1>8. /\ Enqueued(pkts, classes) \in Seq(classes) /\ Len(Enqueued(pkts, classes)) = n
      /\ \A i \in 1 .. n : Enqueued(pkts, classes)[i] = pkts[slots[i]]
  <2>1. \A i \in 1 .. n : pkts[slots[i]] \in classes
    BY <1>4
  <2> HIDE DEF n
  <2> QED
    BY <1>4, <1>7, <2>1
<1> DEFINE A == {i \in 1 .. n : pkts[slots[i]] = k}
           C == {c \in Cores : pkts[c] = k}
           g == [i \in A |-> slots[i]]
<1>9. Count(Enqueued(pkts, classes), k) = Cardinality(A) /\ IsFiniteSet(A)
  <2> DEFINE u == Enqueued(pkts, classes)
  <2>1. u \in Seq(classes) /\ {i \in 1 .. Len(u) : u[i] = k} = A
    BY <1>8
  <2> HIDE DEF u, A
  <2>2. /\ Count(u, k) = Cardinality({i \in 1 .. Len(u) : u[i] = k})
        /\ IsFiniteSet({i \in 1 .. Len(u) : u[i] = k})
    BY <2>1, CountIs
  <2> QED
    BY <2>1, <2>2 DEF u
<1>10. g \in [A -> C] /\ (\A i, j \in A : g[i] = g[j] => i = j) /\ \A c \in C : \E i \in A : g[i] = c
  <2>1. \A i \in A : slots[i] \in C
    BY <1>4
  <2>2. \A i, j \in A : slots[i] = slots[j] => i = j
    BY <1>5
  <2>3. \A c \in C : \E i \in A : slots[i] = c
    <3> TAKE c \in C
    <3>1. c \in valid
      OBVIOUS
    <3>2. PICK i \in 1 .. n : slots[i] = c
      BY <1>6, <3>1
    <3> QED
      BY <3>2
  <2> HIDE DEF A, C
  <2> QED
    BY <2>1, <2>2, <2>3
<1> HIDE DEF A, C, g
<1>11. ExistsBijection(A, C)
  BY <1>10 DEF ExistsBijection, Bijection, Injection, IsInjective, Surjection
<1>12. Cardinality(C) = Cardinality(A)
  BY <1>9, <1>11, FS_Bijection
<1> QED
  BY <1>9, <1>12 DEF C

(* What the flows of a core hand on ******************************************)

\* What the flows f of a core send to its tenant queues.
Onward(f) == ToTenant1(f) \o ToTenant2(f)

\* What a core hands on is what its tenants hand on.
LEMMA OnwardCount ==
    ASSUME NEW f \in [Classes -> Nat]
    PROVE  /\ Onward(f) \in Seq(Classes)
           /\ \A k \in Classes :
                 Count(Onward(f), k) = Count(ToTenant1(f), k) + Count(ToTenant2(f), k)
           /\ Count(ToTenant1(f), Tenant1Spark) = Min({MaxEnq, f[Tenant1Spark]})
           /\ Count(ToTenant2(f), Tenant1Spark) = 0
           /\ \A k \in {Tenant2Spark, Tenant2Memcached} : Count(ToTenant1(f), k) = 0
<1>1. /\ ToTenant1(f) \in Seq({Tenant1Spark})
      /\ ToTenant2(f) \in Seq({Tenant2Spark, Tenant2Memcached})
  BY FlowsHandOn
<1>2. ToTenant1(f) \in Seq(Classes) /\ ToTenant2(f) \in Seq(Classes)
  <2>1. Seq({Tenant1Spark}) \in SUBSET Seq(Classes)
        /\ Seq({Tenant2Spark, Tenant2Memcached}) \in SUBSET Seq(Classes)
    BY DEF Classes
  <2> QED
    BY <1>1, <2>1
<1>3. Onward(f) \in Seq(Classes)
  BY <1>2, ConcatProperties DEF Onward
<1>4. ASSUME NEW k \in Classes
      PROVE  Count(Onward(f), k) = Count(ToTenant1(f), k) + Count(ToTenant2(f), k)
  BY <1>2, CountConcat DEF Onward
<1>5. Count(ToTenant1(f), Tenant1Spark) = Min({MaxEnq, f[Tenant1Spark]})
  <2> DEFINE n == Min({MaxEnq, f[Tenant1Spark]})
  <2>1. MaxEnq \in Nat /\ f[Tenant1Spark] \in Nat
    BY LoomAssumption DEF Classes
  <2>2. n \in Nat
    BY <2>1, MinOfTwo
  <2>3. ToTenant1(f) = [i \in 1 .. n |-> Tenant1Spark]
    BY DEF ToTenant1
  <2> HIDE DEF n
  <2>4. Len(ToTenant1(f)) = n
    BY <2>2, <2>3
  <2>5. Count(ToTenant1(f), Tenant1Spark) = Len(ToTenant1(f))
    BY <1>1, CountAllOrNone
  <2> QED
    BY <2>4, <2>5 DEF n
<1>6. Count(ToTenant2(f), Tenant1Spark) = 0
  <2>1. Tenant1Spark \notin {Tenant2Spark, Tenant2Memcached}
    BY DEF Tenant1Spark, Tenant2Spark, Tenant2Memcached
  <2> QED
    BY <1>1, <2>1, CountAllOrNone
<1>7. ASSUME NEW k \in {Tenant2Spark, Tenant2Memcached} PROVE Count(ToTenant1(f), k) = 0
  <2>1. k \notin {Tenant1Spark}
    BY DEF Tenant1Spark, Tenant2Spark, Tenant2Memcached
  <2> QED
    BY <1>1, <2>1, CountAllOrNone
<1> QED
  BY <1>3, <1>4, <1>5, <1>6, <1>7

\* Tenant 2's slots are taken by different candidates of its two flows.
LEMMA Tenant2Slots ==
    ASSUME NEW f \in [Classes -> Nat]
    PROVE  LET slots == Taken(Candidates(f), MaxEnq)
           IN  /\ slots \in Seq(Candidates(f))
               /\ Len(slots) = Min({MaxEnq, Cardinality(Candidates(f))})
               /\ \A i, j \in 1 .. Len(slots) : slots[i] = slots[j] => i = j
               /\ \A k : Count(ToTenant2(f), k)
                           = Cardinality({i \in 1 .. Len(slots) : FlowOf(slots[i]) = k})
<1> DEFINE slots == Taken(Candidates(f), MaxEnq)
<1>1. MaxEnq \in Nat /\ Candidates(f) \in SUBSET Nat /\ IsFiniteSet(Candidates(f))
  BY CandidatesAre, LoomAssumption
<1>2. Filled(slots, Candidates(f), MaxEnq) /\ Cardinality(Candidates(f)) \in Nat
  BY <1>1, TakenInOrder, FS_CardinalityType
<1>3. slots \in Seq(Candidates(f)) /\ Len(slots) = Min({MaxEnq, Cardinality(Candidates(f))})
  BY <1>1, <1>2, MinOfTwo DEF Filled
<1>4. ASSUME NEW i \in 1 .. Len(slots), NEW j \in 1 .. Len(slots), slots[i] = slots[j]
      PROVE  i = j
  <2>1. Rank(Candidates(f), slots[i]) = i - 1 /\ Rank(Candidates(f), slots[j]) = j - 1
    BY <1>2 DEF Filled
  <2> HIDE DEF slots
  <2> QED
    BY <1>4, <2>1
<1>5. ASSUME NEW k
      PROVE  Count(ToTenant2(f), k) = Cardinality({i \in 1 .. Len(slots) : FlowOf(slots[i]) = k})
  <2>1. ToTenant2(f) = [i \in 1 .. Len(slots) |-> FlowOf(slots[i])] /\ Len(slots) \in Nat
    BY <1>3 DEF ToTenant2
  <2> HIDE DEF slots
  <2>2. /\ DOMAIN ToTenant2(f) = 1 .. Len(slots)
        /\ {i \in DOMAIN ToTenant2(f) : ToTenant2(f)[i] = k} = {i \in 1 .. Len(slots) : FlowOf(slots[i]) = k}
    BY <2>1
  <2> QED
    BY <2>2 DEF Count
<1> QED
  BY <1>3, <1>4, <1>5

\* A core hands on at most the packets it has, so that there is always a number
\* of packets the solver may dequeue.
LEMMA HandsOnItsOwn ==
    ASSUME NEW f \in [Classes -> Nat], NEW k \in Classes
    PROVE  Count(Onward(f), k) \in Nat /\ Count(Onward(f), k) <= f[k]
<1>1. Count(Onward(f), k) = Count(ToTenant1(f), k) + Count(ToTenant2(f), k)
  BY OnwardCount
<1>2. f[k] \in Nat /\ MaxEnq \in Nat
  BY LoomAssumption
<1>3. CASE k = Tenant1Spark
  <2>1. Min({MaxEnq, f[k]}) \in Nat /\ Min({MaxEnq, f[k]}) <= f[k]
    BY <1>2, MinOfTwo
  <2> QED
    BY <1>1, <1>2, <1>3, <2>1, OnwardCount
<1>4. CASE k \in {Tenant2Spark, Tenant2Memcached}
  <2> DEFINE slots == Taken(Candidates(f), MaxEnq)
             A == {i \in 1 .. Len(slots) : FlowOf(slots[i]) = k}
             g == [i \in A |-> slots[i] \div 2]
  <2>1. /\ slots \in Seq(Candidates(f))
        /\ \A i, j \in 1 .. Len(slots) : slots[i] = slots[j] => i = j
        /\ Count(ToTenant2(f), k) = Cardinality(A)
    BY Tenant2Slots
  <2> HIDE DEF slots
  <2>2. \A i \in 1 .. Len(slots) : slots[i] \in Candidates(f) /\ slots[i] \in Nat
    BY <2>1, CandidatesAre, ElementOfSeq
  <2>3. ASSUME NEW i \in A PROVE slots[i] \div 2 \in 0 .. f[k] - 1
    <3>1. slots[i] \in Nat /\ slots[i] \div 2 < f[k]
      BY <2>2 DEF Candidates
    <3> QED
      BY <1>2, <3>1
  <2>4. ASSUME NEW i \in A, NEW j \in A, slots[i] \div 2 = slots[j] \div 2 PROVE i = j
    <3>1. slots[i] % 2 = slots[j] % 2 /\ slots[i] \in Nat /\ slots[j] \in Nat
      BY <2>2 DEF FlowOf, Tenant2Spark
    <3>2. \A u, w \in Nat : u % 2 = w % 2 /\ u \div 2 = w \div 2 => u = w
      OBVIOUS
    <3>3. slots[i] = slots[j]
      BY <2>4, <3>1, <3>2
    <3> QED
      BY <2>1, <3>3
  <2>5. g \in Injection(A, 0 .. f[k] - 1)
    <3>1. \A i, j \in A : g[i] = g[j] => i = j
      BY <2>4
    <3> HIDE DEF A
    <3>2. g \in [A -> 0 .. f[k] - 1]
      BY <2>3
    <3> HIDE DEF g
    <3> QED
      BY <3>1, <3>2 DEF Injection, IsInjective
  <2>6. IsFiniteSet(0 .. f[k] - 1) /\ Cardinality(0 .. f[k] - 1) = f[k]
    BY <1>2, IntervalOf
  <2> HIDE DEF A, g
  <2>7. IsFiniteSet(A) /\ Cardinality(A) <= f[k]
    BY <2>5, <2>6, FS_Injection
  <2>8. Cardinality(A) \in Nat
    BY <2>7, FS_CardinalityType
  <2>9. Count(ToTenant1(f), k) = 0
    BY <1>4, OnwardCount
  <2> QED
    BY <1>1, <2>1, <2>7, <2>8, <2>9
<1> QED
  BY <1>3, <1>4 DEF Classes

\* A flow that is alone in its tenant hands on all it has.
LEMMA AloneHandsOnAll ==
    ASSUME NEW f \in [Classes -> Nat], NEW k \in Classes, f[k] <= MaxEnq,
           \A x \in Classes : k # Tenant1Spark /\ x # k /\ x # Tenant1Spark => f[x] = 0
    PROVE  Count(Onward(f), k) = f[k]
<1>1. Count(Onward(f), k) = Count(ToTenant1(f), k) + Count(ToTenant2(f), k)
  BY OnwardCount
<1>2. f[k] \in Nat /\ MaxEnq \in Nat
  BY LoomAssumption
<1>3. CASE k = Tenant1Spark
  <2>1. Min({MaxEnq, f[k]}) = f[k]
    BY <1>2, MinOfTwo
  <2> QED
    BY <1>1, <1>2, <1>3, <2>1, OnwardCount
<1>4. CASE k \in {Tenant2Spark, Tenant2Memcached}
  <2> DEFINE slots == Taken(Candidates(f), MaxEnq)
             n == Len(slots)
             g == [i \in 0 .. f[k] - 1 |-> 2 * i + (k - Tenant2Spark)]
  <2>1. /\ slots \in Seq(Candidates(f))
        /\ n = Min({MaxEnq, Cardinality(Candidates(f))})
        /\ Count(ToTenant2(f), k) = Cardinality({i \in 1 .. n : FlowOf(slots[i]) = k})
    BY Tenant2Slots
  <2>2. IsFiniteSet(Candidates(f)) /\ Cardinality(Candidates(f)) \in Nat
    BY CandidatesAre, FS_CardinalityType
  <2> HIDE DEF slots
  <2>3. ASSUME NEW i \in 1 .. n PROVE FlowOf(slots[i]) = k
    <3>1. slots[i] \in Candidates(f) /\ slots[i] \in Nat
      BY <2>1, CandidatesAre, ElementOfSeq
    <3>2. slots[i] \div 2 < f[FlowOf(slots[i])] /\ slots[i] \div 2 >= 0
      BY <3>1 DEF Candidates
    <3>3. FlowOf(slots[i]) \in {Tenant2Spark, Tenant2Memcached}
      BY <3>1, CandidatesAre
    <3>4. FlowOf(slots[i]) # k => f[FlowOf(slots[i])] = 0
      BY <1>4, <3>3 DEF Classes, Tenant1Spark, Tenant2Spark, Tenant2Memcached
    <3>5. slots[i] \div 2 \in Int
      BY <3>1
    <3> QED
      BY <3>2, <3>4, <3>5
  <2>4. n \in Nat /\ {i \in 1 .. n : FlowOf(slots[i]) = k} = 1 .. n
    <3>1. n \in Nat
      BY <2>1, LenProperties
    <3> QED
      BY <2>3, <3>1
  <2>5. Count(ToTenant2(f), k) = n
    BY <2>1, <2>4, IntervalOf
  <2>6. g \in Injection(0 .. f[k] - 1, Candidates(f))
    <3>1. ASSUME NEW i \in 0 .. f[k] - 1 PROVE 2 * i + (k - Tenant2Spark) \in Candidates(f)
      <4>1. k - Tenant2Spark \in 0 .. 1 /\ i \in Nat /\ i < f[k]
        BY <1>2, <1>4 DEF Tenant2Spark, Tenant2Memcached
      <4> DEFINE j == 2 * i + (k - Tenant2Spark)
      <4>2. j \in Nat /\ j % 2 = k - Tenant2Spark /\ j \div 2 = i /\ j <= 2 * MaxEnq - 1
        BY <1>2, <4>1
      <4>3. FlowOf(j) = k
        BY <1>4, <4>2 DEF FlowOf, Tenant2Spark, Tenant2Memcached
      <4> HIDE DEF j
      <4>4. j \in Candidates(f)
        BY <1>2, <4>1, <4>2, <4>3 DEF Candidates
      <4> QED
        BY <4>4 DEF j
    <3>2. \A i, j \in 0 .. f[k] - 1 :
             2 * i + (k - Tenant2Spark) = 2 * j + (k - Tenant2Spark) => i = j
      BY <1>2, <1>4 DEF Tenant2Spark, Tenant2Memcached
    <3>3. g \in [0 .. f[k] - 1 -> Candidates(f)] /\ \A i, j \in 0 .. f[k] - 1 : g[i] = g[j] => i = j
      BY <3>1, <3>2
    <3> HIDE DEF g
    <3> QED
      BY <3>3 DEF Injection, IsInjective
  <2>7. Cardinality(0 .. f[k] - 1) = f[k]
    BY <1>2, IntervalOf
  <2> HIDE DEF g
  <2>8. f[k] <= Cardinality(Candidates(f))
    BY <2>2, <2>6, <2>7, FS_Injection
  <2>9. n >= f[k]
    BY <1>2, <2>1, <2>2, <2>8, MinOfTwo
  <2>10. Count(ToTenant1(f), k) = 0
    BY <1>4, OnwardCount
  <2>11. Count(Onward(f), k) <= f[k]
    BY HandsOnItsOwn
  <2> QED
    BY <1>1, <1>2, <2>4, <2>5, <2>9, <2>10, <2>11
<1> QED
  BY <1>3, <1>4 DEF Classes

(* Where the packets are *****************************************************)

\* Class k shares its tenant's queue with no other that has sent anything.
Alone(k) == \A x \in Classes : k # Tenant1Spark /\ x # k /\ x # Tenant1Spark => arrived[x] = 0

\* What is alone leaves the flow's queue in the step in which it arrives.
KeptInv ==
    /\ arrived \in [Classes -> Nat] /\ sent \in [Classes -> Nat]
    /\ \A k \in Classes : arrived[k] = 0 => \A c \in Cores : flow[c][k] = 0
    /\ \A k \in Classes : Alone(k) => \A c \in Cores : deq[c][k] = flow[c][k]
    /\ \A k \in Classes : sent[k] + Queued(k) <= arrived[k]
    /\ \A k \in Classes : ~filled /\ Alone(k) => Accounted(k)

\* Whether core c sends a packet of class k to the NIC.
IsServed(c, k) == IF Served(tenant[c], last[c]) = k THEN 1 ELSE 0

\* The packets in a core's tenant queues are those that stay and the one that leaves.
LEMMA TenantCount ==
    ASSUME NEW q \in [1 .. 2 -> Seq(Classes)], NEW l \in 1 .. 2, NEW k \in Classes
    PROVE  /\ Count(q[1], k) \in Nat /\ Count(q[2], k) \in Nat
           /\ Count(Left(q, l)[1], k) \in Nat /\ Count(Left(q, l)[2], k) \in Nat
           /\ Count(q[1], k) + Count(q[2], k)
                = Count(Left(q, l)[1], k) + Count(Left(q, l)[2], k)
                  + (IF Served(q, l) = k THEN 1 ELSE 0)
<1>1. q[1] \in Seq(Classes) /\ q[2] \in Seq(Classes) /\ Turn(q, l) \in 1 .. 2
      /\ Left(q, l) \in [1 .. 2 -> Seq(Classes)]
  BY CoreServes
<1>2. /\ Count(q[1], k) \in Nat /\ Count(q[2], k) \in Nat
      /\ Count(Left(q, l)[1], k) \in Nat /\ Count(Left(q, l)[2], k) \in Nat
  <2>1. \A s \in Seq(Classes) : Count(s, k) \in Nat
    BY CountIs
  <2>2. Left(q, l)[1] \in Seq(Classes) /\ Left(q, l)[2] \in Seq(Classes)
    BY <1>1
  <2> QED
    BY <1>1, <2>1, <2>2
<1>3. NoPkt # k
  BY DEF NoPkt, Classes, Tenant1Spark, Tenant2Spark, Tenant2Memcached
<1> DEFINE t == Turn(q, l)
<1>4. Count(q[t], k) = Count(Rest(q[t]), k) + (IF Served(q, l) = k THEN 1 ELSE 0)
  <2>1. q[t] \in Seq(Classes)
    BY <1>1
  <2>2. Count(q[t], k) = Count(Rest(q[t]), k) + (IF q[t] # <<>> /\ Head(q[t]) = k THEN 1 ELSE 0)
    BY <2>1, CountBehind
  <2>3. Served(q, l) = k <=> q[t] # <<>> /\ Head(q[t]) = k
    BY <1>3 DEF Served
  <2> QED
    BY <2>2, <2>3
<1>5. Left(q, l) = [q EXCEPT ![t] = Rest(q[t])]
  BY DEF Left
<1> HIDE DEF t
<1>6. CASE t = 1
  <2>1. Left(q, l)[1] = Rest(q[1]) /\ Left(q, l)[2] = q[2]
    BY <1>5, <1>6
  <2> QED
    BY <1>2, <1>4, <1>6, <2>1
<1>7. CASE t = 2
  <2>1. Left(q, l)[2] = Rest(q[2]) /\ Left(q, l)[1] = q[1]
    BY <1>5, <1>7
  <2> QED
    BY <1>2, <1>4, <1>7, <2>1
<1> QED
  BY <1>1, <1>2, <1>6, <1>7 DEF t

\* The packets of a flow's queue come from those it held and those that arrive.
LEMMA FlowBalance ==
    ASSUME NICInv, NEW in \in Arrivals, FlowEnq(in), NEW c \in Cores, NEW k \in Classes
    PROVE  /\ flow'[c][k] \in Nat /\ deq'[c][k] \in Nat /\ in[c][k] \in 0 .. MaxEnq
           /\ flow[c][k] \in Nat /\ deq[c][k] \in Nat /\ deq[c][k] <= flow[c][k]
           /\ flow'[c][k] <= flow[c][k] - deq[c][k] + in[c][k]
           /\ flow'[c][k] # Size => flow'[c][k] = flow[c][k] - deq[c][k] + in[c][k]
           /\ deq[c][k] = flow[c][k] => flow'[c][k] = in[c][k]
           /\ deq'[c][k] <= flow'[c][k] /\ Count(Onward(flow'[c]), k) <= deq'[c][k]
           /\ flow'[c] \in [Classes -> Nat]
<1>1. Size \in Nat /\ in \in [Cores -> [Classes -> 0 .. MaxEnq]] /\ MaxEnq \in Nat /\ MaxEnq <= Size
  BY LoomAssumption
<1>2. /\ flow[c][k] \in Nat /\ deq[c][k] \in Nat /\ deq[c][k] <= flow[c][k]
      /\ in[c][k] \in 0 .. MaxEnq
  BY <1>1 DEF NICInv, LoomTypes
<1>3. /\ flow' \in [Cores -> [Classes -> 0 .. Size]]
      /\ deq' \in [Cores -> [Classes -> 0 .. Size]] /\ deq'[c][k] <= flow'[c][k]
  BY FlowEnqKeeps
<1>4. flow'[c][k] \in Nat /\ deq'[c][k] \in Nat /\ flow'[c] \in [Classes -> Nat]
  BY <1>1, <1>3
<1> DEFINE n == flow[c][k] - deq[c][k] + in[c][k]
<1>5. n \in Nat
  BY <1>1, <1>2
<1>6. flow'[c][k] = Min({Size, n})
  BY DEF FlowEnq
<1> HIDE DEF n
<1>7. flow'[c][k] = IF Size <= n THEN Size ELSE n
  BY <1>1, <1>5, <1>6, MinOfTwo
<1>8. deq'[c][k] >= Count(Onward(flow'[c]), k)
  <2>1. deq'[c] \in Dequeues(flow'[c])
    BY DEF FlowEnq
  <2> QED
    BY <2>1 DEF Dequeues, Onward
<1>9. Count(Onward(flow'[c]), k) \in Nat
  BY <1>4, HandsOnItsOwn
<1>10. deq[c][k] = flow[c][k] => n = in[c][k] /\ flow'[c][k] = in[c][k]
  BY <1>1, <1>2, <1>7 DEF n
<1>11. flow'[c][k] <= n /\ (flow'[c][k] # Size => flow'[c][k] = n)
  BY <1>1, <1>5, <1>7
<1> QED
  BY <1>2, <1>3, <1>4, <1>8, <1>9, <1>10, <1>11 DEF n

\* What is alone hands on all that arrives.
LEMMA AloneLeaves ==
    ASSUME NICInv, KeptInv, NEW in \in Arrivals, FlowEnq(in),
           arrived' = [k \in Classes |-> arrived[k] + OverCores([c \in Cores |-> in[c][k]])]
    PROVE  /\ arrived' \in [Classes -> Nat]
           /\ \A k \in Classes : arrived'[k] = 0 => \A c \in Cores : flow'[c][k] = 0
           /\ \A k \in Classes : Alone(k)' =>
                 /\ Alone(k)
                 /\ \A c \in Cores : /\ deq'[c][k] = flow'[c][k]
                                     /\ Count(Onward(flow'[c]), k) = flow'[c][k]
<1>0. in \in [Cores -> [Classes -> 0 .. MaxEnq]] /\ MaxEnq \in Nat
  BY LoomAssumption
<1>1. ASSUME NEW k \in Classes
      PROVE  /\ arrived[k] \in Nat /\ arrived'[k] \in Nat
             /\ arrived'[k] = arrived[k] + OverCores([c \in Cores |-> in[c][k]])
             /\ arrived'[k] = 0 => arrived[k] = 0 /\ \A c \in Cores : in[c][k] = 0
  <2> DEFINE f == [c \in Cores |-> in[c][k]]
  <2>1. f \in [Cores -> Nat]
    BY <1>0
  <2>2. \A c \in Cores : f[c] = in[c][k]
    OBVIOUS
  <2>3. arrived[k] \in Nat /\ arrived'[k] = arrived[k] + OverCores(f)
    BY DEF KeptInv
  <2> HIDE DEF f
  <2>4. OverCores(f) \in Nat /\ \A c \in Cores : f[c] <= OverCores(f) /\ f[c] \in Nat
    BY <2>1, SumOfNaturals
  <2>5. arrived'[k] \in Nat /\ (arrived'[k] = 0 => arrived[k] = 0 /\ OverCores(f) = 0)
    BY <2>3, <2>4
  <2>6. OverCores(f) = 0 => \A c \in Cores : in[c][k] = 0
    BY <2>2, <2>4
  <2> QED
    BY <2>3, <2>5, <2>6 DEF f
<1>2. ASSUME NEW k \in Classes, arrived'[k] = 0, NEW c \in Cores PROVE flow'[c][k] = 0
  <2>1. arrived[k] = 0 /\ in[c][k] = 0
    BY <1>1, <1>2
  <2>2. flow[c][k] = 0
    BY <2>1 DEF KeptInv
  <2>3. deq[c][k] = flow[c][k]
    BY <2>2, FlowBalance
  <2> QED
    BY <2>1, <2>3, FlowBalance
<1>3. ASSUME NEW k \in Classes, Alone(k)'
      PROVE  /\ Alone(k)
             /\ \A c \in Cores : /\ deq'[c][k] = flow'[c][k]
                                 /\ Count(Onward(flow'[c]), k) = flow'[c][k]
  <2>1. \A x \in Classes : k # Tenant1Spark /\ x # k /\ x # Tenant1Spark => arrived'[x] = 0
    BY <1>3 DEF Alone
  <2>2. Alone(k)
    BY <1>1, <2>1 DEF Alone
  <2>3. ASSUME NEW c \in Cores
        PROVE  deq'[c][k] = flow'[c][k] /\ Count(Onward(flow'[c]), k) = flow'[c][k]
    <3>1. deq[c][k] = flow[c][k]
      BY <2>2 DEF KeptInv
    <3>2. flow'[c][k] \in 0 .. MaxEnq /\ flow'[c] \in [Classes -> Nat]
      BY <3>1, FlowBalance
    <3>3. \A x \in Classes : k # Tenant1Spark /\ x # k /\ x # Tenant1Spark => flow'[c][x] = 0
      BY <1>2, <2>1
    <3>4. flow'[c][k] <= MaxEnq
      BY <1>0, <3>2
    <3>5. Count(Onward(flow'[c]), k) = flow'[c][k]
      BY <3>2, <3>3, <3>4, AloneHandsOnAll
    <3>6. deq'[c][k] \in Nat /\ deq'[c][k] <= flow'[c][k] /\ Count(Onward(flow'[c]), k) <= deq'[c][k]
      BY FlowBalance
    <3> QED
      BY <3>2, <3>5, <3>6
  <2> QED
    BY <2>2, <2>3
<1>4. arrived' \in [Classes -> Nat]
  BY <1>1
<1> QED
  BY <1>2, <1>3, <1>4

\* What a queue that was not full kept of what it held and got.
LEMMA KeptBalance ==
    ASSUME NEW s \in Seq(Classes), NEW t \in Seq(Classes), NEW k \in Classes
    PROVE  /\ Keep(s \o t) \in Seq(Classes)
           /\ Count(Keep(s \o t), k) \in Nat
           /\ Count(Keep(s \o t), k) <= Count(s, k) + Count(t, k)
           /\ Len(Keep(s \o t)) # Size => Count(Keep(s \o t), k) = Count(s, k) + Count(t, k)
<1> DEFINE u == s \o t
<1>1. u \in Seq(Classes)
  BY ConcatProperties
<1>2. Count(u, k) = Count(s, k) + Count(t, k)
  BY CountConcat
<1> HIDE DEF u
<1>3. Keep(u) \in Seq(Classes) /\ Count(Keep(u), k) <= Count(u, k)
  BY <1>1, KeptOf, CountKept
<1>4. Count(Keep(u), k) \in Nat
  BY <1>3, CountIs
<1>5. ASSUME Len(Keep(u)) # Size PROVE Keep(u) = u
  <2> DEFINE n == Min({Len(u), Size})
  <2>1. Len(u) \in Nat /\ Size \in Nat
    BY <1>1, LoomAssumption
  <2>2. n = IF Len(u) <= Size THEN Len(u) ELSE Size
    BY <2>1, MinOfTwo
  <2>3. Keep(u) = SubSeq(u, 1, n)
    BY DEF Keep
  <2> HIDE DEF n
  <2>4. Len(Keep(u)) = n
    <3>1. n \in Nat /\ n <= Len(u)
      BY <2>1, <2>2
    <3> QED
      BY <1>1, <2>3, <3>1, SubSeqProperties
  <2>5. n = Len(u)
    BY <1>5, <2>2, <2>4
  <2> QED
    BY <1>1, <2>1, <2>2, <2>5, KeptOf
<1> QED
  BY <1>2, <1>3, <1>4, <1>5 DEF u

\* In a step a core gets what arrives, and what it does not hold then has left it.
LEMMA CoreBalance ==
    ASSUME NICInv, NICInv', NEW in \in Arrivals, FlowEnq(in), RoundRobin,
           NEW c \in Cores, NEW k \in Classes
    PROVE  /\ Held(c, k) \in Int /\ Held(c, k)' \in Nat /\ IsServed(c, k)' \in 0 .. 1
           /\ in[c][k] \in Nat
           /\ Held(c, k)' + IsServed(c, k)' <= Held(c, k) + in[c][k]
           /\ ~Full' /\ deq'[c][k] = Count(Onward(flow'[c]), k)
                => Held(c, k)' + IsServed(c, k)' = Held(c, k) + in[c][k]
<1> DEFINE left == Left(tenant[c], last[c])
           f == flow'[c]
           q1 == left[1] \o ToTenant1(f)
           q2 == left[2] \o ToTenant2(f)
           a1 == Count(left[1], k)
           a2 == Count(left[2], k)
           b1 == Count(ToTenant1(f), k)
           b2 == Count(ToTenant2(f), k)
           t1 == Count(Keep(q1), k)
           t2 == Count(Keep(q2), k)
           n1 == Count(Left(tenant'[c], last'[c])[1], k)
           n2 == Count(Left(tenant'[c], last'[c])[2], k)
<1>1. /\ tenant[c] \in [1 .. 2 -> Seq(Classes)] /\ last[c] \in 1 .. 2
      /\ tenant'[c] \in [1 .. 2 -> Seq(Classes)] /\ last'[c] \in 1 .. 2
  BY DEF NICInv, LoomTypes
<1>2. left[1] \in Seq(Classes) /\ left[2] \in Seq(Classes) /\ a1 \in Nat /\ a2 \in Nat
  <2>1. left \in [1 .. 2 -> Seq(Classes)]
    BY <1>1, CoreServes
  <2>2. a1 \in Nat /\ a2 \in Nat
    BY <1>1, TenantCount
  <2> HIDE DEF left
  <2> QED
    BY <2>1, <2>2
<1>3. /\ f \in [Classes -> Nat] /\ f[k] \in Nat /\ deq'[c][k] \in Nat /\ in[c][k] \in Nat
      /\ flow[c][k] \in Nat /\ deq[c][k] \in Nat /\ deq[c][k] <= flow[c][k]
      /\ f[k] <= flow[c][k] - deq[c][k] + in[c][k]
      /\ f[k] # Size => f[k] = flow[c][k] - deq[c][k] + in[c][k]
      /\ deq'[c][k] <= f[k] /\ Count(Onward(f), k) <= deq'[c][k]
  BY FlowBalance, LoomAssumption
<1>4. ToTenant1(f) \in Seq(Classes) /\ ToTenant2(f) \in Seq(Classes)
  <2>1. Seq({Tenant1Spark}) \in SUBSET Seq(Classes)
        /\ Seq({Tenant2Spark, Tenant2Memcached}) \in SUBSET Seq(Classes)
    BY DEF Classes
  <2> QED
    BY <1>3, <2>1, FlowsHandOn
<1>5. b1 \in Nat /\ b2 \in Nat /\ Count(Onward(f), k) = b1 + b2
  BY <1>3, <1>4, CountIs, OnwardCount
<1>6. tenant'[c] = <<Keep(q1), Keep(q2)>>
  BY DEF RoundRobin
<1>7. tenant'[c][1] = Keep(q1) /\ tenant'[c][2] = Keep(q2)
  BY <1>6
<1>8. /\ t1 \in Nat /\ t1 <= a1 + b1 /\ (Len(Keep(q1)) # Size => t1 = a1 + b1)
      /\ t2 \in Nat /\ t2 <= a2 + b2 /\ (Len(Keep(q2)) # Size => t2 = a2 + b2)
  <2> HIDE DEF left, f
  <2> QED
    BY <1>2, <1>4, KeptBalance
<1>9. n1 \in Nat /\ n2 \in Nat /\ t1 + t2 = n1 + n2 + IsServed(c, k)'
  <2> HIDE DEF q1, q2
  <2>1. /\ n1 \in Nat /\ n2 \in Nat
        /\ Count(tenant'[c][1], k) + Count(tenant'[c][2], k)
             = n1 + n2 + (IF Served(tenant'[c], last'[c]) = k THEN 1 ELSE 0)
    BY <1>1, TenantCount
  <2> QED
    BY <1>7, <2>1 DEF IsServed
<1>10. IsServed(c, k)' \in 0 .. 1
  BY DEF IsServed
<1>11. Held(c, k) = flow[c][k] - deq[c][k] + a1 + a2
  BY DEF Held
<1>12. Held(c, k)' = f[k] - deq'[c][k] + n1 + n2
  BY DEF Held
<1>13. ~Full' => f[k] # Size /\ Len(Keep(q1)) # Size /\ Len(Keep(q2)) # Size
  BY <1>7 DEF Full
<1> DEFINE held == Held(c, k)
           heldNext == Held(c, k)'
           served == IsServed(c, k)'
           got == in[c][k]
           rest == flow[c][k] - deq[c][k]
           fNext == f[k]
           dNext == deq'[c][k]
<1>14. /\ rest \in Nat /\ got \in Nat /\ fNext \in Nat /\ dNext \in Nat /\ served \in 0 .. 1
       /\ fNext <= rest + got /\ (fNext # Size => fNext = rest + got)
       /\ b1 + b2 <= dNext /\ dNext <= fNext
       /\ held = rest + a1 + a2 /\ heldNext = fNext - dNext + n1 + n2
       /\ t1 + t2 = n1 + n2 + served
  BY <1>3, <1>5, <1>9, <1>10, <1>11, <1>12
<1>15. ~Full' => fNext = rest + got /\ t1 = a1 + b1 /\ t2 = a2 + b2
  BY <1>8, <1>13, <1>14
<1>16. dNext = Count(Onward(f), k) => dNext = b1 + b2
  BY <1>5
<1> HIDE DEF left, f, q1, q2, a1, a2, b1, b2, t1, t2, n1, n2, held, heldNext, served, got, rest,
             fNext, dNext
<1>17. held \in Int /\ heldNext \in Nat
  BY <1>2, <1>5, <1>9, <1>14
<1>18. heldNext + served <= held + got
  BY <1>2, <1>5, <1>8, <1>9, <1>14
<1>19. ASSUME ~Full', dNext = Count(Onward(f), k) PROVE heldNext + served = held + got
  BY <1>2, <1>5, <1>8, <1>9, <1>14, <1>15, <1>16, <1>19
<1> QED
  BY <1>14, <1>17, <1>18, <1>19 DEF f, held, heldNext, served, got, dNext

\* Whether the NIC sends one.
OutputIs(k) == IF Output = k THEN 1 ELSE 0

\* In a step the NIC's queues get what the cores hand on.
LEMMA NICBalance ==
    ASSUME NICInv, NICInv', NICEnq, NEW k \in Classes
    PROVE  LET handed == Cardinality({c \in Cores : Served(tenant'[c], last'[c]) = k})
           IN  /\ InNIC(k) \in Nat /\ InNIC(k)' \in Nat /\ OutputIs(k) \in 0 .. 1 /\ handed \in Nat
               /\ InNIC(k)' <= InNIC(k) - OutputIs(k) + handed
               /\ ~Full' => InNIC(k)' = InNIC(k) - OutputIs(k) + handed
<1> DEFINE pkts == [c \in Cores |-> Served(tenant'[c], last'[c])]
           handed == Cardinality({c \in Cores : Served(tenant'[c], last'[c]) = k})
           m == Enqueued(pkts, {Tenant2Memcached})
           s == Enqueued(pkts, {Tenant1Spark, Tenant2Spark})
           left == IF memcached > 0 THEN spark ELSE Rest(spark)
           sparks == {Tenant1Spark, Tenant2Spark}
<1>1. /\ memcached \in Nat /\ memcached' \in Nat /\ Size \in Nat
      /\ spark \in Seq(sparks) /\ spark' \in Seq(sparks)
      /\ Seq(sparks) \in SUBSET Seq(Classes)
  BY LoomAssumption DEF NICInv, LoomTypes, Classes
<1>2. pkts \in [Cores -> Classes \cup {NoPkt}]
  <2>1. ASSUME NEW c \in Cores PROVE Served(tenant'[c], last'[c]) \in Classes \cup {NoPkt}
    <3>1. tenant'[c] \in [1 .. 2 -> Seq(Classes)] /\ last'[c] \in 1 .. 2
      BY DEF NICInv, LoomTypes
    <3> QED
      BY <3>1, CoreServes
  <2> QED
    BY <2>1
<1>3. {c \in Cores : pkts[c] = k} = {c \in Cores : Served(tenant'[c], last'[c]) = k}
  OBVIOUS
<1>4. /\ memcached' = Min({Size, memcached - (IF memcached > 0 THEN 1 ELSE 0) + Len(m)})
      /\ spark' = Keep(left \o s)
  BY DEF NICEnq
<1> HIDE DEF pkts
<1>5. OutputIs(k) \in 0 .. 1
  BY DEF OutputIs
<1>6. CASE k = Tenant2Memcached
  <2>1. m \in Seq({k}) /\ Count(m, k) = handed /\ Len(m) \in Nat /\ Count(m, k) = Len(m)
    <3>1. {Tenant2Memcached} \in SUBSET Classes
      BY DEF Classes
    <3>2. m \in Seq({k})
      BY <1>2, <1>6, <3>1, JoiningIs
    <3>3. Count(m, k) = handed
      BY <1>2, <1>3, <1>6, <3>1, CountJoining
    <3> HIDE DEF m
    <3>4. Count(m, k) = Len(m) /\ Len(m) \in Nat
      BY <3>2, CountAllOrNone, LenProperties
    <3> QED
      BY <3>2, <3>3, <3>4
  <2>2. OutputIs(k) = IF memcached > 0 THEN 1 ELSE 0
    <3>1. spark # <<>> => Head(spark) \in sparks
      BY <1>1, HeadTailProperties
    <3> QED
      BY <1>6, <3>1 DEF OutputIs, Output, NoPkt, Tenant1Spark, Tenant2Spark, Tenant2Memcached
  <2> DEFINE n == memcached - OutputIs(k) + Len(m)
  <2>3. n \in Nat
    BY <1>1, <2>1, <2>2
  <2>4. memcached' = Min({Size, n})
    BY <1>4, <2>2
  <2>5. n = InNIC(k) - OutputIs(k) + handed /\ InNIC(k) = memcached /\ InNIC(k)' = memcached'
    BY <1>6, <2>1 DEF InNIC
  <2>6. ~Full' => memcached' # Size
    BY DEF Full
  <2> HIDE DEF n, handed
  <2>7. memcached' <= n /\ (memcached' # Size => memcached' = n)
    BY <1>1, <2>3, <2>4, MinOfTwo
  <2>8. handed \in Nat
    BY <2>1
  <2> QED
    BY <1>1, <1>5, <2>5, <2>6, <2>7, <2>8 DEF handed
<1>7. CASE k \in sparks
  <2>1. s \in Seq(Classes) /\ Count(s, k) = handed /\ handed \in Nat
    <3>1. sparks \in SUBSET Classes
      BY DEF Classes
    <3>2. s \in Seq(sparks)
      BY <1>2, <3>1, JoiningIs
    <3>3. Count(s, k) = handed
      BY <1>2, <1>3, <1>7, <3>1, CountJoining
    <3> HIDE DEF s, handed
    <3>4. Count(s, k) \in Nat
      BY <3>2, CountIs
    <3> QED
      BY <1>1, <3>2, <3>3, <3>4
  <2>2. left \in Seq(Classes) /\ Count(spark, k) = Count(left, k) + OutputIs(k) /\ Count(left, k) \in Nat
    <3>1. Rest(spark) \in Seq(Classes) /\ spark \in Seq(Classes)
      BY <1>1, HeadTailProperties DEF Rest
    <3>2. Count(spark, k) = Count(Rest(spark), k) + (IF spark # <<>> /\ Head(spark) = k THEN 1 ELSE 0)
      BY <3>1, CountBehind
    <3>3. Count(spark, k) \in Nat /\ Count(Rest(spark), k) \in Nat
      BY <3>1, CountIs
    <3>4. OutputIs(k) = IF memcached > 0 THEN 0
                        ELSE IF spark # <<>> /\ Head(spark) = k THEN 1 ELSE 0
      BY <1>7 DEF OutputIs, Output, NoPkt, Tenant1Spark, Tenant2Spark, Tenant2Memcached
    <3> QED
      BY <3>1, <3>2, <3>3, <3>4
  <2>3. InNIC(k) = Count(spark, k) /\ InNIC(k)' = Count(spark', k)
    BY <1>7 DEF InNIC, Tenant1Spark, Tenant2Spark, Tenant2Memcached
  <2>4. ~Full' => Len(spark') # Size
    BY DEF Full
  <2> HIDE DEF left, s, handed
  <2>5. /\ Count(spark', k) \in Nat /\ Count(spark', k) <= Count(left, k) + Count(s, k)
        /\ Len(spark') # Size => Count(spark', k) = Count(left, k) + Count(s, k)
    BY <1>4, <2>1, <2>2, KeptBalance
  <2> QED
    BY <1>5, <2>1, <2>2, <2>3, <2>4, <2>5 DEF handed
<1> QED
  BY <1>6, <1>7 DEF Classes

\* An empty queue holds none.
LEMMA CountNothing ==
    ASSUME NEW k
    PROVE  Count(<<>>, k) = 0
<1>1. \A s \in Seq({}) : Count(s, k) = 0
  BY CountAllOrNone
<1>2. <<>> \in Seq({})
  OBVIOUS
<1> QED
  BY <1>1, <1>2

\* Before the first step nothing has arrived, and nothing is there.
LEMMA InitKeptInv == Init => KeptInv
<1> SUFFICES ASSUME Init PROVE KeptInv
  OBVIOUS
<1>1. /\ arrived = [k \in Classes |-> 0] /\ sent = arrived
      /\ flow = [c \in Cores |-> [k \in Classes |-> 0]] /\ deq = flow
      /\ memcached = 0 /\ spark = <<>>
      /\ tenant = [c \in Cores |-> <<(<<>>), (<<>>)>>] /\ last = [c \in Cores |-> 2]
  BY DEF Init
<1>2. \A k \in Classes : arrived[k] = 0 /\ sent[k] = 0
  BY <1>1
<1>3. \A c \in Cores : \A k \in Classes : flow[c][k] = 0 /\ deq[c][k] = 0
  BY <1>1
<1>4. Output = NoPkt
  BY <1>1 DEF Output
<1>5. ASSUME NEW k \in Classes PROVE Queued(k) = 0
  <2>1. InNIC(k) = 0 /\ Output # k
    <3>2. Count(<<>>, k) = 0
      BY CountNothing
    <3> QED
      BY <1>1, <1>4, <3>2 DEF InNIC, NoPkt, Classes, Tenant1Spark, Tenant2Spark, Tenant2Memcached
  <2>2. ASSUME NEW c \in Cores PROVE Held(c, k) = 0
    <3>1. NICInv
      BY InitNICInv
    <3>2. tenant[c] \in [1 .. 2 -> Seq(Classes)] /\ last[c] \in 1 .. 2
      BY <3>1 DEF NICInv, LoomTypes
    <3>3. tenant[c][1] = <<>> /\ tenant[c][2] = <<>>
      BY <1>1
    <3>4. Count(<<>>, k) = 0
      BY CountNothing
    <3> DEFINE a == Count(Left(tenant[c], last[c])[1], k)
               b == Count(Left(tenant[c], last[c])[2], k)
    <3>5. a \in Nat /\ b \in Nat /\ 0 = a + b + (IF Served(tenant[c], last[c]) = k THEN 1 ELSE 0)
      <4>1. /\ a \in Nat /\ b \in Nat
            /\ Count(tenant[c][1], k) + Count(tenant[c][2], k)
                 = a + b + (IF Served(tenant[c], last[c]) = k THEN 1 ELSE 0)
        BY <3>2, TenantCount
      <4>2. Count(tenant[c][1], k) = 0 /\ Count(tenant[c][2], k) = 0
        BY <3>3, <3>4
      <4> HIDE DEF a, b
      <4> QED
        BY <4>1, <4>2
    <3>6. Held(c, k) = flow[c][k] - deq[c][k] + a + b
      BY DEF Held
    <3> HIDE DEF a, b
    <3>7. a = 0 /\ b = 0
      BY <3>5
    <3> QED
      BY <1>3, <3>6, <3>7
  <2>3. OverCores([c \in Cores |-> Held(c, k)]) = 0
    <3> DEFINE f == [c \in Cores |-> Held(c, k)]
    <3>1. f \in [Cores -> Int] /\ \A c \in Cores : f[c] = f[c] + f[c]
      BY <2>2
    <3> HIDE DEF f
    <3>2. OverCores(f) = OverCores(f) + OverCores(f) /\ OverCores(f) \in Int
      BY <3>1, SumPlus, SumType
    <3>3. OverCores(f) = 0
      BY <3>2
    <3> QED
      BY <3>3 DEF f
  <2> QED
    BY <2>1, <2>3 DEF Queued
<1>6. arrived \in [Classes -> Nat] /\ sent \in [Classes -> Nat]
  BY <1>1
<1>7. \A k \in Classes : sent[k] + Queued(k) <= arrived[k] /\ Accounted(k)
  BY <1>2, <1>5 DEF Accounted
<1> QED
  BY <1>3, <1>6, <1>7 DEF KeptInv

\* No packet is lost or doubled between the queues of one step and of the next.
LEMMA StepBalance ==
    ASSUME NICInv, NICInv', NEW in \in Arrivals, FlowEnq(in), RoundRobin, NICEnq,
           NEW k \in Classes
    PROVE  /\ Queued(k) \in Int /\ Queued(k)' \in Int /\ OutputIs(k)' \in 0 .. 1
           /\ OverCores([c \in Cores |-> in[c][k]]) \in Int
           /\ OutputIs(k)' + Queued(k)' <= Queued(k) + OverCores([c \in Cores |-> in[c][k]])
           /\ ~Full' /\ (\A c \in Cores : deq'[c][k] = Count(Onward(flow'[c]), k))
                => OutputIs(k)' + Queued(k)' = Queued(k) + OverCores([c \in Cores |-> in[c][k]])
<1> DEFINE U == {c \in Cores : Served(tenant'[c], last'[c]) = k}
           held == [c \in Cores |-> Held(c, k)]
           heldNext == [c \in Cores |-> Held(c, k)']
           served == [c \in Cores |-> IF c \in U THEN 1 ELSE 0]
           got == [c \in Cores |-> in[c][k]]
           before == [c \in Cores |-> held[c] + got[c]]
           after == [c \in Cores |-> heldNext[c] + served[c]]
<1>1. ASSUME NEW c \in Cores
      PROVE  /\ held[c] \in Int /\ heldNext[c] \in Int /\ served[c] \in Int /\ got[c] \in Int
             /\ heldNext[c] + served[c] <= held[c] + got[c]
             /\ ~Full' /\ deq'[c][k] = Count(Onward(flow'[c]), k)
                  => heldNext[c] + served[c] = held[c] + got[c]
  <2>1. /\ Held(c, k) \in Int /\ Held(c, k)' \in Nat /\ IsServed(c, k)' \in 0 .. 1
        /\ in[c][k] \in Nat
        /\ Held(c, k)' + IsServed(c, k)' <= Held(c, k) + in[c][k]
        /\ ~Full' /\ deq'[c][k] = Count(Onward(flow'[c]), k)
             => Held(c, k)' + IsServed(c, k)' = Held(c, k) + in[c][k]
    BY CoreBalance
  <2>2. served[c] = IsServed(c, k)'
    BY DEF IsServed
  <2>3. held[c] = Held(c, k) /\ heldNext[c] = Held(c, k)' /\ got[c] = in[c][k]
    OBVIOUS
  <2> HIDE DEF held, heldNext, served, got
  <2> QED
    BY <2>1, <2>2, <2>3
<1>2. U \in SUBSET Cores
  OBVIOUS
<1>3. OverCores(served) = Cardinality(U)
  BY <1>2, SumOfOnes
<1>4. Queued(k) = OverCores(held) + InNIC(k) - OutputIs(k)
  BY DEF Queued, OutputIs
<1>5. Queued(k)' = OverCores(heldNext) + InNIC(k)' - OutputIs(k)'
  BY DEF Queued, OutputIs, OverCores
<1>6. /\ InNIC(k) \in Nat /\ InNIC(k)' \in Nat /\ OutputIs(k) \in 0 .. 1 /\ Cardinality(U) \in Nat
      /\ InNIC(k)' <= InNIC(k) - OutputIs(k) + Cardinality(U)
      /\ ~Full' => InNIC(k)' = InNIC(k) - OutputIs(k) + Cardinality(U)
  BY NICBalance
<1>7. OutputIs(k)' \in 0 .. 1
  BY DEF OutputIs
<1>8. /\ held \in [Cores -> Int] /\ heldNext \in [Cores -> Int]
      /\ served \in [Cores -> Int] /\ got \in [Cores -> Int]
  <2>1. /\ held = [c \in Cores |-> held[c]] /\ heldNext = [c \in Cores |-> heldNext[c]]
        /\ served = [c \in Cores |-> served[c]] /\ got = [c \in Cores |-> got[c]]
    OBVIOUS
  <2> HIDE DEF held, heldNext, served, got
  <2> QED
    BY <1>1, <2>1
<1> HIDE DEF U, held, heldNext, served, got
<1>9. before \in [Cores -> Int] /\ after \in [Cores -> Int]
  BY <1>1
<1>10. /\ \A c \in Cores : before[c] = held[c] + got[c] /\ after[c] = heldNext[c] + served[c]
       /\ \A c \in Cores : after[c] <= before[c]
  BY <1>1
<1>11. ~Full' /\ (\A c \in Cores : deq'[c][k] = Count(Onward(flow'[c]), k))
         => \A c \in Cores : before[c] <= after[c]
  <2> SUFFICES ASSUME ~Full', \A c \in Cores : deq'[c][k] = Count(Onward(flow'[c]), k),
                      NEW c \in Cores
               PROVE  before[c] <= after[c]
    OBVIOUS
  <2>1. before[c] = after[c] /\ before[c] \in Int
    BY <1>1
  <2> QED
    BY <2>1
<1> HIDE DEF before, after
<1>12. OverCores(before) = OverCores(held) + OverCores(got)
  BY <1>8, <1>9, <1>10, SumPlus
<1>13. OverCores(after) = OverCores(heldNext) + OverCores(served)
  BY <1>8, <1>9, <1>10, SumPlus
<1>14. OverCores(after) <= OverCores(before)
  BY <1>9, <1>10, SumLess
<1>15. (\A c \in Cores : before[c] <= after[c]) => OverCores(before) <= OverCores(after)
  BY <1>9, SumLess
<1>16. /\ OverCores(held) \in Int /\ OverCores(heldNext) \in Int /\ OverCores(served) \in Int
       /\ OverCores(got) \in Int
  BY <1>8, SumType
<1> DEFINE nic == InNIC(k)
           nicNext == InNIC(k)'
           o == OutputIs(k)
           oNext == OutputIs(k)'
           q == Queued(k)
           qNext == Queued(k)'
           h == OverCores(held)
           hNext == OverCores(heldNext)
           s == OverCores(served)
           g == OverCores(got)
           full == Full'
           all == \A c \in Cores : deq'[c][k] = Count(Onward(flow'[c]), k)
<1>17. /\ nic \in Nat /\ nicNext \in Nat /\ o \in 0 .. 1 /\ oNext \in 0 .. 1
       /\ h \in Int /\ hNext \in Int /\ s \in Int /\ g \in Int
       /\ q = h + nic - o /\ qNext = hNext + nicNext - oNext
       /\ nicNext <= nic - o + s /\ (~full => nicNext = nic - o + s)
       /\ hNext + s <= h + g
  BY <1>3, <1>4, <1>5, <1>6, <1>7, <1>12, <1>13, <1>14, <1>16
<1>18. ~full /\ all => hNext + s = h + g
  <2> SUFFICES ASSUME ~full, all PROVE hNext + s = h + g
    OBVIOUS
  <2>1. OverCores(before) <= OverCores(after)
    BY <1>11, <1>15
  <2>2. h + g <= hNext + s
    BY <1>12, <1>13, <2>1
  <2> HIDE DEF h, g, hNext, s
  <2> QED
    BY <1>17, <2>2
<1> HIDE DEF nic, nicNext, o, oNext, q, qNext, h, hNext, s, g, full, all
<1>19. q \in Int /\ qNext \in Int /\ oNext + qNext <= q + g
  BY <1>17
<1>20. ~full /\ all => oNext + qNext = q + g
  BY <1>17, <1>18
<1> QED
  BY <1>17, <1>19, <1>20 DEF q, qNext, oNext, g, full, all, got

\* In every step what arrives is sent, is still there, or is lost where it may be.
LEMMA StepKeptInv == NICInv /\ NICInv' /\ KeptInv /\ Next => KeptInv'
<1> SUFFICES ASSUME NICInv, NICInv', KeptInv, Next PROVE KeptInv'
  OBVIOUS
<1>1. PICK in \in Arrivals :
        /\ FlowEnq(in)
        /\ arrived' = [k \in Classes |-> arrived[k] + OverCores([c \in Cores |-> in[c][k]])]
  BY DEF Next
<1>2. /\ RoundRobin /\ NICEnq
      /\ sent' = [k \in Classes |-> sent[k] + (IF Output' = k THEN 1 ELSE 0)]
      /\ filled' = (filled \/ Full')
  BY DEF Next
<1>3. /\ arrived' \in [Classes -> Nat]
      /\ \A k \in Classes : arrived'[k] = 0 => \A c \in Cores : flow'[c][k] = 0
      /\ \A k \in Classes : Alone(k)' =>
            /\ Alone(k)
            /\ \A c \in Cores : /\ deq'[c][k] = flow'[c][k]
                                /\ Count(Onward(flow'[c]), k) = flow'[c][k]
  BY <1>1, AloneLeaves
<1>4. ASSUME NEW k \in Classes
      PROVE  /\ sent'[k] \in Nat
             /\ (sent[k] + Queued(k) <= arrived[k])'
             /\ ~filled' /\ Alone(k)' => Accounted(k)'
  <2> DEFINE g == OverCores([c \in Cores |-> in[c][k]])
             q == Queued(k)
             qNext == Queued(k)'
             o == OutputIs(k)'
  <2>1. /\ q \in Int /\ qNext \in Int /\ o \in 0 .. 1 /\ g \in Int
        /\ o + qNext <= q + g
        /\ ~Full' /\ (\A c \in Cores : deq'[c][k] = Count(Onward(flow'[c]), k)) => o + qNext = q + g
    BY <1>1, <1>2, StepBalance
  <2>2. sent'[k] = sent[k] + o /\ arrived'[k] = arrived[k] + g
    BY <1>1, <1>2 DEF OutputIs
  <2>3. sent[k] \in Nat /\ arrived[k] \in Nat /\ sent[k] + q <= arrived[k]
    BY DEF KeptInv
  <2>4. ~filled' /\ Alone(k)' => o + qNext = q + g /\ sent[k] + q = arrived[k]
    <3> SUFFICES ASSUME ~filled', Alone(k)' PROVE o + qNext = q + g /\ sent[k] + q = arrived[k]
      OBVIOUS
    <3>1. ~Full' /\ ~filled /\ Alone(k)
      BY <1>2, <1>3
    <3>2. \A c \in Cores : deq'[c][k] = Count(Onward(flow'[c]), k)
      BY <1>3
    <3>3. Accounted(k)
      BY <3>1 DEF KeptInv
    <3> QED
      BY <2>1, <3>1, <3>2, <3>3 DEF Accounted
  <2>5. Accounted(k)' <=> sent'[k] + qNext = arrived'[k]
    BY DEF Accounted
  <2>6. (sent[k] + Queued(k) <= arrived[k])' <=> sent'[k] + qNext <= arrived'[k]
    OBVIOUS
  <2> HIDE DEF g, q, qNext, o
  <2>7. sent'[k] \in Nat /\ sent'[k] + qNext <= arrived'[k]
    BY <2>1, <2>2, <2>3
  <2>8. ~filled' /\ Alone(k)' => sent'[k] + qNext = arrived'[k]
    BY <2>1, <2>2, <2>3, <2>4
  <2> QED
    BY <2>5, <2>6, <2>7, <2>8
<1>5. sent' \in [Classes -> Nat]
  BY <1>2, <1>4
<1> QED
  BY <1>3, <1>4, <1>5 DEF KeptInv

\* So it is in every execution.
LEMMA KeptInvariant == Spec => []KeptInv
<1>1. NICInv /\ NICInv' /\ KeptInv /\ [Next]_vars => KeptInv'
  <2>1. KeptInv /\ UNCHANGED vars => KeptInv'
    BY DEF KeptInv, Alone, Accounted, Queued, Held, InNIC, Output, vars
  <2> QED
    BY <2>1, StepKeptInv
<1> QED
  BY <1>1, InitKeptInv, NICInvariant, PTL DEF Spec

\* Over all five modules packets are conserved as PacketsKept says: none is sent
\* twice; as long as no queue was full none of Tenant 1 is lost, and none of
\* Tenant 2 while only one of its flows has sent (loom_flow_enq_qm.cpp:63, :103).
THEOREM LoomPacketsKept == Spec => []PacketsKept
<1>1. KeptInv => PacketsKept
  <2> SUFFICES ASSUME KeptInv PROVE PacketsKept
    OBVIOUS
  <2>1. /\ Alone(Tenant1Spark)
        /\ arrived[Tenant2Memcached] = 0 => Alone(Tenant2Spark)
        /\ arrived[Tenant2Spark] = 0 => Alone(Tenant2Memcached)
    BY DEF Alone, Classes, Tenant1Spark, Tenant2Spark, Tenant2Memcached
  <2> QED
    BY <2>1 DEF KeptInv, PacketsKept, Classes
<1> QED
  BY <1>1, KeptInvariant, PTL

\* The bounds on what leaves a core's flows never exclude each other: dequeuing all
\* packets satisfies them, whatever the queues hold, so no step is impossible.
THEOREM LoomNeverStuck ==
    \A f \in [Classes -> 0 .. Size] : f \in Dequeues(f)
<1> SUFFICES ASSUME NEW f \in [Classes -> 0 .. Size] PROVE f \in Dequeues(f)
  OBVIOUS
<1>1. f \in [Classes -> Nat] /\ \A k \in Classes : f[k] \in Nat
  BY LoomAssumption
<1>2. \A k \in Classes : Count(Onward(f), k) \in Nat /\ Count(Onward(f), k) <= f[k]
  BY <1>1, HandsOnItsOwn
<1> QED
  BY <1>1, <1>2 DEF Dequeues, Onward
=============================================================================
