--------------------------- MODULE LeafSpineProofs ---------------------------
(***************************************************************************)
(* For any numbers of leaves, spines and servers, with the reduced set of  *)
(* queues: the forwarding constraints of a switch have one solution for    *)
(* every packet that can be in front of it, the bounds the modules add to  *)
(* the encoding follow from the forwarding and the wiring, and the network *)
(* neither makes packets up nor loses any but at a full VOQ.               *)
(*                                                                         *)
(* The first part shows that each VOQ leads to the port it is connected    *)
(* to, through the lists of queues and the maps of their numbers; the      *)
(* second that the constraints of each VOQ leave one outcome for a packet  *)
(* in place at its port.  The invariant is that packets stay in place:     *)
(* each queue holds only what the wiring and the VOQ before it let through.*)
(* The last part counts: a step moves the head of each matched VOQ to one  *)
(* port or server, and the head at each port to one VOQ, so that the sums  *)
(* over all queues differ by what joins, what is dropped and what arrives. *)
(***************************************************************************)
EXTENDS LeafSpine, FiniteSetTheorems, SequenceTheorems, WellFoundedInduction, TLAPS

(* Ports in order *************************************************************)

\* The place of u among the pairs of S.
Rank(S, u) == Cardinality({x \in S : Before(x, u)})

\* A later pair has more pairs before it, and none has all of them.
LEMMA RanksGrow ==
    ASSUME NEW S \in SUBSET (Int \X Int), IsFiniteSet(S)
    PROVE  /\ \A u \in S : Rank(S, u) \in 0 .. Cardinality(S) - 1
           /\ \A u, w \in S : Before(u, w) => Rank(S, u) < Rank(S, w)
<1>1. ASSUME NEW u \in S PROVE Rank(S, u) \in 0 .. Cardinality(S) - 1
  <2> DEFINE T == {x \in S : Before(x, u)}
  <2>1. u \in Int \X Int /\ u \notin T
    BY DEF Before
  <2>2. T \in SUBSET S /\ T # S
    BY <2>1
  <2>3. Cardinality(T) \in Nat /\ Cardinality(S) \in Nat /\ Cardinality(T) <= Cardinality(S)
    BY <2>2, FS_Subset, FS_CardinalityType
  <2>4. Cardinality(T) # Cardinality(S)
    BY <2>2, FS_Subset
  <2> QED
    BY <2>3, <2>4 DEF Rank
<1>2. ASSUME NEW u \in S, NEW w \in S, Before(u, w) PROVE Rank(S, u) < Rank(S, w)
  <2> DEFINE T == {x \in S : Before(x, u)}
             U == {x \in S : Before(x, w)}
  <2>1. \A x \in S : Before(x, u) => Before(x, w)
    <3> SUFFICES ASSUME NEW x \in S, Before(x, u) PROVE Before(x, w)
      OBVIOUS
    <3>1. x[1] \in Int /\ x[2] \in Int /\ u[1] \in Int /\ u[2] \in Int /\ w[1] \in Int /\ w[2] \in Int
      OBVIOUS
    <3> QED
      BY <1>2, <3>1 DEF Before
  <2>2. u \in U /\ u \notin T
    <3>1. u[1] \in Int /\ u[2] \in Int
      OBVIOUS
    <3> QED
      BY <1>2, <3>1 DEF Before
  <2>3. T \in SUBSET U /\ T # U /\ IsFiniteSet(U)
    BY <2>1, <2>2, FS_Subset
  <2>4. Cardinality(T) <= Cardinality(U) /\ Cardinality(T) # Cardinality(U)
    BY <2>3, FS_Subset
  <2>5. Cardinality(T) \in Nat /\ Cardinality(U) \in Nat
    BY <2>3, FS_Subset, FS_CardinalityType
  <2> QED
    BY <2>4, <2>5 DEF Rank
<1> QED
  BY <1>1, <1>2

\* InOrder(S) lists every pair of S once, and in order.
LEMMA InOrderLists ==
    ASSUME NEW S \in SUBSET (Int \X Int), IsFiniteSet(S)
    PROVE  /\ Cardinality(S) \in Nat
           /\ DOMAIN InOrder(S) = 1 .. Cardinality(S)
           /\ \A q \in 1 .. Cardinality(S) : InOrder(S)[q] \in S
           /\ \A u \in S : \E q \in 1 .. Cardinality(S) : InOrder(S)[q] = u
           /\ \A p, q \in 1 .. Cardinality(S) :
                 p < q => Before(InOrder(S)[p], InOrder(S)[q])
<1> DEFINE n == Cardinality(S)
           f == [u \in S |-> Rank(S, u)]
<1>1. n \in Nat
  BY FS_CardinalityType
<1>2. \A u \in S : Rank(S, u) \in 0 .. n - 1
  BY RanksGrow
<1>3. \A u, w \in S : Before(u, w) => Rank(S, u) < Rank(S, w)
  BY RanksGrow
<1>4. \A u, w \in S : u # w => Before(u, w) \/ Before(w, u)
  <2> SUFFICES ASSUME NEW u \in S, NEW w \in S, u # w PROVE Before(u, w) \/ Before(w, u)
    OBVIOUS
  <2>1. u = <<u[1], u[2]>> /\ w = <<w[1], w[2]>>
    OBVIOUS
  <2>2. u[1] \in Int /\ u[2] \in Int /\ w[1] \in Int /\ w[2] \in Int
    OBVIOUS
  <2> QED
    BY <2>1, <2>2 DEF Before
<1>5. \A u, w \in S : Rank(S, u) = Rank(S, w) => u = w
  <2> SUFFICES ASSUME NEW u \in S, NEW w \in S, Rank(S, u) = Rank(S, w), u # w PROVE FALSE
    OBVIOUS
  <2>1. Rank(S, u) \in Int
    BY <1>1, <1>2
  <2> QED
    BY <1>3, <1>4, <2>1
<1>6. f \in Injection(S, 0 .. n - 1)
  BY <1>2, <1>5 DEF Injection, IsInjective
<1>7. IsFiniteSet(0 .. n - 1) /\ Cardinality(0 .. n - 1) = n
  <2>1. 0 \in Int /\ n - 1 \in Int /\ (0 > n - 1 => n = 0) /\ (n - 1) - 0 + 1 = n
    BY <1>1
  <2> HIDE DEF n
  <2>2. IsFiniteSet(0 .. n - 1) /\ Cardinality(0 .. n - 1) = IF 0 > n - 1 THEN 0 ELSE (n - 1) - 0 + 1
    BY <2>1, FS_Interval
  <2> QED
    BY <2>1, <2>2
<1>8. f \in Surjection(S, 0 .. n - 1)
  BY <1>6, <1>7, FS_Injection
<1>9. \A q \in 1 .. n : \E u \in S : Rank(S, u) = q - 1
  <2> SUFFICES ASSUME NEW q \in 1 .. n PROVE \E u \in S : Rank(S, u) = q - 1
    OBVIOUS
  <2>1. q - 1 \in 0 .. n - 1
    BY <1>1
  <2>2. PICK u \in S : f[u] = q - 1
    BY <1>8, <2>1 DEF Surjection
  <2> QED
    BY <2>2
<1> DEFINE L == InOrder(S)
<1>10. DOMAIN L = 1 .. n
  BY DEF InOrder
<1>11. \A q \in 1 .. n : L[q] \in S /\ Rank(S, L[q]) = q - 1
  <2> SUFFICES ASSUME NEW q \in 1 .. n PROVE L[q] \in S /\ Rank(S, L[q]) = q - 1
    OBVIOUS
  <2>1. L[q] = CHOOSE u \in S : Rank(S, u) = q - 1
    BY DEF InOrder, Rank
  <2>2. \E u \in S : Rank(S, u) = q - 1
    BY <1>9
  <2> QED
    BY <2>1, <2>2
<1> HIDE DEF L
<1>12. \A u \in S : \E q \in 1 .. n : L[q] = u
  <2> SUFFICES ASSUME NEW u \in S PROVE \E q \in 1 .. n : L[q] = u
    OBVIOUS
  <2>1. Rank(S, u) + 1 \in 1 .. n
    BY <1>1, <1>2
  <2>2. Rank(S, L[Rank(S, u) + 1]) = Rank(S, u) /\ L[Rank(S, u) + 1] \in S
    BY <1>2, <1>1, <2>1, <1>11
  <2> QED
    BY <1>5, <2>1, <2>2
<1>13. \A p, q \in 1 .. n : p < q => Before(L[p], L[q])
  <2> SUFFICES ASSUME NEW p \in 1 .. n, NEW q \in 1 .. n, p < q PROVE Before(L[p], L[q])
    OBVIOUS
  <2>1. L[p] # L[q] /\ ~Before(L[q], L[p])
    BY <1>3, <1>11
  <2> QED
    BY <1>4, <1>11, <2>1
<1> QED
  BY <1>1, <1>10, <1>11, <1>12, <1>13 DEF L

\* A set of numbers that is not empty has a least one.
LEMMA LeastNumberExists ==
    ASSUME NEW T \in SUBSET Nat, T # {}
    PROVE  \E x \in T : \A y \in T : x <= y
<1>1. PICK x \in T : \A y \in T : <<y, x>> \notin OpToRel(<, Nat)
  BY NatLessThanWellFounded, WFMin
<1>2. ASSUME NEW y \in T, y < x PROVE <<y, x>> \in OpToRel(<, Nat)
  BY <1>2 DEF OpToRel
<1>3. ASSUME NEW y \in T PROVE ~(y < x)
  BY <1>1, <1>2
<1>4. ASSUME NEW y \in T PROVE x <= y
  BY <1>3
<1> QED
  BY <1>4

\* In a list of n pairs: where those of the ports from i on begin, how many are
\* of a port before i, how many of port i.
BaseIn(L, n, i) == Min({q \in 1 .. n : L[q][1] >= i})
BelowIn(L, n, i) == Cardinality({q \in 1 .. n : L[q][1] < i})
CountIn(L, n, i) == Cardinality({q \in 1 .. n : L[q][1] = i})

\* In a list in order the pairs of one input port are next to each other: they
\* begin behind those of the ports before, where the first of them stands.
LEMMA PairsOfAPort ==
    ASSUME NEW n \in Nat, NEW L, DOMAIN L = 1 .. n,
           \A q \in 1 .. n : L[q] \in Int \X Int,
           \A p, q \in 1 .. n : p < q => Before(L[p], L[q]),
           NEW i \in Int, NEW r \in 1 .. n, L[r][1] = i
    PROVE  /\ BaseIn(L, n, i) \in 1 .. n
           /\ BelowIn(L, n, i) = BaseIn(L, n, i) - 1
           /\ CountIn(L, n, i) \in Nat
           /\ BaseIn(L, n, i) + CountIn(L, n, i) - 1 <= n
           /\ \A s \in 1 .. n :
                 L[s][1] = i => s - BaseIn(L, n, i) \in 0 .. CountIn(L, n, i) - 1
<1> DEFINE T == {q \in 1 .. n : L[q][1] >= i}
           base == Min(T)
<1>1. \A q \in 1 .. n : L[q][1] \in Int
  OBVIOUS
<1>2. \A p, q \in 1 .. n : p <= q => L[p][1] <= L[q][1]
  <2> SUFFICES ASSUME NEW p \in 1 .. n, NEW q \in 1 .. n, p <= q
               PROVE  L[p][1] <= L[q][1]
    OBVIOUS
  <2>1. L[p][1] \in Int /\ L[q][1] \in Int
    BY <1>1
  <2>2. p = q \/ Before(L[p], L[q])
    OBVIOUS
  <2> QED
    BY <2>1, <2>2 DEF Before
<1>3. base \in T /\ \A q \in T : base <= q
  <2>1. T \in SUBSET Nat /\ r \in T
    BY <1>1
  <2>2. \E x \in T : \A y \in T : x <= y
    BY <2>1, LeastNumberExists
  <2> QED
    BY <2>2 DEF Min
<1> HIDE DEF base
<1>4. base \in 1 .. n /\ \A s \in 1 .. n : L[s][1] = i => base <= s
  BY <1>1, <1>3
<1>5. {q \in 1 .. n : L[q][1] < i} = 1 .. base - 1
  <2>1. ASSUME NEW q \in 1 .. n, L[q][1] < i PROVE q \in 1 .. base - 1
    <3>1. ~(base <= q)
      BY <1>1, <1>2, <1>3, <1>4, <2>1
    <3> QED
      BY <1>4, <3>1
  <2>2. ASSUME NEW q \in 1 .. base - 1 PROVE q \in 1 .. n /\ L[q][1] < i
    <3>1. q \in 1 .. n /\ q \notin T
      BY <1>3, <1>4
    <3> QED
      BY <1>1, <3>1
  <2> QED
    BY <2>1, <2>2
<1>6. Cardinality(1 .. base - 1) = base - 1
  <2>1. 1 \in Int /\ base - 1 \in Int /\ (1 > base - 1 => base - 1 = 0) /\ (base - 1) - 1 + 1 = base - 1
    BY <1>4
  <2>2. Cardinality(1 .. base - 1) = IF 1 > base - 1 THEN 0 ELSE (base - 1) - 1 + 1
    BY <2>1, FS_Interval
  <2> QED
    BY <2>1, <2>2
<1> DEFINE G == {q \in 1 .. n : L[q][1] = i}
<1>7. G \in SUBSET (base .. n) /\ IsFiniteSet(G) /\ Cardinality(G) \in Nat
  <2>1. G \in SUBSET (base .. n) /\ G \in SUBSET (1 .. n)
    BY <1>4
  <2>2. IsFiniteSet(1 .. n)
    BY FS_Interval
  <2> QED
    BY <2>1, <2>2, FS_Subset, FS_CardinalityType
<1>8. ASSUME NEW a \in 1 .. n, NEW z \in 1 .. n, a <= z
      PROVE  IsFiniteSet(a .. z) /\ Cardinality(a .. z) = z - a + 1
  <2>1. a \in Int /\ z \in Int /\ ~(a > z)
    BY <1>8
  <2> QED
    BY <2>1, FS_Interval
<1>9. base + Cardinality(G) - 1 <= n
  <2>1. IsFiniteSet(base .. n) /\ Cardinality(base .. n) = n - base + 1
    BY <1>4, <1>8
  <2>2. Cardinality(G) <= Cardinality(base .. n)
    BY <1>7, <2>1, FS_Subset
  <2> HIDE DEF G
  <2> QED
    BY <1>4, <1>7, <2>1, <2>2
<1>10. ASSUME NEW s \in 1 .. n, L[s][1] = i PROVE s - base \in 0 .. Cardinality(G) - 1
  <2>1. base .. s \in SUBSET G
    <3> SUFFICES ASSUME NEW q \in base .. s PROVE q \in G
      OBVIOUS
    <3>1. q \in 1 .. n /\ base <= q /\ q <= s
      BY <1>4
    <3>2. L[base][1] >= i
      BY <1>3
    <3> QED
      BY <1>1, <1>2, <1>4, <1>10, <3>1, <3>2
  <2>2. base <= s /\ Cardinality(base .. s) = s - base + 1
    BY <1>4, <1>8, <1>10
  <2>3. Cardinality(base .. s) <= Cardinality(G)
    BY <1>7, <2>1, FS_Subset
  <2> HIDE DEF G
  <2> QED
    BY <1>4, <1>7, <2>2, <2>3
<1> QED
  BY <1>4, <1>5, <1>6, <1>7, <1>9, <1>10 DEF base, BaseIn, BelowIn, CountIn

Pairs(kind) == IF kind = "L" THEN LeafPairs ELSE SpinePairs

\* A switch of either kind has finitely many VOQs, listed in order.
LEMMA PairsFinite ==
    ASSUME NEW kind \in {"L", "S"}
    PROVE  /\ Pairs(kind) \in SUBSET (Int \X Int)
           /\ IsFiniteSet(Pairs(kind))
           /\ VoqList[kind] = InOrder(Pairs(kind))
<1>1. LeafCnt \in Nat /\ SpineCnt \in Nat /\ ServersPerLeaf \in Nat
  BY LeafSpineAssumption
<1>2. IsFiniteSet(LeafPorts) /\ LeafPorts \in SUBSET Int
  BY <1>1, FS_Interval DEF LeafPorts
<1>3. IsFiniteSet(SpinePorts) /\ SpinePorts \in SUBSET Int
  BY <1>1, FS_Interval DEF SpinePorts, Leaves
<1>4. LeafPairs \in SUBSET (LeafPorts \X LeafPorts) /\ SpinePairs \in SUBSET (SpinePorts \X SpinePorts)
  BY DEF LeafPairs, SpinePairs
<1>5. IsFiniteSet(LeafPairs)
  BY <1>2, <1>4, FS_Product, FS_Subset
<1>6. IsFiniteSet(SpinePairs)
  BY <1>3, <1>4, FS_Product, FS_Subset
<1>7. VoqList["L"] = InOrder(LeafPairs) /\ VoqList["S"] = InOrder(SpinePairs)
  BY DEF VoqList
<1> QED
  BY <1>2, <1>3, <1>4, <1>5, <1>6, <1>7 DEF Pairs

\* The queue edges and the forwarding modules number the output queues alike:
\* the VOQ a module's output queue is wired to is the one its map means.
LEMMA ForwardsIntoOwnVoq ==
    ASSUME NEW kind \in {"L", "S"}, NEW i, NEW j, <<i, j>> \in Pairs(kind)
    PROVE  /\ \E k \in OutQueues(kind, i) : VoqList[kind][XBarQueue(kind, i, k)] = <<i, j>>
           /\ \A k \in OutQueues(kind, i) :
                 VoqList[kind][XBarQueue(kind, i, k)] = <<i, j>> => OutputVoqMap(kind, i)[j] = k
           /\ j \in DOMAIN OutputVoqMap(kind, i)
           /\ \A x \in DOMAIN OutputVoqMap(kind, i) :
                 OutputVoqMap(kind, i)[x] = OutputVoqMap(kind, i)[j] => x = j
<1> DEFINE L == VoqList[kind]
           n == Cardinality(Pairs(kind))
<1>1. /\ n \in Nat
      /\ DOMAIN L = 1 .. n
      /\ \A q \in 1 .. n : L[q] \in Pairs(kind)
      /\ \A u \in Pairs(kind) : \E q \in 1 .. n : L[q] = u
      /\ \A p, q \in 1 .. n : p < q => Before(L[p], L[q])
  <2> DEFINE S == Pairs(kind)
  <2>1. S \in SUBSET (Int \X Int) /\ IsFiniteSet(S) /\ L = InOrder(S)
    BY PairsFinite
  <2> HIDE DEF S, L
  <2>2. /\ Cardinality(S) \in Nat
        /\ DOMAIN L = 1 .. Cardinality(S)
        /\ \A q \in 1 .. Cardinality(S) : L[q] \in S
        /\ \A u \in S : \E q \in 1 .. Cardinality(S) : L[q] = u
        /\ \A p, q \in 1 .. Cardinality(S) : p < q => Before(L[p], L[q])
    BY <2>1, InOrderLists
  <2> QED
    BY <2>2 DEF S
<1>2. \A q \in 1 .. n : L[q] \in Int \X Int
  BY <1>1, PairsFinite
<1>3. i \in Int /\ j \in Int
  BY PairsFinite
<1>4. PICK r \in 1 .. n : L[r] = <<i, j>>
  BY <1>1
<1>5. \A p, q \in 1 .. n : L[p] = L[q] => p = q
  <2> SUFFICES ASSUME NEW p \in 1 .. n, NEW q \in 1 .. n, L[p] = L[q], p # q PROVE FALSE
    OBVIOUS
  <2>1. ~Before(L[p], L[q]) /\ ~Before(L[q], L[p])
    <3>1. L[q][1] \in Int /\ L[q][2] \in Int
      BY <1>2
    <3> QED
      BY <3>1 DEF Before
  <2> QED
    BY <1>1, <2>1
<1> DEFINE base == BaseIn(L, n, i)
           count == CountIn(L, n, i)
<1>6. /\ base \in 1 .. n
      /\ BelowIn(L, n, i) = base - 1
      /\ count \in Nat
      /\ base + count - 1 <= n
      /\ \A s \in 1 .. n : L[s][1] = i => s - base \in 0 .. count - 1
  <2>1. L[r][1] = i
    BY <1>4
  <2>2. n \in Nat /\ DOMAIN L = 1 .. n
    BY <1>1
  <2>3. \A p, q \in 1 .. n : p < q => Before(L[p], L[q])
    BY <1>1
  <2> HIDE DEF L, n
  <2> QED
    BY <1>2, <1>3, <1>4, <2>1, <2>2, <2>3, PairsOfAPort
<1>7. BasePort(kind, i) = base
  BY <1>1 DEF BasePort, BaseIn
<1>8. OutQueues(kind, i) = 0 .. count - 1
  BY <1>1 DEF OutQueues, CountIn
<1>9. \A k : XBarQueue(kind, i, k) = base - 1 + k + 1
  BY <1>1, <1>6 DEF XBarQueue, BelowIn
<1>10. Len(L) = n
  BY <1>1, PairsFinite DEF InOrder
<1> DEFINE M == OutputVoqMap(kind, i)
<1>11. /\ DOMAIN M = {u[2] : u \in {x \in ToSet(L) : x[1] = i}}
       /\ \A x \in DOMAIN M : M[x] = CHOOSE k \in 0 .. n - base : L[base + k] = <<i, x>>
  BY <1>7, <1>10 DEF OutputVoqMap
<1> HIDE DEF base, count, n, L, M
<1>12. j \in DOMAIN M
  <2>1. <<i, j>> \in {x \in ToSet(L) : x[1] = i}
    BY <1>1, <1>4 DEF ToSet
  <2> QED
    BY <1>11, <2>1
<1>13. M[j] = r - base
  <2>1. r - base \in 0 .. n - base /\ base + (r - base) = r
    <3>1. L[r][1] = i
      BY <1>4
    <3>2. r - base \in 0 .. count - 1
      BY <1>6, <3>1
    <3> QED
      BY <1>1, <1>6, <3>2
  <2>2. \A k \in 0 .. n - base : L[base + k] = <<i, j>> => k = r - base
    <3> SUFFICES ASSUME NEW k \in 0 .. n - base, L[base + k] = <<i, j>> PROVE k = r - base
      OBVIOUS
    <3>1. base + k \in 1 .. n
      BY <1>1, <1>6
    <3>2. base + k = r
      BY <1>4, <1>5, <3>1
    <3> QED
      BY <1>6, <3>2
  <2> QED
    BY <1>4, <1>11, <1>12, <2>1, <2>2
<1>14. \A k : k \in OutQueues(kind, i) => XBarQueue(kind, i, k) = base + k
  BY <1>6, <1>8, <1>9
<1>15. r - base \in OutQueues(kind, i) /\ XBarQueue(kind, i, r - base) = r
  BY <1>4, <1>6, <1>8, <1>14
<1>16. ASSUME NEW k \in OutQueues(kind, i), L[XBarQueue(kind, i, k)] = <<i, j>> PROVE M[j] = k
  <2>1. k \in Int /\ k \in 0 .. count - 1 /\ base + k \in 1 .. n
    BY <1>1, <1>6, <1>8, <1>16
  <2>2. L[base + k] = <<i, j>>
    BY <1>14, <1>16
  <2>3. base + k = r
    BY <1>4, <1>5, <2>1, <2>2
  <2> QED
    BY <1>6, <1>13, <2>1, <2>3
<1>17. ASSUME NEW x \in DOMAIN M, M[x] = M[j] PROVE x = j
  <2>1. PICK u \in ToSet(L) : u[1] = i /\ u[2] = x
    BY <1>11
  <2>2. PICK s \in 1 .. n : L[s] = <<i, x>>
    <3>1. PICK q \in 1 .. n : L[q] = u
      BY <1>1, <2>1 DEF ToSet
    <3>2. u = <<u[1], u[2]>>
      BY <1>2, <3>1
    <3> QED
      BY <2>1, <3>1, <3>2
  <2>3. s - base \in 0 .. n - base /\ base + (s - base) = s
    <3>1. L[s][1] = i
      BY <2>2
    <3>2. s - base \in 0 .. count - 1
      BY <1>6, <3>1
    <3> QED
      BY <1>1, <1>6, <3>2
  <2>4. L[base + M[x]] = <<i, x>>
    BY <1>11, <2>2, <2>3
  <2>5. L[base + M[j]] = <<i, j>>
    BY <1>4, <1>6, <1>13
  <2> QED
    BY <1>17, <2>4, <2>5
<1> QED
  BY <1>12, <1>13, <1>15, <1>16, <1>17, <1>4 DEF L, M

(* Wiring *******************************************************************)

\* A VOQ joins two ports of one switch.
LEMMA VoqJoinsPorts ==
    ASSUME NEW v \in Voqs
    PROVE  \/ \E l \in Leaves, i, j \in LeafPorts :
                 /\ <<i, j>> \in LeafPairs
                 /\ v = <<<<"L", l, i>>, <<"L", l, j>>>>
           \/ \E s \in Spines, i, j \in SpinePorts :
                 /\ <<i, j>> \in SpinePairs
                 /\ v = <<<<"S", s, i>>, <<"S", s, j>>>>
<1>1. CASE \E l \in Leaves, u \in LeafPairs : v = <<<<"L", l, u[1]>>, <<"L", l, u[2]>>>>
  <2>1. PICK l \in Leaves, u \in LeafPairs : v = <<<<"L", l, u[1]>>, <<"L", l, u[2]>>>>
    BY <1>1
  <2>2. u = <<u[1], u[2]>> /\ u[1] \in LeafPorts /\ u[2] \in LeafPorts
    BY DEF LeafPairs
  <2> QED
    BY <2>1, <2>2
<1>2. CASE \E s \in Spines, u \in SpinePairs : v = <<<<"S", s, u[1]>>, <<"S", s, u[2]>>>>
  <2>1. PICK s \in Spines, u \in SpinePairs : v = <<<<"S", s, u[1]>>, <<"S", s, u[2]>>>>
    BY <1>2
  <2>2. u = <<u[1], u[2]>> /\ u[1] \in SpinePorts /\ u[2] \in SpinePorts
    BY DEF SpinePairs
  <2> QED
    BY <2>1, <2>2
<1>3. \/ \E l \in Leaves, u \in LeafPairs : v = <<<<"L", l, u[1]>>, <<"L", l, u[2]>>>>
      \/ \E s \in Spines, u \in SpinePairs : v = <<<<"S", s, u[1]>>, <<"S", s, u[2]>>>>
  BY DEF Voqs
<1> QED
  BY <1>1, <1>2, <1>3

\* The queues there are, by the pairs of ports.
LEMMA PairsAreVoqs ==
    /\ \A l \in Leaves, i, j \in LeafPorts :
          <<i, j>> \in LeafPairs => <<<<"L", l, i>>, <<"L", l, j>>>> \in Voqs
    /\ \A s \in Spines, i, j \in SpinePorts :
          <<i, j>> \in SpinePairs => <<<<"S", s, i>>, <<"S", s, j>>>> \in Voqs
<1>1. ASSUME NEW l \in Leaves, NEW i, NEW j, <<i, j>> \in LeafPairs
      PROVE  <<<<"L", l, i>>, <<"L", l, j>>>> \in Voqs
  <2> DEFINE T == {<<<<"L", l, u[1]>>, <<"L", l, u[2]>>>> : u \in LeafPairs}
  <2>1. <<<<"L", l, i>>, <<"L", l, j>>>> \in T
    BY <1>1
  <2>2. T \in {{<<<<"L", x, u[1]>>, <<"L", x, u[2]>>>> : u \in LeafPairs} : x \in Leaves}
    OBVIOUS
  <2> HIDE DEF T
  <2> QED
    BY <2>1, <2>2 DEF Voqs
<1>2. ASSUME NEW s \in Spines, NEW i, NEW j, <<i, j>> \in SpinePairs
      PROVE  <<<<"S", s, i>>, <<"S", s, j>>>> \in Voqs
  <2> DEFINE T == {<<<<"S", s, u[1]>>, <<"S", s, u[2]>>>> : u \in SpinePairs}
  <2>1. <<<<"S", s, i>>, <<"S", s, j>>>> \in T
    BY <1>2
  <2>2. T \in {{<<<<"S", x, u[1]>>, <<"S", x, u[2]>>>> : u \in SpinePairs} : x \in Spines}
    OBVIOUS
  <2> HIDE DEF T
  <2> QED
    BY <2>1, <2>2 DEF Voqs
<1> QED
  BY <1>1, <1>2

\* A VOQ starts at a port of the network.
LEMMA VoqIsOfPorts ==
    ASSUME NEW v \in Voqs
    PROVE  v[1] \in Ports
<1>1. CASE \E l \in Leaves, i, j \in LeafPorts :
              <<i, j>> \in LeafPairs /\ v = <<<<"L", l, i>>, <<"L", l, j>>>>
  BY <1>1 DEF Ports
<1>2. CASE \E s \in Spines, i, j \in SpinePorts :
              <<i, j>> \in SpinePairs /\ v = <<<<"S", s, i>>, <<"S", s, j>>>>
  BY <1>2 DEF Ports
<1> QED
  BY <1>1, <1>2, VoqJoinsPorts

\* Each VOQ leads to the one port it is connected to, whatever the other ports
\* of the switch and the queues left out.
LEMMA LeadsToItsPort ==
    ASSUME NEW v \in Voqs
    PROVE  PortsBehind(v) = {v[2][3]}
<1> DEFINE kind == v[1][1]
           i == v[1][3]
           j == v[2][3]
<1>1. kind \in {"L", "S"} /\ <<i, j>> \in Pairs(kind)
  <2>1. CASE \E l \in Leaves, a, b \in LeafPorts :
                 <<a, b>> \in LeafPairs /\ v = <<<<"L", l, a>>, <<"L", l, b>>>>
    BY <2>1 DEF Pairs
  <2>2. CASE \E s \in Spines, a, b \in SpinePorts :
                 <<a, b>> \in SpinePairs /\ v = <<<<"S", s, a>>, <<"S", s, b>>>>
    BY <2>2 DEF Pairs
  <2> QED
    BY <2>1, <2>2, VoqJoinsPorts
<1>2. OutQueue(v) = CHOOSE k \in OutQueues(kind, i) :
                       VoqList[kind][XBarQueue(kind, i, k)] = <<i, j>>
  BY DEF OutQueue
<1>3. PortsBehind(v) = {x \in DOMAIN OutputVoqMap(kind, i) : OutputVoqMap(kind, i)[x] = OutQueue(v)}
  BY DEF PortsBehind
<1> HIDE DEF kind, i, j
<1>4. OutQueue(v) = OutputVoqMap(kind, i)[j]
  BY <1>1, <1>2, ForwardsIntoOwnVoq
<1> QED
  BY <1>1, <1>3, <1>4, ForwardsIntoOwnVoq DEF kind, i, j

(* Servers ******************************************************************)

\* The servers of leaf l are those numbered l * ServersPerLeaf and up.
LEMMA ServersOfALeaf ==
    ASSUME NEW l \in Leaves, NEW j \in 0 .. ServersPerLeaf - 1
    PROVE  /\ l * ServersPerLeaf + j \in Servers
           /\ (l * ServersPerLeaf + j) \div ServersPerLeaf = l
           /\ (l * ServersPerLeaf + j) % ServersPerLeaf = j
           /\ Inside(l, l * ServersPerLeaf + j)
<1> DEFINE b == ServersPerLeaf
<1>1. b \in Nat \ {0} /\ LeafCnt \in Nat \ {0} /\ l \in Nat /\ l + 1 <= LeafCnt
  BY LeafSpineAssumption DEF Leaves
<1>2. l * b \in Nat /\ (l + 1) * b = l * b + b
  BY <1>1
<1>3. (l + 1) * b <= LeafCnt * b
  <2>1. LeafCnt - (l + 1) \in Nat
    BY <1>1
  <2>2. (LeafCnt - (l + 1)) * b \in Nat
    BY <1>1, <2>1
  <2>3. (LeafCnt - (l + 1)) * b = LeafCnt * b - (l + 1) * b
    BY <1>1
  <2>4. LeafCnt * b \in Int /\ (l + 1) * b \in Int
    BY <1>1
  <2> QED
    BY <2>2, <2>3, <2>4
<1>4. LeafCnt * b \in Nat
  BY <1>1
<1> DEFINE d == l * b + j
<1>5. d \in Nat /\ d <= LeafCnt * b - 1 /\ d >= l * b /\ d <= (l + 1) * b - 1
  BY <1>1, <1>2, <1>3, <1>4
<1>6. d \div b = l /\ d % b = j
  <2>1. d \in Nat /\ b \in Nat \ {0} /\ l \in Nat
    BY <1>1, <1>5
  <2>2. d = b * (d \div b) + (d % b) /\ d % b \in 0 .. b - 1 /\ d \div b \in Nat
    BY <2>1
  <2>3. d \div b = l
    BY <1>5, <2>1
  <2> QED
    BY <1>1, <2>1, <2>2, <2>3
<1> QED
  BY <1>4, <1>5, <1>6 DEF Servers, Inside

\* Each server is at one port of one leaf.
LEMMA ServerIsAtALeaf ==
    ASSUME NEW d \in Servers
    PROVE  /\ d \div ServersPerLeaf \in Leaves
           /\ d % ServersPerLeaf \in 0 .. ServersPerLeaf - 1
           /\ d = (d \div ServersPerLeaf) * ServersPerLeaf + (d % ServersPerLeaf)
           /\ \A l \in Leaves : Inside(l, d) <=> d \div ServersPerLeaf = l
<1> DEFINE b == ServersPerLeaf
<1>1. b \in Nat \ {0} /\ LeafCnt \in Nat \ {0} /\ LeafCnt * b \in Nat
  BY LeafSpineAssumption
<1>2. d \in Nat /\ d < LeafCnt * b
  BY <1>1 DEF Servers
<1>3. d = b * (d \div b) + (d % b) /\ d % b \in 0 .. b - 1 /\ d \div b \in Nat
  BY <1>1, <1>2
<1>4. d \div b < LeafCnt
  BY <1>1, <1>2
<1>5. ASSUME NEW l \in Leaves PROVE Inside(l, d) <=> d \div b = l
  <2>1. l \in Nat
    BY <1>1, <1>5 DEF Leaves
  <2>2. (l + 1) * b = l * b + b /\ l * b \in Nat
    BY <1>1, <2>1
  <2>3. ASSUME d >= l * b, d <= (l + 1) * b - 1 PROVE d \div b = l
    BY <1>1, <1>2, <2>1, <2>3
  <2>4. ASSUME d \div b = l PROVE d >= l * b /\ d <= (l + 1) * b - 1
    <3>1. d = b * l + (d % b) /\ b * l = l * b
      BY <1>1, <1>3, <2>1, <2>4
    <3> HIDE DEF b
    <3> QED
      BY <1>1, <1>2, <1>3, <2>2, <3>1
  <2> QED
    BY <2>3, <2>4 DEF Inside
<1>6. b * (d \div b) = (d \div b) * b
  BY <1>1, <1>3
<1> QED
  BY <1>1, <1>3, <1>4, <1>5, <1>6 DEF Leaves

(* Forwarding ***************************************************************)

\* The constants as numbers.
LEMMA Numbers ==
    /\ LeafCnt \in Nat \ {0} /\ SpineCnt \in Nat \ {0} /\ ServersPerLeaf \in Nat \ {0}
    /\ MaxEnq \in Nat \ {0} /\ QueueSize \in Nat \ {0} /\ VoqSize \in Nat \ {0}
    /\ LeafCnt * ServersPerLeaf \in Nat \ {0}
<1>1. /\ LeafCnt \in Nat \ {0} /\ SpineCnt \in Nat \ {0} /\ ServersPerLeaf \in Nat \ {0}
      /\ MaxEnq \in Nat \ {0} /\ QueueSize \in Nat \ {0} /\ VoqSize \in Nat \ {0}
  BY LeafSpineAssumption
<1>2. 0 \div ServersPerLeaf = 0 /\ 0 * ServersPerLeaf = 0
  BY <1>1
<1>3. LeafCnt * ServersPerLeaf \in Nat \ {0}
  <2>1. (LeafCnt - 1) * ServersPerLeaf \in Nat
    BY <1>1
  <2>2. (LeafCnt - 1) * ServersPerLeaf = LeafCnt * ServersPerLeaf - ServersPerLeaf
    BY <1>1
  <2>3. LeafCnt * ServersPerLeaf \in Int
    BY <1>1
  <2> QED
    BY <1>1, <2>1, <2>2, <2>3
<1> QED
  BY <1>1, <1>3

\* What an empty slot shows is none of the packets.
LEMMA NullIsAPacket == NullPkt \in AllPackets /\ ~NullPkt.val
BY Numbers DEF NullPkt, AllPackets, Servers, Spines

\* The packets that VOQ v is for: on a leaf those for the server it leads to,
\* or those that leave the leaf by the spine it leads to, on a spine those for a
\* server of the leaf it leads to.
Meant(v, pkt) ==
    IF v[1][1] = "S" THEN Inside(v[2][3], pkt.dst)
    ELSE IF v[2][3] < ServersPerLeaf THEN pkt.dst = v[1][2] * ServersPerLeaf + v[2][3]
    ELSE pkt.via = v[2][3] - ServersPerLeaf /\ ~Inside(v[1][2], pkt.dst)

\* The implications about one VOQ and one packet come to this.
Gets(v, pkt) == IF pkt.val /\ Meant(v, pkt) THEN pkt ELSE NullPkt

\* The implications of a spine about one of its VOQs have one solution.
LEMMA SpineForwards ==
    ASSUME NEW s \in Spines, NEW i \in SpinePorts, NEW j \in SpinePorts,
           NEW v \in Voqs, v = <<<<"S", s, i>>, <<"S", s, j>>>>,
           NEW pkt \in AllPackets, NEW e \in AllPackets
    PROVE  Forwards(v, pkt, e) <=> e = Gets(v, pkt)
<1>1. PortsBehind(v) = {j}
  BY LeadsToItsPort
<1>2. pkt.dst \in Servers /\ pkt.val \in BOOLEAN
  BY DEF AllPackets
<1>3. Inside(j, pkt.dst) <=> pkt.dst \div ServersPerLeaf = j
  BY <1>2, ServerIsAtALeaf DEF SpinePorts
<1>4. Inside(j, pkt.dst) <=>
        ~(pkt.dst < j * ServersPerLeaf \/ pkt.dst >= (j + 1) * ServersPerLeaf)
  <2>1. j * ServersPerLeaf \in Int /\ (j + 1) * ServersPerLeaf \in Int /\ pkt.dst \in Int
    BY <1>2, Numbers DEF SpinePorts, Leaves, Servers
  <2> QED
    BY <2>1 DEF Inside
<1>5. ToLeaf(v, pkt, e) <=> /\ pkt.val /\ Inside(j, pkt.dst) => e = pkt
                            /\ ~Inside(j, pkt.dst) => e = NullPkt
  BY <1>1, <1>2, <1>3, <1>4 DEF ToLeaf
<1>6. Forwards(v, pkt, e) <=> ToLeaf(v, pkt, e) /\ (~pkt.val => e = NullPkt)
  BY DEF Forwards
<1> QED
  BY <1>2, <1>5, <1>6 DEF Gets, Meant

\* So have those of a leaf about a VOQ to one of its servers ...
LEMMA ServerPortForwards ==
    ASSUME NEW l \in Leaves, NEW i \in LeafPorts, NEW j \in LeafPorts, j < ServersPerLeaf,
           NEW v \in Voqs, v = <<<<"L", l, i>>, <<"L", l, j>>>>,
           NEW pkt \in AllPackets, NEW e \in AllPackets
    PROVE  Forwards(v, pkt, e) <=> e = Gets(v, pkt)
<1>1. PortsBehind(v) = {j}
  BY LeadsToItsPort
<1>2. pkt.dst \in Servers /\ pkt.val \in BOOLEAN
  BY DEF AllPackets
<1>3. j \in 0 .. ServersPerLeaf - 1
  BY Numbers DEF LeafPorts
<1> DEFINE own == l * ServersPerLeaf + j
<1>4. own \in Servers /\ Inside(l, own) /\ own % ServersPerLeaf = j
  BY <1>3, ServersOfALeaf
<1>5. \A d \in Servers : Inside(l, d) /\ d % ServersPerLeaf = j => d = own
  BY ServerIsAtALeaf
<1> HIDE DEF own
<1>6. WithinLeaf(v, pkt, e) <=> /\ pkt.val /\ pkt.dst = own => e = pkt
                                /\ pkt.dst # own => e = NullPkt
  BY <1>1, <1>4, <1>5 DEF WithinLeaf
<1>7. ToSpine(v, pkt, e)
  <2>1. \A s \in Spines : ServersPerLeaf + s # j
    BY <1>3, Numbers DEF Spines
  <2> QED
    BY <1>1, <2>1 DEF ToSpine
<1>8. Forwards(v, pkt, e) <=> WithinLeaf(v, pkt, e) /\ (~pkt.val => e = NullPkt)
  BY <1>7 DEF Forwards
<1>9. Meant(v, pkt) <=> pkt.dst = own
  BY DEF Meant, own
<1> QED
  BY <1>2, <1>6, <1>8, <1>9 DEF Gets

\* ... and about one to a spine.
LEMMA UplinkForwards ==
    ASSUME NEW l \in Leaves, NEW i \in LeafPorts, NEW j \in LeafPorts,
           i < ServersPerLeaf, ~(j < ServersPerLeaf),
           NEW v \in Voqs, v = <<<<"L", l, i>>, <<"L", l, j>>>>,
           NEW pkt \in AllPackets, NEW e \in AllPackets
    PROVE  Forwards(v, pkt, e) <=> e = Gets(v, pkt)
<1>1. PortsBehind(v) = {j}
  BY LeadsToItsPort
<1>2. pkt.dst \in Servers /\ pkt.val \in BOOLEAN /\ pkt.via \in Spines
  BY DEF AllPackets
<1> DEFINE s == j - ServersPerLeaf
<1>3. s \in Spines /\ \A x \in Spines : ServersPerLeaf + x = j <=> x = s
  BY Numbers DEF LeafPorts, Spines
<1> HIDE DEF s
<1>4. ToSpine(v, pkt, e) <=>
        /\ pkt.val /\ ~Inside(l, pkt.dst) /\ pkt.via = s => e = pkt
        /\ Inside(l, pkt.dst) \/ pkt.via # s => e = NullPkt
  BY <1>1, <1>3 DEF ToSpine
<1>5. WithinLeaf(v, pkt, e)
  <2>1. \A d \in Servers : d % ServersPerLeaf # j
    <3>1. \A d \in Servers : d % ServersPerLeaf \in 0 .. ServersPerLeaf - 1
      BY ServerIsAtALeaf
    <3> QED
      BY <3>1, Numbers DEF LeafPorts
  <2> QED
    BY <1>1, <2>1 DEF WithinLeaf
<1>6. Forwards(v, pkt, e) <=> ToSpine(v, pkt, e) /\ (~pkt.val => e = NullPkt)
  BY <1>5 DEF Forwards
<1>7. Meant(v, pkt) <=> pkt.via = s /\ ~Inside(l, pkt.dst)
  BY DEF Meant, s
<1> QED
  BY <1>2, <1>4, <1>6, <1>7 DEF Gets

\* With the reduced set of queues the implications leave one solution for each
\* VOQ, whatever the packet.
LEMMA OneOutcome ==
    ASSUME ReduceQueues, NEW v \in Voqs, NEW pkt \in AllPackets
    PROVE  Outcomes[<<v, pkt>>] = {Gets(v, pkt)}
<1>1. Gets(v, pkt) \in AllPackets
  BY NullIsAPacket DEF Gets
<1>2. ASSUME NEW e \in AllPackets PROVE Forwards(v, pkt, e) <=> e = Gets(v, pkt)
  <2>1. CASE \E l \in Leaves, i, j \in LeafPorts :
                <<i, j>> \in LeafPairs /\ v = <<<<"L", l, i>>, <<"L", l, j>>>>
    <3>1. PICK l \in Leaves, i \in LeafPorts, j \in LeafPorts :
                <<i, j>> \in LeafPairs /\ v = <<<<"L", l, i>>, <<"L", l, j>>>>
      BY <2>1
    <3>2. i < ServersPerLeaf \/ j < ServersPerLeaf
      BY <3>1 DEF LeafPairs
    <3> QED
      BY <3>1, <3>2, ServerPortForwards, UplinkForwards
  <2>2. CASE \E s \in Spines, i, j \in SpinePorts :
                <<i, j>> \in SpinePairs /\ v = <<<<"S", s, i>>, <<"S", s, j>>>>
    BY <2>2, SpineForwards
  <2> QED
    BY <2>1, <2>2, VoqJoinsPorts
<1>3. Outcomes[<<v, pkt>>] = {e \in AllPackets : Forwards(v, pkt, e)}
  <2>1. Outcomes = [x \in Voqs \X AllPackets |-> {e \in AllPackets : Forwards(x[1], x[2], e)}]
    BY DEF Outcomes, Table
  <2> QED
    BY <2>1
<1> QED
  BY <1>1, <1>2, <1>3

(* Queues *******************************************************************)

\* Taking the head leaves a queue of such packets ...
LEMMA RestKeeps ==
    ASSUME NEW S, NEW s \in Seq(S)
    PROVE  Rest(s) \in Seq(S)
BY HeadTailProperties DEF Rest

\* ... and so does dropping what finds no room.
LEMMA KeepKeeps ==
    ASSUME NEW S, NEW s \in Seq(S), NEW n \in Nat
    PROVE  Keep(n, s) \in Seq(S)
<1> DEFINE k == IF Len(s) < n THEN Len(s) ELSE n
<1>1. k \in Nat /\ k <= Len(s)
  BY LenProperties
<1>2. \A i \in 1 .. k : s[i] \in S
  BY <1>1, ElementOfSeq
<1> HIDE DEF k
<1>3. SubSeq(s, 1, k) \in Seq(S)
  BY <1>1, <1>2, SubSeqProperties
<1> QED
  BY <1>3 DEF Keep, k

\* A set of at most one packet becomes the sequence of just that.
LEMMA SetToSeqOfOne ==
    /\ SetToSeq({}) = <<>>
    /\ \A x : SetToSeq({x}) = <<x>>
<1>1. SetToSeq({}) = <<>>
  <2> DEFINE F == {f \in [1 .. 0 -> {}] : IsInjective(f)}
  <2>1. <<>> \in [1 .. 0 -> {}] /\ IsInjective(<<>>)
    BY DEF IsInjective
  <2>2. \A f \in [1 .. 0 -> {}] : f = <<>>
    OBVIOUS
  <2>3. Cardinality({}) = 0
    BY FS_EmptySet
  <2> QED
    BY <2>1, <2>2, <2>3 DEF SetToSeq
<1>2. ASSUME NEW x PROVE SetToSeq({x}) = <<x>>
  <2>1. <<x>> \in [1 .. 1 -> {x}] /\ IsInjective(<<x>>)
    BY DEF IsInjective
  <2>2. \A f \in [1 .. 1 -> {x}] : f = <<x>>
    OBVIOUS
  <2>3. Cardinality({x}) = 1
    BY FS_Singleton
  <2> QED
    BY <2>1, <2>2, <2>3 DEF SetToSeq
<1> QED
  BY <1>1, <1>2

\* A VOQ gets the packet at the head of its input queue if it is meant for it.
LEMMA EnqueuedIs ==
    ASSUME ReduceQueues, NEW v \in Voqs, NEW q \in Seq(AllPackets)
    PROVE  Enqueued(v, q) = IF q # <<>> /\ q[1].val /\ Meant(v, q[1]) THEN <<q[1]>> ELSE <<>>
<1>1. CASE q = <<>>
  BY <1>1 DEF Enqueued
<1>2. CASE q # <<>>
  <2> DEFINE pkt == q[1]
  <2>1. pkt \in AllPackets
    BY <1>2, EmptySeq, ElementOfSeq
  <2> HIDE DEF pkt
  <2>2. Enqueued(v, q) = Forwarded[<<v, pkt>>]
    BY <1>2 DEF Enqueued, pkt
  <2>3. Forwarded[<<v, pkt>>] = SetToSeq({e \in Outcomes[<<v, pkt>>] : e.val})
    <3>1. Forwarded = [x \in Voqs \X AllPackets |-> SetToSeq({e \in Outcomes[x] : e.val})]
      BY DEF Forwarded, Table
    <3> QED
      BY <2>1, <3>1
  <2>4. Outcomes[<<v, pkt>>] = {Gets(v, pkt)}
    BY <2>1, OneOutcome
  <2>5. CASE pkt.val /\ Meant(v, pkt)
    <3>1. {e \in Outcomes[<<v, pkt>>] : e.val} = {pkt}
      BY <2>4, <2>5 DEF Gets
    <3> QED
      BY <1>2, <2>2, <2>3, <2>5, <3>1, SetToSeqOfOne DEF pkt
  <2>6. CASE ~(pkt.val /\ Meant(v, pkt))
    <3>1. {e \in Outcomes[<<v, pkt>>] : e.val} = {}
      BY <2>4, <2>6, NullIsAPacket DEF Gets
    <3> QED
      BY <1>2, <2>2, <2>3, <2>6, <3>1, SetToSeqOfOne DEF pkt
  <2> QED
    BY <2>5, <2>6
<1> QED
  BY <1>1, <1>2

\* A link carries the head of the one queue that is matched with its port.
LEMMA OnLinkIs ==
    ASSUME NEW m \in Matchings, NEW p
    PROVE  \/ OnLink(m, p) = <<>>
           \/ \E v \in m : /\ v \in Voqs /\ voq[v] # <<>> /\ v[2] = p
                           /\ OnLink(m, p) = <<Head(voq[v])>>
<1>1. m \in SUBSET {v \in Voqs : voq[v] # <<>>} /\ \A u, v \in m : SharePort(u, v) => u = v
  BY DEF Matchings, MaximalMatching
<1> DEFINE H == {Head(voq[v]) : v \in {x \in m : x[2] = p}}
<1>2. OnLink(m, p) = SetToSeq(H)
  BY DEF OnLink
<1>3. CASE \A v \in m : v[2] # p
  <2>1. H = {}
    BY <1>3
  <2> QED
    BY <1>2, <2>1, SetToSeqOfOne
<1>4. CASE \E v \in m : v[2] = p
  <2>1. PICK v \in m : v[2] = p
    BY <1>4
  <2>2. \A u \in m : u[2] = p => u = v
    BY <1>1, <2>1 DEF SharePort
  <2>3. {x \in m : x[2] = p} = {v}
    BY <2>1, <2>2
  <2>4. H = {Head(voq[v])}
    BY <2>3
  <2> QED
    BY <1>1, <1>2, <2>1, <2>4, SetToSeqOfOne
<1> QED
  BY <1>3, <1>4

\* A server has finitely many slots to send in.
LEMMA EnqsAreFinite ==
    ASSUME NEW slots \in EnqSlots, NEW d
    PROVE  /\ IsFiniteSet({u \in slots : u[1] = d})
           /\ Cardinality({u \in slots : u[1] = d}) \in Nat
<1> DEFINE K == {u \in slots : u[1] = d}
           f == [u \in K |-> u[2]]
<1>1. \A u \in K : u = <<d, u[2]>> /\ u[2] \in 1 .. MaxEnq
  BY DEF EnqSlots
<1>2. f \in Injection(K, 1 .. MaxEnq)
  BY <1>1 DEF Injection, IsInjective
<1>3. IsFiniteSet(1 .. MaxEnq)
  BY Numbers, FS_Interval
<1> QED
  BY <1>2, <1>3, FS_Injection, FS_CardinalityType

\* The slots a server enqueues into have no holes.
LEMMA NoHolesInEnqs ==
    ASSUME NEW slots \in EnqSlots, NEW d,
           NEW k \in 1 .. Cardinality({u \in slots : u[1] = d})
    PROVE  <<d, k>> \in slots
<1> DEFINE K == {u \in slots : u[1] = d}
<1>1. slots \in SUBSET (Senders \X (1 .. MaxEnq)) /\ \A u \in slots : \A i \in 1 .. u[2] : <<u[1], i>> \in slots
  BY DEF EnqSlots
<1> SUFFICES ASSUME <<d, k>> \notin slots PROVE FALSE
  OBVIOUS
<1>2. \A u \in K : u = <<d, u[2]>> /\ u[2] \in 1 .. MaxEnq
  BY <1>1
<1>3. MaxEnq \in Nat
  BY Numbers
<1>4. ASSUME Cardinality(K) \in Nat PROVE \A u \in K : u[2] \in 1 .. k - 1
  <2> SUFFICES ASSUME NEW u \in K PROVE u[2] \in 1 .. k - 1
    OBVIOUS
  <2>1. k \in Nat \ {0} /\ u[2] \in Nat \ {0}
    BY <1>2, <1>3, <1>4
  <2>2. CASE k <= u[2]
    <3>1. k \in 1 .. u[2]
      BY <2>1, <2>2
    <3>2. <<u[1], k>> \in slots
      BY <1>1, <3>1
    <3> QED
      BY <3>2
  <2> QED
    BY <2>1, <2>2
<1>5. IsFiniteSet(K) /\ Cardinality(K) \in Nat
  BY EnqsAreFinite
<1>6. k \in Nat \ {0}
  BY <1>5
<1>7. Cardinality(K) <= k - 1
  <2> DEFINE f == [u \in K |-> u[2]]
  <2>1. f \in Injection(K, 1 .. k - 1)
    BY <1>2, <1>4, <1>5 DEF Injection, IsInjective
  <2>2. IsFiniteSet(1 .. k - 1) /\ Cardinality(1 .. k - 1) = k - 1
    <3>1. 1 \in Int /\ k - 1 \in Int /\ (1 > k - 1 => k - 1 = 0) /\ (k - 1) - 1 + 1 = k - 1
      BY <1>6
    <3>2. IsFiniteSet(1 .. k - 1) /\ Cardinality(1 .. k - 1) = IF 1 > k - 1 THEN 0 ELSE (k - 1) - 1 + 1
      BY <3>1, FS_Interval
    <3> QED
      BY <3>1, <3>2
  <2>3. Cardinality(K) <= Cardinality(1 .. k - 1)
    BY <2>1, <2>2, FS_Injection
  <2> QED
    BY <2>2, <2>3
<1> HIDE DEF K
<1>8. k <= Cardinality(K)
  BY <1>5 DEF K
<1> QED
  BY <1>5, <1>6, <1>7, <1>8

(* The invariant ************************************************************)

\* Where a packet may be: in front of a spine if it chose it and leaves the leaf
\* it comes from, in front of a leaf below a spine if that is the spine it chose
\* and the leaf of its server, in front of a server's port if not for that server.
InPlace(p, pkt) ==
    /\ pkt.val
    /\ IF p[1] = "S" THEN pkt.via = p[2] /\ ~Inside(p[3], pkt.dst)
       ELSE IF p[3] < ServersPerLeaf THEN pkt.dst # p[2] * ServersPerLeaf + p[3]
       ELSE pkt.via = p[3] - ServersPerLeaf /\ Inside(p[2], pkt.dst)

AtPort(p) == {pkt \in AllPackets : InPlace(p, pkt)}
InVoq(v) == {pkt \in AllPackets : pkt.val /\ Meant(v, pkt) /\ (v[1][1] = "S" => pkt.via = v[1][2])}
AtServer(d) == {pkt \in AllPackets : pkt.val /\ pkt.dst = d}

\* Each queue is a sequence of packets that may be there.
IInv ==
    /\ inq \in [Ports -> Seq(AllPackets)]
    /\ voq \in [Voqs -> Seq(AllPackets)]
    /\ down \in [Servers -> Seq(AllPackets)]
    /\ \A p \in Ports : inq[p] \in Seq(AtPort(p))
    /\ \A v \in Voqs : voq[v] \in Seq(InVoq(v))
    /\ \A d \in Servers : down[d] \in Seq(AtServer(d))

\* The queues are empty at first.
LEMMA InitIInv == Init => IInv
<1> SUFFICES ASSUME Init PROVE IInv
  OBVIOUS
<1>1. \A S : <<>> \in Seq(S)
  BY EmptySeq
<1> QED
  BY <1>1 DEF Init, IInv

\* The packet of a VOQ that leads up, down or to a server is in place there.
LEMMA LinkIsInPlace ==
    ASSUME NEW v \in Voqs, NEW pkt \in InVoq(v)
    PROVE  /\ \A p \in Ports : ~IsServerPort(p) /\ v[2] = Peer(p) => pkt \in AtPort(p)
           /\ \A d \in Servers : v[2] = ServerPort(d) => pkt \in AtServer(d)
<1>1. pkt \in AllPackets /\ pkt.val /\ Meant(v, pkt) /\ (v[1][1] = "S" => pkt.via = v[1][2])
  BY DEF InVoq
<1>2. ASSUME NEW l \in Leaves, NEW i \in LeafPorts, NEW j \in LeafPorts,
             v = <<<<"L", l, i>>, <<"L", l, j>>>>
      PROVE  /\ \A p \in Ports : ~IsServerPort(p) /\ v[2] = Peer(p) => pkt \in AtPort(p)
             /\ \A d \in Servers : v[2] = ServerPort(d) => pkt \in AtServer(d)
  <2>1. ASSUME NEW p \in Ports, ~IsServerPort(p), v[2] = Peer(p) PROVE pkt \in AtPort(p)
    <3>1. p[1] = "S" /\ p[3] = l /\ j = ServersPerLeaf + p[2] /\ p[2] \in Nat
      BY <1>2, <2>1, Numbers DEF Ports, Peer, Spines
    <3>2. pkt.via = j - ServersPerLeaf /\ ~Inside(l, pkt.dst)
      BY <1>1, <1>2, <3>1, Numbers DEF Meant
    <3>3. pkt.via = p[2]
      BY <3>1, <3>2, Numbers
    <3> QED
      BY <1>1, <3>1, <3>2, <3>3 DEF AtPort, InPlace
  <2>2. ASSUME NEW d \in Servers, v[2] = ServerPort(d) PROVE pkt \in AtServer(d)
    <3>1. l = d \div ServersPerLeaf /\ j = d % ServersPerLeaf
      BY <1>2, <2>2 DEF ServerPort
    <3>2. j < ServersPerLeaf /\ d = l * ServersPerLeaf + j
      BY <3>1, ServerIsAtALeaf, Numbers
    <3>3. pkt.dst = l * ServersPerLeaf + j
      BY <1>1, <1>2, <3>2 DEF Meant
    <3> QED
      BY <1>1, <3>2, <3>3 DEF AtServer
  <2> QED
    BY <2>1, <2>2
<1>3. ASSUME NEW s \in Spines, NEW i \in SpinePorts, NEW j \in SpinePorts,
             v = <<<<"S", s, i>>, <<"S", s, j>>>>
      PROVE  /\ \A p \in Ports : ~IsServerPort(p) /\ v[2] = Peer(p) => pkt \in AtPort(p)
             /\ \A d \in Servers : v[2] = ServerPort(d) => pkt \in AtServer(d)
  <2>1. ASSUME NEW p \in Ports, ~IsServerPort(p), v[2] = Peer(p) PROVE pkt \in AtPort(p)
    <3>1. p[1] = "L" /\ p[3] - ServersPerLeaf = s /\ p[2] = j /\ p[3] \in Nat /\ ~(p[3] < ServersPerLeaf)
      BY <1>3, <2>1, Numbers DEF Ports, Peer, IsServerPort, LeafPorts
    <3>2. pkt.via = s /\ Inside(j, pkt.dst)
      BY <1>1, <1>3 DEF Meant
    <3> QED
      BY <1>1, <3>1, <3>2 DEF AtPort, InPlace
  <2>2. ASSUME NEW d \in Servers, v[2] = ServerPort(d) PROVE FALSE
    BY <1>3, <2>2 DEF ServerPort
  <2> QED
    BY <2>1, <2>2
<1> QED
  BY <1>2, <1>3, VoqJoinsPorts

\* A packet in place that is forwarded is in place in its VOQ.
LEMMA ForwardedIsInPlace ==
    ASSUME NEW v \in Voqs, NEW pkt \in AtPort(v[1]), Meant(v, pkt)
    PROVE  pkt \in InVoq(v)
BY DEF AtPort, InPlace, InVoq

\* What a server sends are packets that may arrive there.
LEMMA SentArrives ==
    ASSUME NEW n, NEW arr, arr = <<>> \/ arr \in Sendings(n), NEW d \in Servers
    PROVE  [k \in 1 .. Cardinality({u \in DOMAIN arr : u[1] = d}) |-> arr[<<d, k>>]]
              \in Seq(Arrivals(d))
<1> DEFINE c == Cardinality({u \in DOMAIN arr : u[1] = d})
<1>1. CASE arr = <<>>
  <2>1. {u \in DOMAIN arr : u[1] = d} = {}
    BY <1>1
  <2>2. c = 0
    BY <2>1, FS_EmptySet
  <2> HIDE DEF c
  <2>3. [k \in 1 .. c |-> arr[<<d, k>>]] = <<>>
    BY <2>2
  <2> QED
    BY <2>3, EmptySeq DEF c
<1>2. CASE arr \in Sendings(n)
  <2>1. PICK slots \in EnqSlots : /\ DOMAIN arr = slots
                                  /\ \A u \in slots : arr[u] \in Arrivals(u[1])
    BY <1>2 DEF Sendings
  <2>2. \A k \in 1 .. c : <<d, k>> \in slots
    BY <2>1, NoHolesInEnqs
  <2>3. \A k \in 1 .. c : arr[<<d, k>>] \in Arrivals(d)
    BY <2>1, <2>2
  <2>4. c \in Nat
    BY <2>1, EnqsAreFinite
  <2> HIDE DEF c
  <2>5. [k \in 1 .. c |-> arr[<<d, k>>]] \in Seq(Arrivals(d))
    BY <2>3, <2>4, IsASeq
  <2> QED
    BY <2>5 DEF c
<1> QED
  BY <1>1, <1>2

\* What joins a server's queue are packets for other servers.
LEMMA JoinedIsInPlace ==
    ASSUME IInv, NEW n, NEW arr, arr = <<>> \/ arr \in Sendings(n), NEW p \in Ports, IsServerPort(p)
    PROVE  Joined(arr, p[2] * ServersPerLeaf + p[3]) \in Seq(AtPort(p))
<1> DEFINE d == p[2] * ServersPerLeaf + p[3]
           c == Cardinality({u \in DOMAIN arr : u[1] = d})
           new == [k \in 1 .. c |-> arr[<<d, k>>]]
<1>1. p[1] = "L" /\ p[2] \in Leaves /\ p[3] \in 0 .. ServersPerLeaf - 1
  BY Numbers DEF Ports, IsServerPort, LeafPorts
<1>2. d \in Servers /\ ServerPort(d) = p
  BY <1>1, ServersOfALeaf DEF ServerPort, Ports, IsServerPort
<1>3. \A pkt \in Arrivals(d) : pkt \in AtPort(p)
  <2>1. ASSUME NEW pkt \in Arrivals(d) PROVE pkt \in AtPort(p)
    BY <1>1, Numbers DEF Arrivals, AtPort, InPlace
  <2> QED
    BY <2>1
<1>4. new \in Seq(AtPort(p))
  <2>1. new \in Seq(Arrivals(d))
    BY <1>2, SentArrives
  <2>2. Arrivals(d) \subseteq AtPort(p)
    BY <1>3
  <2> HIDE DEF new, d
  <2> QED
    BY <2>1, <2>2, SeqMonotonic
<1>5. Rest(inq[ServerPort(d)]) \in Seq(AtPort(p))
  BY <1>2, RestKeeps DEF IInv
<1>6. Rest(inq[ServerPort(d)]) \o new \in Seq(AtPort(p))
  BY <1>4, <1>5, ConcatProperties
<1>7. Joined(arr, d) = Keep(QueueSize, Rest(inq[ServerPort(d)]) \o new)
  BY DEF Joined
<1> QED
  BY <1>6, <1>7, KeepKeeps, Numbers

\* A time step keeps every packet where it may be: it goes on to a VOQ meant for
\* it, and from there to the port the VOQ leads to.
LEMMA StepIInv ==
    ASSUME ReduceQueues, IInv, NEW m \in Matchings, NEW n, NEW arr,
           arr = <<>> \/ arr \in Sendings(n), Step(m, arr)
    PROVE  IInv'
<1> DEFINE left == Served(m)
<1>1. \A v \in m : v \in Voqs /\ voq[v] # <<>>
  BY DEF Matchings
<1>2. ASSUME NEW v \in Voqs, voq[v] # <<>> PROVE Head(voq[v]) \in InVoq(v)
  BY <1>2, HeadTailProperties DEF IInv
<1>3. ASSUME NEW p \in Ports PROVE inq'[p] \in Seq(AtPort(p))
  <2>1. CASE IsServerPort(p)
    <3>1. p[2] * ServersPerLeaf + p[3] \in Servers
      BY <2>1, Numbers, ServersOfALeaf DEF Ports, IsServerPort, LeafPorts
    <3>2. inq'[p] = Joined(arr, p[2] * ServersPerLeaf + p[3])
      BY <2>1, <3>1 DEF Step
    <3> QED
      BY <2>1, <3>2, JoinedIsInPlace
  <2>2. CASE ~IsServerPort(p)
    <3>1. inq'[p] = OnLink(m, Peer(p))
      BY <2>2 DEF Step
    <3>2. CASE OnLink(m, Peer(p)) = <<>>
      BY <3>1, <3>2, EmptySeq
    <3>3. CASE \E v \in m : /\ v \in Voqs /\ voq[v] # <<>> /\ v[2] = Peer(p)
                            /\ OnLink(m, Peer(p)) = <<Head(voq[v])>>
      <4>1. PICK v \in m : /\ v \in Voqs /\ voq[v] # <<>> /\ v[2] = Peer(p)
                           /\ OnLink(m, Peer(p)) = <<Head(voq[v])>>
        BY <3>3
      <4>2. Head(voq[v]) \in AtPort(p)
        BY <1>2, <2>2, <4>1, LinkIsInPlace
      <4> QED
        BY <3>1, <4>1, <4>2
    <3> QED
      BY <3>2, <3>3, OnLinkIs
  <2> QED
    BY <2>1, <2>2
<1>4. \A p \in Ports : inq'[p] \in Seq(AllPackets)
  <2>1. \A p \in Ports : AtPort(p) \subseteq AllPackets
    BY DEF AtPort
  <2> QED
    BY <1>3, <2>1, SeqMonotonic
<1>5. inq' \in [Ports -> Seq(AllPackets)]
  BY <1>4 DEF Step
<1>6. ASSUME NEW v \in Voqs PROVE voq'[v] \in Seq(InVoq(v))
  <2>1. left[v] \in Seq(InVoq(v))
    <3>1. CASE v \in m
      <4>1. voq[v] \in Seq(InVoq(v)) /\ voq[v] # <<>>
        BY <1>1, <3>1 DEF IInv
      <4> QED
        BY <3>1, <4>1, HeadTailProperties DEF Served
    <3>2. CASE v \notin m
      BY <3>2 DEF Served, IInv
    <3> QED
      BY <3>1, <3>2
  <2>2. v[1] \in Ports
    BY VoqIsOfPorts
  <2> DEFINE q == inq'[v[1]]
  <2>3. q \in Seq(AtPort(v[1])) /\ q \in Seq(AllPackets)
    BY <1>3, <1>4, <2>2
  <2>4. Enqueued(v, q) \in Seq(InVoq(v))
    <3>1. CASE q # <<>> /\ q[1].val /\ Meant(v, q[1])
      <4>1. q[1] \in AtPort(v[1])
        BY <2>3, <3>1, EmptySeq, ElementOfSeq
      <4>2. q[1] \in InVoq(v)
        BY <3>1, <4>1, ForwardedIsInPlace
      <4>3. Enqueued(v, q) = <<q[1]>>
        BY <2>3, <3>1, EnqueuedIs
      <4> QED
        BY <4>2, <4>3
    <3>2. CASE ~(q # <<>> /\ q[1].val /\ Meant(v, q[1]))
      <4>1. Enqueued(v, q) = <<>>
        BY <2>3, <3>2, EnqueuedIs
      <4> QED
        BY <4>1, EmptySeq
    <3> QED
      BY <3>1, <3>2
  <2>5. voq'[v] = Keep(VoqSize, left[v] \o Enqueued(v, q))
    BY DEF Step
  <2>6. left[v] \o Enqueued(v, q) \in Seq(InVoq(v))
    BY <2>1, <2>4, ConcatProperties
  <2> QED
    BY <2>5, <2>6, KeepKeeps, Numbers
<1>7. voq' \in [Voqs -> Seq(AllPackets)]
  <2>1. \A v \in Voqs : InVoq(v) \subseteq AllPackets
    BY DEF InVoq
  <2>2. \A v \in Voqs : voq'[v] \in Seq(AllPackets)
    BY <1>6, <2>1, SeqMonotonic
  <2> QED
    BY <2>2 DEF Step
<1>8. ASSUME NEW d \in Servers PROVE down'[d] \in Seq(AtServer(d))
  <2>1. down'[d] = OnLink(m, ServerPort(d))
    BY DEF Step
  <2>2. CASE OnLink(m, ServerPort(d)) = <<>>
    BY <2>1, <2>2, EmptySeq
  <2>3. CASE \E v \in m : /\ v \in Voqs /\ voq[v] # <<>> /\ v[2] = ServerPort(d)
                          /\ OnLink(m, ServerPort(d)) = <<Head(voq[v])>>
    <3>1. PICK v \in m : /\ v \in Voqs /\ voq[v] # <<>> /\ v[2] = ServerPort(d)
                         /\ OnLink(m, ServerPort(d)) = <<Head(voq[v])>>
      BY <2>3
    <3>2. Head(voq[v]) \in AtServer(d)
      BY <1>2, <3>1, LinkIsInPlace
    <3> QED
      BY <2>1, <3>1, <3>2
  <2> QED
    BY <2>2, <2>3, OnLinkIs
<1>9. down' \in [Servers -> Seq(AllPackets)]
  <2>1. \A d \in Servers : AtServer(d) \subseteq AllPackets
    BY DEF AtServer
  <2>2. \A d \in Servers : down'[d] \in Seq(AllPackets)
    BY <1>8, <2>1, SeqMonotonic
  <2> QED
    BY <2>2 DEF Step
<1> QED
  BY <1>3, <1>5, <1>6, <1>7, <1>8, <1>9 DEF IInv

\* Both kinds of step are such steps.
LEMMA NextIInv == ReduceQueues /\ IInv /\ [Next]_vars => IInv'
<1> SUFFICES ASSUME ReduceQueues, IInv, [Next]_vars PROVE IInv'
  OBVIOUS
<1>1. CASE Quiet
  BY <1>1, StepIInv DEF Quiet
<1>2. CASE Busy
  BY <1>2, StepIInv DEF Busy
<1>3. CASE UNCHANGED vars
  BY <1>3 DEF vars, IInv
<1> QED
  BY <1>1, <1>2, <1>3 DEF Next

\* Packets stay in place throughout an execution.
LEMMA Invariant == ReduceQueues => (Spec => []IInv)
<1> SUFFICES ASSUME ReduceQueues PROVE Spec => []IInv
  OBVIOUS
<1>1. IInv /\ [Next]_vars => IInv'
  BY NextIInv
<1> QED
  BY <1>1, InitIInv, PTL DEF Spec

\* A packet in place at a port is meant for exactly one of the port's VOQs.
LEMMA MeantForOne ==
    ASSUME ReduceQueues, NEW p \in Ports, NEW pkt \in AtPort(p)
    PROVE  \E u \in Voqs : /\ u[1] = p /\ Meant(u, pkt)
                           /\ \A v \in Voqs : v[1] = p /\ Meant(v, pkt) => v = u
<1>1. pkt \in AllPackets /\ pkt.dst \in Servers /\ pkt.via \in Spines /\ InPlace(p, pkt)
  BY DEF AllPackets, AtPort
<1> DEFINE home == pkt.dst \div ServersPerLeaf
           at == pkt.dst % ServersPerLeaf
<1>2. /\ home \in Leaves /\ at \in 0 .. ServersPerLeaf - 1
      /\ pkt.dst = home * ServersPerLeaf + at
      /\ \A l \in Leaves : Inside(l, pkt.dst) <=> home = l
  BY <1>1, ServerIsAtALeaf
<1> HIDE DEF home, at
<1>3. CASE \E s \in Spines, i \in SpinePorts : p = <<"S", s, i>>
  <2>1. PICK s \in Spines, i \in SpinePorts : p = <<"S", s, i>>
    BY <1>3
  <2>2. home \in SpinePorts /\ home # i
    BY <1>1, <1>2, <2>1 DEF SpinePorts, InPlace
  <2> DEFINE u == <<<<"S", s, i>>, <<"S", s, home>>>>
  <2>3. u \in Voqs
    <3>1. <<i, home>> \in SpinePairs
      BY <2>2 DEF SpinePairs
    <3> QED
      BY <2>2, <3>1, PairsAreVoqs
  <2>4. Meant(u, pkt)
    BY <1>2 DEF Meant
  <2>5. ASSUME NEW v \in Voqs, v[1] = p, Meant(v, pkt) PROVE v = u
    <3>1. PICK j \in SpinePorts : v = <<<<"S", s, i>>, <<"S", s, j>>>>
      <4>1. CASE \E s1 \in Spines, a, b \in SpinePorts : v = <<<<"S", s1, a>>, <<"S", s1, b>>>>
        <5>1. PICK s1 \in Spines, a \in SpinePorts, b \in SpinePorts :
                 v = <<<<"S", s1, a>>, <<"S", s1, b>>>>
          BY <4>1
        <5>2. <<"S", s1, a>> = <<"S", s, i>>
          BY <2>1, <2>5, <5>1
        <5> QED
          BY <5>1, <5>2
      <4>2. CASE \E l \in Leaves, a, b \in LeafPorts : v = <<<<"L", l, a>>, <<"L", l, b>>>>
        <5>1. PICK l \in Leaves, a \in LeafPorts, b \in LeafPorts :
                 v = <<<<"L", l, a>>, <<"L", l, b>>>>
          BY <4>2
        <5>2. <<"L", l, a>> = <<"S", s, i>>
          BY <2>1, <2>5, <5>1
        <5> QED
          BY <5>2
      <4> QED
        BY <4>1, <4>2, VoqJoinsPorts
    <3>2. Inside(j, pkt.dst) /\ j \in Leaves
      BY <2>5, <3>1 DEF Meant, SpinePorts
    <3> QED
      BY <1>2, <3>1, <3>2
  <2> QED
    BY <2>1, <2>3, <2>4, <2>5
<1>4. CASE \E l \in Leaves, i \in LeafPorts : p = <<"L", l, i>>
  <2>1. PICK l \in Leaves, i \in LeafPorts : p = <<"L", l, i>>
    BY <1>4
  <2>2. /\ i < ServersPerLeaf => pkt.dst # l * ServersPerLeaf + i
        /\ ~(i < ServersPerLeaf) => Inside(l, pkt.dst)
    BY <1>1, <2>1 DEF InPlace
  <2>3. ASSUME NEW v \in Voqs, v[1] = p
        PROVE  \E j \in LeafPorts : v = <<<<"L", l, i>>, <<"L", l, j>>>>
    <3>1. CASE \E l1 \in Leaves, a, b \in LeafPorts : v = <<<<"L", l1, a>>, <<"L", l1, b>>>>
      <4>1. PICK l1 \in Leaves, a \in LeafPorts, b \in LeafPorts :
               v = <<<<"L", l1, a>>, <<"L", l1, b>>>>
        BY <3>1
      <4>2. <<"L", l1, a>> = <<"L", l, i>>
        BY <2>1, <2>3, <4>1
      <4> QED
        BY <4>1, <4>2
    <3>2. CASE \E s \in Spines, a, b \in SpinePorts : v = <<<<"S", s, a>>, <<"S", s, b>>>>
      <4>1. PICK s \in Spines, a \in SpinePorts, b \in SpinePorts :
               v = <<<<"S", s, a>>, <<"S", s, b>>>>
        BY <3>2
      <4>2. <<"S", s, a>> = <<"L", l, i>>
        BY <2>1, <2>3, <4>1
      <4> QED
        BY <4>2
    <3> QED
      BY <3>1, <3>2, VoqJoinsPorts
  <2>4. CASE Inside(l, pkt.dst)
    <3>1. home = l /\ at \in LeafPorts /\ at < ServersPerLeaf
      BY <1>2, <2>4, Numbers DEF LeafPorts
    <3>5. at # i
      BY <1>2, <2>2, <3>1
    <3> DEFINE u == <<<<"L", l, i>>, <<"L", l, at>>>>
    <3>2. u \in Voqs
      <4>1. <<i, at>> \in LeafPairs
        BY <3>1, <3>5 DEF LeafPairs
      <4> QED
        BY <3>1, <4>1, PairsAreVoqs
    <3>3. Meant(u, pkt)
      BY <1>2, <3>1 DEF Meant
    <3>4. ASSUME NEW v \in Voqs, v[1] = p, Meant(v, pkt) PROVE v = u
      <4>1. PICK j \in LeafPorts : v = <<<<"L", l, i>>, <<"L", l, j>>>>
        BY <2>3, <3>4
      <4>2. pkt.dst = l * ServersPerLeaf + j
        BY <2>4, <3>4, <4>1 DEF Meant
      <4> DEFINE first == l * ServersPerLeaf
      <4>3. first \in Int /\ j \in Int /\ at \in Int
        BY <3>1, Numbers DEF Leaves, LeafPorts
      <4>5. pkt.dst = first + j /\ pkt.dst = first + at
        BY <1>2, <3>1, <4>2
      <4> HIDE DEF first
      <4>4. j = at
        BY <4>3, <4>5
      <4> QED
        BY <4>1, <4>4
    <3> QED
      BY <2>1, <3>2, <3>3, <3>4
  <2>5. CASE ~Inside(l, pkt.dst)
    <3> DEFINE up == ServersPerLeaf + pkt.via
               u == <<<<"L", l, i>>, <<"L", l, up>>>>
    <3>1. /\ i < ServersPerLeaf /\ up \in LeafPorts /\ ~(up < ServersPerLeaf)
          /\ up # i /\ up - ServersPerLeaf = pkt.via
      BY <1>1, <2>2, <2>5, Numbers DEF LeafPorts, Spines
    <3>2. u \in Voqs
      <4>1. <<i, up>> \in LeafPairs
        BY <3>1 DEF LeafPairs
      <4> QED
        BY <3>1, <4>1, PairsAreVoqs
    <3>3. Meant(u, pkt)
      BY <2>5, <3>1 DEF Meant
    <3>4. ASSUME NEW v \in Voqs, v[1] = p, Meant(v, pkt) PROVE v = u
      <4>1. PICK j \in LeafPorts : v = <<<<"L", l, i>>, <<"L", l, j>>>>
        BY <2>3, <3>4
      <4>2. CASE j < ServersPerLeaf
        <5>1. j \in 0 .. ServersPerLeaf - 1
          BY <4>2, Numbers DEF LeafPorts
        <5>2. pkt.dst = l * ServersPerLeaf + j
          BY <3>4, <4>1, <4>2 DEF Meant
        <5>3. Inside(l, pkt.dst)
          BY <5>1, <5>2, ServersOfALeaf
        <5> QED
          BY <2>5, <5>3
      <4>3. CASE ~(j < ServersPerLeaf)
        <5>1. pkt.via = j - ServersPerLeaf
          BY <3>4, <4>1, <4>3 DEF Meant
        <5>2. j = up
          BY <5>1, Numbers DEF LeafPorts
        <5> QED
          BY <4>1, <5>2
      <4> QED
        BY <4>2, <4>3
    <3> QED
      BY <2>1, <3>2, <3>3, <3>4
  <2> QED
    BY <2>4, <2>5
<1> QED
  BY <1>3, <1>4 DEF Ports

(* Counting packets *********************************************************)

\* Where a function assigns one element of B to each of A, and leaves none out,
\* there are as many of both.
LEMMA OneToOne ==
    ASSUME NEW A, IsFiniteSet(A), NEW B, NEW f \in [A -> B],
           \A i, j \in A : f[i] = f[j] => i = j,
           \A j \in B : \E i \in A : f[i] = j
    PROVE  IsFiniteSet(B) /\ Cardinality(B) = Cardinality(A)
<1>1. f \in Bijection(A, B)
  BY DEF Bijection, Injection, IsInjective, Surjection
<1>2. ExistsBijection(A, B)
  BY <1>1 DEF ExistsBijection
<1> QED
  BY <1>2, FS_Bijection

\* The places of the packets in a family of queues.
LEMMA PlacesOf ==
    ASSUME NEW X, IsFiniteSet(X), NEW P, NEW f \in [X -> Seq(P)]
    PROVE  /\ \A z \in Places(f) : /\ z[1] \in X /\ z[2] \in 1 .. Len(f[z[1]])
                                   /\ z = <<z[1], z[2]>>
           /\ \A x \in X : \A i \in 1 .. Len(f[x]) : <<x, i>> \in Places(f)
           /\ IsFiniteSet(Places(f))
<1> DEFINE Of(x) == {x} \X DOMAIN f[x]
           All == {Of(x) : x \in X}
<1>1. \A x \in X : DOMAIN f[x] = 1 .. Len(f[x]) /\ Len(f[x]) \in Nat
  BY LenProperties
<1>2. Places(f) = UNION All
  BY DEF Places
<1>3. \A x \in X : Of(x) = {x} \X (1 .. Len(f[x]))
  BY <1>1
<1>4. ASSUME NEW T \in All PROVE IsFiniteSet(T)
  <2>1. PICK x \in X : T = {x} \X (1 .. Len(f[x]))
    BY <1>3
  <2>2. IsFiniteSet(1 .. Len(f[x])) /\ IsFiniteSet({x})
    <3>1. 1 \in Int /\ Len(f[x]) \in Int
      BY <1>1
    <3> QED
      BY <3>1, FS_Interval, FS_Singleton
  <2> QED
    BY <2>1, <2>2, FS_Product
<1>5. IsFiniteSet(All)
  <2> DEFINE s == [x \in X |-> Of(x)]
  <2>1. s \in [X -> All] /\ \A T \in All : \E x \in X : s[x] = T
    OBVIOUS
  <2> HIDE DEF s, All
  <2>2. s \in Surjection(X, All)
    BY <2>1 DEF Surjection
  <2> QED
    BY <2>2, FS_Surjection
<1>6. IsFiniteSet(Places(f))
  <2> HIDE DEF All
  <2> QED
    BY <1>2, <1>4, <1>5, FS_UNION
<1>7. \A z \in Places(f) : z[1] \in X /\ z[2] \in 1 .. Len(f[z[1]]) /\ z = <<z[1], z[2]>>
  BY <1>2, <1>3
<1>8. ASSUME NEW x \in X, NEW i \in 1 .. Len(f[x]) PROVE <<x, i>> \in Places(f)
  <2>1. <<x, i>> \in Of(x) /\ Of(x) \in All
    BY <1>3
  <2> HIDE DEF Of, All
  <2> QED
    BY <1>2, <2>1
<1> QED
  BY <1>6, <1>7, <1>8

\* The places of those for server d.
PlacesTo(d, f) == {x \in Places(f) : f[x[1]][x[2]].dst = d}

\* S has all of them and nothing else.
ArePlacesTo(X, d, f, S) ==
    /\ \A z \in S : /\ z[1] \in X /\ z[2] \in 1 .. Len(f[z[1]])
                   /\ z = <<z[1], z[2]>> /\ f[z[1]][z[2]].dst = d
    /\ \A x \in X : \A i \in 1 .. Len(f[x]) : f[x][i].dst = d => <<x, i>> \in S

\* There are finitely many of them, and they are what TotalTo counts.
LEMMA PlacesToAre ==
    ASSUME NEW X, IsFiniteSet(X), NEW P, NEW f \in [X -> Seq(P)], NEW d
    PROVE  /\ ArePlacesTo(X, d, f, PlacesTo(d, f))
           /\ IsFiniteSet(PlacesTo(d, f))
           /\ TotalTo(d, f) = Cardinality(PlacesTo(d, f)) /\ TotalTo(d, f) \in Nat
<1>1. IsFiniteSet(PlacesTo(d, f))
  BY PlacesOf, FS_Subset DEF PlacesTo
<1>2. TotalTo(d, f) = Cardinality(PlacesTo(d, f))
  BY DEF TotalTo, PlacesTo
<1>3. TotalTo(d, f) \in Nat
  BY <1>1, <1>2, FS_CardinalityType
<1>4. \A z \in PlacesTo(d, f) : /\ z[1] \in X /\ z[2] \in 1 .. Len(f[z[1]])
                                /\ z = <<z[1], z[2]>> /\ f[z[1]][z[2]].dst = d
  BY PlacesOf DEF PlacesTo
<1>5. ASSUME NEW x \in X, NEW i \in 1 .. Len(f[x]), f[x][i].dst = d
      PROVE  <<x, i>> \in PlacesTo(d, f)
  BY <1>5, PlacesOf DEF PlacesTo
<1> QED
  BY <1>1, <1>2, <1>3, <1>4, <1>5 DEF ArePlacesTo

\* Families of queues of packets P.
Families(X, P) == [X -> Seq(P)]

\* Each queue of f is one of g, and behind it one of h.
Splits(X, P, f, g, h) ==
    /\ f \in Families(X, P) /\ g \in Families(X, P) /\ h \in Families(X, P)
    /\ \A x \in X : f[x] = g[x] \o h[x]

\* Then the packets of both are those of f ...
LEMMA TotalOfParts ==
    ASSUME NEW X, IsFiniteSet(X), NEW P, NEW f \in Families(X, P), NEW g \in Families(X, P),
           NEW h \in Families(X, P), Splits(X, P, f, g, h), NEW d
    PROVE  TotalTo(d, f) = TotalTo(d, g) + TotalTo(d, h)
<1> USE DEF Families
<1>1. \A x \in X : f[x] = g[x] \o h[x]
  BY DEF Splits
<1> DEFINE F == PlacesTo(d, f)
           A == PlacesTo(d, g)
           B == PlacesTo(d, h)
           Past(z) == <<z[1], Len(g[z[1]]) + z[2]>>
           C == {Past(z) : z \in B}
           k == [z \in B |-> Past(z)]
<1>2. \A x \in X : /\ Len(g[x]) \in Nat /\ Len(h[x]) \in Nat
                   /\ Len(f[x]) = Len(g[x]) + Len(h[x])
                   /\ \A i \in 1 .. Len(f[x]) :
                         f[x][i] = IF i <= Len(g[x]) THEN g[x][i] ELSE h[x][i - Len(g[x])]
  <2> TAKE x \in X
  <2>1. g[x] \in Seq(P) /\ h[x] \in Seq(P)
    OBVIOUS
  <2> QED
    BY <1>1, <2>1, ConcatProperties, LenProperties
<1>3. /\ IsFiniteSet(A) /\ IsFiniteSet(B)
      /\ TotalTo(d, f) = Cardinality(F) /\ TotalTo(d, g) = Cardinality(A)
      /\ TotalTo(d, h) = Cardinality(B)
      /\ Cardinality(A) \in Nat /\ Cardinality(B) \in Nat
  BY PlacesToAre
<1>4. ArePlacesTo(X, d, g, A)
  BY PlacesToAre
<1>5. ArePlacesTo(X, d, h, B)
  BY PlacesToAre
<1>6. ArePlacesTo(X, d, f, F)
  BY PlacesToAre
<1> HIDE DEF F, A, B
<1> USE DEF ArePlacesTo
<1>7. F = A \cup C
  <2>1. ASSUME NEW z \in F PROVE z \in A \cup C
    <3> DEFINE x == z[1]
               i == z[2]
    <3>1. x \in X /\ i \in 1 .. Len(f[x]) /\ z = <<x, i>> /\ f[x][i].dst = d
      BY <1>6
    <3> HIDE DEF x, i
    <3>2. CASE i <= Len(g[x])
      <4>1. i \in 1 .. Len(g[x]) /\ g[x][i].dst = d
        BY <1>2, <3>1, <3>2
      <4> QED
        BY <1>4, <3>1, <4>1
    <3>3. CASE ~(i <= Len(g[x]))
      <4> DEFINE j == i - Len(g[x])
      <4>1. j \in 1 .. Len(h[x]) /\ f[x][i] = h[x][j] /\ Len(g[x]) + j = i
        BY <1>2, <3>1, <3>3
      <4> HIDE DEF j
      <4>2. <<x, j>> \in B
        BY <1>5, <3>1, <4>1
      <4>3. Past(<<x, j>>) = z
        BY <3>1, <4>1
      <4> QED
        BY <4>2, <4>3
    <3> QED
      BY <3>2, <3>3
  <2>2. ASSUME NEW z \in A PROVE z \in F
    <3>1. z[1] \in X /\ z[2] \in 1 .. Len(g[z[1]]) /\ z = <<z[1], z[2]>> /\ g[z[1]][z[2]].dst = d
      BY <1>4
    <3>2. z[2] \in 1 .. Len(f[z[1]]) /\ f[z[1]][z[2]] = g[z[1]][z[2]]
      BY <1>2, <3>1
    <3> QED
      BY <1>6, <3>1, <3>2
  <2>3. ASSUME NEW z \in B PROVE Past(z) \in F
    <3> DEFINE x == z[1]
               i == Len(g[x]) + z[2]
    <3>1. x \in X /\ z[2] \in 1 .. Len(h[x]) /\ h[x][z[2]].dst = d
      BY <1>5
    <3>2. i \in 1 .. Len(f[x]) /\ ~(i <= Len(g[x])) /\ i - Len(g[x]) = z[2]
      BY <1>2, <3>1
    <3>3. f[x][i] = h[x][z[2]]
      BY <1>2, <3>1, <3>2
    <3>4. Past(z) = <<x, i>>
      OBVIOUS
    <3> HIDE DEF x, i, Past
    <3> QED
      BY <1>6, <3>1, <3>2, <3>3, <3>4
  <2> QED
    BY <2>1, <2>2, <2>3
<1>8. A \cap C = {}
  <2> SUFFICES ASSUME NEW z \in B, Past(z) \in A PROVE FALSE
    OBVIOUS
  <2>1. z[1] \in X /\ z[2] \in 1 .. Len(h[z[1]]) /\ Len(g[z[1]]) + z[2] \in 1 .. Len(g[z[1]])
    BY <1>4, <1>5
  <2> QED
    BY <1>2, <2>1
<1>9. IsFiniteSet(C) /\ Cardinality(C) = Cardinality(B)
  <2>1. k \in [B -> C] /\ \A c \in C : \E z \in B : k[z] = c
    OBVIOUS
  <2>2. ASSUME NEW y \in B, NEW z \in B, k[y] = k[z] PROVE y = z
    <3>1. y[1] = z[1] /\ Len(g[y[1]]) + y[2] = Len(g[z[1]]) + z[2]
      BY <2>2
    <3>2. /\ y[1] \in X /\ y[2] \in 1 .. Len(h[y[1]]) /\ y = <<y[1], y[2]>>
          /\ z[2] \in 1 .. Len(h[z[1]]) /\ z = <<z[1], z[2]>>
      BY <1>5
    <3>3. y[2] = z[2]
      BY <1>2, <3>1, <3>2
    <3> QED
      BY <3>1, <3>2, <3>3
  <2> HIDE DEF k, C
  <2> QED
    BY <1>3, <2>1, <2>2, OneToOne
<1> HIDE DEF C
<1>10. Cardinality(F) = Cardinality(A) + Cardinality(C)
  <2>1. Cardinality(A \cap C) = 0
    BY <1>8, FS_EmptySet
  <2>2. Cardinality(A \cup C) = Cardinality(A) + Cardinality(C) - Cardinality(A \cap C)
    BY <1>3, <1>9, FS_Union
  <2> QED
    BY <1>3, <1>7, <1>9, <2>1, <2>2
<1> QED
  BY <1>3, <1>9, <1>10

\* ... and f, g and h need not be known to be families of queues otherwise.
LEMMA TotalSplits ==
    ASSUME NEW X, IsFiniteSet(X), NEW P, NEW f, NEW g, NEW h, Splits(X, P, f, g, h), NEW d
    PROVE  TotalTo(d, f) = TotalTo(d, g) + TotalTo(d, h)
<1>1. f \in Families(X, P) /\ g \in Families(X, P) /\ h \in Families(X, P)
  BY DEF Splits
<1> QED
  BY <1>1, TotalOfParts

\* No queue of f holds more than one packet.
Singles(X, P, f) == f \in Families(X, P) /\ \A x \in X : Len(f[x]) <= 1

\* Then the queues can be counted ...
LEMMA CountedQueues ==
    ASSUME NEW X, IsFiniteSet(X), NEW P, NEW f \in Families(X, P), Singles(X, P, f), NEW d
    PROVE  /\ IsFiniteSet({x \in X : f[x] # <<>> /\ f[x][1].dst = d})
           /\ TotalTo(d, f) = Cardinality({x \in X : f[x] # <<>> /\ f[x][1].dst = d})
<1> USE DEF Families
<1>1. \A x \in X : Len(f[x]) <= 1
  BY DEF Singles
<1> DEFINE A == {x \in X : f[x] # <<>> /\ f[x][1].dst = d}
           B == PlacesTo(d, f)
           k == [x \in A |-> <<x, 1>>]
<1>2. IsFiniteSet(A)
  BY FS_Subset
<1>3. \A x \in X : Len(f[x]) \in Nat /\ (f[x] = <<>> <=> Len(f[x]) = 0)
  BY LenProperties, EmptySeq
<1>4. TotalTo(d, f) = Cardinality(B)
  BY PlacesToAre
<1>5. ArePlacesTo(X, d, f, B)
  BY PlacesToAre
<1> HIDE DEF B
<1> USE DEF ArePlacesTo
<1>6. k \in [A -> B]
  <2>1. ASSUME NEW x \in A PROVE <<x, 1>> \in B
    <3>1. x \in X /\ 1 \in 1 .. Len(f[x]) /\ f[x][1].dst = d
      BY <1>3
    <3> QED
      BY <1>5, <3>1
  <2> QED
    BY <2>1
<1>7. \A x, y \in A : k[x] = k[y] => x = y
  OBVIOUS
<1>8. ASSUME NEW z \in B PROVE \E x \in A : k[x] = z
  <2>1. z[1] \in X /\ z[2] \in 1 .. Len(f[z[1]]) /\ z = <<z[1], z[2]>> /\ f[z[1]][z[2]].dst = d
    BY <1>5
  <2>2. Len(f[z[1]]) \in Nat /\ Len(f[z[1]]) <= 1
    BY <1>1, <1>3, <2>1
  <2>3. z[2] = 1 /\ Len(f[z[1]]) # 0
    BY <2>1, <2>2
  <2>4. z[1] \in A
    BY <1>3, <2>1, <2>3
  <2> QED
    BY <2>1, <2>3, <2>4
<1> HIDE DEF A, k
<1>9. Cardinality(B) = Cardinality(A)
  BY <1>2, <1>6, <1>7, <1>8, OneToOne
<1> QED
  BY <1>2, <1>4, <1>9 DEF A

\* ... whatever else is known of f.
LEMMA TotalOfSingles ==
    ASSUME NEW X, IsFiniteSet(X), NEW P, NEW f, Singles(X, P, f), NEW d
    PROVE  /\ IsFiniteSet({x \in X : f[x] # <<>> /\ f[x][1].dst = d})
           /\ TotalTo(d, f) = Cardinality({x \in X : f[x] # <<>> /\ f[x][1].dst = d})
<1>1. f \in Families(X, P)
  BY DEF Singles
<1> QED
  BY <1>1, CountedQueues

(* The queues of the network ************************************************)

\* A VOQ is a pair of ports.
LEMMA VoqEnds ==
    ASSUME NEW v \in Voqs
    PROVE  v \in Ports \X Ports
<1>1. CASE \E l \in Leaves, i, j \in LeafPorts :
              <<i, j>> \in LeafPairs /\ v = <<<<"L", l, i>>, <<"L", l, j>>>>
  <2>1. PICK l \in Leaves, i \in LeafPorts, j \in LeafPorts : v = <<<<"L", l, i>>, <<"L", l, j>>>>
    BY <1>1
  <2>2. <<"L", l, i>> \in Ports /\ <<"L", l, j>> \in Ports
    BY DEF Ports
  <2> QED
    BY <2>1, <2>2
<1>2. CASE \E s \in Spines, i, j \in SpinePorts :
              <<i, j>> \in SpinePairs /\ v = <<<<"S", s, i>>, <<"S", s, j>>>>
  <2>1. PICK s \in Spines, i \in SpinePorts, j \in SpinePorts : v = <<<<"S", s, i>>, <<"S", s, j>>>>
    BY <1>2
  <2>2. <<"S", s, i>> \in Ports /\ <<"S", s, j>> \in Ports
    BY DEF Ports
  <2> QED
    BY <2>1, <2>2
<1> QED
  BY <1>1, <1>2, VoqJoinsPorts

\* There are finitely many of everything.
LEMMA NetworkFinite ==
    IsFiniteSet(Ports) /\ IsFiniteSet(Voqs) /\ IsFiniteSet(Servers)
<1>1. IsFiniteSet(Leaves) /\ IsFiniteSet(Spines) /\ IsFiniteSet(LeafPorts) /\ IsFiniteSet(Servers)
  <2>1. \A n \in Nat : IsFiniteSet(0 .. n - 1)
    BY FS_Interval
  <2>2. ServersPerLeaf + SpineCnt \in Nat /\ LeafCnt \in Nat /\ SpineCnt \in Nat
    BY Numbers
  <2> QED
    BY <2>1, <2>2, Numbers DEF Leaves, Spines, LeafPorts, Servers
<1>2. IsFiniteSet({"L"} \X Leaves \X LeafPorts)
  <2>1. IsFiniteSet({"L"} \X (Leaves \X LeafPorts))
    BY <1>1, FS_Product, FS_Singleton
  <2> DEFINE A == {"L"} \X (Leaves \X LeafPorts)
             B == {"L"} \X Leaves \X LeafPorts
             f == [x \in A |-> <<x[1], x[2][1], x[2][2]>>]
  <2>2. f \in [A -> B] /\ \A y \in B : \E x \in A : f[x] = y
    <3>1. f \in [A -> B]
      OBVIOUS
    <3>2. ASSUME NEW y \in B PROVE \E x \in A : f[x] = y
      <4>1. <<y[1], <<y[2], y[3]>>>> \in A /\ y = <<y[1], y[2], y[3]>>
        OBVIOUS
      <4> QED
        BY <4>1
    <3> QED
      BY <3>1, <3>2
  <2> HIDE DEF A, B, f
  <2>3. f \in Surjection(A, B)
    BY <2>2 DEF Surjection
  <2> QED
    BY <2>1, <2>3, FS_Surjection DEF A, B
<1>3. IsFiniteSet({"S"} \X Spines \X SpinePorts)
  <2>1. IsFiniteSet({"S"} \X (Spines \X SpinePorts))
    BY <1>1, FS_Product, FS_Singleton DEF SpinePorts
  <2> DEFINE A == {"S"} \X (Spines \X SpinePorts)
             B == {"S"} \X Spines \X SpinePorts
             f == [x \in A |-> <<x[1], x[2][1], x[2][2]>>]
  <2>2. f \in [A -> B] /\ \A y \in B : \E x \in A : f[x] = y
    <3>1. f \in [A -> B]
      OBVIOUS
    <3>2. ASSUME NEW y \in B PROVE \E x \in A : f[x] = y
      <4>1. <<y[1], <<y[2], y[3]>>>> \in A /\ y = <<y[1], y[2], y[3]>>
        OBVIOUS
      <4> QED
        BY <4>1
    <3> QED
      BY <3>1, <3>2
  <2> HIDE DEF A, B, f
  <2>3. f \in Surjection(A, B)
    BY <2>2 DEF Surjection
  <2> QED
    BY <2>1, <2>3, FS_Surjection DEF A, B
<1>4. IsFiniteSet(Ports)
  BY <1>2, <1>3, FS_Union DEF Ports
<1>5. IsFiniteSet(Voqs)
  <2>1. IsFiniteSet(Ports \X Ports)
    BY <1>4, FS_Product
  <2>2. Voqs \in SUBSET (Ports \X Ports)
    BY VoqEnds
  <2> QED
    BY <2>1, <2>2, FS_Subset
<1> QED
  BY <1>1, <1>4, <1>5

\* Each port but a server's is the peer of one other such port.
LEMMA PeersPairUp ==
    ASSUME NEW p \in Ports, ~IsServerPort(p)
    PROVE  Peer(p) \in Ports /\ ~IsServerPort(Peer(p)) /\ Peer(Peer(p)) = p
<1>1. CASE p[1] = "L"
  <2>1. PICK l \in Leaves, i \in LeafPorts : p = <<"L", l, i>>
    BY <1>1 DEF Ports
  <2>2. i - ServersPerLeaf \in Spines /\ ServersPerLeaf + (i - ServersPerLeaf) = i
    BY <2>1, Numbers DEF IsServerPort, LeafPorts, Spines
  <2>3. Peer(p) = <<"S", i - ServersPerLeaf, l>>
    BY <2>1 DEF Peer
  <2> QED
    BY <2>1, <2>2, <2>3 DEF Peer, Ports, SpinePorts, IsServerPort
<1>2. CASE p[1] # "L"
  <2>1. PICK s \in Spines, i \in Leaves : p = <<"S", s, i>>
    BY <1>2 DEF Ports, SpinePorts
  <2>2. /\ ServersPerLeaf + s \in LeafPorts /\ ~(ServersPerLeaf + s < ServersPerLeaf)
        /\ (ServersPerLeaf + s) - ServersPerLeaf = s
    BY Numbers DEF LeafPorts, Spines
  <2>3. Peer(p) = <<"L", i, ServersPerLeaf + s>>
    BY <2>1 DEF Peer
  <2> QED
    BY <2>1, <2>2, <2>3 DEF Peer, Ports, IsServerPort
<1> QED
  BY <1>1, <1>2

\* Each server has a port of its own, and there are no other server ports.
LEMMA PortsOfServers ==
    /\ \A d \in Servers : ServerPort(d) \in Ports /\ IsServerPort(ServerPort(d))
    /\ \A p \in Ports : IsServerPort(p) =>
          /\ p[2] * ServersPerLeaf + p[3] \in Servers
          /\ ServerPort(p[2] * ServersPerLeaf + p[3]) = p
    /\ \A d \in Servers : ServerPort(d)[2] * ServersPerLeaf + ServerPort(d)[3] = d
    /\ \A d, e \in Servers : ServerPort(d) = ServerPort(e) => d = e
<1>1. ASSUME NEW d \in Servers
      PROVE  /\ ServerPort(d) \in Ports /\ IsServerPort(ServerPort(d))
             /\ ServerPort(d)[2] * ServersPerLeaf + ServerPort(d)[3] = d
  <2> DEFINE l == d \div ServersPerLeaf
             j == d % ServersPerLeaf
  <2>1. l \in Leaves /\ j \in 0 .. ServersPerLeaf - 1 /\ l * ServersPerLeaf + j = d
    BY ServerIsAtALeaf
  <2>2. ServerPort(d) = <<"L", l, j>>
    BY DEF ServerPort
  <2> HIDE DEF l, j
  <2>3. j \in LeafPorts /\ j < ServersPerLeaf
    BY <2>1, Numbers DEF LeafPorts
  <2> QED
    BY <2>1, <2>2, <2>3 DEF Ports, IsServerPort
<1>2. ASSUME NEW p \in Ports, IsServerPort(p)
      PROVE  /\ p[2] * ServersPerLeaf + p[3] \in Servers
             /\ ServerPort(p[2] * ServersPerLeaf + p[3]) = p
  <2>1. PICK l \in Leaves, j \in LeafPorts : p = <<"L", l, j>> /\ j < ServersPerLeaf
    BY <1>2 DEF Ports, IsServerPort
  <2>2. j \in 0 .. ServersPerLeaf - 1
    BY <2>1, Numbers DEF LeafPorts
  <2> QED
    BY <2>1, <2>2, ServersOfALeaf DEF ServerPort
<1>3. ASSUME NEW d \in Servers, NEW e \in Servers, ServerPort(d) = ServerPort(e) PROVE d = e
  <2>1. d = ServerPort(d)[2] * ServersPerLeaf + ServerPort(d)[3]
    BY <1>1
  <2>2. e = ServerPort(e)[2] * ServersPerLeaf + ServerPort(e)[3]
    BY <1>1
  <2> QED
    BY <1>3, <2>1, <2>2
<1> QED
  BY <1>1, <1>2, <1>3

\* A link carries the head of the VOQ that is matched with it.
LEMMA OnLinkOf ==
    ASSUME NEW m \in Matchings, NEW p
    PROVE  /\ \A v \in m : v[2] = p => OnLink(m, p) = <<Head(voq[v])>>
           /\ (\A v \in m : v[2] # p) => OnLink(m, p) = <<>>
<1>1. \A u, v \in m : SharePort(u, v) => u = v
  BY DEF Matchings, MaximalMatching
<1> DEFINE H == {Head(voq[v]) : v \in {x \in m : x[2] = p}}
<1>2. OnLink(m, p) = SetToSeq(H)
  BY DEF OnLink
<1>3. ASSUME \A v \in m : v[2] # p PROVE H = {}
  BY <1>3
<1>4. ASSUME NEW v \in m, v[2] = p PROVE H = {Head(voq[v])}
  <2>1. \A u \in m : u[2] = p => u = v
    BY <1>1, <1>4 DEF SharePort
  <2>2. {x \in m : x[2] = p} = {v}
    BY <1>4, <2>1
  <2> QED
    BY <2>2
<1> HIDE DEF H
<1> QED
  BY <1>2, <1>3, <1>4, SetToSeqOfOne

\* A queue with room keeps all it gets, a full one keeps what it had.
LEMMA KeepOf ==
    ASSUME NEW P, NEW s \in Seq(P), NEW t \in Seq(P), NEW n \in Nat, Len(s) <= n
    PROVE  /\ Len(Keep(n, s \o t)) <= n
           /\ Len(s) <= Len(Keep(n, s \o t))
           /\ Keep(n, s \o t) \in Seq(P)
           /\ \A i \in 1 .. Len(s) : Keep(n, s \o t)[i] = s[i]
           /\ Len(s) + Len(t) <= n => Keep(n, s \o t) = s \o t
           /\ Len(s) = n => Keep(n, s \o t) = s
<1> DEFINE u == s \o t
           k == IF Len(u) < n THEN Len(u) ELSE n
<1>1. /\ Len(s) \in Nat /\ Len(t) \in Nat /\ u \in Seq(P) /\ Len(u) = Len(s) + Len(t)
      /\ \A i \in 1 .. Len(s) : u[i] = s[i]
  <2>1. Len(s) \in Nat /\ Len(t) \in Nat
    BY LenProperties
  <2> QED
    BY <2>1, ConcatProperties
<1>2. k \in Nat /\ k <= Len(u) /\ k <= n /\ Len(s) <= k
  BY <1>1
<1>3. Keep(n, u) = SubSeq(u, 1, k)
  BY DEF Keep
<1>4. (Len(s) + Len(t) <= n => k = Len(u)) /\ (Len(s) = n => k = Len(s))
  BY <1>1
<1> HIDE DEF u, k
<1>5. Len(Keep(n, u)) = k /\ \A i \in 1 .. k : Keep(n, u)[i] = u[i]
  BY <1>1, <1>2, <1>3, SubSeqProperties
<1>6. Keep(n, u) \in Seq(P)
  BY <1>1, KeepKeeps
<1>7. \A i \in 1 .. Len(s) : Keep(n, u)[i] = s[i]
  BY <1>1, <1>2, <1>5
<1>8. ASSUME Len(s) + Len(t) <= n PROVE Keep(n, u) = u
  <2>1. k = Len(u)
    BY <1>4, <1>8
  <2> QED
    BY <1>1, <1>5, <1>6, <2>1, SeqEqual
<1>9. ASSUME Len(s) = n PROVE Keep(n, u) = s
  <2>1. k = Len(s)
    BY <1>4, <1>9
  <2> QED
    BY <1>5, <1>6, <1>7, <2>1, SeqEqual
<1> QED
  BY <1>2, <1>5, <1>6, <1>7, <1>8, <1>9 DEF u

\* What follows a beginning of a sequence.
LEMMA BeginningAndRest ==
    ASSUME NEW P, NEW s \in Seq(P), NEW u \in Seq(P), Len(s) <= Len(u),
           \A i \in 1 .. Len(s) : u[i] = s[i]
    PROVE  /\ SubSeq(u, Len(s) + 1, Len(u)) \in Seq(P)
           /\ u = s \o SubSeq(u, Len(s) + 1, Len(u))
<1> DEFINE m == Len(s)
           n == Len(u)
           t == SubSeq(u, m + 1, n)
<1>1. m \in Nat /\ n \in Nat /\ m <= n /\ \A i \in 1 .. n : u[i] \in P
  BY LenProperties, ElementOfSeq
<1>2. t \in Seq(P) /\ Len(t) = n - m /\ \A i \in 1 .. n - m : t[i] = u[m + i]
  <2>1. t = [i \in 1 .. n - m |-> u[m + i]]
    BY <1>1, SubSeqProperties
  <2> QED
    BY <1>1, <2>1
<1> HIDE DEF m, n, t
<1>3. /\ s \o t \in Seq(P) /\ Len(s \o t) = n
      /\ \A i \in 1 .. n : (s \o t)[i] = u[i]
  BY <1>1, <1>2, ConcatProperties DEF m
<1>4. u = s \o t
  BY <1>3, SeqEqual DEF n
<1> QED
  BY <1>2, <1>4 DEF m, n, t

(* Packets that move ********************************************************)

\* The ports with a packet for server d at the head of their queue, and what a
\* queue shows at its head.
HeadsFor(d, q) == {p \in Ports : q[p] # <<>> /\ q[p][1].dst = d}
First(s) == IF s = <<>> THEN <<>> ELSE <<Head(s)>>

\* The packets that the crossbars take out of the VOQs.
Taken(m) == [v \in Voqs |-> IF v \in m THEN <<Head(voq[v])>> ELSE <<>>]

\* A queue is its head and the rest.
LEMMA FirstAndRest ==
    ASSUME NEW P, NEW s \in Seq(P)
    PROVE  /\ First(s) \in Seq(P) /\ Rest(s) \in Seq(P)
           /\ s = First(s) \o Rest(s)
           /\ Len(First(s)) <= 1
           /\ First(s) = <<>> <=> s = <<>>
           /\ s # <<>> => First(s)[1] = s[1] /\ s[1] \in P
<1>1. CASE s = <<>>
  <2>1. <<>> \o <<>> = <<>> /\ <<>> \in Seq(P) /\ Len(<<>>) = 0
    BY EmptySeq, ConcatEmptySeq
  <2> QED
    BY <1>1, <2>1 DEF First, Rest
<1>2. CASE s # <<>>
  <2>1. Head(s) \in P /\ Tail(s) \in Seq(P) /\ s = <<Head(s)>> \o Tail(s) /\ Head(s) = s[1]
    <3>1. Len(s) \in Nat /\ Len(s) # 0
      BY <1>2, LenProperties, EmptySeq
    <3>2. Head(s) = s[1] /\ s[1] \in P
      BY <3>1, ElementOfSeq, HeadTailProperties
    <3>3. /\ Tail(s) \in Seq(P) /\ Len(Tail(s)) = Len(s) - 1
          /\ \A i \in 1 .. Len(Tail(s)) : Tail(s)[i] = s[i + 1]
      BY <1>2, HeadTailProperties
    <3>4. <<Head(s)>> \in Seq(P) /\ Len(<<Head(s)>>) = 1 /\ <<Head(s)>>[1] = s[1]
      BY <3>2
    <3> DEFINE h == <<Head(s)>>
               t == Tail(s)
    <3> HIDE DEF h, t
    <3>5. /\ h \o t \in Seq(P) /\ Len(h \o t) = 1 + (Len(s) - 1)
          /\ \A i \in 1 .. Len(h) + Len(t) : (h \o t)[i] = IF i <= Len(h) THEN h[i] ELSE t[i - Len(h)]
      BY <3>3, <3>4, ConcatProperties DEF h, t
    <3>6. s = h \o t
      <4>1. \A i \in 1 .. Len(s) : (h \o t)[i] = s[i]
        BY <3>1, <3>3, <3>4, <3>5 DEF h, t
      <4> QED
        BY <3>1, <3>5, <4>1, SeqEqual
    <3> QED
      BY <3>2, <3>3, <3>6 DEF h, t
  <2> QED
    BY <1>2, <2>1 DEF First, Rest
<1> QED
  BY <1>1, <1>2

\* Each packet at the head of a port's queue is given to one VOQ.
LEMMA HeadsAreGiven ==
    ASSUME ReduceQueues, NEW d, NEW q, \A p \in Ports : q[p] \in Seq(AtPort(p))
    PROVE  /\ \A v \in Voqs : /\ Enqueued(v, q[v[1]]) \in Seq(AllPackets)
                             /\ Len(Enqueued(v, q[v[1]])) <= 1
           /\ IsFiniteSet(HeadsFor(d, q))
           /\ TotalTo(d, [v \in Voqs |-> Enqueued(v, q[v[1]])]) = Cardinality(HeadsFor(d, q))
<1> DEFINE given == [v \in Voqs |-> Enqueued(v, q[v[1]])]
           G == {v \in Voqs : given[v] # <<>> /\ given[v][1].dst = d}
           B == HeadsFor(d, q)
           f == [v \in G |-> v[1]]
<1>1. ASSUME NEW p \in Ports
      PROVE  /\ q[p] \in Seq(AllPackets)
             /\ q[p] # <<>> => q[p][1] \in AtPort(p) /\ q[p][1] \in AllPackets /\ q[p][1].val
  <2>1. AtPort(p) \subseteq AllPackets /\ \A x \in AtPort(p) : x.val
    BY DEF AtPort, InPlace
  <2>2. q[p] \in Seq(AllPackets)
    BY <2>1, SeqMonotonic
  <2>3. q[p] # <<>> => q[p][1] \in AtPort(p)
    BY EmptySeq, ElementOfSeq
  <2> QED
    BY <2>1, <2>2, <2>3
<1>2. ASSUME NEW v \in Voqs
      PROVE  /\ v[1] \in Ports
             /\ given[v] = IF q[v[1]] # <<>> /\ Meant(v, q[v[1]][1]) THEN <<q[v[1]][1]>> ELSE <<>>
             /\ given[v] \in Seq(AllPackets) /\ Len(given[v]) <= 1
  <2>1. v[1] \in Ports
    BY VoqIsOfPorts
  <2>2. given[v] = IF q[v[1]] # <<>> /\ Meant(v, q[v[1]][1]) THEN <<q[v[1]][1]>> ELSE <<>>
    BY <1>1, <2>1, EnqueuedIs
  <2> HIDE DEF given
  <2>3. given[v] \in Seq(AllPackets) /\ Len(given[v]) <= 1
    <3> DEFINE e == q[v[1]][1]
    <3>1. CASE q[v[1]] # <<>> /\ Meant(v, e)
      <4>1. e \in AllPackets /\ given[v] = <<e>>
        BY <1>1, <2>1, <2>2, <3>1
      <4> HIDE DEF e
      <4> QED
        BY <4>1
    <3>2. CASE ~(q[v[1]] # <<>> /\ Meant(v, e))
      <4>1. given[v] = <<>>
        BY <2>2, <3>2
      <4> QED
        BY <4>1, EmptySeq
    <3> QED
      BY <3>1, <3>2
  <2> QED
    BY <2>1, <2>2, <2>3
<1> HIDE DEF given
<1>3. given \in [Voqs -> Seq(AllPackets)]
  BY <1>2 DEF given
<1>4. IsFiniteSet(G) /\ TotalTo(d, given) = Cardinality(G)
  <2>1. \A v \in Voqs : Len(given[v]) <= 1
    BY <1>2
  <2>2. Singles(Voqs, AllPackets, given)
    BY <1>3, <2>1 DEF Singles, Families
  <2> QED
    BY <2>2, NetworkFinite, TotalOfSingles
<1>5. f \in [G -> B]
  <2>1. ASSUME NEW v \in G PROVE v[1] \in B
    <3>1. v \in Voqs /\ given[v] # <<>> /\ given[v][1].dst = d
      OBVIOUS
    <3>2. q[v[1]] # <<>> /\ given[v] = <<q[v[1]][1]>>
      BY <1>2, <3>1
    <3>3. given[v][1] = q[v[1]][1]
      BY <3>2
    <3> QED
      BY <1>2, <3>1, <3>2, <3>3 DEF HeadsFor
  <2> QED
    BY <2>1
<1>6. ASSUME NEW u \in G, NEW v \in G, f[u] = f[v] PROVE u = v
  <2>1. u \in Voqs /\ v \in Voqs /\ u[1] = v[1] /\ given[u] # <<>> /\ given[v] # <<>>
    BY <1>6
  <2> DEFINE p == u[1]
  <2>2. p \in Ports /\ q[p] # <<>> /\ Meant(u, q[p][1]) /\ Meant(v, q[p][1])
    BY <1>2, <2>1
  <2>3. q[p][1] \in AtPort(p)
    BY <1>1, <2>2
  <2> HIDE DEF p
  <2>4. \E w \in Voqs : \A x \in Voqs : x[1] = p /\ Meant(x, q[p][1]) => x = w
    BY <2>2, <2>3, MeantForOne
  <2> QED
    BY <2>1, <2>2, <2>4 DEF p
<1>7. ASSUME NEW p \in B PROVE \E v \in G : f[v] = p
  <2>1. p \in Ports /\ q[p] # <<>> /\ q[p][1].dst = d
    BY DEF HeadsFor
  <2>2. q[p][1] \in AtPort(p)
    BY <1>1, <2>1
  <2>3. PICK v \in Voqs : v[1] = p /\ Meant(v, q[p][1])
    BY <2>1, <2>2, MeantForOne
  <2>4. given[v] = <<q[p][1]>>
    BY <1>2, <2>1, <2>3
  <2>5. v \in G
    <3>1. given[v][1] = q[p][1] /\ given[v] # <<>>
      BY <2>4
    <3> QED
      BY <2>1, <3>1
  <2> QED
    BY <2>3, <2>5
<1> HIDE DEF G, B, f
<1>8. IsFiniteSet(B) /\ Cardinality(B) = Cardinality(G)
  BY <1>4, <1>5, <1>6, <1>7, OneToOne
<1> QED
  BY <1>2, <1>4, <1>8 DEF given, B

\* Those at the servers' ports are the first packets of the servers' queues.
LEMMA HeadsOfServers ==
    ASSUME NEW d, NEW q, \A p \in Ports : q[p] \in Seq(AllPackets)
    PROVE  /\ TotalTo(d, [s \in Servers |-> First(q[ServerPort(s)])])
                 = Cardinality({p \in HeadsFor(d, q) : IsServerPort(p)})
<1> DEFINE first == [s \in Servers |-> First(q[ServerPort(s)])]
           A == {s \in Servers : first[s] # <<>> /\ first[s][1].dst = d}
           B == {p \in HeadsFor(d, q) : IsServerPort(p)}
           f == [s \in A |-> ServerPort(s)]
<1>1. ASSUME NEW s \in Servers
      PROVE  /\ ServerPort(s) \in Ports
             /\ first[s] = First(q[ServerPort(s)])
             /\ first[s] \in Seq(AllPackets) /\ Len(first[s]) <= 1
             /\ first[s] = <<>> <=> q[ServerPort(s)] = <<>>
             /\ q[ServerPort(s)] # <<>> => first[s][1] = q[ServerPort(s)][1]
  BY PortsOfServers, FirstAndRest
<1> HIDE DEF first
<1>2. first \in [Servers -> Seq(AllPackets)]
  BY <1>1 DEF first
<1>3. IsFiniteSet(A) /\ TotalTo(d, first) = Cardinality(A)
  <2>1. Singles(Servers, AllPackets, first)
    BY <1>1, <1>2 DEF Singles, Families
  <2> QED
    BY <2>1, NetworkFinite, TotalOfSingles
<1>4. f \in [A -> B]
  <2>1. ASSUME NEW s \in A PROVE ServerPort(s) \in B
    BY <1>1, PortsOfServers DEF HeadsFor
  <2> QED
    BY <2>1
<1>5. \A s, t \in A : f[s] = f[t] => s = t
  BY PortsOfServers
<1>6. ASSUME NEW p \in B PROVE \E s \in A : f[s] = p
  <2>1. p \in Ports /\ q[p] # <<>> /\ q[p][1].dst = d /\ IsServerPort(p)
    BY DEF HeadsFor
  <2>2. PICK s \in Servers : ServerPort(s) = p
    BY <2>1, PortsOfServers
  <2>3. s \in A
    BY <1>1, <2>1, <2>2
  <2> QED
    BY <2>2, <2>3
<1> HIDE DEF A, B, f
<1>7. Cardinality(B) = Cardinality(A)
  BY <1>3, <1>4, <1>5, <1>6, OneToOne
<1> QED
  BY <1>3, <1>7 DEF first, B

\* Those at the other ports, and those on the link to server d, are the packets
\* that the crossbars took out of the VOQs.
LEMMA HeadsOfLinks ==
    ASSUME IInv, NEW m \in Matchings, NEW d \in Servers, NEW q,
           \A p \in Ports : ~IsServerPort(p) => q[p] = OnLink(m, Peer(p))
    PROVE  /\ Len(OnLink(m, ServerPort(d))) \in Nat
           /\ Taken(m) \in [Voqs -> Seq(AllPackets)]
           /\ TotalTo(d, Taken(m)) = Len(OnLink(m, ServerPort(d)))
                 + Cardinality({p \in HeadsFor(d, q) : ~IsServerPort(p)})
<1> DEFINE taken == Taken(m)
           H == {v \in Voqs : taken[v] # <<>> /\ taken[v][1].dst = d}
           HD == {v \in H : IsServerPort(v[2])}
           HN == {v \in H : ~IsServerPort(v[2])}
           B == {p \in HeadsFor(d, q) : ~IsServerPort(p)}
           f == [v \in HN |-> Peer(v[2])]
<1>1. \A v \in m : v \in Voqs /\ voq[v] # <<>>
  BY DEF Matchings
<1>2. \A u, v \in m : SharePort(u, v) => u = v
  BY DEF Matchings, MaximalMatching
<1>3. ASSUME NEW v \in m PROVE Head(voq[v]) \in InVoq(v) /\ Head(voq[v]) \in AllPackets
  <2>1. voq[v] \in Seq(InVoq(v)) /\ voq[v] # <<>>
    BY <1>1 DEF IInv
  <2> QED
    BY <2>1, HeadTailProperties DEF InVoq
<1>4. ASSUME NEW v \in Voqs
      PROVE  /\ taken[v] = IF v \in m THEN <<Head(voq[v])>> ELSE <<>>
             /\ taken[v] \in Seq(AllPackets) /\ Len(taken[v]) <= 1
  <2>1. taken[v] = IF v \in m THEN <<Head(voq[v])>> ELSE <<>>
    BY DEF Taken
  <2>2. CASE v \in m
    BY <1>3, <2>1, <2>2
  <2>3. CASE v \notin m
    BY <2>1, <2>3, EmptySeq
  <2> QED
    BY <2>1, <2>2, <2>3
<1>5. taken \in [Voqs -> Seq(AllPackets)]
  BY <1>4 DEF Taken
<1>6. H = {v \in m : Head(voq[v]).dst = d}
  <2> HIDE DEF taken
  <2>1. ASSUME NEW v \in m PROVE taken[v] # <<>> /\ taken[v][1] = Head(voq[v])
    <3>1. taken[v] = <<Head(voq[v])>>
      BY <1>1, <1>4
    <3> QED
      BY <3>1
  <2>2. \A v \in Voqs : v \notin m => taken[v] = <<>>
    BY <1>4
  <2> QED
    BY <1>1, <2>1, <2>2
<1>7. IsFiniteSet(H) /\ TotalTo(d, taken) = Cardinality(H)
  <2> HIDE DEF taken
  <2>1. \A v \in Voqs : Len(taken[v]) <= 1
    BY <1>4
  <2>2. Singles(Voqs, AllPackets, taken)
    BY <1>5, <2>1 DEF Singles, Families
  <2> QED
    BY <2>2, NetworkFinite, TotalOfSingles
<1> HIDE DEF taken, H
<1>8. HD = {v \in m : v[2] = ServerPort(d)}
  <2>1. ASSUME NEW v \in HD PROVE v[2] = ServerPort(d)
    <3>1. v \in m /\ v \in Voqs /\ v[2] \in Ports /\ IsServerPort(v[2]) /\ Head(voq[v]).dst = d
      BY <1>1, <1>6, VoqEnds
    <3>2. PICK s \in Servers : v[2] = ServerPort(s)
      BY <3>1, PortsOfServers
    <3>3. Head(voq[v]) \in AtServer(s)
      BY <1>3, <3>1, <3>2, LinkIsInPlace
    <3> QED
      BY <3>1, <3>2, <3>3 DEF AtServer
  <2>2. ASSUME NEW v \in m, v[2] = ServerPort(d) PROVE v \in HD
    <3>1. Head(voq[v]) \in AtServer(d)
      BY <1>1, <1>3, <2>2, LinkIsInPlace
    <3> QED
      BY <1>6, <2>2, <3>1, PortsOfServers DEF AtServer
  <2> QED
    BY <1>6, <2>1, <2>2
<1>9. Cardinality(HD) = Len(OnLink(m, ServerPort(d))) /\ Cardinality(HD) \in {0, 1}
  <2> HIDE DEF HD
  <2>1. CASE \E v \in m : v[2] = ServerPort(d)
    <3>1. PICK v \in m : v[2] = ServerPort(d)
      BY <2>1
    <3>2. HD = {v}
      BY <1>2, <1>8, <3>1 DEF SharePort
    <3>3. OnLink(m, ServerPort(d)) = <<Head(voq[v])>>
      BY <3>1, OnLinkOf
    <3> QED
      BY <3>2, <3>3, FS_Singleton
  <2>2. CASE \A v \in m : v[2] # ServerPort(d)
    <3>1. HD = {}
      BY <1>8, <2>2
    <3>2. OnLink(m, ServerPort(d)) = <<>>
      BY <2>2, OnLinkOf
    <3> QED
      BY <3>1, <3>2, FS_EmptySet
  <2> QED
    BY <2>1, <2>2
<1>10. ASSUME NEW v \in HN
       PROVE  /\ v \in m /\ Peer(v[2]) \in Ports /\ ~IsServerPort(Peer(v[2]))
              /\ Peer(Peer(v[2])) = v[2] /\ Head(voq[v]).dst = d
              /\ q[Peer(v[2])] = <<Head(voq[v])>>
  <2>1. v \in m /\ v[2] \in Ports /\ ~IsServerPort(v[2]) /\ Head(voq[v]).dst = d
    BY <1>1, <1>6, VoqEnds
  <2>2. Peer(v[2]) \in Ports /\ ~IsServerPort(Peer(v[2])) /\ Peer(Peer(v[2])) = v[2]
    BY <2>1, PeersPairUp
  <2>3. OnLink(m, v[2]) = <<Head(voq[v])>>
    BY <2>1, OnLinkOf
  <2> QED
    BY <2>1, <2>2, <2>3
<1>11. f \in [HN -> B]
  <2>1. ASSUME NEW v \in HN PROVE Peer(v[2]) \in B
    BY <1>10 DEF HeadsFor
  <2> QED
    BY <2>1
<1>12. ASSUME NEW u \in HN, NEW v \in HN, f[u] = f[v] PROVE u = v
  <2>1. u[2] = v[2] /\ u \in m /\ v \in m
    BY <1>10, <1>12
  <2> QED
    BY <1>2, <2>1 DEF SharePort
<1>13. ASSUME NEW p \in B PROVE \E v \in HN : f[v] = p
  <2>1. p \in Ports /\ ~IsServerPort(p) /\ q[p] # <<>> /\ q[p][1].dst = d
    BY DEF HeadsFor
  <2>2. OnLink(m, Peer(p)) # <<>> /\ q[p] = OnLink(m, Peer(p))
    BY <2>1
  <2>3. PICK v \in m : v[2] = Peer(p) /\ OnLink(m, Peer(p)) = <<Head(voq[v])>>
    BY <2>2, OnLinkIs
  <2>4. Peer(p) \in Ports /\ ~IsServerPort(Peer(p)) /\ Peer(Peer(p)) = p
    BY <2>1, PeersPairUp
  <2>5. v \in HN
    BY <1>6, <2>1, <2>2, <2>3, <2>4
  <2> QED
    BY <2>3, <2>4, <2>5
<1>14. IsFiniteSet(HD) /\ IsFiniteSet(HN)
  BY <1>7, FS_Subset
<1>15. Cardinality(H) = Cardinality(HD) + Cardinality(HN)
  <2>1. H = HD \cup HN /\ HD \cap HN = {}
    OBVIOUS
  <2> HIDE DEF HD, HN
  <2>2. Cardinality(HD \cap HN) = 0
    BY <2>1, FS_EmptySet
  <2>3. Cardinality(HD \cup HN) = Cardinality(HD) + Cardinality(HN) - Cardinality(HD \cap HN)
    BY <1>14, FS_Union
  <2>4. Cardinality(HD) \in Nat /\ Cardinality(HN) \in Nat
    BY <1>14, FS_CardinalityType
  <2> QED
    BY <2>1, <2>2, <2>3, <2>4
<1> HIDE DEF HD, HN, B, f
<1>16. Cardinality(B) = Cardinality(HN)
  BY <1>11, <1>12, <1>13, <1>14, OneToOne
<1> QED
  BY <1>5, <1>7, <1>9, <1>15, <1>16 DEF taken, B

(* Packets are conserved ****************************************************)

\* No queue holds more than it has room for.
Bounded ==
    /\ \A v \in Voqs : Len(voq[v]) <= VoqSize
    /\ \A s \in Servers : Len(inq[ServerPort(s)]) <= QueueSize

\* A served VOQ is what was taken from it, then what is left.
LEMMA TakenAndLeft ==
    ASSUME IInv, Bounded, NEW m \in Matchings
    PROVE  /\ Taken(m) \in [Voqs -> Seq(AllPackets)]
           /\ Served(m) \in [Voqs -> Seq(AllPackets)]
           /\ \A v \in Voqs : /\ voq[v] = Taken(m)[v] \o Served(m)[v]
                              /\ Len(Served(m)[v]) <= VoqSize
<1>1. ASSUME NEW v \in Voqs
      PROVE  /\ Taken(m)[v] \in Seq(AllPackets) /\ Served(m)[v] \in Seq(AllPackets)
             /\ voq[v] = Taken(m)[v] \o Served(m)[v]
             /\ Len(Served(m)[v]) <= VoqSize
  <2>1. voq[v] \in Seq(AllPackets) /\ Len(voq[v]) <= VoqSize
    BY DEF IInv, Bounded
  <2>2. CASE v \in m
    <3>1. voq[v] # <<>>
      BY <2>2 DEF Matchings
    <3>2. Taken(m)[v] = First(voq[v]) /\ Served(m)[v] = Rest(voq[v])
      BY <2>2, <3>1 DEF Taken, Served, First, Rest
    <3>3. Len(Tail(voq[v])) = Len(voq[v]) - 1 /\ Len(voq[v]) \in Nat
      BY <2>1, <3>1, HeadTailProperties, LenProperties
    <3>4. Len(Served(m)[v]) <= VoqSize
      BY <2>1, <3>1, <3>2, <3>3, Numbers DEF Rest
    <3>5. /\ First(voq[v]) \in Seq(AllPackets) /\ Rest(voq[v]) \in Seq(AllPackets)
          /\ voq[v] = First(voq[v]) \o Rest(voq[v])
      BY <2>1, FirstAndRest
    <3> QED
      BY <3>2, <3>4, <3>5
  <2>3. CASE v \notin m
    <3>1. Taken(m)[v] = <<>> /\ Served(m)[v] = voq[v]
      BY <2>3 DEF Taken, Served
    <3> QED
      BY <2>1, <3>1, EmptySeq, ConcatEmptySeq
  <2> QED
    BY <2>2, <2>3
<1>2. Taken(m) \in [Voqs -> Seq(AllPackets)]
  BY <1>1 DEF Taken
<1>3. Served(m) \in [Voqs -> Seq(AllPackets)]
  BY <1>1 DEF Served
<1> QED
  BY <1>1, <1>2, <1>3

\* What a queue that gets at most one packet drops is that packet, when it is full.
LEMMA KeptAndDropped ==
    ASSUME NEW P, NEW s \in Seq(P), NEW t \in Seq(P), NEW n \in Nat, Len(s) <= n, Len(t) <= 1
    PROVE  s \o t = Keep(n, s \o t) \o (IF Len(s) = n THEN t ELSE <<>>)
<1>1. Len(s) \in Nat /\ Len(t) \in Nat /\ s \o t \in Seq(P)
  BY LenProperties, ConcatProperties
<1>2. CASE Len(s) = n
  BY <1>2, KeepOf
<1>3. CASE Len(s) # n
  <2>1. Len(s) + Len(t) <= n
    BY <1>1, <1>3
  <2>2. Keep(n, s \o t) = s \o t
    BY <2>1, KeepOf
  <2> QED
    BY <1>1, <1>3, <2>2, ConcatEmptySeq
<1> QED
  BY <1>2, <1>3

\* The packets in the VOQs after a step.
LEMMA VoqBalance ==
    ASSUME ReduceQueues, IInv, IInv', Bounded, NEW m \in Matchings, NEW arr, Step(m, arr),
           NEW d \in Servers
    PROVE  /\ TotalTo(d, voq) \in Nat /\ TotalTo(d, voq') \in Nat
           /\ DroppedTo(d, Served(m)) \in Nat
           /\ TotalTo(d, Taken(m)) \in Nat
           /\ TotalTo(d, voq') = TotalTo(d, voq) - TotalTo(d, Taken(m))
                + Cardinality(HeadsFor(d, inq')) - DroppedTo(d, Served(m))
           /\ \A v \in Voqs : Len(voq'[v]) <= VoqSize
<1> DEFINE left == Served(m)
           given == [v \in Voqs |-> Enqueued(v, inq'[v[1]])]
           both == [v \in Voqs |-> left[v] \o given[v]]
           lost == [v \in Voqs |-> IF Len(left[v]) = VoqSize THEN given[v] ELSE <<>>]
<1>1. /\ Taken(m) \in [Voqs -> Seq(AllPackets)] /\ left \in [Voqs -> Seq(AllPackets)]
      /\ \A v \in Voqs : voq[v] = Taken(m)[v] \o left[v] /\ Len(left[v]) <= VoqSize
  BY TakenAndLeft
<1>2. /\ voq \in [Voqs -> Seq(AllPackets)] /\ voq' \in [Voqs -> Seq(AllPackets)]
      /\ \A p \in Ports : inq'[p] \in Seq(AtPort(p))
  BY DEF IInv
<1>3. /\ given \in [Voqs -> Seq(AllPackets)] /\ \A v \in Voqs : Len(given[v]) <= 1
      /\ TotalTo(d, given) = Cardinality(HeadsFor(d, inq'))
  <2> DEFINE q == inq'
  <2>1. \A p \in Ports : q[p] \in Seq(AtPort(p))
    BY <1>2
  <2> HIDE DEF q
  <2>2. /\ \A v \in Voqs : /\ Enqueued(v, q[v[1]]) \in Seq(AllPackets)
                           /\ Len(Enqueued(v, q[v[1]])) <= 1
        /\ TotalTo(d, [v \in Voqs |-> Enqueued(v, q[v[1]])]) = Cardinality(HeadsFor(d, q))
    BY <2>1, HeadsAreGiven
  <2>3. given = [v \in Voqs |-> Enqueued(v, q[v[1]])]
    BY DEF q
  <2> HIDE DEF given
  <2>4. \A v \in Voqs : given[v] = Enqueued(v, q[v[1]])
    BY <2>3
  <2>5. given \in [Voqs -> Seq(AllPackets)]
    BY <2>2, <2>3
  <2> QED
    BY <2>2, <2>3, <2>4, <2>5 DEF q
<1>4. \A v \in Voqs : voq'[v] = Keep(VoqSize, left[v] \o given[v])
  BY DEF Step
<1>5. DroppedTo(d, left) = Cardinality({v \in Voqs : lost[v] # <<>> /\ lost[v][1].dst = d})
  <2> DEFINE D == {v \in Voqs : Len(left[v]) = VoqSize /\ \E e \in ToSet(given[v]) : e.dst = d}
  <2>1. DroppedTo(d, left) = Cardinality(D)
    <3>1. D = {v \in Voqs : Len(left[v]) = VoqSize /\ \E e \in ToSet(Enqueued(v, inq'[v[1]])) : e.dst = d}
      OBVIOUS
    <3> QED
      BY <3>1 DEF DroppedTo
  <2> HIDE DEF left, given
  <2>2. ASSUME NEW v \in Voqs
        PROVE  (\E e \in ToSet(given[v]) : e.dst = d) <=> (given[v] # <<>> /\ given[v][1].dst = d)
    <3>1. given[v] \in Seq(AllPackets) /\ Len(given[v]) \in Nat /\ Len(given[v]) <= 1
      BY <1>3, LenProperties
    <3>2. DOMAIN given[v] = 1 .. Len(given[v]) /\ (given[v] = <<>> <=> Len(given[v]) = 0)
      BY <3>1, LenProperties, EmptySeq
    <3> DEFINE s == given[v]
    <3>3. CASE s = <<>>
      <4>1. DOMAIN s = {}
        BY <3>3
      <4> QED
        BY <3>3, <4>1 DEF ToSet
    <3>4. CASE s # <<>>
      <4> HIDE DEF s
      <4>1. Len(s) = 1
        <5> DEFINE n == Len(s)
        <5>1. n \in Nat /\ n <= 1 /\ n # 0
          BY <3>1, <3>2, <3>4 DEF s
        <5> HIDE DEF n
        <5>2. n = 1
          BY <5>1
        <5> QED
          BY <5>2 DEF n
      <4>2. DOMAIN s = {1}
        BY <3>2, <4>1 DEF s
      <4>3. ToSet(s) = {s[1]}
        BY <4>2 DEF ToSet
      <4> QED
        BY <3>4, <4>3 DEF s
    <3> QED
      BY <3>3, <3>4
  <2>3. D = {v \in Voqs : lost[v] # <<>> /\ lost[v][1].dst = d}
    <3>1. \A v \in Voqs : lost[v] = IF Len(left[v]) = VoqSize THEN given[v] ELSE <<>>
      OBVIOUS
    <3> HIDE DEF lost
    <3> QED
      BY <2>2, <3>1
  <2> QED
    BY <2>1, <2>3
<1> HIDE DEF left, given
<1>6. both \in [Voqs -> Seq(AllPackets)] /\ lost \in [Voqs -> Seq(AllPackets)]
  <2>1. \A v \in Voqs : left[v] \o given[v] \in Seq(AllPackets)
    BY <1>1, <1>3, ConcatProperties
  <2> QED
    BY <1>3, <2>1, EmptySeq
<1>7. /\ \A v \in Voqs : both[v] = left[v] \o given[v]
      /\ \A v \in Voqs : lost[v] = IF Len(left[v]) = VoqSize THEN given[v] ELSE <<>>
  OBVIOUS
<1> HIDE DEF both, lost
<1>8. \A v \in Voqs : both[v] = voq'[v] \o lost[v] /\ Len(voq'[v]) <= VoqSize
  <2> TAKE v \in Voqs
  <2>1. left[v] \in Seq(AllPackets) /\ given[v] \in Seq(AllPackets)
    BY <1>1, <1>3
  <2>2. VoqSize \in Nat /\ Len(left[v]) <= VoqSize /\ Len(given[v]) <= 1
    BY <1>1, <1>3, Numbers
  <2>3. both[v] = Keep(VoqSize, left[v] \o given[v]) \o lost[v]
    <3> DEFINE s == left[v]
               t == given[v]
    <3>1. s \in Seq(AllPackets) /\ t \in Seq(AllPackets) /\ Len(s) <= VoqSize /\ Len(t) <= 1
      BY <2>1, <2>2
    <3> HIDE DEF s, t
    <3>2. s \o t = Keep(VoqSize, s \o t) \o (IF Len(s) = VoqSize THEN t ELSE <<>>)
      BY <2>2, <3>1, KeptAndDropped
    <3> QED
      BY <1>7, <3>2 DEF s, t
  <2>4. Len(Keep(VoqSize, left[v] \o given[v])) <= VoqSize
    BY <2>1, <2>2, KeepOf
  <2> QED
    BY <1>4, <2>3, <2>4
<1>10. TotalTo(d, voq) = TotalTo(d, Taken(m)) + TotalTo(d, left)
  <2>1. Splits(Voqs, AllPackets, voq, Taken(m), left)
    BY <1>1, <1>2 DEF Splits, Families
  <2> QED
    BY <2>1, NetworkFinite, TotalSplits
<1>11. TotalTo(d, both) = TotalTo(d, left) + TotalTo(d, given)
  <2>1. Splits(Voqs, AllPackets, both, left, given)
    BY <1>1, <1>3, <1>6, <1>7 DEF Splits, Families
  <2> QED
    BY <2>1, NetworkFinite, TotalSplits
<1>12. TotalTo(d, both) = TotalTo(d, voq') + TotalTo(d, lost)
  <2>1. Splits(Voqs, AllPackets, both, voq', lost)
    BY <1>2, <1>6, <1>8 DEF Splits, Families
  <2> QED
    BY <2>1, NetworkFinite, TotalSplits
<1>13. TotalTo(d, lost) = DroppedTo(d, left)
  <2>1. \A v \in Voqs : Len(lost[v]) <= 1
    <3>1. Len(<<>>) = 0
      BY EmptySeq
    <3> QED
      BY <1>3, <1>7, <3>1
  <2>2. lost \in [Voqs -> Seq(AllPackets)]
    BY <1>6
  <2>3. Singles(Voqs, AllPackets, lost)
    BY <2>1, <2>2 DEF Singles, Families
  <2>4. TotalTo(d, lost) = Cardinality({v \in Voqs : lost[v] # <<>> /\ lost[v][1].dst = d})
    BY <2>3, NetworkFinite, TotalOfSingles
  <2> QED
    BY <1>5, <2>4
<1>14. /\ TotalTo(d, voq) \in Nat /\ TotalTo(d, Taken(m)) \in Nat /\ TotalTo(d, left) \in Nat
       /\ TotalTo(d, given) \in Nat /\ TotalTo(d, voq') \in Nat /\ TotalTo(d, lost) \in Nat
  BY <1>1, <1>2, <1>3, <1>6, NetworkFinite, PlacesToAre
<1>15. TotalTo(d, voq') = TotalTo(d, voq) - TotalTo(d, Taken(m)) + TotalTo(d, given) - TotalTo(d, lost)
  BY <1>10, <1>11, <1>12, <1>14
<1> QED
  BY <1>3, <1>8, <1>13, <1>14, <1>15 DEF left

\* What waits at the servers behind the heads of their queues.
Waiting(q) == [s \in Servers |-> Rest(q[ServerPort(s)])]

\* The packets that wait at the servers after a step.
LEMMA ServerBalance ==
    ASSUME IInv, IInv', Bounded, NEW n, NEW arr, arr = <<>> \/ arr \in Sendings(n),
           NEW m, Step(m, arr), NEW d \in Servers
    PROVE  LET in == [s \in Servers |-> Joined(arr, s)]
               joined == [s \in Servers |->
                            SubSeq(in[s], Len(Rest(inq[ServerPort(s)])) + 1, Len(in[s]))]
           IN  /\ TotalTo(d, Waiting(inq)) \in Nat /\ TotalTo(d, Waiting(inq')) \in Nat
               /\ TotalTo(d, joined) \in Nat
               /\ Cardinality({p \in HeadsFor(d, inq') : IsServerPort(p)}) \in Nat
               /\ TotalTo(d, Waiting(inq')) = TotalTo(d, Waiting(inq)) + TotalTo(d, joined)
                    - Cardinality({p \in HeadsFor(d, inq') : IsServerPort(p)})
               /\ \A s \in Servers : Len(inq'[ServerPort(s)]) <= QueueSize
<1> DEFINE q == inq'
           in == [s \in Servers |-> Joined(arr, s)]
           rest == Waiting(inq)
           joined == [s \in Servers |-> SubSeq(in[s], Len(Rest(inq[ServerPort(s)])) + 1, Len(in[s]))]
           first == [s \in Servers |-> First(q[ServerPort(s)])]
<1>1. ASSUME NEW s \in Servers PROVE q[ServerPort(s)] = in[s]
  <2>1. ServerPort(s) \in Ports /\ IsServerPort(ServerPort(s))
        /\ ServerPort(s)[2] * ServersPerLeaf + ServerPort(s)[3] = s
    BY PortsOfServers
  <2>2. inq'[ServerPort(s)] = in[ServerPort(s)[2] * ServersPerLeaf + ServerPort(s)[3]]
    BY <2>1 DEF Step
  <2> HIDE DEF in
  <2> QED
    BY <2>1, <2>2
<1>2. \A p \in Ports : q[p] \in Seq(AllPackets) /\ inq[p] \in Seq(AllPackets)
  BY DEF IInv
<1>3. ASSUME NEW s \in Servers
      PROVE  /\ rest[s] = Rest(inq[ServerPort(s)]) /\ rest[s] \in Seq(AllPackets)
             /\ Len(in[s]) <= QueueSize
             /\ Len(rest[s]) <= Len(in[s]) /\ in[s] \in Seq(AllPackets)
             /\ \A i \in 1 .. Len(rest[s]) : in[s][i] = rest[s][i]
  <2> DEFINE r == Rest(inq[ServerPort(s)])
             new == [k \in 1 .. Cardinality({u \in DOMAIN arr : u[1] = s}) |-> arr[<<s, k>>]]
  <2>1. inq[ServerPort(s)] \in Seq(AllPackets) /\ Len(inq[ServerPort(s)]) <= QueueSize
    BY <1>2, PortsOfServers DEF Bounded
  <2>2. r \in Seq(AllPackets)
    BY <2>1, RestKeeps
  <2>3. Len(r) <= QueueSize
    <3>1. CASE inq[ServerPort(s)] = <<>>
      BY <2>1, <3>1 DEF Rest
    <3>2. CASE inq[ServerPort(s)] # <<>>
      <4>1. Len(Tail(inq[ServerPort(s)])) = Len(inq[ServerPort(s)]) - 1 /\ Len(inq[ServerPort(s)]) \in Nat
        BY <2>1, <3>2, HeadTailProperties, LenProperties
      <4> QED
        BY <2>1, <3>2, <4>1, Numbers DEF Rest
    <3> QED
      BY <3>1, <3>2
  <2>4. new \in Seq(AllPackets)
    <3>1. Arrivals(s) \subseteq AllPackets
      BY DEF Arrivals
    <3>2. new \in Seq(Arrivals(s))
      BY SentArrives
    <3> HIDE DEF new
    <3> QED
      BY <3>1, <3>2, SeqMonotonic
  <2>5. in[s] = Keep(QueueSize, r \o new)
    BY DEF Joined
  <2>6. rest[s] = r
    BY DEF Waiting
  <2> HIDE DEF in, r, new, rest
  <2>7. QueueSize \in Nat
    BY Numbers
  <2>8. /\ Len(Keep(QueueSize, r \o new)) <= QueueSize
        /\ Len(r) <= Len(Keep(QueueSize, r \o new))
        /\ Keep(QueueSize, r \o new) \in Seq(AllPackets)
        /\ \A i \in 1 .. Len(r) : Keep(QueueSize, r \o new)[i] = r[i]
    BY <2>2, <2>3, <2>4, <2>7, KeepOf
  <2> QED
    BY <2>2, <2>5, <2>6, <2>8 DEF r
<1>4. ASSUME NEW s \in Servers
      PROVE  joined[s] \in Seq(AllPackets) /\ in[s] = rest[s] \o joined[s]
  <2>1. joined[s] = SubSeq(in[s], Len(rest[s]) + 1, Len(in[s]))
    BY <1>3
  <2> DEFINE r == rest[s]
             u == in[s]
  <2>2. /\ r \in Seq(AllPackets) /\ u \in Seq(AllPackets) /\ Len(r) <= Len(u)
        /\ \A i \in 1 .. Len(r) : u[i] = r[i]
        /\ joined[s] = SubSeq(u, Len(r) + 1, Len(u))
    BY <1>3, <2>1
  <2> HIDE DEF joined, r, u
  <2>3. SubSeq(u, Len(r) + 1, Len(u)) \in Seq(AllPackets) /\ u = r \o SubSeq(u, Len(r) + 1, Len(u))
    BY <2>2, BeginningAndRest
  <2> QED
    BY <2>2, <2>3 DEF r, u
<1>5. ASSUME NEW s \in Servers
      PROVE  /\ first[s] \in Seq(AllPackets) /\ Waiting(q)[s] \in Seq(AllPackets)
             /\ in[s] = first[s] \o Waiting(q)[s]
  <2>1. first[s] = First(in[s]) /\ Waiting(q)[s] = Rest(in[s])
    BY <1>1 DEF Waiting
  <2>2. in[s] \in Seq(AllPackets)
    BY <1>3
  <2> DEFINE u == in[s]
  <2> HIDE DEF first, u
  <2>3. First(u) \in Seq(AllPackets) /\ Rest(u) \in Seq(AllPackets) /\ u = First(u) \o Rest(u)
    BY <2>2, FirstAndRest DEF u
  <2> QED
    BY <2>1, <2>3 DEF u
<1>6. /\ in \in [Servers -> Seq(AllPackets)] /\ rest \in [Servers -> Seq(AllPackets)]
      /\ joined \in [Servers -> Seq(AllPackets)] /\ first \in [Servers -> Seq(AllPackets)]
      /\ Waiting(q) \in [Servers -> Seq(AllPackets)]
  <2>1. rest \in [Servers -> Seq(AllPackets)] /\ Waiting(q) \in [Servers -> Seq(AllPackets)]
    BY <1>3, <1>5 DEF Waiting
  <2>2. \A s \in Servers : Joined(arr, s) \in Seq(AllPackets)
    BY <1>3
  <2>3. \A s \in Servers : /\ SubSeq(in[s], Len(Rest(inq[ServerPort(s)])) + 1, Len(in[s])) \in Seq(AllPackets)
                           /\ First(q[ServerPort(s)]) \in Seq(AllPackets)
    BY <1>4, <1>5
  <2> QED
    BY <2>1, <2>2, <2>3
<1>7. TotalTo(d, first) = Cardinality({p \in HeadsFor(d, q) : IsServerPort(p)})
  <2> HIDE DEF q
  <2> QED
    BY <1>2, HeadsOfServers
<1>9. TotalTo(d, in) = TotalTo(d, rest) + TotalTo(d, joined)
  <2>1. Splits(Servers, AllPackets, in, rest, joined)
    BY <1>4, <1>6 DEF Splits, Families
  <2> QED
    BY <2>1, NetworkFinite, TotalSplits
<1>10. TotalTo(d, in) = TotalTo(d, first) + TotalTo(d, Waiting(q))
  <2>1. Splits(Servers, AllPackets, in, first, Waiting(q))
    BY <1>5, <1>6 DEF Splits, Families
  <2> QED
    BY <2>1, NetworkFinite, TotalSplits
<1>11. /\ TotalTo(d, rest) \in Nat /\ TotalTo(d, joined) \in Nat /\ TotalTo(d, first) \in Nat
       /\ TotalTo(d, Waiting(q)) \in Nat
  BY <1>6, NetworkFinite, PlacesToAre
<1>12. TotalTo(d, Waiting(q)) = TotalTo(d, rest) + TotalTo(d, joined) - TotalTo(d, first)
  <2> DEFINE a == TotalTo(d, in)
             r == TotalTo(d, rest)
             j == TotalTo(d, joined)
             f == TotalTo(d, first)
             w == TotalTo(d, Waiting(q))
  <2>1. a = r + j /\ a = f + w /\ r \in Nat /\ j \in Nat /\ f \in Nat /\ w \in Nat
    BY <1>9, <1>10, <1>11
  <2> HIDE DEF a, r, j, f, w
  <2>2. w = r + j - f
    BY <2>1
  <2> QED
    BY <2>2 DEF r, j, f, w
<1>13. \A s \in Servers : Len(q[ServerPort(s)]) <= QueueSize
  BY <1>1, <1>3
<1> QED
  BY <1>7, <1>11, <1>12, <1>13 DEF in, rest, joined, q

\* All ports with a packet for d at the head are a server's or another's.
LEMMA HeadsAtPorts ==
    ASSUME NEW d, NEW q, IsFiniteSet(HeadsFor(d, q))
    PROVE  /\ Cardinality({p \in HeadsFor(d, q) : IsServerPort(p)}) \in Nat
           /\ Cardinality({p \in HeadsFor(d, q) : ~IsServerPort(p)}) \in Nat
           /\ Cardinality(HeadsFor(d, q))
                = Cardinality({p \in HeadsFor(d, q) : IsServerPort(p)})
                  + Cardinality({p \in HeadsFor(d, q) : ~IsServerPort(p)})
<1> DEFINE H == HeadsFor(d, q)
           A == {p \in H : IsServerPort(p)}
           B == {p \in H : ~IsServerPort(p)}
<1>1. IsFiniteSet(A) /\ IsFiniteSet(B)
  BY FS_Subset
<1>2. H = A \cup B /\ A \cap B = {}
  OBVIOUS
<1> HIDE DEF H, A, B
<1>3. Cardinality(A) \in Nat /\ Cardinality(B) \in Nat
  BY <1>1, FS_CardinalityType
<1>4. Cardinality(A \cap B) = 0
  BY <1>2, FS_EmptySet
<1>5. Cardinality(A \cup B) = Cardinality(A) + Cardinality(B) - Cardinality(A \cap B)
  BY <1>1, FS_Union
<1>6. Cardinality(H) = Cardinality(A) + Cardinality(B)
  BY <1>2, <1>3, <1>4, <1>5
<1> QED
  BY <1>3, <1>6 DEF A, B, H

\* What joins a server's queue for d, less what the VOQs drop and what arrives
\* at d, is by how much the packets for d in the network change.
LEMMA StepConserves ==
    ASSUME ReduceQueues, IInv, IInv', Bounded, Conserved, NEW m \in Matchings, NEW n, NEW arr,
           arr = <<>> \/ arr \in Sendings(n), Step(m, arr)
    PROVE  Bounded' /\ Conserved'
<1>1. ASSUME NEW d \in Servers
      PROVE  owed'[d] = TotalTo(d, voq') + TotalTo(d, Waiting(inq'))
  <2> DEFINE in == [s \in Servers |-> Joined(arr, s)]
             joined == [s \in Servers |->
                          SubSeq(in[s], Len(Rest(inq[ServerPort(s)])) + 1, Len(in[s]))]
             q == inq'
             V == TotalTo(d, voq)
             VN == TotalTo(d, voq')
             W == TotalTo(d, Waiting(inq))
             WN == TotalTo(d, Waiting(inq'))
             J == TotalTo(d, joined)
             D == DroppedTo(d, Served(m))
             L == Len(OnLink(m, ServerPort(d)))
             T == TotalTo(d, Taken(m))
             H == Cardinality(HeadsFor(d, q))
             A == Cardinality({p \in HeadsFor(d, q) : IsServerPort(p)})
             B == Cardinality({p \in HeadsFor(d, q) : ~IsServerPort(p)})
             new == owed'[d]
             old == owed[d]
  <2>1. V \in Nat /\ VN \in Nat /\ D \in Nat /\ T \in Nat /\ VN = V - T + H - D
    BY VoqBalance
  <2>2. W \in Nat /\ WN \in Nat /\ J \in Nat /\ A \in Nat /\ WN = W + J - A
    BY ServerBalance
  <2>3. \A p \in Ports : ~IsServerPort(p) => q[p] = OnLink(m, Peer(p))
    BY DEF Step
  <2>4. L \in Nat /\ T = L + B
    <3> HIDE DEF q
    <3> QED
      BY <2>3, HeadsOfLinks
  <2>5. B \in Nat /\ H = A + B
    <3>1. \A p \in Ports : q[p] \in Seq(AtPort(p))
      BY DEF IInv
    <3> HIDE DEF q
    <3>2. IsFiniteSet(HeadsFor(d, q))
      BY <3>1, HeadsAreGiven
    <3> QED
      BY <3>2, HeadsAtPorts
  <2>6. new = old + J - D - L
    BY DEF Step
  <2>7. old = V + W
    BY DEF Conserved, Waiting
  <2> HIDE DEF V, VN, W, WN, J, D, L, T, H, A, B, new, old
  <2>8. new = VN + WN
    BY <2>1, <2>2, <2>4, <2>5, <2>6, <2>7
  <2> QED
    BY <2>8 DEF VN, WN, new
<1>2. Conserved'
  <2>1. \A d \in Servers : TotalTo(d, voq)' = TotalTo(d, voq')
    BY DEF TotalTo, Places
  <2>2. \A d \in Servers : TotalTo(d, [s \in Servers |-> Rest(inq[ServerPort(s)])])'
                             = TotalTo(d, Waiting(inq'))
    BY DEF TotalTo, Places, Waiting
  <2> QED
    BY <1>1, <2>1, <2>2 DEF Conserved
<1>3. Bounded'
  <2>1. CASE Servers = {}
    <3>1. 0 \in Servers
      BY Numbers DEF Servers
    <3> QED
      BY <2>1, <3>1
  <2>2. CASE \E d \in Servers : TRUE
    <3>1. PICK d \in Servers : TRUE
      BY <2>2
    <3>2. \A v \in Voqs : Len(voq'[v]) <= VoqSize
      BY VoqBalance
    <3>3. \A s \in Servers : Len(inq'[ServerPort(s)]) <= QueueSize
      BY ServerBalance
    <3> QED
      BY <3>2, <3>3 DEF Bounded
  <2> QED
    BY <2>1, <2>2
<1> QED
  BY <1>2, <1>3

\* The network is empty at first.
LEMMA InitConserves == Init => Bounded /\ Conserved
<1> SUFFICES ASSUME Init PROVE Bounded /\ Conserved
  OBVIOUS
<1>1. Len(<<>>) = 0 /\ \A P : <<>> \in Seq(P)
  BY EmptySeq
<1>2. /\ inq = [p \in Ports |-> <<>>] /\ voq = [v \in Voqs |-> <<>>]
      /\ owed = [d \in Servers |-> 0]
  BY DEF Init
<1>3. \A s \in Servers : inq[ServerPort(s)] = <<>>
  BY <1>2, PortsOfServers
<1>4. Bounded
  BY <1>1, <1>2, <1>3, Numbers DEF Bounded
<1>5. ASSUME NEW d \in Servers, NEW X, NEW f, f = [x \in X |-> <<>>] PROVE TotalTo(d, f) = 0
  <2>1. Places(f) = {}
    <3>1. DOMAIN f = X /\ \A x \in X : f[x] = <<>>
      BY <1>5
    <3>2. \A x \in X : {x} \X DOMAIN f[x] = {}
      BY <3>1
    <3> QED
      BY <3>1, <3>2 DEF Places
  <2>2. {x \in Places(f) : f[x[1]][x[2]].dst = d} = {}
    BY <2>1
  <2> QED
    BY <2>2, FS_EmptySet DEF TotalTo
<1>6. Conserved
  <2>1. [s \in Servers |-> Rest(inq[ServerPort(s)])] = [s \in Servers |-> <<>>]
    BY <1>3 DEF Rest
  <2>2. \A d \in Servers : /\ TotalTo(d, voq) = 0
                           /\ TotalTo(d, [s \in Servers |-> Rest(inq[ServerPort(s)])]) = 0
    BY <1>2, <1>5, <2>1
  <2> QED
    BY <1>2, <2>2 DEF Conserved
<1> QED
  BY <1>4, <1>6

(* Theorems *****************************************************************)

\* With the reduced set of queues, whatever packet is in front of a port, the
\* implications about the port's VOQs have one solution: the VOQ it is meant for
\* gets it, no other gets anything.
THEOREM LeafSpineForwardedOnce == ReduceQueues => (Spec => []ForwardedOnce)
<1> SUFFICES ASSUME ReduceQueues PROVE Spec => []ForwardedOnce
  OBVIOUS
<1>1. IInv => ForwardedOnce
  <2> SUFFICES ASSUME IInv, NEW p \in Ports,
                      NEW pkt \in IF inq[p] = <<>> THEN {x \in AllPackets : ~x.val} ELSE {inq[p][1]}
               PROVE  LET out == {v \in Voqs : v[1] = p}
                      IN  IF pkt.val
                          THEN \E u \in out : \A v \in out :
                                  Outcomes[<<v, pkt>>] = IF v = u THEN {pkt} ELSE {NullPkt}
                          ELSE \A v \in out : Outcomes[<<v, pkt>>] = {NullPkt}
    BY DEF ForwardedOnce
  <2>1. pkt \in AllPackets /\ (pkt.val => pkt \in AtPort(p))
    <3>1. CASE inq[p] = <<>>
      BY <3>1
    <3>2. CASE inq[p] # <<>>
      <4>1. pkt = inq[p][1] /\ inq[p] \in Seq(AtPort(p))
        BY <3>2 DEF IInv
      <4>2. inq[p][1] \in AtPort(p)
        BY <3>2, <4>1, EmptySeq, ElementOfSeq
      <4> QED
        BY <4>1, <4>2 DEF AtPort
    <3> QED
      BY <3>1, <3>2
  <2>2. \A v \in Voqs : Outcomes[<<v, pkt>>] = {Gets(v, pkt)}
    BY <2>1, OneOutcome
  <2>3. CASE pkt.val
    <3>1. PICK u \in Voqs : /\ u[1] = p /\ Meant(u, pkt)
                            /\ \A v \in Voqs : v[1] = p /\ Meant(v, pkt) => v = u
      BY <2>1, <2>3, MeantForOne
    <3>2. \A v \in {v \in Voqs : v[1] = p} :
             Outcomes[<<v, pkt>>] = IF v = u THEN {pkt} ELSE {NullPkt}
      BY <2>2, <2>3, <3>1 DEF Gets
    <3> DEFINE out == {v \in Voqs : v[1] = p}
    <3>3. u \in out
      BY <3>1
    <3>4. \E w \in out : \A v \in out : Outcomes[<<v, pkt>>] = IF v = w THEN {pkt} ELSE {NullPkt}
      BY <3>2, <3>3
    <3> QED
      BY <2>3, <3>4
  <2>4. CASE ~pkt.val
    BY <2>2, <2>4 DEF Gets
  <2> QED
    BY <2>3, <2>4
<1> QED
  BY <1>1, Invariant, PTL

\* The bounds the modules add to the encoding follow from the forwarding and the
\* wiring, for any numbers of leaves, spines and servers.
THEOREM LeafSpineAssertedBounds == ReduceQueues => (Spec => []AssertedBounds)
<1> SUFFICES ASSUME ReduceQueues PROVE Spec => []AssertedBounds
  OBVIOUS
<1>1. IInv => AssertedBounds
  <2> SUFFICES ASSUME IInv PROVE AssertedBounds
    OBVIOUS
  <2>1. ASSUME NEW S, NEW s \in Seq(S), NEW x \in ToSet(s) PROVE x \in S
    BY <2>1, LenProperties, ElementOfSeq DEF ToSet
  <2>2. \A p \in Ports : \A pkt \in InFront(p) : InPlace(p, pkt)
    <3>1. ASSUME NEW p \in Ports, NEW pkt \in InFront(p) PROVE pkt \in AtPort(p)
      BY <2>1, <3>1 DEF InFront, IInv
    <3> QED
      BY <3>1 DEF AtPort
  <2>3. \A d \in Servers : \A pkt \in ToSet(down[d]) : pkt.dst = d
    <3>1. ASSUME NEW d \in Servers, NEW pkt \in ToSet(down[d]) PROVE pkt \in AtServer(d)
      BY <2>1, <3>1 DEF IInv
    <3> QED
      BY <3>1 DEF AtServer
  <2>4. \A v \in Voqs : v[1][1] = "S" => \A pkt \in ToSet(voq[v]) : pkt.via = v[1][2]
    <3>1. ASSUME NEW v \in Voqs, NEW pkt \in ToSet(voq[v]) PROVE pkt \in InVoq(v)
      BY <2>1, <3>1 DEF IInv
    <3> QED
      BY <3>1 DEF InVoq
  <2>5. LeafXBarBounds
    BY <2>2, <2>3 DEF LeafXBarBounds, InPlace
  <2>6. LeafInputBounds
    BY <2>2 DEF LeafInputBounds, InPlace, IsServerPort
  <2>7. SpineBounds
    BY <2>2, <2>4 DEF SpineBounds, InPlace
  <2> QED
    BY <2>5, <2>6, <2>7 DEF AssertedBounds
<1> QED
  BY <1>1, Invariant, PTL

\* With the reduced set of queues, each server is owed just the packets for it
\* that are in the network: between a server's queue, the VOQs of up to three
\* switches and the links, none is duplicated and none is lost but at a full VOQ.
THEOREM LeafSpineConserved == ReduceQueues => (Spec => []Conserved)
<1> SUFFICES ASSUME ReduceQueues PROVE Spec => []Conserved
  OBVIOUS
<1> DEFINE CInv == IInv /\ Bounded /\ Conserved
<1>1. Init => CInv
  BY InitIInv, InitConserves
<1>2. CInv /\ [Next]_vars => CInv'
  <2> SUFFICES ASSUME CInv, [Next]_vars PROVE CInv'
    OBVIOUS
  <2>1. IInv'
    BY NextIInv
  <2>2. CASE Quiet
    BY <2>1, <2>2, StepConserves DEF Quiet
  <2>3. CASE Busy
    BY <2>1, <2>3, StepConserves DEF Busy
  <2>4. CASE UNCHANGED vars
    <3>1. Bounded'
      BY <2>4 DEF vars, Bounded
    <3>2. Conserved'
      BY <2>4 DEF vars, Conserved, TotalTo, Places
    <3> QED
      BY <2>1, <3>1, <3>2
  <2> QED
    BY <2>2, <2>3, <2>4 DEF Next
<1>3. CInv => Conserved
  OBVIOUS
<1> HIDE DEF CInv
<1> QED
  BY <1>1, <1>2, <1>3, PTL DEF Spec

\* With the full set of queues (reduce_queues false) it is different: no
\* implication is about the VOQs from one spine's port of a leaf to another's, so
\* while a packet is in front of such a port the solver may enqueue anything
\* there (leaf_forwarding_qm.cpp:79-123).
THEOREM FullLeafIsOpen ==
    ASSUME ~ReduceQueues, NEW l \in Leaves, NEW i \in LeafPorts, NEW j \in LeafPorts,
           i >= ServersPerLeaf, j >= ServersPerLeaf,
           NEW pkt \in AllPackets, pkt.val
    PROVE  LET v == <<<<"L", l, i>>, <<"L", l, j>>>>
           IN  v \in Voqs /\ Outcomes[<<v, pkt>>] = AllPackets
<1> DEFINE v == <<<<"L", l, i>>, <<"L", l, j>>>>
<1>1. v \in Voqs
  BY PairsAreVoqs DEF LeafPairs
<1>2. PortsBehind(v) = {j}
  BY <1>1, LeadsToItsPort
<1>3. \A e \in AllPackets : ToSpine(v, pkt, e)
  BY Numbers DEF ToSpine, LeafPorts
<1>4. \A e \in AllPackets : WithinLeaf(v, pkt, e)
  <2>1. \A d \in Servers : d % ServersPerLeaf # j
    <3>1. \A d \in Servers : d % ServersPerLeaf \in 0 .. ServersPerLeaf - 1
      BY ServerIsAtALeaf
    <3> QED
      BY <3>1, Numbers DEF LeafPorts
  <2> QED
    BY <1>2, <2>1 DEF WithinLeaf
<1>5. \A e \in AllPackets : Forwards(v, pkt, e)
  BY <1>3, <1>4 DEF Forwards
<1>6. Outcomes[<<v, pkt>>] = {e \in AllPackets : Forwards(v, pkt, e)}
  <2>1. Outcomes = [x \in Voqs \X AllPackets |-> {e \in AllPackets : Forwards(x[1], x[2], e)}]
    BY DEF Outcomes, Table
  <2> QED
    BY <1>1, <2>1
<1> QED
  BY <1>1, <1>5, <1>6
=============================================================================
