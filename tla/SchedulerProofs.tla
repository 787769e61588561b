--------------------------- MODULE SchedulerProofs ---------------------------
(***************************************************************************)
(* For any number of queues, queue size and arrival bound.                 *)
(*                                                                         *)
(* Round robin, whatever type the queues turn out to have: the constraints *)
(* keep one head, serve one non-empty queue a step, make no queue wait N   *)
(* steps and share the service evenly.                                     *)
(*                                                                         *)
(* Strict priority: the constraints always serve exactly one non-empty     *)
(* queue, a queue waits no longer than the packets above it take, and the  *)
(* CBLOCKED metric counts nothing but service of higher queues.            *)
(*                                                                         *)
(* Two lists: they and the activity bits agree with each other and with    *)
(* the queues, no queue is passed over N times within a list, and with     *)
(* QUEUEs the scheduler is work conserving.                                *)
(***************************************************************************)
EXTENDS RoundRobin, StrictPriority, TwoListRR, FiniteSetTheorems, SequenceTheorems,
        WellFoundedInduction, TLAPS

\* Distances from the head (rr_qm.cpp:53-78, the loop over i).
LEMMA StepsType ==
    ASSUME NEW h \in Q, NEW q \in Q
    PROVE  Steps(h, q) \in 1 .. N
BY SchedulerAssumption DEF Steps, Q

\* Each queue is at a distance of its own.
LEMMA StepsInjective ==
    ASSUME NEW h \in Q, NEW a \in Q, NEW b \in Q, Steps(h, a) = Steps(h, b)
    PROVE  a = b
BY SchedulerAssumption DEF Steps, Q

\* Moving the head to s brings every queue behind s closer, by at least one,
\* and keeps those queues in order; s itself becomes the last.
LEMMA MovedHead ==
    ASSUME NEW h \in Q, NEW s \in Q, NEW q \in Q, Steps(h, s) < Steps(h, q)
    PROVE  /\ Steps(s, q) = Steps(h, q) - Steps(h, s)
           /\ Steps(s, q) < Steps(h, q)
           /\ Steps(s, q) < Steps(s, s)
           /\ Steps(s, s) = N
BY SchedulerAssumption DEF Steps, Q

\* A non-empty set of naturals has a least element.
LEMMA LeastNumberExists ==
    ASSUME NEW T \in SUBSET Nat, T # {}
    PROVE  \E x \in T : \A y \in T : x <= y
<1>1. PICK x \in T : \A y \in T : <<y, x>> \notin OpToRel(<, Nat)
  BY NatLessThanWellFounded, WFMin
<1>2. ASSUME NEW y \in T, y < x PROVE <<y, x>> \in OpToRel(<, Nat)
  BY <1>2 DEF OpToRel
<1>3. ASSUME NEW y \in T PROVE ~(y < x)
  BY <1>1, <1>2
<1>4. ASSUME NEW y \in T PROVE x <= y
  BY <1>3
<1> QED
  BY <1>4

\* Among non-empty queues one comes first.
LEMMA SomeQueueIsFirst ==
    ASSUME NEW h \in Q, ~AllEmpty
    PROVE  \E q \in Q : FirstAfter(h, q)
<1> DEFINE T == {Steps(h, q) : q \in {x \in Q : NonEmpty(x)}}
<1>1. T \in SUBSET Nat /\ T # {}
  BY StepsType, SchedulerAssumption DEF AllEmpty
<1>2. PICK i \in T : \A j \in T : i <= j
  BY <1>1, LeastNumberExists
<1>3. PICK q \in Q : NonEmpty(q) /\ i = Steps(h, q)
  BY <1>2
<1>4. ASSUME NEW x \in Q, Steps(h, x) < Steps(h, q) PROVE ~NonEmpty(x)
  <2> SUFFICES ASSUME NonEmpty(x) PROVE FALSE
    OBVIOUS
  <2>1. Steps(h, x) \in T
    OBVIOUS
  <2>2. Steps(h, q) <= Steps(h, x)
    BY <1>2, <1>3, <2>1
  <2>3. Steps(h, x) \in 1 .. N /\ Steps(h, q) \in 1 .. N
    BY StepsType
  <2> QED
    BY <1>4, <2>2, <2>3, SchedulerAssumption
<1> QED
  BY <1>3, <1>4 DEF FirstAfter

\* One queue at most is the first after the head.
LEMMA FirstIsUnique ==
    ASSUME NEW h \in Q, NEW a \in Q, NEW b \in Q, FirstAfter(h, a), FirstAfter(h, b)
    PROVE  a = b
<1>1. ~(Steps(h, a) < Steps(h, b)) /\ ~(Steps(h, b) < Steps(h, a))
  BY DEF FirstAfter
<1>2. Steps(h, a) \in 1 .. N /\ Steps(h, b) \in 1 .. N
  BY StepsType
<1> QED
  BY <1>1, <1>2, StepsInjective, SchedulerAssumption

(* The inductive invariant ***********************************************)

\* While queue q waits, every step brings the head closer to it.
WaitInv ==
    \A h, q \in Q : lsq[h] => wait[q] + Steps(h, q) <= N

\* The queue that is one packet behind is the one the head reaches first.
LeadInv ==
    \A h, a, b \in Q :
       /\ lead[a][b] \in -1 .. 1
       /\ lsq[h] /\ lead[a][b] = 1 => Steps(h, b) < Steps(h, a)
       /\ lsq[h] /\ lead[a][b] = -1 => Steps(h, a) < Steps(h, b)

IInv == TypeOK /\ OneHead /\ Choice /\ SinkKeepsUp /\ WaitInv /\ LeadInv

\* What a step's choices are once there is one head: the first non-empty queue
\* after it is served, or all are empty.
LEMMA OneIsServed ==
    ASSUME TypeOK, Choice, NEW h \in Q, \A q \in Q : lsq[q] <=> q = h
    PROVE  \/ AllEmpty /\ \A q \in Q : deq[q] = 0
           \/ \E s \in Q : /\ FirstAfter(h, s)
                           /\ \A q \in Q : deq[q] = IF q = s THEN 1 ELSE 0
<1>1. \A q \in Q : deq[q] = IF FirstAfter(h, q) THEN 1 ELSE 0
  BY DEF Choice, ServeFirst
<1>2. CASE AllEmpty
  BY <1>1, <1>2 DEF AllEmpty, FirstAfter
<1>3. CASE ~AllEmpty
  <2>1. PICK s \in Q : FirstAfter(h, s)
    BY <1>3, SomeQueueIsFirst
  <2>2. \A q \in Q : FirstAfter(h, q) <=> q = s
    BY <2>1, FirstIsUnique
  <2> QED
    BY <1>1, <2>1, <2>2
<1> QED
  BY <1>2, <1>3

\* What a step does, whatever arrives in it.
LEMMA NextIs ==
    ASSUME Next
    PROVE  /\ kind' = kind /\ arr' \in [Q -> 0 .. MaxArr]
           /\ len' = [q \in Q |-> NextLen(q, arr[q], arr'[q])]
           /\ lsq' \in [Q -> BOOLEAN] /\ MoveHead(lsq')
           /\ deq' \in [Q -> 0 .. 1] /\ out' \in Q \cup {NoPkt} /\ Choice'
           /\ sink' = Drained \o Carried(IF kind = "IMM_QUEUE" THEN out' ELSE out)
           /\ Observe
BY DEF Next, Step

\* The constraints that move the head leave exactly one.
LEMMA HeadMoves ==
    ASSUME IInv, Next
    PROVE  \E h \in Q, g \in Q :
              /\ \A q \in Q : lsq[q] <=> q = h
              /\ \A q \in Q : lsq'[q] <=> q = g
              /\ \/ /\ g = h /\ AllEmpty
                    /\ \A q \in Q : deq[q] = 0
                 \/ /\ FirstAfter(h, g)
                    /\ \A q \in Q : deq[q] = IF q = g THEN 1 ELSE 0
<1>1. PICK h \in Q : \A q \in Q : lsq[q] <=> q = h
  BY DEF IInv, OneHead
<1>2. lsq' \in [Q -> BOOLEAN] /\ MoveHead(lsq')
  BY NextIs
<1>3. CASE AllEmpty /\ \A q \in Q : deq[q] = 0
  <2>1. \A q \in Q : lsq'[q] = lsq[q]
    BY <1>2, <1>3 DEF MoveHead
  <2> QED
    BY <1>1, <1>3, <2>1
<1>4. ASSUME NEW s \in Q, FirstAfter(h, s),
             \A q \in Q : deq[q] = IF q = s THEN 1 ELSE 0
      PROVE  \A q \in Q : lsq'[q] <=> q = s
  <2>1. ~AllEmpty
    BY <1>4 DEF AllEmpty, FirstAfter
  <2>2. lsq'[s]
    BY <1>2, <1>4 DEF MoveHead
  <2>3. \A q \in Q : q # s => ~lsq'[q]
    BY <1>2, <1>4, <2>1 DEF MoveHead
  <2> QED
    BY <2>2, <2>3
<1>5. \/ AllEmpty /\ \A q \in Q : deq[q] = 0
      \/ \E s \in Q : /\ FirstAfter(h, s)
                      /\ \A q \in Q : deq[q] = IF q = s THEN 1 ELSE 0
  BY <1>1, OneIsServed DEF IInv
<1> QED
  BY <1>1, <1>3, <1>4, <1>5

\* What the scheduler hands to the sink in a step.
LEMMA CarriedType ==
    ASSUME NEW pkt \in Q \cup {NoPkt}
    PROVE  Carried(pkt) \in Seq(Q) /\ Len(Carried(pkt)) <= 1
<1>1. CASE pkt = NoPkt
  BY <1>1 DEF Carried
<1>2. CASE pkt # NoPkt
  <2>1. Carried(pkt) = <<pkt>> /\ pkt \in Q
    BY <1>2 DEF Carried
  <2> QED
    BY <2>1
<1> QED
  BY <1>1, <1>2

\* A sink that holds one packet at most is empty once it has drained one.
LEMMA SinkDrains ==
    ASSUME sink \in Seq(Q), SinkKeepsUp
    PROVE  Drained = <<>>
<1>1. CASE sink = <<>>
  BY <1>1 DEF Drained
<1>2. CASE sink # <<>>
  <2>1. Len(sink) = 1
    BY <1>2, EmptySeq DEF SinkKeepsUp
  <2>2. Tail(sink) \in Seq(Q) /\ Len(Tail(sink)) = 0
    BY <1>2, <2>1, HeadTailProperties
  <2>3. Tail(sink) = <<>>
    BY <2>2, EmptySeq
  <2> QED
    BY <1>2, <2>3 DEF Drained
<1> QED
  BY <1>1, <1>2

\* A step keeps the values in their ranges ...
LEMMA NextTypeOK == IInv /\ Next => TypeOK'
<1> SUFFICES ASSUME IInv, Next PROVE TypeOK'
  OBVIOUS
<1> USE SchedulerAssumption
<1>1. kind' = kind /\ kind \in Kinds /\ Room' = Room /\ MaxArr' = MaxArr
  BY NextIs DEF IInv, TypeOK, Room, MaxArr
<1>2. Room \in Nat /\ MaxArr \in Nat
  BY DEF Room, MaxArr
<1>3. arr' \in [Q -> 0 .. MaxArr]
  BY NextIs
<1>4. len' \in [Q -> 0 .. Room]
  <2>1. \A q \in Q : NextLen(q, arr[q], arr'[q]) \in 0 .. Room
    <3> TAKE q \in Q
    <3>1. len[q] \in Nat /\ deq[q] \in Nat
      <4>1. len \in [Q -> 0 .. Room] /\ deq \in [Q -> 0 .. 1]
        BY DEF IInv, TypeOK
      <4> QED
        BY <1>2, <4>1
    <3>2. arr[q] \in Nat /\ arr'[q] \in Nat
      BY <1>2, <1>3 DEF IInv, TypeOK
    <3>3. deq[q] <= len[q]
      BY DEF IInv, Choice, QueuesAllow
    <3> QED
      BY <1>2, <3>1, <3>2, <3>3 DEF NextLen, Smaller
  <2> QED
    BY <2>1, NextIs
<1>5. lsq' \in [Q -> BOOLEAN] /\ deq' \in [Q -> 0 .. 1] /\ out' \in Q \cup {NoPkt}
  BY NextIs
<1>6. sink' \in Seq(Q)
  <2>1. Drained = <<>>
    BY SinkDrains DEF IInv, TypeOK
  <2>2. out \in Q \cup {NoPkt} /\ out' \in Q \cup {NoPkt}
    BY <1>5 DEF IInv, TypeOK
  <2>3. Carried(out) \in Seq(Q) /\ Carried(out') \in Seq(Q)
    BY <2>2, CarriedType
  <2> QED
    BY <2>1, <2>3, ConcatEmptySeq, NextIs
<1>7. wait' \in [Q -> Nat]
  <2>1. \A q \in Q : (IF NonEmpty(q) /\ deq[q] = 0 THEN wait[q] + 1 ELSE 0) \in Nat
    BY DEF IInv, TypeOK
  <2> QED
    BY <2>1, NextIs DEF Observe
<1>8. lead' \in [Q -> [Q -> Int]]
  <2>1. \A a, b \in Q : (IF NonEmpty(a) /\ NonEmpty(b)
                         THEN lead[a][b] + deq[a] - deq[b] ELSE 0) \in Int
    <3> TAKE a \in Q, b \in Q
    <3>1. lead[a][b] \in Int /\ deq[a] \in Int /\ deq[b] \in Int
      BY DEF IInv, TypeOK
    <3> QED
      BY <3>1
  <2> QED
    BY <2>1, NextIs DEF Observe
<1> QED
  BY <1>1, <1>3, <1>4, <1>5, <1>6, <1>7, <1>8 DEF TypeOK

\* ... the longer a queue waits the closer the head comes to it ...
LEMMA NextWaitInv == IInv /\ Next => WaitInv'
<1> SUFFICES ASSUME IInv, Next, NEW x \in Q, NEW q \in Q, lsq'[x]
             PROVE  wait'[q] + Steps(x, q) <= N
  BY DEF WaitInv
<1>1. PICK h \in Q, g \in Q :
         /\ \A y \in Q : lsq[y] <=> y = h
         /\ \A y \in Q : lsq'[y] <=> y = g
         /\ \/ g = h /\ AllEmpty /\ \A y \in Q : deq[y] = 0
            \/ FirstAfter(h, g) /\ \A y \in Q : deq[y] = IF y = g THEN 1 ELSE 0
  BY HeadMoves
<1>2. x = g /\ wait[q] \in Nat /\ wait[q] + Steps(h, q) <= N
  BY <1>1 DEF IInv, WaitInv, TypeOK
<1>3. wait'[q] = IF NonEmpty(q) /\ deq[q] = 0 THEN wait[q] + 1 ELSE 0
  BY NextIs DEF Observe
<1>4. Steps(g, q) \in 1 .. N /\ Steps(h, q) \in 1 .. N /\ Steps(h, g) \in 1 .. N
  BY StepsType
<1>5. CASE ~(NonEmpty(q) /\ deq[q] = 0)
  BY <1>2, <1>3, <1>4, <1>5, SchedulerAssumption
<1>6. CASE NonEmpty(q) /\ deq[q] = 0
  <2>1. FirstAfter(h, g) /\ q # g
    BY <1>1, <1>6 DEF AllEmpty
  <2>2. Steps(h, g) < Steps(h, q)
    <3>1. ~(Steps(h, q) < Steps(h, g))
      BY <1>6, <2>1 DEF FirstAfter
    <3>2. Steps(h, q) # Steps(h, g)
      BY <2>1, StepsInjective
    <3> QED
      BY <1>4, <3>1, <3>2, SchedulerAssumption
  <2>3. Steps(g, q) < Steps(h, q)
    BY <2>2, MovedHead
  <2> QED
    BY <1>2, <1>3, <1>4, <1>6, <2>3, SchedulerAssumption
<1> QED
  BY <1>5, <1>6

\* ... two busy queues stay level ...
LEMMA NextLeadInv == IInv /\ Next => LeadInv'
<1> SUFFICES ASSUME IInv, Next, NEW x \in Q, NEW a \in Q, NEW b \in Q
             PROVE  /\ lead'[a][b] \in -1 .. 1
                    /\ lsq'[x] /\ lead'[a][b] = 1 => Steps(x, b) < Steps(x, a)
                    /\ lsq'[x] /\ lead'[a][b] = -1 => Steps(x, a) < Steps(x, b)
  BY DEF LeadInv
<1>1. PICK h \in Q, g \in Q :
         /\ \A y \in Q : lsq[y] <=> y = h
         /\ \A y \in Q : lsq'[y] <=> y = g
         /\ \/ g = h /\ AllEmpty /\ \A y \in Q : deq[y] = 0
            \/ FirstAfter(h, g) /\ \A y \in Q : deq[y] = IF y = g THEN 1 ELSE 0
  BY HeadMoves
<1>2. lead'[a][b] = IF NonEmpty(a) /\ NonEmpty(b) THEN lead[a][b] + deq[a] - deq[b] ELSE 0
  BY NextIs DEF Observe
<1>3. /\ lead[a][b] \in -1 .. 1
      /\ lead[a][b] = 1 => Steps(h, b) < Steps(h, a)
      /\ lead[a][b] = -1 => Steps(h, a) < Steps(h, b)
  BY <1>1 DEF IInv, LeadInv
<1>4. /\ Steps(h, a) \in 1 .. N /\ Steps(h, b) \in 1 .. N /\ Steps(h, g) \in 1 .. N
      /\ Steps(g, a) \in 1 .. N /\ Steps(g, b) \in 1 .. N
  BY StepsType
<1>5. CASE ~(NonEmpty(a) /\ NonEmpty(b))
  BY <1>2, <1>5
<1>6. CASE NonEmpty(a) /\ NonEmpty(b)
  <2>1. FirstAfter(h, g) /\ \A y \in Q : deq[y] = IF y = g THEN 1 ELSE 0
    BY <1>1, <1>6 DEF AllEmpty
  <2>2. ASSUME NEW y \in Q, NonEmpty(y), y # g
        PROVE  Steps(h, g) < Steps(h, y) /\ deq[y] = 0
    <3>1. ~(Steps(h, y) < Steps(h, g))
      BY <2>1, <2>2 DEF FirstAfter
    <3>2. Steps(h, y) # Steps(h, g)
      BY <2>2, StepsInjective
    <3>3. Steps(h, y) \in 1 .. N
      BY StepsType
    <3> QED
      BY <1>4, <2>1, <2>2, <3>1, <3>2, <3>3, SchedulerAssumption
  <2>3. CASE a = b
    BY <1>2, <1>3, <1>4, <1>6, <2>1, <2>3, SchedulerAssumption
  <2>4. CASE a # b /\ a = g
    <3>1. Steps(h, g) < Steps(h, b) /\ deq[b] = 0 /\ deq[a] = 1
      BY <1>6, <2>1, <2>2, <2>4
    <3>2. Steps(g, b) < Steps(g, g)
      BY <3>1, MovedHead
    <3>3. lead[a][b] \in -1 .. 0
      BY <1>3, <1>4, <2>4, <3>1, SchedulerAssumption
    <3>4. lead'[a][b] \in 0 .. 1
      BY <1>2, <1>6, <3>1, <3>3
    <3>5. lsq'[x] => x = a
      BY <1>1, <2>4
    <3> QED
      BY <2>4, <3>2, <3>4, <3>5
  <2>5. CASE a # b /\ b = g
    <3>1. Steps(h, g) < Steps(h, a) /\ deq[a] = 0 /\ deq[b] = 1
      BY <1>6, <2>1, <2>2, <2>5
    <3>2. Steps(g, a) < Steps(g, g)
      BY <3>1, MovedHead
    <3>3. lead[a][b] \in 0 .. 1
      BY <1>3, <1>4, <2>5, <3>1, SchedulerAssumption
    <3>4. lead'[a][b] \in -1 .. 0
      BY <1>2, <1>6, <3>1, <3>3
    <3>5. lsq'[x] => x = b
      BY <1>1, <2>5
    <3> QED
      BY <2>5, <3>2, <3>4, <3>5
  <2>6. CASE a # g /\ b # g
    <3>1. /\ Steps(h, g) < Steps(h, a) /\ deq[a] = 0
          /\ Steps(h, g) < Steps(h, b) /\ deq[b] = 0
      BY <1>6, <2>2, <2>6
    <3>2. /\ Steps(g, a) = Steps(h, a) - Steps(h, g)
          /\ Steps(g, b) = Steps(h, b) - Steps(h, g)
      BY <3>1, MovedHead
    <3>3. lead'[a][b] = lead[a][b]
      BY <1>2, <1>3, <1>6, <3>1
    <3>4. lsq'[x] => x = g
      BY <1>1
    <3> QED
      BY <1>3, <1>4, <3>2, <3>3, <3>4, SchedulerAssumption
  <2> QED
    BY <2>3, <2>4, <2>5, <2>6
<1> QED
  BY <1>5, <1>6

\* ... and the sink keeps up.
LEMMA NextSink == IInv /\ Next => SinkKeepsUp'
<1> SUFFICES ASSUME IInv, Next PROVE SinkKeepsUp'
  OBVIOUS
<1>1. Drained = <<>>
  BY SinkDrains DEF IInv, TypeOK
<1>2. out \in Q \cup {NoPkt} /\ out' \in Q \cup {NoPkt}
  BY NextIs DEF IInv, TypeOK
<1>3. PICK pkt \in Q \cup {NoPkt} : sink' = Drained \o Carried(pkt)
  BY <1>2, NextIs
<1>4. Carried(pkt) \in Seq(Q) /\ Len(Carried(pkt)) <= 1
  BY CarriedType
<1> QED
  <2>1. sink' = Carried(pkt)
    BY <1>1, <1>3, <1>4, ConcatEmptySeq
  <2>2. Len(sink') <= 1
    BY <1>4, <2>1
  <2> QED
    BY <2>2 DEF SinkKeepsUp

\* Every step, and the first state, satisfy the constraints within a step.
LEMMA InitIInv == Init => IInv
<1> SUFFICES ASSUME Init PROVE IInv
  OBVIOUS
<1> USE SchedulerAssumption
<1>1. MaxArr \in Nat /\ Room \in Nat /\ MaxArr <= Room
  BY DEF MaxArr, Room
<1>2. len \in [Q -> 0 .. Room]
  <2>1. arr \in [Q -> 0 .. MaxArr]
    BY DEF Init
  <2>2. \A q \in Q : (IF kind = "IMM_QUEUE" THEN arr[q] ELSE 0) \in 0 .. Room
    BY <1>1, <2>1
  <2> QED
    BY <2>2 DEF Init
<1>3. sink \in Seq(Q) /\ Len(sink) <= 1
  <2>1. out \in Q \cup {NoPkt}
    BY DEF Init
  <2>2. Carried(out) \in Seq(Q) /\ Len(Carried(out)) <= 1
    BY <2>1, CarriedType
  <2>3. CASE kind = "IMM_QUEUE"
    <3>1. sink = Carried(out)
      BY <2>3 DEF Init
    <3> QED
      BY <2>2, <3>1
  <2>4. CASE kind # "IMM_QUEUE"
    <3>1. sink = <<>>
      BY <2>4 DEF Init
    <3> QED
      BY <3>1, EmptySeq
  <2> QED
    BY <2>3, <2>4
<1>4. TypeOK
  BY <1>2, <1>3 DEF Init, TypeOK
<1>5. OneHead
  <2>1. N - 1 \in Q
    BY DEF Q
  <2>2. \A q \in Q : lsq[q] <=> q = N - 1
    BY DEF Init
  <2> QED
    BY <2>1, <2>2 DEF OneHead
<1>6. WaitInv
  <2> SUFFICES ASSUME NEW h \in Q, NEW q \in Q PROVE wait[q] + Steps(h, q) <= N
    BY DEF WaitInv
  <2>1. wait[q] = 0 /\ Steps(h, q) \in 1 .. N
    BY StepsType DEF Init
  <2> QED
    BY <2>1
<1>7. LeadInv
  BY DEF Init, LeadInv
<1> QED
  BY <1>3, <1>4, <1>5, <1>6, <1>7 DEF IInv, Init, SinkKeepsUp

\* So each step keeps the invariant ...
LEMMA NextIInv == IInv /\ [Next]_vars => IInv'
<1> SUFFICES ASSUME IInv, [Next]_vars PROVE IInv'
  OBVIOUS
<1>1. CASE Next
  <2>1. OneHead'
    BY <1>1, HeadMoves DEF OneHead
  <2>2. Choice'
    BY <1>1, NextIs
  <2> QED
    BY <1>1, <2>1, <2>2, NextTypeOK, NextWaitInv, NextLeadInv, NextSink DEF IInv
<1>2. CASE UNCHANGED vars
  BY <1>2 DEF vars, IInv, TypeOK, OneHead, Choice, SinkKeepsUp, WaitInv, LeadInv,
              ServeFirst, QueuesAllow, Output, FirstAfter, NonEmpty, AllEmpty,
              Room, MaxArr
<1> QED
  BY <1>1, <1>2

\* ... and it holds throughout an encoding.
LEMMA Invariant == Spec => []IInv
BY InitIInv, NextIInv, PTL DEF Spec

(* Theorems **************************************************************)

\* The solver's valuations stay in the ranges the constraints intend.
THEOREM RoundRobinTypeOK == Spec => []TypeOK
<1>1. IInv => TypeOK
  BY DEF IInv
<1> QED
  BY <1>1, Invariant, PTL

\* Exactly one queue is the last served one, although no constraint says so.
THEOREM RoundRobinOneHead == Spec => []OneHead
<1>1. IInv => OneHead
  BY DEF IInv
<1> QED
  BY <1>1, Invariant, PTL

\* No queue with packets is passed over N times in a row.
THEOREM RoundRobinBoundedWait == Spec => []BoundedWait
<1>1. IInv => BoundedWait
  <2> SUFFICES ASSUME IInv, NEW q \in Q PROVE wait[q] < N
    BY DEF BoundedWait
  <2>1. PICK h \in Q : lsq[h]
    BY DEF IInv, OneHead
  <2>2. wait[q] + Steps(h, q) <= N
    BY <2>1 DEF IInv, WaitInv
  <2>3. wait[q] \in Nat
    BY DEF IInv, TypeOK
  <2> QED
    BY <2>2, <2>3, StepsType, SchedulerAssumption
<1> QED
  BY <1>1, Invariant, PTL

\* Two queues that both keep having packets are served equally, to one packet.
THEOREM RoundRobinFairShare == Spec => []FairShare
<1>1. IInv => FairShare
  BY DEF IInv, LeadInv, FairShare
<1> QED
  BY <1>1, Invariant, PTL

\* The sink never holds more than the packet it is about to drain.
THEOREM RoundRobinSink == Spec => []SinkKeepsUp
<1>1. IInv => SinkKeepsUp
  BY DEF IInv
<1> QED
  BY <1>1, Invariant, PTL

\* In every state one non-empty queue is served, unless all are empty.
LEMMA ServesOne == IInv => Server!Serves(len, deq)
<1> SUFFICES ASSUME IInv PROVE Server!Serves(len, deq)
  OBVIOUS
<1>1. PICK h \in Q : \A q \in Q : lsq[q] <=> q = h
  BY DEF IInv, OneHead
<1>2. \A q \in Q : len[q] \in Nat
  <2>1. len \in [Q -> 0 .. Room] /\ Room \in Nat
    BY SchedulerAssumption DEF IInv, TypeOK, Room
  <2> QED
    BY <2>1
<1>3. CASE AllEmpty /\ \A q \in Q : deq[q] = 0
  BY <1>2, <1>3 DEF AllEmpty, NonEmpty, Server!Serves
<1>4. ASSUME NEW s \in Q, FirstAfter(h, s),
             \A q \in Q : deq[q] = IF q = s THEN 1 ELSE 0
      PROVE  Server!Serves(len, deq)
  <2>1. len[s] > 0
    BY <1>4 DEF FirstAfter, NonEmpty
  <2>2. deq = [x \in Q |-> IF x = s THEN 1 ELSE 0]
    BY <1>4 DEF IInv, TypeOK
  <2> QED
    BY <2>1, <2>2 DEF Server!Serves
<1> QED
  BY <1>1, <1>3, <1>4, OneIsServed DEF IInv

\* The packet sent is the one of the queue that is served.
LEMMA OutputFollows == IInv => OutputIsServed
<1> SUFFICES ASSUME IInv PROVE OutputIsServed
  OBVIOUS
<1>1. out \in Q \cup {NoPkt} /\ deq \in [Q -> 0 .. 1]
  BY DEF IInv, TypeOK
<1>2. /\ \A q \in Q : deq[q] = 1 => out = q
      /\ AllEmpty => out = NoPkt
  BY DEF IInv, Choice, Output
<1>3. NoPkt \notin Q
  BY SchedulerAssumption DEF NoPkt, Q
<1>4. CASE \A q \in Q : len[q] = 0 /\ deq[q] = 0
  BY <1>2, <1>3, <1>4 DEF OutputIsServed, AllEmpty, NonEmpty
<1>5. CASE \E s \in Q : deq = [x \in Q |-> IF x = s THEN 1 ELSE 0]
  BY <1>2, <1>3, <1>5 DEF OutputIsServed
<1> QED
  BY <1>4, <1>5, ServesOne DEF Server!Serves

\* A packet is sent exactly when a queue is served, and it is that queue's.
THEOREM RoundRobinOutput == Spec => []OutputIsServed
BY OutputFollows, Invariant, PTL

\* Packets only enter a queue by arriving and only leave it by being served.
LEMMA LenStep ==
    ASSUME IInv, Next
    PROVE  \E in \in [Q -> 0 .. MaxEnq] :
              len' = [q \in Q |-> Server!Smaller(Size, len[q] - deq[q] + in[q])]
<1> DEFINE in == IF kind = "IMM_QUEUE" THEN arr' ELSE arr
<1> USE SchedulerAssumption
<1>1. MaxArr \in Nat /\ Room \in Nat /\ MaxArr <= MaxEnq /\ Room <= Size
  BY DEF MaxArr, Room
<1>2. in \in [Q -> 0 .. MaxArr]
  <2>1. arr \in [Q -> 0 .. MaxArr] /\ arr' \in [Q -> 0 .. MaxArr]
    BY NextIs DEF IInv, TypeOK
  <2> QED
    BY <2>1
<1>3. \A q \in Q : in[q] \in 0 .. MaxArr /\ in[q] \in 0 .. MaxEnq
  BY <1>1, <1>2
<1>4. in \in [Q -> 0 .. MaxEnq]
  BY <1>2, <1>3
<1>5. ASSUME NEW q \in Q
      PROVE  NextLen(q, arr[q], arr'[q]) = Server!Smaller(Size, len[q] - deq[q] + in[q])
  <2>1. NextLen(q, arr[q], arr'[q]) = Smaller(Room, len[q] - deq[q] + in[q])
    BY DEF NextLen
  <2>2. CASE kind # "LINK"
    BY <2>1, <2>2 DEF Room, Smaller, Server!Smaller
  <2>3. CASE kind = "LINK"
    <3>1. deq[q] = len[q] /\ in[q] \in 0 .. 1 /\ Room = 1
      BY <1>3, <2>3 DEF IInv, Choice, QueuesAllow, MaxArr, Room
    <3>2. len[q] \in Nat
      <4>1. len \in [Q -> 0 .. Room]
        BY DEF IInv, TypeOK
      <4> QED
        BY <1>1, <4>1
    <3> QED
      BY <2>1, <3>1, <3>2 DEF Smaller, Server!Smaller
  <2> QED
    BY <2>2, <2>3
<1>6. len' = [q \in Q |-> Server!Smaller(Size, len[q] - deq[q] + in[q])]
  BY <1>5, NextIs
<1> QED
  BY <1>4, <1>6

\* The scheduler is a work-conserving server of one packet per step.
THEOREM RoundRobinImplementsServer == Spec => ImplementsServer
<1>1. Init => Server!Init
  <2> SUFFICES ASSUME Init PROVE Server!Init
    OBVIOUS
  <2>1. IInv
    BY InitIInv
  <2>2. Server!Smaller(Size, MaxEnq) \in Nat /\ MaxArr <= Server!Smaller(Size, MaxEnq)
        /\ MaxArr \in Nat
    BY SchedulerAssumption DEF Server!Smaller, MaxArr
  <2>3. \A q \in Q : (IF kind = "IMM_QUEUE" THEN arr[q] ELSE 0)
                        \in 0 .. Server!Smaller(Size, MaxEnq)
    <3>1. arr \in [Q -> 0 .. MaxArr]
      BY DEF Init
    <3> QED
      BY <2>2, <3>1
  <2>4. len \in [Q -> 0 .. Server!Smaller(Size, MaxEnq)]
    BY <2>3 DEF Init
  <2> QED
    BY <2>1, <2>4, ServesOne DEF Init, Server!Init
<1>0. IInv => Server!Serves(len, deq)
  BY ServesOne
<1>2. IInv /\ (IInv => Server!Serves(len, deq))' /\ IInv' /\ [Next]_vars
      => [Server!Next]_(Server!vars)
  <2> SUFFICES ASSUME IInv, Server!Serves(len, deq)', IInv', [Next]_vars
               PROVE  [Server!Next]_(Server!vars)
    OBVIOUS
  <2>1. CASE Next
    <3>1. Server!Serves(len', deq')
      BY DEF Server!Serves
    <3>2. deq' \in [Q -> 0 .. 1]
      BY <2>1, NextIs
    <3> QED
      BY <2>1, <3>1, <3>2, LenStep DEF Server!Next
  <2>2. CASE UNCHANGED vars
    BY <2>2 DEF vars, Server!vars
  <2> QED
    BY <2>1, <2>2
<1> QED
  BY <1>0, <1>1, <1>2, Invariant, PTL DEF Spec, ImplementsServer, Server!Spec

(* When a choice exists ***************************************************)

\* The constraints of a time step in which queue q holds l[q] packets, h is the
\* head, d the dequeue counts and o the packet sent.
In(k, l, h, d, o) ==
    INSTANCE RoundRobin
        WITH kind <- k, len <- l, lsq <- [q \in Q |-> q = h], deq <- d, out <- o

\* s is served when h is the head and the queues hold l.
First(l, h, s) == l[s] > 0 /\ \A x \in Q : Steps(h, x) < Steps(h, s) => ~(l[x] > 0)

\* The dequeue counts when only the queues in S are served, one packet each.
Serving(S) == [q \in Q |-> IF q \in S THEN 1 ELSE 0]

\* The constraints, in those terms.
LEMMA ChoiceIs ==
    ASSUME NEW k, NEW l, NEW h \in Q, NEW d, NEW o
    PROVE  In(k, l, h, d, o)!Choice <=>
             /\ \A q \in Q : d[q] = IF First(l, h, q) THEN 1 ELSE 0
             /\ \A q \in Q : d[q] <= l[q] /\ (k = "LINK" => d[q] = l[q])
             /\ \A q \in Q : d[q] = 1 => o = q
             /\ (\A q \in Q : ~(l[q] > 0)) => o = NoPkt
<1>1. \A q \in Q : In(k, l, h, d, o)!FirstAfter(h, q) <=> First(l, h, q)
  BY DEF First, Steps, In!FirstAfter, In!NonEmpty, In!Q, In!Steps, Q
<1>2. In(k, l, h, d, o)!ServeFirst <=> \A q \in Q : d[q] = IF First(l, h, q) THEN 1 ELSE 0
  <2>1. In(k, l, h, d, o)!ServeFirst <=>
          \A g \in Q : g = h => \A q \in Q :
             d[q] = IF In(k, l, h, d, o)!FirstAfter(g, q) THEN 1 ELSE 0
    BY DEF In!ServeFirst, In!Q, Q
  <2> QED
    BY <1>1, <2>1
<1>3. In(k, l, h, d, o)!QueuesAllow <=>
        \A q \in Q : d[q] <= l[q] /\ (k = "LINK" => d[q] = l[q])
  BY DEF In!QueuesAllow, In!Q, Q
<1>4. In(k, l, h, d, o)!Output <=> /\ \A q \in Q : d[q] = 1 => o = q
                                   /\ (\A q \in Q : ~(l[q] > 0)) => o = NoPkt
  BY DEF In!Output, In!AllEmpty, In!NonEmpty, In!NoPkt, NoPkt, In!Q, Q
<1> QED
  BY <1>2, <1>3, <1>4 DEF In!Choice

\* At most one queue is first, and one is unless all are empty.
LEMMA FirstExists ==
    ASSUME NEW l \in [Q -> Nat], NEW h \in Q
    PROVE  /\ (\E q \in Q : l[q] > 0) => \E s \in Q : First(l, h, s)
           /\ \A a, b \in Q : First(l, h, a) /\ First(l, h, b) => a = b
<1>1. ASSUME NEW p \in Q, l[p] > 0 PROVE \E s \in Q : First(l, h, s)
  <2> DEFINE T == {Steps(h, q) : q \in {x \in Q : l[x] > 0}}
  <2>1. T \in SUBSET Nat /\ T # {}
    BY <1>1, StepsType, SchedulerAssumption
  <2>2. PICK i \in T : \A j \in T : i <= j
    BY <2>1, LeastNumberExists
  <2>3. PICK s \in Q : l[s] > 0 /\ i = Steps(h, s)
    BY <2>2
  <2>4. ASSUME NEW x \in Q, Steps(h, x) < Steps(h, s), l[x] > 0 PROVE FALSE
    <3>1. Steps(h, s) <= Steps(h, x)
      BY <2>2, <2>3, <2>4
    <3>2. Steps(h, x) \in 1 .. N /\ Steps(h, s) \in 1 .. N
      BY StepsType
    <3> QED
      BY <2>4, <3>1, <3>2, SchedulerAssumption
  <2> QED
    BY <2>3, <2>4 DEF First
<1>2. ASSUME NEW a \in Q, NEW b \in Q, First(l, h, a), First(l, h, b) PROVE a = b
  <2>1. ~(Steps(h, a) < Steps(h, b)) /\ ~(Steps(h, b) < Steps(h, a))
    BY <1>2 DEF First
  <2>2. Steps(h, a) \in 1 .. N /\ Steps(h, b) \in 1 .. N
    BY StepsType
  <2> QED
    BY <2>1, <2>2, StepsInjective, SchedulerAssumption
<1> QED
  BY <1>1, <1>2

\* Queues that are not Links never make the constraints contradict each other:
\* whatever they hold and wherever the head is, exactly one choice satisfies
\* them all (rr_qm.cpp:48-98).
THEOREM RRSatisfiable ==
    \A k \in Kinds \ {"LINK"}, l \in [Q -> Nat], h \in Q :
       \E d \in [Q -> 0 .. 1], o \in Q \cup {NoPkt} :
          \A d2 \in [Q -> 0 .. 1], o2 \in Q \cup {NoPkt} :
             In(k, l, h, d2, o2)!Choice <=> d2 = d /\ o2 = o
<1> SUFFICES ASSUME NEW k \in Kinds \ {"LINK"}, NEW l \in [Q -> Nat], NEW h \in Q
             PROVE  \E d \in [Q -> 0 .. 1], o \in Q \cup {NoPkt} :
                       \A d2 \in [Q -> 0 .. 1], o2 \in Q \cup {NoPkt} :
                          In(k, l, h, d2, o2)!Choice <=> d2 = d /\ o2 = o
  OBVIOUS
<1>1. CASE \A q \in Q : ~(l[q] > 0)
  <2> DEFINE d == Serving({})
  <2>1. d \in [Q -> 0 .. 1] /\ \A q \in Q : d[q] = 0 /\ ~First(l, h, q)
    BY <1>1 DEF Serving, First
  <2> HIDE DEF d
  <2>2. ASSUME NEW d2 \in [Q -> 0 .. 1], NEW o2 \in Q \cup {NoPkt}
        PROVE  In(k, l, h, d2, o2)!Choice <=> d2 = d /\ o2 = NoPkt
    <3>1. (\A q \in Q : d2[q] = 0) <=> d2 = d
      BY <2>1
    <3>2. \A q \in Q : 0 <= l[q] /\ k # "LINK"
      OBVIOUS
    <3> QED
      BY <1>1, <2>1, <3>1, <3>2, ChoiceIs
  <2> QED
    BY <2>1, <2>2
<1>2. CASE \E q \in Q : l[q] > 0
  <2>1. PICK s \in Q : First(l, h, s)
    BY <1>2, FirstExists
  <2>2. \A q \in Q : First(l, h, q) <=> q = s
    BY <2>1, FirstExists
  <2>3. l[s] > 0 /\ \A q \in Q : l[q] \in Nat
    BY <2>1 DEF First
  <2> DEFINE d == Serving({s})
  <2>4. d \in [Q -> 0 .. 1] /\ \A q \in Q : d[q] = IF q = s THEN 1 ELSE 0
    BY DEF Serving
  <2> HIDE DEF d
  <2>5. ASSUME NEW d2 \in [Q -> 0 .. 1], NEW o2 \in Q \cup {NoPkt}
        PROVE  In(k, l, h, d2, o2)!Choice <=> d2 = d /\ o2 = s
    <3>1. (\A q \in Q : d2[q] = IF First(l, h, q) THEN 1 ELSE 0) <=> d2 = d
      BY <2>2, <2>4
    <3>2. ASSUME d2 = d PROVE \A q \in Q : d2[q] <= l[q]
      BY <2>3, <2>4, <3>2
    <3>3. ASSUME d2 = d PROVE (\A q \in Q : d2[q] = 1 => o2 = q) <=> o2 = s
      BY <2>4, <3>3
    <3> QED
      BY <1>2, <3>1, <3>2, <3>3, ChoiceIs
  <2> QED
    BY <2>4, <2>5
<1> QED
  BY <1>1, <1>2

\* Links do: when two of them hold a packet, each must give it away, but only
\* the first after the head may.  So the queues of RRScheduler must be of
\* another type, which add_nodes leaves unset (rr_scheduler.cpp:20-29).
THEOREM RRLinksUnsatisfiable ==
    \A l \in [Q -> 0 .. 1], h, a, b \in Q :
       a # b /\ l[a] = 1 /\ l[b] = 1 =>
          \A d \in [Q -> 0 .. 1], o \in Q \cup {NoPkt} : ~In("LINK", l, h, d, o)!Choice
<1> SUFFICES ASSUME NEW l \in [Q -> 0 .. 1], NEW h \in Q, NEW a \in Q, NEW b \in Q,
                    a # b, l[a] = 1, l[b] = 1,
                    NEW d \in [Q -> 0 .. 1], NEW o \in Q \cup {NoPkt},
                    In("LINK", l, h, d, o)!Choice
             PROVE  FALSE
  OBVIOUS
<1>1. \A q \in Q : d[q] = l[q] /\ d[q] = IF First(l, h, q) THEN 1 ELSE 0
  BY ChoiceIs
<1>2. First(l, h, a) /\ First(l, h, b)
  BY <1>1
<1>3. l \in [Q -> Nat]
  OBVIOUS
<1> QED
  BY <1>2, <1>3, FirstExists

(* Strict priority *********************************************************)

\* The type correctness that the induction needs.
PartTypeOK ==
    /\ len \in [Q -> 0 .. Size]
    /\ arr \in [Q -> 0 .. MaxEnq]
    /\ deq \in [Q -> 0 .. 1]
    /\ out \in Q \cup {NoPkt}
    /\ cblocked \in [Q -> Nat]
    /\ charge \in [Q -> Nat]
    /\ work \in [Q -> Nat]

\* A blocked queue has had the steps it was blocked for, but this one, worth of
\* its work done, and what is left of the work is what is above it.
WorkInv ==
    \A q \in Q :
       IF q \in Blocked
       THEN cblocked[q] + SumAbove(q, len) + SumAbove(q, arr) <= work[q] + 1
       ELSE cblocked[q] = 0 /\ work[q] = 0

PriorityIInv == PartTypeOK /\ PriorityChoice /\ BlockedByHigher /\ WorkInv

(* Who is served *********************************************************)

\* Among non-empty queues one has the highest priority.
LEMMA SomeQueueIsHighest ==
    ASSUME NEW q \in Q, NonEmpty(q)
    PROVE  \E s \in Q : NonEmpty(s) /\ s <= q /\ \A x \in Higher(s) : ~NonEmpty(x)
<1> DEFINE T == {x \in Q : NonEmpty(x)}
<1>1. T \in SUBSET Nat /\ T # {}
  BY DEF Q
<1>2. PICK s \in T : \A x \in T : s <= x
  BY <1>1, LeastNumberExists
<1>3. \A x \in Higher(s) : ~NonEmpty(x)
  <2> SUFFICES ASSUME NEW x \in Higher(s), NonEmpty(x) PROVE FALSE
    OBVIOUS
  <2>1. x \in Q /\ x < s /\ x \in T
    BY DEF Higher
  <2>2. s <= x /\ s \in Int /\ x \in Int
    BY <1>2, <2>1 DEF Q
  <2> QED
    BY <2>1, <2>2
<1> QED
  BY <1>2, <1>3

\* A queue that is passed over is passed over for a higher one.
LEMMA PassedOverForHigher ==
    ASSUME PriorityChoice, NEW q \in Blocked
    PROVE  ServedAbove(q)
<1>1. q \in Q /\ NonEmpty(q) /\ deq[q] = 0
  BY DEF Blocked
<1>2. PICK s \in Q : NonEmpty(s) /\ s <= q /\ \A x \in Higher(s) : ~NonEmpty(x)
  BY <1>1, SomeQueueIsHighest
<1>3. deq[s] = 1
  BY <1>2 DEF PriorityChoice, DeqCnt
<1>4. s < q
  BY <1>1, <1>2, <1>3 DEF Q
<1> QED
  BY <1>3, <1>4 DEF ServedAbove, Higher

\* One queue is served, unless all are empty.
LEMMA PriorityServesOne == PriorityIInv => Server!Serves(len, deq)
<1> SUFFICES ASSUME PriorityIInv PROVE Server!Serves(len, deq)
  OBVIOUS
<1>1. \A q \in Q : len[q] \in Nat
  <2>1. len \in [Q -> 0 .. Size] /\ Size \in Nat
    BY SchedulerAssumption DEF PriorityIInv, PartTypeOK
  <2> QED
    BY <2>1
<1>2. deq = [q \in Q |-> DeqCnt(q)]
  BY DEF PriorityIInv, PriorityChoice
<1>3. CASE AllEmpty
  <2>1. \A q \in Q : len[q] = 0 /\ deq[q] = 0
    BY <1>1, <1>2, <1>3 DEF AllEmpty, NonEmpty, DeqCnt
  <2> QED
    BY <2>1 DEF Server!Serves
<1>4. ASSUME NEW q \in Q, NonEmpty(q) PROVE Server!Serves(len, deq)
  <2>1. PICK s \in Q : NonEmpty(s) /\ \A x \in Higher(s) : ~NonEmpty(x)
    BY <1>4, SomeQueueIsHighest
  <2>2. ASSUME NEW x \in Q PROVE DeqCnt(x) = IF x = s THEN 1 ELSE 0
    <3>1. CASE x = s
      BY <2>1, <3>1 DEF DeqCnt
    <3>2. CASE x < s
      BY <2>1, <3>2 DEF DeqCnt, Higher, Q
    <3>3. CASE s < x
      BY <2>1, <3>3 DEF DeqCnt, Higher, Q
    <3> QED
      BY <3>1, <3>2, <3>3 DEF Q
  <2>3. deq = [x \in Q |-> IF x = s THEN 1 ELSE 0]
    BY <1>2, <2>2
  <2> QED
    BY <2>1, <2>3 DEF Server!Serves, NonEmpty
<1> QED
  BY <1>3, <1>4 DEF AllEmpty

\* The packet sent is the one of the queue that is served.
LEMMA PriorityOutputFollows == PriorityIInv => OutputIsServed
<1> SUFFICES ASSUME PriorityIInv PROVE OutputIsServed
  OBVIOUS
<1>1. out \in Q \cup {NoPkt} /\ deq \in [Q -> 0 .. 1]
  BY DEF PriorityIInv, PartTypeOK
<1>2. /\ \A q \in Q : deq[q] = 1 => out = q
      /\ AllEmpty => out = NoPkt
  BY DEF PriorityIInv, PriorityChoice, Output
<1>3. NoPkt \notin Q
  BY SchedulerAssumption DEF NoPkt, Q
<1>4. CASE \A q \in Q : len[q] = 0 /\ deq[q] = 0
  BY <1>2, <1>3, <1>4 DEF OutputIsServed, AllEmpty, NonEmpty
<1>5. CASE \E s \in Q : deq = [x \in Q |-> IF x = s THEN 1 ELSE 0]
  BY <1>2, <1>3, <1>5 DEF OutputIsServed
<1> QED
  BY <1>4, <1>5, PriorityServesOne DEF Server!Serves

(* Loops *****************************************************************)

\* What holds before the first round and is kept by every round holds after
\* any number of rounds.
LEMMA UpTo ==
    ASSUME NEW m \in Nat, NEW S, 0 \in S, \A n \in 0 .. m - 1 : n \in S => n + 1 \in S
    PROVE  \A n \in 0 .. m : n \in S
<1> DEFINE T == {n \in 0 .. m : n \notin S}
<1> SUFFICES ASSUME T # {} PROVE FALSE
  OBVIOUS
<1>1. PICK k \in T : \A n \in T : k <= n
  <2>1. T \in SUBSET Nat
    OBVIOUS
  <2> QED
    BY <2>1, LeastNumberExists
<1>2. k - 1 \in 0 .. m - 1 /\ k - 1 \notin T /\ (k - 1) + 1 = k
  BY <1>1
<1> QED
  BY <1>2

\* A loop over naturals that starts from 0 has a value after each round.
LEMMA LoopHasValues ==
    ASSUME NEW m \in Nat, NEW round \in [1 .. m -> [Nat -> Nat]]
    PROVE  \E f \in [0 .. m -> Nat] :
              f[0] = 0 /\ \A n \in 1 .. m : f[n] = round[n][f[n - 1]]
<1> DEFINE Values(f, k) ==
              f[0] = 0 /\ \A n \in 1 .. k : f[n] = round[n][f[n - 1]]
           S == {k \in 0 .. m : \E f \in [0 .. k -> Nat] : Values(f, k)}
<1>1. 0 \in S
  <2> DEFINE h == [n \in 0 .. 0 |-> 0]
  <2>1. h \in [0 .. 0 -> Nat] /\ Values(h, 0)
    OBVIOUS
  <2> HIDE DEF h, Values
  <2> QED
    BY <2>1
<1>2. ASSUME NEW k \in 0 .. m - 1, k \in S PROVE k + 1 \in S
  <2>1. PICK f \in [0 .. k -> Nat] : Values(f, k)
    BY <1>2
  <2> DEFINE v == round[k + 1][f[k]]
             h == [n \in 0 .. k + 1 |-> IF n = k + 1 THEN v ELSE f[n]]
  <2>2. v \in Nat
    <3>1. k + 1 \in 1 .. m /\ k \in 0 .. k
      OBVIOUS
    <3>2. round[k + 1] \in [Nat -> Nat] /\ f[k] \in Nat
      BY <3>1
    <3> QED
      BY <3>2
  <2>3. v = round[k + 1][f[k]] /\ k \in Nat /\ k + 1 \in 0 .. m
    OBVIOUS
  <2> HIDE DEF v
  <2>4. h \in [0 .. k + 1 -> Nat]
    <3>1. ASSUME NEW n \in 0 .. k + 1, n # k + 1 PROVE f[n] \in Nat
      <4>1. n \in 0 .. k
        BY <2>3, <3>1
      <4> QED
        BY <4>1
    <3> QED
      BY <2>2, <3>1
  <2>5. h[k + 1] = v /\ \A n \in 0 .. k : h[n] = f[n]
    BY <2>3
  <2> HIDE DEF h
  <2>6. Values(h, k + 1)
    <3>1. h[0] = 0
      <4>1. 0 \in 0 .. k /\ f[0] = 0
        BY <2>1, <2>3
      <4> QED
        BY <4>1, <2>5
    <3>2. ASSUME NEW n \in 1 .. k + 1 PROVE h[n] = round[n][h[n - 1]]
      <4>1. CASE n = k + 1
        <5>1. n - 1 = k /\ k \in 0 .. k
          BY <4>1, <2>3
        <5> QED
          BY <4>1, <5>1, <2>3, <2>5
      <4>2. CASE n # k + 1
        <5>1. n \in 1 .. k /\ n \in 0 .. k /\ n - 1 \in 0 .. k
          BY <4>2, <2>3
        <5> QED
          BY <5>1, <2>1, <2>5
      <4> QED
        BY <4>1, <4>2
    <3> QED
      BY <3>1, <3>2
  <2> HIDE DEF Values
  <2> QED
    BY <2>3, <2>4, <2>6
<1> HIDE DEF S
<1>3. \A k \in 0 .. m : k \in S
  BY <1>1, <1>2, UpTo
<1>4. m \in S
  BY <1>3
<1> QED
  BY <1>4 DEF S

\* Two functions that start alike and go on alike are alike.
LEMMA LoopIsUnique ==
    ASSUME NEW m \in Nat, NEW f, NEW h, f[0] = h[0],
           \A n \in 1 .. m : f[n - 1] = h[n - 1] => f[n] = h[n]
    PROVE  \A n \in 0 .. m : f[n] = h[n]
<1> DEFINE S == {n \in 0 .. m : f[n] = h[n]}
<1>1. 0 \in S
  OBVIOUS
<1>2. ASSUME NEW n \in 0 .. m - 1, n \in S PROVE n + 1 \in S
  <2>1. n + 1 \in 1 .. m /\ n + 1 \in 0 .. m /\ (n + 1) - 1 = n /\ f[n] = h[n]
    BY <1>2
  <2>2. f[n + 1] = h[n + 1]
    BY <2>1
  <2> QED
    BY <2>1, <2>2
<1> HIDE DEF S
<1>3. \A n \in 0 .. m : n \in S
  BY <1>1, <1>2, UpTo
<1> QED
  BY <1>3 DEF S


(* Work above a queue ****************************************************)

\* A number of packets for each queue.
Amounts == [Q -> Nat]

\* The sum over the queues above q, queue by queue.
LEMMA SumStep ==
    ASSUME NEW f \in Amounts
    PROVE  /\ SumAbove(0, f) = 0
           /\ \A q \in 0 .. N : SumAbove(q, f) \in Nat
           /\ \A q \in 1 .. N : SumAbove(q, f) = SumAbove(q - 1, f) + f[q - 1]
<1> DEFINE round == [n \in 1 .. N |-> [v \in Nat |-> v + f[n - 1]]]
<1>0. N \in Nat /\ \A n \in 1 .. N : f[n - 1] \in Nat
  BY SchedulerAssumption DEF Amounts, Q
<1>1. round \in [1 .. N -> [Nat -> Nat]]
  BY <1>0
<1> HIDE DEF round
<1>2. PICK sum \in [0 .. N -> Nat] :
         sum[0] = 0 /\ \A n \in 1 .. N : sum[n] = round[n][sum[n - 1]]
  BY <1>0, <1>1, LoopHasValues
<1>3. \A n \in 1 .. N : sum[n] = sum[n - 1] + f[n - 1]
  <2> TAKE n \in 1 .. N
  <2>1. sum[n - 1] \in Nat
    BY <1>0
  <2> QED
    BY <1>2, <2>1 DEF round
<1>4. ASSUME NEW q \in 0 .. N PROVE SumAbove(q, f) = sum[q]
  <2> DEFINE Loop(g) == g = [x \in 0 .. q |-> IF x = 0 THEN 0 ELSE g[x - 1] + f[x - 1]]
             g0 == CHOOSE g : Loop(g)
             h0 == [x \in 0 .. q |-> sum[x]]
  <2>1. ASSUME NEW x \in 0 .. q
        PROVE  h0[x] = IF x = 0 THEN 0 ELSE h0[x - 1] + f[x - 1]
    <3>1. CASE x = 0
      BY <1>2, <3>1
    <3>2. CASE x # 0
      <4>1. x - 1 \in 0 .. q /\ x \in 1 .. N
        BY <1>0, <3>2
      <4> QED
        BY <1>3, <3>2, <4>1
    <3> QED
      BY <3>1, <3>2
  <2>2. Loop(h0)
    BY <2>1
  <2>3. Loop(g0)
    BY <2>2
  <2>4. SumAbove(q, f) = g0[q]
    BY DEF SumAbove
  <2>5. h0[q] = sum[q]
    BY <1>0
  <2>7. q \in Nat
    BY <1>0
  <2> HIDE DEF g0, h0
  <2>6. \A x \in 0 .. q : g0[x] = h0[x]
    <3>1. g0[0] = h0[0]
      BY <2>2, <2>3, <2>7
    <3>2. ASSUME NEW x \in 1 .. q, g0[x - 1] = h0[x - 1] PROVE g0[x] = h0[x]
      <4>1. x \in 0 .. q
        OBVIOUS
      <4> QED
        BY <2>2, <2>3, <3>2, <4>1
    <3> HIDE DEF Loop
    <3> QED
      BY <2>7, <3>1, <3>2, LoopIsUnique
  <2> QED
    BY <2>4, <2>5, <2>6, <2>7
<1>5. \A q \in 1 .. N : q \in 0 .. N /\ q - 1 \in 0 .. N
  BY <1>0
<1>6. 0 \in 0 .. N
  BY <1>0
<1> QED
  BY <1>2, <1>3, <1>4, <1>5, <1>6

\* Amounts that add up queue by queue add up above any queue.
LEMMA SumsAdd ==
    ASSUME NEW f \in Amounts, NEW d \in Amounts, NEW g \in Amounts, NEW h \in Amounts,
           \A x \in Q : f[x] + d[x] <= g[x] + h[x]
    PROVE  \A q \in Q : SumAbove(q, f) + SumAbove(q, d) <= SumAbove(q, g) + SumAbove(q, h)
<1> DEFINE P(q) == SumAbove(q, f) + SumAbove(q, d) <= SumAbove(q, g) + SumAbove(q, h)
           S == {q \in 0 .. N : P(q)}
<1>0. N \in Nat /\ 0 \in 0 .. N /\ \A q \in Q : q \in 0 .. N
  BY SchedulerAssumption DEF Q
<1>1. 0 \in S
  <2>1. /\ SumAbove(0, f) = 0 /\ SumAbove(0, d) = 0
        /\ SumAbove(0, g) = 0 /\ SumAbove(0, h) = 0
    BY SumStep
  <2> QED
    BY <1>0, <2>1
<1>2. ASSUME NEW q \in 0 .. N - 1, q \in S PROVE q + 1 \in S
  <2>1. q + 1 \in 1 .. N /\ q + 1 \in 0 .. N /\ q \in 0 .. N /\ (q + 1) - 1 = q /\ q \in Q
    BY <1>0 DEF Q
  <2>2. /\ SumAbove(q + 1, f) = SumAbove(q, f) + f[q]
        /\ SumAbove(q + 1, d) = SumAbove(q, d) + d[q]
        /\ SumAbove(q + 1, g) = SumAbove(q, g) + g[q]
        /\ SumAbove(q + 1, h) = SumAbove(q, h) + h[q]
    BY <2>1, SumStep
  <2>3. /\ SumAbove(q, f) \in Nat /\ SumAbove(q, d) \in Nat
        /\ SumAbove(q, g) \in Nat /\ SumAbove(q, h) \in Nat
    BY <2>1, SumStep
  <2>4. f[q] \in Nat /\ d[q] \in Nat /\ g[q] \in Nat /\ h[q] \in Nat
    BY <2>1 DEF Amounts
  <2>5. P(q) /\ f[q] + d[q] <= g[q] + h[q]
    BY <1>2, <2>1
  <2>6. P(q + 1)
    BY <2>2, <2>3, <2>4, <2>5
  <2> QED
    BY <2>1, <2>6
<1> HIDE DEF S
<1>3. \A q \in 0 .. N : q \in S
  BY <1>0, <1>1, <1>2, UpTo
<1> QED
  BY <1>0, <1>3 DEF S

\* Something above q is at least one packet above q.
LEMMA SumIsPositive ==
    ASSUME NEW f \in Amounts, NEW s \in Q, f[s] > 0, NEW q \in Q, s < q
    PROVE  SumAbove(q, f) >= 1
<1> DEFINE S == {n \in 0 .. N : s < n => SumAbove(n, f) >= 1}
<1>0. N \in Nat /\ s \in Nat /\ q \in 0 .. N /\ 0 \in 0 .. N
  BY SchedulerAssumption DEF Q
<1>1. 0 \in S
  BY <1>0
<1>2. ASSUME NEW n \in 0 .. N - 1, n \in S PROVE n + 1 \in S
  <2>1. n + 1 \in 1 .. N /\ n + 1 \in 0 .. N /\ n \in 0 .. N /\ (n + 1) - 1 = n /\ n \in Q
    BY <1>0 DEF Q
  <2>2. SumAbove(n + 1, f) = SumAbove(n, f) + f[n] /\ SumAbove(n, f) \in Nat
    BY <2>1, SumStep
  <2>3. f[n] \in Nat /\ f[s] \in Nat
    BY <2>1 DEF Amounts
  <2>4. s < n => SumAbove(n, f) >= 1
    BY <1>2
  <2>5. s < n + 1 => s < n \/ s = n
    BY <1>0
  <2>6. s < n + 1 => SumAbove(n + 1, f) >= 1
    BY <2>2, <2>3, <2>4, <2>5
  <2> QED
    BY <2>1, <2>6
<1> HIDE DEF S
<1>3. \A n \in 0 .. N : n \in S
  BY <1>0, <1>1, <1>2, UpTo
<1> QED
  BY <1>0, <1>3 DEF S

(* The invariant *********************************************************)

\* Nothing has been passed over before the first step.
LEMMA PriorityInitIInv == PriorityInit => PriorityIInv
<1> SUFFICES ASSUME PriorityInit PROVE PriorityIInv
  OBVIOUS
<1> USE SchedulerAssumption
<1>1. PartTypeOK
  <2>1. len \in [Q -> 0 .. Size]
    BY DEF PriorityInit
  <2>2. cblocked \in [Q -> Nat]
    BY DEF PriorityInit, CountBlocked
  <2> QED
    BY <2>1, <2>2 DEF PriorityInit, PartTypeOK
<1>2. BlockedByHigher
  <2>1. Blocked = {}
    BY DEF PriorityInit, Blocked, NonEmpty
  <2> QED
    BY <2>1 DEF PriorityInit, BlockedByHigher, CountBlocked
<1>3. WorkInv
  <2>1. Blocked = {}
    BY DEF PriorityInit, Blocked, NonEmpty
  <2> QED
    BY <2>1 DEF PriorityInit, WorkInv, CountBlocked
<1> QED
  BY <1>1, <1>2, <1>3 DEF PriorityIInv, PriorityInit

\* A step keeps the values in their ranges ...
LEMMA NextPartTypeOK == PriorityIInv /\ PriorityNext => PartTypeOK'
<1> SUFFICES ASSUME PriorityIInv, PriorityNext PROVE PartTypeOK'
  OBVIOUS
<1> USE SchedulerAssumption
<1>1. len' \in [Q -> 0 .. Size]
  <2>1. ASSUME NEW q \in Q PROVE PriorityNextLen(q) \in 0 .. Size
    <3>1. len[q] \in 0 .. Size /\ arr[q] \in 0 .. MaxEnq /\ deq[q] \in 0 .. 1
      BY DEF PriorityIInv, PartTypeOK
    <3>2. deq[q] <= len[q]
      BY DEF PriorityIInv, PriorityChoice
    <3> QED
      BY <3>1, <3>2 DEF PriorityNextLen, Smaller
  <2> QED
    BY <2>1 DEF PriorityNext
<1>2. cblocked' \in [Q -> Nat]
  <2>1. cblocked \in [Q -> Nat]
    BY DEF PriorityIInv, PartTypeOK
  <2>2. \A q \in Q : cblocked[q] + 1 \in Nat
    BY <2>1
  <2>3. cblocked' = CountBlocked(Blocked', cblocked)
    BY DEF PriorityNext
  <2> QED
    BY <2>2, <2>3 DEF CountBlocked
<1>3. charge' \in [Q -> Nat]
  <2>1. charge \in [Q -> Nat]
    BY DEF PriorityIInv, PartTypeOK
  <2>2. \A q \in Q : charge[q] + (IF ServedAbove(q)' THEN 1 ELSE 0) \in Nat
    BY <2>1
  <2> QED
    BY <2>2 DEF PriorityNext
<1>4. work' \in [Q -> Nat]
  <2>1. len' \in Amounts /\ arr' \in Amounts
    BY <1>1 DEF PriorityNext, Amounts
  <2>2. ASSUME NEW q \in Q PROVE SumAbove(q, len') \in Nat /\ SumAbove(q, arr') \in Nat
    <3>1. q \in 0 .. N
      BY DEF Q
    <3> QED
      BY <2>1, <3>1, SumStep
  <2>3. work \in [Q -> Nat]
    BY DEF PriorityIInv, PartTypeOK
  <2>4. work' = [q \in Q |-> IF q \notin Blocked' THEN 0
                             ELSE SumAbove(q, arr') +
                                  (IF q \in Blocked THEN work[q] ELSE SumAbove(q, len'))]
    BY DEF PriorityNext, SumAbove
  <2> QED
    BY <2>2, <2>3, <2>4
<1> QED
  BY <1>1, <1>2, <1>3, <1>4 DEF PriorityNext, PartTypeOK

\* Every passed-over queue is charged to a higher one.
BlamedHigher == \A q \in Blocked : ServedAbove(q)

\* ... and a queue passed over once more has a higher one to blame.
LEMMA NextBlockedByHigher ==
    PriorityIInv /\ BlamedHigher' /\ PriorityNext => BlockedByHigher'
BY DEF BlamedHigher, PriorityIInv, BlockedByHigher, PriorityNext, CountBlocked

\* Each step a queue is blocked takes one packet of the work above it.
LEMMA NextWorkInv == PriorityIInv /\ PartTypeOK' /\ PriorityNext => WorkInv'
<1> SUFFICES ASSUME PriorityIInv, PartTypeOK', PriorityNext, NEW q \in Q
             PROVE  IF q \in Blocked'
                    THEN cblocked'[q] + SumAbove(q, len') + SumAbove(q, arr') <= work'[q] + 1
                    ELSE cblocked'[q] = 0 /\ work'[q] = 0
  BY DEF WorkInv, SumAbove
<1> USE SchedulerAssumption
<1>1. cblocked' = CountBlocked(Blocked', cblocked)
  BY DEF PriorityNext
<1>2. work'[q] = IF q \notin Blocked' THEN 0
                 ELSE SumAbove(q, arr') +
                      (IF q \in Blocked THEN work[q] ELSE SumAbove(q, len'))
  BY DEF PriorityNext, SumAbove
<1>3. CASE q \notin Blocked'
  BY <1>1, <1>2, <1>3 DEF CountBlocked
<1>4. CASE q \in Blocked'
  <2>1. cblocked'[q] = cblocked[q] + 1
    BY <1>1, <1>4 DEF CountBlocked
  <2>2. /\ len \in Amounts /\ arr \in Amounts /\ deq \in Amounts
        /\ len' \in Amounts /\ arr' \in Amounts
    BY DEF PriorityIInv, PartTypeOK, Amounts
  <2>3. /\ SumAbove(q, len) \in Nat /\ SumAbove(q, arr) \in Nat /\ SumAbove(q, deq) \in Nat
        /\ SumAbove(q, len') \in Nat /\ SumAbove(q, arr') \in Nat
    <3>1. q \in 0 .. N
      BY DEF Q
    <3> QED
      BY <2>2, <3>1, SumStep
  <2>4. cblocked[q] \in Nat /\ work[q] \in Nat
    BY DEF PriorityIInv, PartTypeOK
  <2>5. CASE q \in Blocked
    <3>1. work'[q] = SumAbove(q, arr') + work[q]
      BY <1>2, <1>4, <2>5
    <3>2. cblocked[q] + SumAbove(q, len) + SumAbove(q, arr) <= work[q] + 1
      BY <2>5 DEF PriorityIInv, WorkInv
    <3>3. \A x \in Q : len'[x] + deq[x] <= len[x] + arr[x]
      <4> TAKE x \in Q
      <4>1. len'[x] = PriorityNextLen(x)
        BY DEF PriorityNext
      <4>2. len[x] \in Nat /\ arr[x] \in Nat /\ deq[x] \in Nat
        BY <2>2 DEF Amounts
      <4> QED
        BY <4>1, <4>2 DEF PriorityNextLen, Smaller
    <3>4. SumAbove(q, len') + SumAbove(q, deq) <= SumAbove(q, len) + SumAbove(q, arr)
      BY <2>2, <3>3, SumsAdd
    <3>5. SumAbove(q, deq) >= 1
      <4>1. PICK s \in Q : s < q /\ deq[s] = 1
        BY <2>5, PassedOverForHigher DEF PriorityIInv, ServedAbove, Higher
      <4> QED
        BY <2>2, <4>1, SumIsPositive
    <3> HIDE DEF Blocked
    <3> QED
      BY <1>4, <2>1, <2>3, <2>4, <3>1, <3>2, <3>4, <3>5
  <2>6. CASE q \notin Blocked
    <3>1. work'[q] = SumAbove(q, arr') + SumAbove(q, len') /\ cblocked[q] = 0
      BY <1>2, <1>4, <2>6 DEF PriorityIInv, WorkInv
    <3> QED
      BY <1>4, <2>1, <2>3, <3>1
  <2> QED
    BY <2>5, <2>6
<1> QED
  BY <1>3, <1>4

\* So each step keeps the invariant ...
LEMMA PriorityNextIInv ==
    PriorityIInv /\ (PriorityChoice => BlamedHigher)' /\ [PriorityNext]_priorityVars
       => PriorityIInv'
<1> SUFFICES ASSUME PriorityIInv, (PriorityChoice => BlamedHigher)',
                    [PriorityNext]_priorityVars
             PROVE  PriorityIInv'
  OBVIOUS
<1>1. CASE PriorityNext
  <2>1. PriorityChoice'
    BY <1>1 DEF PriorityNext
  <2>2. PartTypeOK'
    BY <1>1, NextPartTypeOK
  <2>3. BlockedByHigher'
    BY <1>1, <2>1, NextBlockedByHigher
  <2>4. WorkInv'
    BY <1>1, <2>2, NextWorkInv
  <2> QED
    BY <2>1, <2>2, <2>3, <2>4 DEF PriorityIInv
<1>2. CASE UNCHANGED priorityVars
  <2>1. (PartTypeOK /\ PriorityChoice /\ BlockedByHigher)'
    BY <1>2 DEF priorityVars, PriorityIInv, PartTypeOK, PriorityChoice,
                BlockedByHigher, DeqCnt, Output, NonEmpty, AllEmpty, Higher
  <2>2. Blocked' = Blocked /\ UNCHANGED <<len, arr, cblocked, work>>
    BY <1>2 DEF priorityVars, Blocked, NonEmpty
  <2>3. WorkInv'
    <3>1. ASSUME NEW q \in Q
          PROVE  IF q \in Blocked'
                 THEN cblocked'[q] + SumAbove(q, len') + SumAbove(q, arr') <= work'[q] + 1
                 ELSE cblocked'[q] = 0 /\ work'[q] = 0
      BY <2>2 DEF PriorityIInv, WorkInv
    <3> QED
      BY <3>1 DEF WorkInv, SumAbove
  <2> QED
    BY <2>1, <2>3 DEF PriorityIInv
<1> QED
  BY <1>1, <1>2

\* ... and it holds throughout an encoding.
LEMMA PriorityInvariant == PrioritySpec => []PriorityIInv
<1>1. PriorityChoice => BlamedHigher
  BY PassedOverForHigher DEF BlamedHigher
<1> QED
  BY <1>1, PriorityInitIInv, PriorityNextIInv, PTL DEF PrioritySpec

(* Theorems **************************************************************)

\* CBLOCKED counts exactly the steps in which a higher queue was served.
THEOREM PriorityBlockedByHigher == PrioritySpec => []BlockedByHigher
<1>1. PriorityIInv => BlockedByHigher
  BY DEF PriorityIInv
<1> QED
  BY <1>1, PriorityInvariant, PTL

\* No queue waits longer than the packets above it, one step each.
THEOREM PriorityWaitBounded == PrioritySpec => []WaitBoundedByWork
<1>1. PriorityIInv => WaitBoundedByWork
  <2> SUFFICES ASSUME PriorityIInv, NEW q \in Q PROVE cblocked[q] <= work[q]
    BY DEF WaitBoundedByWork
  <2>1. CASE q \in Blocked
    <3>1. PICK s \in Q : s < q /\ deq[s] = 1
      BY <2>1, PassedOverForHigher DEF PriorityIInv, ServedAbove, Higher
    <3>2. len \in Amounts /\ arr \in Amounts
      BY SchedulerAssumption DEF PriorityIInv, PartTypeOK, Amounts
    <3>3. len[s] > 0
      BY <3>1, <3>2 DEF PriorityIInv, PriorityChoice, Amounts
    <3>4. SumAbove(q, len) >= 1
      BY <3>1, <3>2, <3>3, SumIsPositive
    <3>5. SumAbove(q, len) \in Nat /\ SumAbove(q, arr) \in Nat
      <4>1. q \in 0 .. N
        BY SchedulerAssumption DEF Q
      <4> QED
        BY <3>2, <4>1, SumStep
    <3>6. cblocked[q] + SumAbove(q, len) + SumAbove(q, arr) <= work[q] + 1
      BY <2>1 DEF PriorityIInv, WorkInv
    <3>7. cblocked[q] \in Nat /\ work[q] \in Nat
      BY DEF PriorityIInv, PartTypeOK
    <3> QED
      BY <3>4, <3>5, <3>6, <3>7
  <2>2. CASE q \notin Blocked
    BY <2>2 DEF PriorityIInv, WorkInv
  <2> QED
    BY <2>1, <2>2
<1> QED
  BY <1>1, PriorityInvariant, PTL

\* A packet is sent exactly when a queue is served, and it is that queue's.
THEOREM PriorityOutput == PrioritySpec => []OutputIsServed
BY PriorityOutputFollows, PriorityInvariant, PTL

\* The scheduler is a work-conserving server of one packet per step.
THEOREM PriorityImplementsServer == PrioritySpec => ImplementsServer
<1>1. PriorityInit => Server!Init
  <2> SUFFICES ASSUME PriorityInit PROVE Server!Init
    OBVIOUS
  <2>1. PriorityIInv
    BY PriorityInitIInv
  <2>2. Server!Smaller(Size, MaxEnq) \in Nat
    BY SchedulerAssumption DEF Server!Smaller
  <2>3. len \in [Q -> 0 .. Server!Smaller(Size, MaxEnq)]
    BY <2>2 DEF PriorityInit
  <2> QED
    BY <2>1, <2>3, PriorityServesOne DEF PriorityInit, Server!Init
<1>2. PriorityIInv => Server!Serves(len, deq)
  BY PriorityServesOne
<1>3. /\ PriorityIInv /\ (PriorityIInv => Server!Serves(len, deq))' /\ PriorityIInv'
      /\ [PriorityNext]_priorityVars
      => [Server!Next]_(Server!vars)
  <2> SUFFICES ASSUME PriorityIInv, Server!Serves(len, deq)', [PriorityNext]_priorityVars
               PROVE  [Server!Next]_(Server!vars)
    OBVIOUS
  <2>1. CASE PriorityNext
    <3>1. Server!Serves(len', deq') /\ deq' \in [Q -> 0 .. 1]
      BY <2>1 DEF PriorityNext, Server!Serves
    <3>2. arr \in [Q -> 0 .. MaxEnq]
      BY DEF PriorityIInv, PartTypeOK
    <3>3. len' = [q \in Q |-> Server!Smaller(Size, len[q] - deq[q] + arr[q])]
      BY <2>1 DEF PriorityNext, PriorityNextLen, Smaller, Server!Smaller
    <3> QED
      BY <3>1, <3>2, <3>3 DEF Server!Next
  <2>2. CASE UNCHANGED priorityVars
    BY <2>2 DEF priorityVars, Server!vars
  <2> QED
    BY <2>1, <2>2
<1> QED
  BY <1>1, <1>2, <1>3, PriorityInvariant, PTL
     DEF PrioritySpec, ImplementsServer, Server!Spec

(* When a choice exists ***************************************************)

\* The constraints of a time step in which queue q holds l[q] packets, d are
\* the dequeue counts and o is the packet sent.
InPriority(l, d, o) == INSTANCE StrictPriority WITH len <- l, deq <- d, out <- o

\* s is the highest non-empty queue.
Highest(l, s) == l[s] > 0 /\ \A x \in Q : x < s => ~(l[x] > 0)

\* The constraints, in those terms.
LEMMA PriorityChoiceIs ==
    ASSUME NEW l, NEW d \in [Q -> 0 .. 1], NEW o
    PROVE  InPriority(l, d, o)!PriorityChoice <=>
             /\ \A q \in Q : d[q] = IF Highest(l, q) THEN 1 ELSE 0
             /\ \A q \in Q : d[q] <= l[q]
             /\ \A q \in Q : d[q] = 1 => o = q
             /\ (\A q \in Q : ~(l[q] > 0)) => o = NoPkt
<1>1. ASSUME NEW q \in Q
      PROVE  InPriority(l, d, o)!DeqCnt(q) = IF Highest(l, q) THEN 1 ELSE 0
  BY DEF Highest, InPriority!DeqCnt, InPriority!Higher, InPriority!NonEmpty,
         InPriority!Q, Q
<1>2. d = [q \in Q |-> InPriority(l, d, o)!DeqCnt(q)]
        <=> \A q \in Q : d[q] = IF Highest(l, q) THEN 1 ELSE 0
  BY <1>1
<1>3. InPriority(l, d, o)!Output <=>
         /\ \A q \in Q : d[q] = 1 => o = q
         /\ (\A q \in Q : ~(l[q] > 0)) => o = NoPkt
  BY DEF InPriority!Output, InPriority!AllEmpty, InPriority!NonEmpty,
         InPriority!NoPkt, NoPkt, InPriority!Q, Q
<1> QED
  BY <1>2, <1>3 DEF InPriority!PriorityChoice, InPriority!Q, Q

\* The constraints never contradict each other: whatever the queues hold exactly
\* one choice satisfies them all (priority_qm.cpp:25-74).
THEOREM PrioritySatisfiable ==
    \A l \in [Q -> Nat] :
       \E d \in [Q -> 0 .. 1], o \in Q \cup {NoPkt} :
          \A d2 \in [Q -> 0 .. 1], o2 \in Q \cup {NoPkt} :
             InPriority(l, d2, o2)!PriorityChoice <=> d2 = d /\ o2 = o
<1> SUFFICES ASSUME NEW l \in [Q -> Nat]
             PROVE  \E d \in [Q -> 0 .. 1], o \in Q \cup {NoPkt} :
                       \A d2 \in [Q -> 0 .. 1], o2 \in Q \cup {NoPkt} :
                          InPriority(l, d2, o2)!PriorityChoice <=> d2 = d /\ o2 = o
  OBVIOUS
<1>1. CASE \A q \in Q : ~(l[q] > 0)
  <2> DEFINE d == [q \in Q |-> 0]
  <2>1. d \in [Q -> 0 .. 1] /\ \A q \in Q : d[q] = 0 /\ ~Highest(l, q)
    BY <1>1 DEF Highest
  <2> HIDE DEF d
  <2>2. ASSUME NEW d2 \in [Q -> 0 .. 1], NEW o2 \in Q \cup {NoPkt}
        PROVE  InPriority(l, d2, o2)!PriorityChoice <=> d2 = d /\ o2 = NoPkt
    <3>1. (\A q \in Q : d2[q] = 0) <=> d2 = d
      BY <2>1
    <3>2. \A q \in Q : 0 <= l[q]
      OBVIOUS
    <3> QED
      BY <1>1, <2>1, <3>1, <3>2, PriorityChoiceIs
  <2> QED
    BY <2>1, <2>2
<1>2. CASE \E q \in Q : l[q] > 0
  <2>1. PICK s \in Q : Highest(l, s)
    <3> DEFINE T == {x \in Q : l[x] > 0}
    <3>1. T \in SUBSET Nat /\ T # {}
      BY <1>2 DEF Q
    <3>2. PICK s \in T : \A x \in T : s <= x
      BY <3>1, LeastNumberExists
    <3>3. \A x \in Q : x < s => ~(l[x] > 0)
      BY <3>2, SchedulerAssumption DEF Q
    <3> QED
      BY <3>2, <3>3 DEF Highest
  <2>2. \A q \in Q : Highest(l, q) <=> q = s
    BY <2>1, SchedulerAssumption DEF Highest, Q
  <2>3. l[s] > 0 /\ \A q \in Q : l[q] \in Nat
    BY <2>1 DEF Highest
  <2> DEFINE d == [q \in Q |-> IF q = s THEN 1 ELSE 0]
  <2>4. d \in [Q -> 0 .. 1] /\ \A q \in Q : d[q] = IF q = s THEN 1 ELSE 0
    OBVIOUS
  <2> HIDE DEF d
  <2>5. ASSUME NEW d2 \in [Q -> 0 .. 1], NEW o2 \in Q \cup {NoPkt}
        PROVE  InPriority(l, d2, o2)!PriorityChoice <=> d2 = d /\ o2 = s
    <3>1. (\A q \in Q : d2[q] = IF Highest(l, q) THEN 1 ELSE 0) <=> d2 = d
      BY <2>2, <2>4
    <3>2. ASSUME d2 = d PROVE \A q \in Q : d2[q] <= l[q]
      BY <2>3, <2>4, <3>2
    <3>3. ASSUME d2 = d PROVE (\A q \in Q : d2[q] = 1 => o2 = q) <=> o2 = s
      BY <2>4, <3>3
    <3> QED
      BY <1>2, <3>1, <3>2, <3>3, PriorityChoiceIs
  <2> QED
    BY <2>4, <2>5
<1> QED
  BY <1>1, <1>2

-----------------------------------------------------------------------------
(* Two lists ***************************************************************)

Distinct(s) == \A i, j \in 1 .. Len(s) : i # j => s[i] # s[j]

\* No queue is in two places of the lists.
Apart ==
    /\ Distinct(new)
    /\ Distinct(old)
    /\ \A i \in 1 .. Len(new), j \in 1 .. Len(old) : new[i] # old[j]

\* A queue is marked inactive when it is in neither list.
Active == \A q \in Q : ~inactive[q] <=> q \in Within(new) \cup Within(old)

\* An active queue of type IMM_QUEUE has a packet besides those that have just
\* arrived: what is seen in its second slot is what it has after being served.
Packets ==
    \A q \in Q : IF inactive[q] THEN len[q] = Fresh(q)
                 ELSE len[q] > 0 /\ (imm /\ arr[q] > 0 => len[q] > 1)

\* The services a queue has seen and those it has yet to see fit in one round.
Waits(s) == \A i \in 1 .. Len(s) : passed[s[i]] + i <= N

PassedInv ==
    /\ Waits(new)
    /\ Waits(old)
    /\ \A q \in Q : inactive[q] => passed[q] = 0

TwoListTypes ==
    /\ imm \in BOOLEAN
    /\ len \in [Q -> 0 .. Size]
    /\ arr \in [Q -> 0 .. MaxEnq]
    /\ inactive \in [Q -> BOOLEAN]
    /\ new \in Seq(Q)
    /\ old \in Seq(Q)
    /\ deq \in [Q -> 0 .. 1]
    /\ out \in Q \cup {NoPkt}
    /\ passed \in [Q -> Nat]

TwoListIInv == TwoListTypes /\ Apart /\ Active /\ Packets /\ PassedInv /\ TwoListChoice

-----------------------------------------------------------------------------
(* Lists                                                                   *)

\* A list without repetitions has room for every queue.
LEMMA ShortList ==
    ASSUME NEW s \in Seq(Q), Distinct(s)
    PROVE  Len(s) <= N
<1>1. s \in [1 .. Len(s) -> Q] /\ Len(s) \in Nat
  BY LenProperties
<1>2. s \in Injection(1 .. Len(s), Q)
  BY <1>1 DEF Distinct, Injection, IsInjective
<1>3. IsFiniteSet(Q) /\ Cardinality(Q) = N
  BY SchedulerAssumption, TwoListAssumption, FS_Interval DEF Q
<1>4. Cardinality(1 .. Len(s)) = Len(s)
  <2> DEFINE n == Len(s)
  <2>1. n \in Nat
    BY <1>1
  <2> HIDE DEF n
  <2>2. Cardinality(1 .. n) = n
    BY <2>1, FS_Interval
  <2> QED
    BY <2>2 DEF n
<1> QED
  BY <1>2, <1>3, <1>4, FS_Injection

\* The newly activated queues are listed, each once, and no others.
LEMMA JoiningAreActivated ==
    ASSUME NEW s \in Lists, InsertNew(s)
    PROVE  s \in Seq(Q) /\ Distinct(s) /\ Within(s) = Activated
<1>1. PICK n \in 0 .. N : s \in [1 .. n -> Q]
  BY DEF Lists
<1>2. s \in Seq(Q) /\ Len(s) = n
  BY <1>1, SchedulerAssumption, TwoListAssumption, SeqDef, LenProperties
<1>3. Activated \subseteq Within(s)
  BY DEF InsertNew, Within
<1>4. s \in Surjection(1 .. n, Within(s))
  BY <1>1, <1>2 DEF Surjection, Within
<1>5. IsFiniteSet(1 .. n) /\ Cardinality(1 .. n) = n
  BY FS_Interval, SchedulerAssumption, TwoListAssumption
<1>6. IsFiniteSet(Within(s)) /\ Cardinality(Within(s)) <= n
  BY <1>4, <1>5, FS_Surjection
<1>7. n <= Cardinality(Activated)
  BY <1>2 DEF InsertNew
<1>8. Cardinality(Activated) <= Cardinality(Within(s)) /\ IsFiniteSet(Activated)
  BY <1>3, <1>6, FS_Subset
<1>9. Cardinality(Activated) = Cardinality(Within(s))
  BY <1>1, <1>6, <1>7, <1>8, FS_CardinalityType, SchedulerAssumption, TwoListAssumption
<1> QED
  BY <1>2, <1>3, <1>6, <1>9, FS_Subset DEF InsertNew, Distinct

\* What is left of a list when k of its queues have left at the head.
Behind(s, k) == {s[i] : i \in k + 1 .. Len(s)}

Moved(s, k, j, r) ==
    /\ r \in Seq(Q)
    /\ Len(r) = Len(s) - k + Len(j)
    /\ \A x \in 1 .. Len(r) :
          r[x] = IF x <= Len(s) - k THEN s[x + k] ELSE j[x - (Len(s) - k)]
    /\ Distinct(r)
    /\ Len(r) <= N

\* A list that stays without repetitions loses its head, if that leaves, and
\* gets all newcomers, behind the others: none is cut off.
LEMMA ShiftEffect ==
    ASSUME NEW s \in Seq(Q), NEW leaves \in BOOLEAN, leaves => s # <<>>,
           NEW k \in 0 .. 1, k = IF leaves THEN 1 ELSE 0,
           NEW j \in Seq(Q), Distinct(s), Distinct(j),
           \A x \in k + 1 .. Len(s), y \in 1 .. Len(j) : s[x] # j[y]
    PROVE  Moved(s, k, j, Shift(s, leaves, j))
<1> DEFINE rest == IF leaves THEN Tail(s) ELSE s
           all == rest \o j
<1>0. Len(s) \in Nat /\ Len(j) \in Nat
  BY LenProperties
<1>1. /\ rest \in Seq(Q)
      /\ Len(rest) = Len(s) - k
      /\ \A x \in 1 .. Len(rest) : rest[x] = s[x + k]
  <2>1. CASE leaves
    BY <2>1, HeadTailProperties
  <2>2. CASE ~leaves
    BY <2>2, <1>0
  <2> QED
    BY <2>1, <2>2
<1>2. Len(rest) \in Nat
  BY <1>1, LenProperties
<1> HIDE DEF rest
<1>3. /\ all \in Seq(Q)
      /\ Len(all) = Len(rest) + Len(j)
      /\ \A x \in 1 .. Len(rest) + Len(j) :
            all[x] = IF x <= Len(rest) THEN rest[x] ELSE j[x - Len(rest)]
  BY <1>1, ConcatProperties
<1> HIDE DEF all
<1>4. \A x \in 1 .. Len(all) :
         all[x] = IF x <= Len(s) - k THEN s[x + k] ELSE j[x - (Len(s) - k)]
  <2> TAKE x \in 1 .. Len(all)
  <2>1. CASE x <= Len(rest)
    BY <2>1, <1>0, <1>1, <1>2, <1>3
  <2>2. CASE ~(x <= Len(rest))
    BY <2>2, <1>0, <1>1, <1>2, <1>3
  <2> QED
    BY <2>1, <2>2
<1>5. Distinct(all)
  <2> SUFFICES ASSUME NEW x \in 1 .. Len(all), NEW y \in 1 .. Len(all), x < y
               PROVE  all[x] # all[y]
    BY <1>0, <1>1, <1>3 DEF Distinct
  <2> DEFINE m == Len(s) - k
  <2>0. m \in Nat /\ Len(all) = m + Len(j)
    BY <1>0, <1>1, <1>2, <1>3
  <2>1. CASE y <= m
    <3>1. /\ x + k \in 1 .. Len(s) /\ y + k \in 1 .. Len(s) /\ x + k # y + k
          /\ all[x] = s[x + k] /\ all[y] = s[y + k]
      BY <2>1, <2>0, <1>0, <1>4
    <3> QED
      BY <3>1 DEF Distinct
  <2>2. CASE x <= m /\ ~(y <= m)
    <3>1. /\ x + k \in k + 1 .. Len(s) /\ y - m \in 1 .. Len(j)
          /\ all[x] = s[x + k] /\ all[y] = j[y - m]
      BY <2>2, <2>0, <1>0, <1>4
    <3> QED
      BY <3>1
  <2>3. CASE ~(x <= m)
    <3>1. /\ x - m \in 1 .. Len(j) /\ y - m \in 1 .. Len(j) /\ x - m # y - m
          /\ all[x] = j[x - m] /\ all[y] = j[y - m]
      BY <2>3, <2>0, <1>0, <1>4
    <3> QED
      BY <3>1 DEF Distinct
  <2> QED
    BY <2>1, <2>2, <2>3
<1>6. Len(all) <= N /\ Len(all) \in Nat
  BY <1>3, <1>5, ShortList, LenProperties
<1>7. Shift(s, leaves, j) = all
  <2>1. Smaller(ListSize, Len(all)) = Len(all)
    BY <1>6, SchedulerAssumption, TwoListAssumption DEF Smaller, ListSize
  <2>2. SubSeq(all, 1, Len(all)) = all
    BY <1>3, SubSeqFull
  <2> QED
    BY <2>1, <2>2 DEF Shift, all, rest
<1> QED
  BY <1>1, <1>3, <1>4, <1>5, <1>6, <1>7 DEF Moved

\* What a list holds after its head has left and others have joined.
LEMMA MovedWithin ==
    ASSUME NEW s \in Seq(Q), NEW j \in Seq(Q), NEW k \in 0 .. 1, k <= Len(s),
           NEW r, Moved(s, k, j, r)
    PROVE  Within(r) = Behind(s, k) \cup Within(j)
<1>0. Len(s) \in Nat /\ Len(j) \in Nat /\ Len(r) = Len(s) - k + Len(j)
  BY LenProperties DEF Moved
<1> DEFINE m == Len(s) - k
<1>1. m \in Nat
  BY <1>0
<1>2. ASSUME NEW x \in 1 .. Len(r) PROVE r[x] \in Behind(s, k) \cup Within(j)
  <2>1. r[x] = IF x <= m THEN s[x + k] ELSE j[x - m]
    BY DEF Moved
  <2>2. CASE x <= m
    <3>1. x + k \in k + 1 .. Len(s)
      BY <2>2, <1>0
    <3> QED
      BY <2>1, <2>2, <3>1 DEF Behind
  <2>3. CASE ~(x <= m)
    <3>1. x - m \in 1 .. Len(j)
      BY <2>3, <1>0, <1>1
    <3> QED
      BY <2>1, <2>3, <3>1 DEF Within
  <2> QED
    BY <2>2, <2>3
<1>3. ASSUME NEW y \in k + 1 .. Len(s) PROVE s[y] \in Within(r)
  <2>1. y - k \in 1 .. Len(r) /\ y - k <= m /\ (y - k) + k = y
    BY <1>0
  <2>2. r[y - k] = s[y]
    BY <2>1 DEF Moved
  <2> QED
    BY <2>1, <2>2 DEF Within
<1>4. ASSUME NEW y \in 1 .. Len(j) PROVE j[y] \in Within(r)
  <2>1. y + m \in 1 .. Len(r) /\ ~(y + m <= m) /\ (y + m) - m = y
    BY <1>0, <1>1
  <2>2. r[y + m] = j[y]
    BY <2>1 DEF Moved
  <2> QED
    BY <2>1, <2>2 DEF Within
<1> QED
  BY <1>2, <1>3, <1>4 DEF Within, Behind

-----------------------------------------------------------------------------
(* One time step                                                           *)

\* How many queues leave each list between this step and the next.
Kn == IF new # <<>> THEN 1 ELSE 0
Ko == IF new = <<>> /\ old # <<>> THEN 1 ELSE 0

\* At most one head leaves, from the new list if it is not empty.
LEMMA Leaving ==
    ASSUME TwoListTypes
    PROVE  /\ Kn \in 0 .. 1 /\ Ko \in 0 .. 1
           /\ Len(new) \in Nat /\ Len(old) \in Nat
           /\ Kn <= Len(new) /\ Ko <= Len(old)
           /\ new # <<>> => Len(new) >= 1 /\ Chosen = new[1] /\ Head(new) = new[1]
           /\ new = <<>> => Len(new) = 0
           /\ old # <<>> => Len(old) >= 1 /\ Head(old) = old[1]
           /\ old = <<>> => Len(old) = 0
           /\ new = <<>> /\ old # <<>> => Chosen = old[1]
           /\ new = <<>> /\ old = <<>> => Chosen = NoPkt
           /\ new # <<>> \/ old # <<>> => Chosen \in Q
           /\ Chosen \in Q \cup {NoPkt}
           /\ NoPkt \notin Q
<1>1. new \in Seq(Q) /\ old \in Seq(Q)
  BY DEF TwoListTypes
<1>2. Len(new) \in Nat /\ Len(old) \in Nat
  BY <1>1, LenProperties
<1>3. /\ new # <<>> => Len(new) >= 1 /\ Head(new) = new[1] /\ new[1] \in Q
      /\ old # <<>> => Len(old) >= 1 /\ Head(old) = old[1] /\ old[1] \in Q
      /\ new = <<>> => Len(new) = 0
      /\ old = <<>> => Len(old) = 0
  <2>1. ASSUME NEW s \in Seq(Q)
        PROVE  /\ s # <<>> => Len(s) >= 1 /\ Head(s) = s[1] /\ s[1] \in Q
               /\ s = <<>> => Len(s) = 0
    <3>1. s # <<>> => Len(s) # 0
      BY EmptySeq
    <3>2. Len(s) \in Nat
      BY LenProperties
    <3>3. s = <<>> => Len(s) = 0
      BY EmptySeq
    <3>4. s # <<>> => Len(s) >= 1
      BY <3>1, <3>2
    <3>5. s # <<>> => Head(s) = s[1] /\ s[1] \in Q
      BY <3>4, HeadTailProperties, ElementOfSeq
    <3> QED
      BY <3>3, <3>4, <3>5
  <2> QED
    BY <1>1, <2>1
<1>4. NoPkt \notin Q
  BY SchedulerAssumption, TwoListAssumption DEF NoPkt, Q
<1> QED
  BY <1>2, <1>3, <1>4 DEF Kn, Ko, Chosen

\* Lists hold queues.
LEMMA WithinQ ==
    ASSUME NEW s \in Seq(Q)
    PROVE  Within(s) \subseteq Q
BY ElementOfSeq, LenProperties DEF Within

\* The queues in the lists are the chosen one and those behind the heads, and
\* these three do not overlap.
LEMMA WhereQueuesAre ==
    ASSUME TwoListTypes, Apart, Active
    PROVE  /\ \A q \in Q : ~inactive[q] <=>
                 q = Chosen \/ q \in Behind(new, Kn) \/ q \in Behind(old, Ko)
           /\ Chosen \notin Behind(new, Kn) \cup Behind(old, Ko)
           /\ Behind(new, Kn) \cap Behind(old, Ko) = {}
           /\ Behind(new, Kn) \cup Behind(old, Ko) \subseteq Q
<1> USE Leaving
<1>1. CASE new # <<>>
  <2>1. Kn = 1 /\ Ko = 0 /\ Chosen = new[1] /\ Len(new) >= 1
    BY <1>1 DEF Kn, Ko
  <2>2. Within(new) = {new[1]} \cup Behind(new, 1)
    BY <2>1 DEF Within, Behind
  <2>3. Within(old) = Behind(old, 0)
    BY DEF Within, Behind
  <2>4. new[1] \notin Behind(new, 1)
    BY <2>1 DEF Apart, Distinct, Behind
  <2>5. Within(new) \cap Within(old) = {}
    BY DEF Apart, Within
  <2>6. Within(new) \cup Within(old) \subseteq Q
    BY WithinQ DEF TwoListTypes
  <2> QED
    BY <2>1, <2>2, <2>3, <2>4, <2>5, <2>6 DEF Active
<1>2. CASE new = <<>> /\ old # <<>>
  <2>1. Kn = 0 /\ Ko = 1 /\ Chosen = old[1] /\ Len(old) >= 1 /\ Len(new) = 0
    BY <1>2 DEF Kn, Ko
  <2>2. Within(old) = {old[1]} \cup Behind(old, 1)
    BY <2>1 DEF Within, Behind
  <2>3. Within(new) = {} /\ Behind(new, 0) = {}
    BY <2>1 DEF Within, Behind
  <2>4. old[1] \notin Behind(old, 1)
    BY <2>1 DEF Apart, Distinct, Behind
  <2>5. Within(old) \subseteq Q
    BY WithinQ DEF TwoListTypes
  <2> QED
    BY <2>1, <2>2, <2>3, <2>4, <2>5 DEF Active
<1>3. CASE new = <<>> /\ old = <<>>
  <2>1. Kn = 0 /\ Ko = 0 /\ Chosen = NoPkt /\ Len(old) = 0 /\ Len(new) = 0
    BY <1>3 DEF Kn, Ko
  <2>2. /\ Within(new) = {} /\ Behind(new, 0) = {}
        /\ Within(old) = {} /\ Behind(old, 0) = {}
    BY <2>1 DEF Within, Behind
  <2>3. \A q \in Q : q # Chosen
    BY <2>1
  <2> QED
    BY <2>1, <2>2, <2>3 DEF Active
<1> QED
  BY <1>1, <1>2, <1>3

\* The list of the served queue that still has packets.
Stays == Chosen # NoPkt /\ NonEmptyNextRound(Chosen)

\* The served queue joins the old list if it still has packets.
LEMMA InsertOldIs ==
    ASSUME TwoListTypes
    PROVE  /\ InsertOld \in Seq(Q)
           /\ Distinct(InsertOld)
           /\ Within(InsertOld) = IF Stays THEN {Chosen} ELSE {}
<1>1. CASE Stays
  <2>1. InsertOld = <<Chosen>> /\ Chosen \in Q
    BY <1>1, Leaving DEF Stays, InsertOld
  <2>2. /\ <<Chosen>> \in Seq(Q) /\ Len(<<Chosen>>) = 1
        /\ <<Chosen>>[1] = Chosen
    BY <2>1
  <2> QED
    BY <1>1, <2>1, <2>2 DEF Distinct, Within
<1>2. CASE ~Stays
  <2>1. InsertOld = <<>>
    BY <1>2 DEF Stays, InsertOld
  <2> QED
    BY <1>2, <2>1 DEF Distinct, Within
<1> QED
  BY <1>1, <1>2

\* What becomes of the lists.
LEMMA NextLists ==
    ASSUME TwoListIInv, TwoListNext
    PROVE  \E j \in Seq(Q) :
              /\ Within(j) = Activated
              /\ \A q \in Q : NextInactive(q, j, inactive'[q])
              /\ Moved(new, Kn, j, new')
              /\ Moved(old, Ko, InsertOld, old')
              /\ Within(new') = Behind(new, Kn) \cup Activated
              /\ Within(old') = Behind(old, Ko) \cup Within(InsertOld)
<1> USE DEF TwoListIInv
<1>1. PICK j \in Lists :
         /\ InsertNew(j)
         /\ \A q \in Q : NextInactive(q, j, inactive'[q])
         /\ new' = Shift(new, new # <<>>, j)
  BY DEF TwoListNext
<1>2. j \in Seq(Q) /\ Distinct(j) /\ Within(j) = Activated
  BY <1>1, JoiningAreActivated
<1>3. new \in Seq(Q) /\ old \in Seq(Q) /\ Distinct(new) /\ Distinct(old)
  BY DEF TwoListTypes, Apart
<1>4. Moved(new, Kn, j, new')
  <2>1. \A x \in Kn + 1 .. Len(new), y \in 1 .. Len(j) : new[x] # j[y]
    <3> TAKE x \in Kn + 1 .. Len(new), y \in 1 .. Len(j)
    <3>1. new[x] \in Behind(new, Kn) /\ j[y] \in Activated
      BY <1>2 DEF Behind, Within
    <3> QED
      BY <3>1, WhereQueuesAre DEF Activated
  <2>2. PICK leaves \in BOOLEAN : leaves <=> new # <<>>
    OBVIOUS
  <2>3. Kn \in 0 .. 1 /\ Kn = IF leaves THEN 1 ELSE 0
    BY <2>2 DEF Kn
  <2>4. new' = Shift(new, leaves, j)
    BY <1>1, <2>2 DEF Shift
  <2> QED
    BY <1>2, <1>3, <2>1, <2>2, <2>3, <2>4, ShiftEffect
<1>5. Moved(old, Ko, InsertOld, old')
  <2>1. \A x \in Ko + 1 .. Len(old), y \in 1 .. Len(InsertOld) : old[x] # InsertOld[y]
    <3> TAKE x \in Ko + 1 .. Len(old), y \in 1 .. Len(InsertOld)
    <3>1. old[x] \in Behind(old, Ko) /\ InsertOld[y] \in Within(InsertOld)
      BY DEF Behind, Within
    <3>2. InsertOld[y] = Chosen
      BY <3>1, InsertOldIs
    <3> QED
      BY <3>1, <3>2, WhereQueuesAre
  <2>2. PICK leaves \in BOOLEAN : leaves <=> new = <<>> /\ old # <<>>
    OBVIOUS
  <2>3. Ko \in 0 .. 1 /\ Ko = IF leaves THEN 1 ELSE 0
    BY <2>2 DEF Ko
  <2>4. old' = Shift(old, leaves, InsertOld)
    BY <2>2 DEF TwoListNext, Shift
  <2> QED
    <3>1. ASSUME NEW i \in Seq(Q), Distinct(i),
                 \A x \in Ko + 1 .. Len(old), y \in 1 .. Len(i) : old[x] # i[y]
          PROVE  Moved(old, Ko, i, Shift(old, leaves, i))
      BY <1>3, <2>2, <2>3, <3>1, ShiftEffect
    <3> QED
      BY <2>1, <2>4, <3>1, InsertOldIs
<1>6. /\ Within(new') = Behind(new, Kn) \cup Activated
      /\ Within(old') = Behind(old, Ko) \cup Within(InsertOld)
  BY <1>2, <1>3, <1>4, <1>5, Leaving, InsertOldIs, MovedWithin
<1> QED
  BY <1>1, <1>2, <1>4, <1>5, <1>6

\* The queues that are active in the next step.
LEMMA NextActive ==
    ASSUME TwoListIInv, TwoListNext, NEW q \in Q
    PROVE  ~inactive'[q] <=> \/ q \in Activated
                             \/ q = Chosen /\ Stays
                             \/ q \in Behind(new, Kn)
                             \/ q \in Behind(old, Ko)
<1> USE DEF TwoListIInv
<1>1. PICK j \in Seq(Q) : /\ Within(j) = Activated
                          /\ NextInactive(q, j, inactive'[q])
  BY NextLists
<1>2. CASE inactive[q]
  <2>1. q # Chosen /\ q \notin Behind(new, Kn) /\ q \notin Behind(old, Ko)
    BY <1>2, WhereQueuesAre
  <2>2. inactive'[q] <=> arr[q] = 0
    BY <1>1, <1>2 DEF NextInactive
  <2>3. arr[q] \in 0 .. MaxEnq
    BY DEF TwoListTypes
  <2>4. arr[q] = 0 <=> ~(arr[q] > 0)
    BY <2>3, SchedulerAssumption, TwoListAssumption
  <2> QED
    BY <1>2, <2>1, <2>2, <2>4 DEF Activated
<1>3. CASE q = Chosen
  <2>1. q # NoPkt /\ ~inactive[q]
    BY <1>3, Leaving, WhereQueuesAre
  <2>2. CASE Stays
    <3>1. q \in Within(InsertOld)
      BY <1>3, <2>2, InsertOldIs
    <3>2. Listed(q, j)
      BY <3>1 DEF Listed
    <3> QED
      BY <1>1, <1>3, <2>1, <2>2, <3>2 DEF NextInactive
  <2>3. CASE ~Stays
    <3>1. ~NonEmptyNextRound(q)
      BY <1>3, <2>1, <2>3 DEF Stays
    <3> QED
      BY <1>1, <1>3, <2>1, <2>3, <3>1, WhereQueuesAre DEF NextInactive, Activated
  <2> QED
    BY <2>2, <2>3
<1>4. CASE q \in Behind(new, Kn) \/ q \in Behind(old, Ko)
  <2>1. ~inactive[q]
    BY <1>4, WhereQueuesAre
  <2>2. Listed(q, j) \/ (new # <<>> /\ old # <<>> /\ q = Head(old))
    <3>1. CASE q \in Behind(new, Kn)
      <4>1. PICK i \in Kn + 1 .. Len(new) : new[i] = q
        BY <3>1 DEF Behind
      <4>2. i \in 2 .. Len(new)
        BY <4>1, Leaving DEF Kn
      <4> QED
        BY <4>1, <4>2 DEF Listed
    <3>2. CASE q \in Behind(old, Ko)
      <4>1. PICK i \in Ko + 1 .. Len(old) : old[i] = q
        BY <3>2 DEF Behind
      <4>2. CASE i = 1
        <5>1. old # <<>> /\ new # <<>>
          BY <4>1, <4>2, Leaving DEF Ko
        <5> QED
          BY <4>1, <4>2, <5>1, Leaving
      <4>3. CASE i # 1
        <5>1. i \in 2 .. Len(old)
          BY <4>3, Leaving
        <5> QED
          BY <4>1, <5>1 DEF Listed
      <4> QED
        BY <4>2, <4>3
    <3> QED
      BY <1>4, <3>1, <3>2
  <2> QED
    BY <1>1, <1>4, <2>1, <2>2 DEF NextInactive
<1> QED
  BY <1>2, <1>3, <1>4, WhereQueuesAre

\* No queue is put in a list twice, or in both.
LEMMA NextApart == TwoListIInv /\ TwoListNext => Apart'
<1> SUFFICES ASSUME TwoListIInv, TwoListNext PROVE Apart'
  OBVIOUS
<1>1. /\ Distinct(new') /\ Distinct(old')
      /\ Within(new') = Behind(new, Kn) \cup Activated
      /\ Within(old') = Behind(old, Ko) \cup Within(InsertOld)
  BY NextLists DEF Moved
<1>2. /\ Activated \subseteq {q \in Q : inactive[q]}
      /\ Within(InsertOld) \subseteq {q \in Q : q = Chosen}
  BY InsertOldIs, Leaving DEF Activated, Stays, TwoListIInv
<1>3. Within(new') \cap Within(old') = {}
  BY <1>1, <1>2, WhereQueuesAre DEF TwoListIInv
<1>4. \A i \in 1 .. Len(new'), j \in 1 .. Len(old') : new'[i] # old'[j]
  BY <1>3 DEF Within
<1> QED
  BY <1>1, <1>4 DEF Apart, Distinct

\* The lists stay in step with the queues they stand for.
LEMMA NextActiveInv == TwoListIInv /\ TwoListNext => Active'
<1> SUFFICES ASSUME TwoListIInv, TwoListNext, NEW q \in Q
             PROVE  ~inactive'[q] <=> q \in Within(new') \cup Within(old')
  BY DEF Active, Within
<1>1. /\ Within(new') = Behind(new, Kn) \cup Activated
      /\ Within(old') = Behind(old, Ko) \cup Within(InsertOld)
  BY NextLists
<1>2. q \in Within(InsertOld) <=> q = Chosen /\ Stays
  BY InsertOldIs DEF TwoListIInv
<1> QED
  BY <1>1, <1>2, NextActive

\* What a queue holds in the next step.
LEMMA NextLenIs ==
    ASSUME TwoListTypes, TwoListChoice, TwoListNext, NEW q \in Q
    PROVE  /\ len[q] \in 0 .. Size /\ arr[q] \in 0 .. MaxEnq /\ arr'[q] \in 0 .. MaxEnq
           /\ deq[q] = (IF q = Chosen THEN 1 ELSE 0)
           /\ deq[q] <= len[q]
           /\ len'[q] = Smaller(Size, len[q] - deq[q] + (IF imm THEN arr'[q] ELSE arr[q]))
           /\ imm' = imm /\ imm \in BOOLEAN
           /\ len'[q] \in 0 .. Size
<1>1. /\ len[q] \in 0 .. Size /\ arr[q] \in 0 .. MaxEnq /\ arr'[q] \in 0 .. MaxEnq
      /\ deq[q] = (IF q = Chosen THEN 1 ELSE 0)
      /\ deq[q] <= len[q]
      /\ imm' = imm /\ imm \in BOOLEAN
  BY DEF TwoListTypes, TwoListChoice, TwoListNext
<1>2. len'[q] = Smaller(Size, len[q] - deq[q] + (IF imm THEN arr'[q] ELSE arr[q]))
  BY DEF TwoListNext, TwoListNextLen
<1>3. len'[q] \in 0 .. Size
  BY <1>1, <1>2, SchedulerAssumption, TwoListAssumption DEF Smaller
<1> QED
  BY <1>1, <1>2, <1>3

\* The counts and the lists change together.
LEMMA NextPackets == TwoListIInv /\ TwoListNext => Packets'
<1> SUFFICES ASSUME TwoListIInv, TwoListNext, NEW q \in Q
             PROVE  IF inactive'[q] THEN len'[q] = (IF imm' THEN arr'[q] ELSE 0)
                    ELSE len'[q] > 0 /\ (imm' /\ arr'[q] > 0 => len'[q] > 1)
  BY DEF Packets, Fresh
<1> DEFINE joins == IF imm THEN arr'[q] ELSE arr[q]
<1>0. TwoListTypes /\ TwoListChoice
  BY DEF TwoListIInv
<1>1. /\ len[q] \in Nat /\ arr[q] \in 0 .. MaxEnq /\ arr'[q] \in 0 .. MaxEnq
      /\ MaxEnq \in Nat /\ MaxEnq <= Size /\ Size \in Nat /\ Size >= 2
      /\ len[q] <= Size
      /\ deq[q] = (IF q = Chosen THEN 1 ELSE 0) /\ deq[q] <= len[q]
      /\ imm' = imm
      /\ len'[q] = Smaller(Size, len[q] - deq[q] + joins)
  BY <1>0, NextLenIs, SchedulerAssumption, TwoListAssumption
<1> HIDE DEF joins
<1>2. joins = (IF imm THEN arr'[q] ELSE arr[q]) /\ joins \in 0 .. MaxEnq
  BY <1>1 DEF joins
<1>3. CASE inactive[q]
  <2>1. /\ q # Chosen /\ q \notin Behind(new, Kn) /\ q \notin Behind(old, Ko)
        /\ len[q] = IF imm THEN arr[q] ELSE 0
    BY <1>3, WhereQueuesAre DEF TwoListIInv, Packets, Fresh
  <2>2. inactive'[q] <=> arr[q] = 0
    <3>1. ~inactive'[q] <=> q \in Activated
      BY <2>1, NextActive
    <3> QED
      BY <3>1, <1>1, <1>3 DEF Activated
  <2>3. CASE arr[q] = 0
    BY <2>1, <2>2, <2>3, <1>1, <1>2 DEF Smaller
  <2>4. CASE arr[q] # 0
    BY <2>1, <2>2, <2>4, <1>1, <1>2 DEF Smaller
  <2> QED
    BY <2>3, <2>4
<1>4. CASE ~inactive[q]
  <2>1. len[q] > 0 /\ (imm /\ arr[q] > 0 => len[q] > 1)
    BY <1>4 DEF TwoListIInv, Packets
  <2>2. CASE q = Chosen
    <3>1. ~inactive'[q] <=> Stays
      BY <1>4, <2>2, NextActive, WhereQueuesAre DEF Activated, TwoListIInv
    <3>2. Stays <=> len[q] > 1 \/ arr[q] > 0
      BY <2>2, <1>0, Leaving DEF Stays, NonEmptyNextRound
    <3>3. CASE len[q] > 1 \/ arr[q] > 0
      BY <3>1, <3>2, <3>3, <2>1, <2>2, <1>1, <1>2 DEF Smaller
    <3>4. CASE ~(len[q] > 1 \/ arr[q] > 0)
      BY <3>1, <3>2, <3>4, <2>1, <2>2, <1>1, <1>2 DEF Smaller
    <3> QED
      BY <3>3, <3>4
  <2>3. CASE q # Chosen
    <3>1. ~inactive'[q]
      BY <1>4, <2>3, NextActive, WhereQueuesAre DEF TwoListIInv
    <3> QED
      BY <3>1, <2>1, <2>3, <1>1, <1>2 DEF Smaller
  <2> QED
    BY <2>2, <2>3
<1> QED
  BY <1>3, <1>4

\* A queue counts the services of the list it waits in.
LEMMA NextPassed ==
    ASSUME TwoListIInv, TwoListNext, NEW q \in Q
    PROVE  passed'[q] = IF q \in Behind(new, Kn) THEN passed[q] + 1
                        ELSE IF q \in Behind(old, Ko)
                        THEN IF new = <<>> THEN passed[q] + 1 ELSE passed[q]
                        ELSE 0
<1>0. TwoListTypes /\ Apart /\ Active
  BY DEF TwoListIInv
<1>1. passed'[q] = IF \/ q \in Within(new) /\ q # Head(new)
                      \/ q \in Within(old) /\ new = <<>> /\ q # Head(old)
                   THEN passed[q] + 1
                   ELSE IF q \in Within(old) /\ new # <<>> /\ q \notin Within(new)
                   THEN passed[q]
                   ELSE 0
  BY DEF TwoListNext, ObservePassed
<1>2. /\ q \in Within(new) /\ q # Head(new) <=> q \in Behind(new, Kn)
      /\ q \in Behind(new, Kn) => q \in Within(new)
  <2>1. CASE new # <<>>
    <3>1. Kn = 1 /\ Len(new) \in Nat /\ Len(new) >= 1 /\ Head(new) = new[1]
          /\ Chosen = new[1]
      BY <2>1, <1>0, Leaving DEF Kn
    <3>2. Within(new) = {new[1]} \cup Behind(new, 1)
      BY <3>1 DEF Within, Behind
    <3> QED
      BY <3>1, <3>2, <1>0, WhereQueuesAre
  <2>2. CASE new = <<>>
    <3>1. Kn = 0 /\ Len(new) = 0
      BY <2>2, <1>0, Leaving DEF Kn
    <3>2. Within(new) = {} /\ Behind(new, 0) = {}
      BY <3>1 DEF Within, Behind
    <3> QED
      BY <3>1, <3>2
  <2> QED
    BY <2>1, <2>2
<1>3. ASSUME new # <<>>
      PROVE  q \in Within(old) /\ q \notin Within(new) <=> q \in Behind(old, Ko)
  <2>1. Ko = 0
    BY <1>3 DEF Ko
  <2>2. Within(old) = Behind(old, 0)
    BY DEF Within, Behind
  <2>3. Within(old) \cap Within(new) = {}
    BY <1>0 DEF Apart, Within
  <2> QED
    BY <2>1, <2>2, <2>3
<1>4. ASSUME new = <<>>
      PROVE  q \in Within(old) /\ q # Head(old) <=> q \in Behind(old, Ko)
  <2>1. CASE old # <<>>
    <3>1. Ko = 1 /\ Len(old) \in Nat /\ Len(old) >= 1 /\ Head(old) = old[1]
          /\ Chosen = old[1]
      BY <1>4, <2>1, <1>0, Leaving DEF Ko
    <3>2. Within(old) = {old[1]} \cup Behind(old, 1)
      BY <3>1 DEF Within, Behind
    <3> QED
      BY <3>1, <3>2, <1>0, WhereQueuesAre
  <2>2. CASE old = <<>>
    <3>1. Ko = 0 /\ Len(old) = 0
      BY <2>2, <1>0, Leaving DEF Ko
    <3>2. Within(old) = {} /\ Behind(old, 0) = {}
      BY <3>1 DEF Within, Behind
    <3> QED
      BY <3>1, <3>2
  <2> QED
    BY <2>1, <2>2
<1>5. CASE new = <<>>
  BY <1>1, <1>2, <1>4, <1>5
<1>6. CASE new # <<>>
  BY <1>1, <1>2, <1>3, <1>6
<1> QED
  BY <1>5, <1>6

\* The bookkeeping of who passed whom is kept.
LEMMA NextPassedInv == TwoListIInv /\ TwoListNext => PassedInv'
<1> SUFFICES ASSUME TwoListIInv, TwoListNext PROVE PassedInv'
  OBVIOUS
<1>0. TwoListTypes /\ Apart /\ Active /\ PassedInv /\ N \in Nat
  BY SchedulerAssumption, TwoListAssumption DEF TwoListIInv
<1>1. PICK j \in Seq(Q) :
         /\ Within(j) = Activated
         /\ Moved(new, Kn, j, new')
         /\ Moved(old, Ko, InsertOld, old')
  BY NextLists
<1>2. /\ Len(new) \in Nat /\ Len(old) \in Nat /\ Kn \in 0 .. 1 /\ Ko \in 0 .. 1
      /\ Len(j) \in Nat /\ Len(InsertOld) \in Nat
      /\ Kn <= Len(new) /\ Ko <= Len(old)
  BY <1>0, Leaving, InsertOldIs, LenProperties
<1>3. \A i \in 1 .. Len(new') : passed'[new'[i]] + i <= N
  <2> TAKE i \in 1 .. Len(new')
  <2> DEFINE m == Len(new) - Kn
  <2>1. /\ new'[i] = IF i <= m THEN new[i + Kn] ELSE j[i - m]
        /\ Len(new') = m + Len(j) /\ Len(new') <= N /\ m \in Nat
    BY <1>1, <1>2 DEF Moved
  <2>2. CASE i <= m
    <3>1. i + Kn \in Kn + 1 .. Len(new) /\ i + Kn \in 1 .. Len(new)
      BY <2>2, <1>2
    <3>2. new[i + Kn] \in Behind(new, Kn) /\ new[i + Kn] \in Q
      BY <3>1, <1>0, WhereQueuesAre DEF Behind
    <3>3. passed'[new[i + Kn]] = passed[new[i + Kn]] + 1
      BY <3>2, NextPassed
    <3>4. passed[new[i + Kn]] + (i + Kn) <= N
      BY <3>1, <1>0 DEF PassedInv, Waits
    <3>5. Kn = 1
      BY <2>2, <1>0, <1>2, Leaving DEF Kn
    <3>6. passed[new[i + Kn]] \in Nat
      BY <3>2, <1>0 DEF TwoListTypes
    <3> QED
      BY <2>1, <2>2, <3>3, <3>4, <3>5, <3>6, <1>0
  <2>3. CASE ~(i <= m)
    <3>1. i - m \in 1 .. Len(j)
      BY <2>1, <2>3, <1>2
    <3>2. new'[i] \in Activated
      BY <2>1, <2>3, <3>1, <1>1 DEF Within
    <3>3. new'[i] \in Q /\ inactive[new'[i]]
      BY <3>2 DEF Activated
    <3>4. passed'[new'[i]] = 0
      BY <3>3, NextPassed, WhereQueuesAre, <1>0
    <3> QED
      BY <3>4, <2>1, <1>0
  <2> QED
    BY <2>2, <2>3
<1>4. \A i \in 1 .. Len(old') : passed'[old'[i]] + i <= N
  <2> TAKE i \in 1 .. Len(old')
  <2> DEFINE m == Len(old) - Ko
  <2>1. /\ old'[i] = IF i <= m THEN old[i + Ko] ELSE InsertOld[i - m]
        /\ Len(old') = m + Len(InsertOld) /\ Len(old') <= N /\ m \in Nat
    BY <1>1, <1>2 DEF Moved
  <2>2. CASE i <= m
    <3>1. i + Ko \in Ko + 1 .. Len(old) /\ i + Ko \in 1 .. Len(old)
      BY <2>2, <1>2
    <3>2. old[i + Ko] \in Behind(old, Ko) /\ old[i + Ko] \in Q
      BY <3>1, <1>0, WhereQueuesAre DEF Behind
    <3>3. passed'[old[i + Ko]] = passed[old[i + Ko]] + Ko
      <4>1. old[i + Ko] \notin Behind(new, Kn)
        BY <3>2, <1>0, WhereQueuesAre
      <4>2. old # <<>>
        BY <2>2, <1>0, <1>2, Leaving
      <4>3. passed[old[i + Ko]] \in Nat
        BY <3>2, <1>0 DEF TwoListTypes
      <4>4. Ko = IF new = <<>> THEN 1 ELSE 0
        BY <4>2 DEF Ko
      <4> QED
        BY <3>2, <4>1, <4>3, <4>4, NextPassed
    <3>4. passed[old[i + Ko]] + (i + Ko) <= N
      BY <3>1, <1>0 DEF PassedInv, Waits
    <3>5. passed[old[i + Ko]] \in Nat
      BY <3>2, <1>0 DEF TwoListTypes
    <3> QED
      BY <2>1, <2>2, <3>3, <3>4, <3>5, <1>0, <1>2
  <2>3. CASE ~(i <= m)
    <3>1. i - m \in 1 .. Len(InsertOld)
      BY <2>1, <2>3, <1>2
    <3>2. old'[i] \in Within(InsertOld)
      BY <2>1, <2>3, <3>1 DEF Within
    <3>3. old'[i] = Chosen /\ Chosen \in Q
      BY <3>2, <1>0, InsertOldIs, Leaving DEF Stays
    <3>4. passed'[old'[i]] = 0
      BY <3>3, NextPassed, WhereQueuesAre, <1>0
    <3> QED
      BY <3>4, <2>1, <1>0
  <2> QED
    BY <2>2, <2>3
<1>5. \A q \in Q : inactive'[q] => passed'[q] = 0
  BY NextActive, NextPassed
<1> QED
  BY <1>3, <1>4, <1>5 DEF PassedInv, Waits

\* Every variable keeps its type.
LEMMA NextTwoListTypeOK == TwoListIInv /\ TwoListNext => TwoListTypes'
<1> SUFFICES ASSUME TwoListIInv, TwoListNext PROVE TwoListTypes'
  OBVIOUS
<1>0. TwoListTypes /\ TwoListChoice
  BY DEF TwoListIInv
<1>1. imm' \in BOOLEAN /\ arr' \in [Q -> 0 .. MaxEnq] /\ deq' \in [Q -> 0 .. 1]
      /\ out' \in Q \cup {NoPkt}
  BY <1>0 DEF TwoListTypes, TwoListNext
<1>2. inactive' \in [Q -> BOOLEAN]
  BY DEF TwoListNext
<1>3. new' \in Seq(Q) /\ old' \in Seq(Q)
  BY NextLists DEF Moved
<1>4. len' \in [Q -> 0 .. Size]
  <2>1. len' = [q \in Q |-> len'[q]]
    BY DEF TwoListNext
  <2> QED
    BY <2>1, <1>0, NextLenIs
<1>5. passed' \in [Q -> Nat]
  <2>1. passed' = [q \in Q |-> passed'[q]]
    BY DEF TwoListNext, ObservePassed
  <2>2. \A q \in Q : passed'[q] \in Nat
    <3> TAKE q \in Q
    <3>1. passed[q] \in Nat
      BY <1>0 DEF TwoListTypes
    <3> QED
      BY <3>1, NextPassed
  <2> QED
    BY <2>1, <2>2
<1> QED
  BY <1>1, <1>2, <1>3, <1>4, <1>5 DEF TwoListTypes

\* The invariant holds in the first step.
LEMMA InitTwoListIInv == TwoListInit => TwoListIInv
<1> SUFFICES ASSUME TwoListInit PROVE TwoListIInv
  OBVIOUS
<1>1. /\ new = <<>> /\ old = <<>> /\ Len(new) = 0 /\ Len(old) = 0
      /\ new \in Seq(Q) /\ old \in Seq(Q)
  BY EmptySeq DEF TwoListInit
<1>2. len \in [Q -> 0 .. Size]
  <2>1. \A q \in Q : (IF imm THEN arr[q] ELSE 0) \in 0 .. Size
    <3> TAKE q \in Q
    <3>1. arr[q] \in 0 .. MaxEnq
      BY DEF TwoListInit
    <3> QED
      BY <3>1, SchedulerAssumption, TwoListAssumption
  <2> QED
    BY <2>1 DEF TwoListInit
<1>3. TwoListTypes
  BY <1>1, <1>2 DEF TwoListInit, TwoListTypes
<1>4. Apart /\ Active
  BY <1>1 DEF Apart, Distinct, Active, Within, TwoListInit
<1>5. Packets
  BY DEF TwoListInit, Packets, Fresh
<1>6. PassedInv
  BY <1>1 DEF TwoListInit, PassedInv, Waits
<1> QED
  BY <1>3, <1>4, <1>5, <1>6 DEF TwoListIInv, TwoListInit

\* A time step keeps the invariant.
LEMMA NextTwoListIInv == TwoListIInv /\ [TwoListNext]_twoListVars => TwoListIInv'
<1> SUFFICES ASSUME TwoListIInv, [TwoListNext]_twoListVars PROVE TwoListIInv'
  OBVIOUS
<1>1. CASE TwoListNext
  <2>1. TwoListChoice'
    BY <1>1 DEF TwoListNext
  <2> QED
    BY <1>1, <2>1, NextTwoListTypeOK, NextApart, NextActiveInv, NextPackets, NextPassedInv
       DEF TwoListIInv
<1>2. CASE UNCHANGED twoListVars
  BY <1>2 DEF twoListVars, TwoListIInv, TwoListTypes, Apart, Distinct, Active, Within, Packets, Fresh,
              PassedInv, Waits, TwoListChoice, Chosen
<1> QED
  BY <1>1, <1>2

\* So it holds throughout.
LEMMA TwoListInvariant == TwoListSpec => []TwoListIInv
BY InitTwoListIInv, NextTwoListIInv, PTL DEF TwoListSpec

-----------------------------------------------------------------------------
(* Theorems                                                                *)

\* The solver's valuations stay in the ranges the constraints intend, and
\* neither list ever has more members than there are queues.
THEOREM TwoListTypeOK == TwoListSpec => [](TwoListTypes /\ Len(new) <= N /\ Len(old) <= N)
<1>1. TwoListIInv => TwoListTypes /\ Len(new) <= N /\ Len(old) <= N
  BY ShortList DEF TwoListIInv, TwoListTypes, Apart
<1> QED
  BY <1>1, TwoListInvariant, PTL

\* Every active queue is in one place of one list, every inactive one in none,
\* and a queue is active only with packets to send.
LEMMA ListsMatch == TwoListIInv => ListsMatchQueues
<1> SUFFICES ASSUME TwoListIInv PROVE ListsMatchQueues
  OBVIOUS
<1> DEFINE all == new \o old
<1>1. new \in Seq(Q) /\ old \in Seq(Q) /\ Len(new) \in Nat /\ Len(old) \in Nat
  BY LenProperties DEF TwoListIInv, TwoListTypes
<1>2. /\ Len(all) = Len(new) + Len(old)
      /\ \A x \in 1 .. Len(new) + Len(old) :
            all[x] = IF x <= Len(new) THEN new[x] ELSE old[x - Len(new)]
  BY <1>1, ConcatProperties
<1> HIDE DEF all
<1>3. Within(all) = Within(new) \cup Within(old)
  <2>1. ASSUME NEW x \in 1 .. Len(all) PROVE all[x] \in Within(new) \cup Within(old)
    <3>1. CASE x <= Len(new)
      <4>1. x \in 1 .. Len(new) /\ all[x] = new[x]
        BY <3>1, <1>1, <1>2
      <4> QED
        BY <4>1 DEF Within
    <3>2. CASE ~(x <= Len(new))
      <4>1. x - Len(new) \in 1 .. Len(old) /\ all[x] = old[x - Len(new)]
        BY <3>2, <1>1, <1>2
      <4> QED
        BY <4>1 DEF Within
    <3> QED
      BY <3>1, <3>2
  <2>2. ASSUME NEW x \in 1 .. Len(new) PROVE new[x] \in Within(all)
    <3>1. x \in 1 .. Len(all) /\ all[x] = new[x]
      BY <1>1, <1>2
    <3> QED
      BY <3>1 DEF Within
  <2>3. ASSUME NEW x \in 1 .. Len(old) PROVE old[x] \in Within(all)
    <3>1. /\ x + Len(new) \in 1 .. Len(all) /\ ~(x + Len(new) <= Len(new))
          /\ (x + Len(new)) - Len(new) = x
      BY <1>1, <1>2
    <3>2. all[x + Len(new)] = old[x]
      BY <3>1, <1>2
    <3> QED
      BY <3>1, <3>2 DEF Within
  <2> QED
    BY <2>1, <2>2, <2>3 DEF Within
<1>4. ASSUME NEW x \in 1 .. Len(all), NEW y \in 1 .. Len(all), x < y
      PROVE  all[x] # all[y]
  <2> DEFINE n == Len(new)
  <2>1. CASE y <= n
    <3>1. x \in 1 .. n /\ y \in 1 .. n /\ x # y /\ all[x] = new[x] /\ all[y] = new[y]
      BY <1>1, <1>2, <1>4, <2>1
    <3> QED
      BY <3>1 DEF TwoListIInv, Apart, Distinct
  <2>2. CASE x <= n /\ ~(y <= n)
    <3>1. x \in 1 .. n /\ y - n \in 1 .. Len(old) /\ all[x] = new[x] /\ all[y] = old[y - n]
      BY <1>1, <1>2, <1>4, <2>2
    <3> QED
      BY <3>1 DEF TwoListIInv, Apart
  <2>3. CASE ~(x <= n)
    <3>1. /\ x - n \in 1 .. Len(old) /\ y - n \in 1 .. Len(old) /\ x - n # y - n
          /\ all[x] = old[x - n] /\ all[y] = old[y - n]
      BY <1>1, <1>2, <1>4, <2>3
    <3> QED
      BY <3>1 DEF TwoListIInv, Apart, Distinct
  <2> QED
    BY <2>1, <2>2, <2>3
<1>5. \A i, j \in 1 .. Len(all) : i # j => all[i] # all[j]
  BY <1>1, <1>2, <1>4
<1>6. \A q \in Q : ~inactive[q] <=> q \in Within(all)
  BY <1>3 DEF TwoListIInv, Active
<1>7. \A q \in Q : IF inactive[q] THEN len[q] = Fresh(q) ELSE len[q] > 0
  BY DEF TwoListIInv, Packets
<1> QED
  BY <1>5, <1>6, <1>7 DEF ListsMatchQueues, all

\* The lists hold the active queues, each of them once; an active queue has a
\* packet to send, an inactive one none but those that are just arriving.
THEOREM TwoListListsMatchQueues == TwoListSpec => []ListsMatchQueues
BY ListsMatch, TwoListInvariant, PTL

\* No queue sees N others of its list served while it waits in the list.
THEOREM TwoListPassedInList == TwoListSpec => []PassedInList
<1>1. TwoListIInv => PassedInList
  <2> SUFFICES ASSUME TwoListIInv, NEW q \in Q PROVE passed[q] < N
    BY DEF PassedInList
  <2>1. passed[q] \in Nat /\ N \in Nat /\ N > 0
    BY SchedulerAssumption, TwoListAssumption DEF TwoListIInv, TwoListTypes
  <2>2. CASE inactive[q]
    BY <2>1, <2>2 DEF TwoListIInv, PassedInv
  <2>3. CASE ~inactive[q]
    <3>1. \E i \in Nat \ {0} : passed[q] + i <= N
      <4>1. q \in Within(new) \cup Within(old)
        BY <2>3 DEF TwoListIInv, Active
      <4>2. Len(new) \in Nat /\ Len(old) \in Nat
        BY LenProperties DEF TwoListIInv, TwoListTypes
      <4> QED
        BY <4>1, <4>2 DEF Within, TwoListIInv, PassedInv, Waits
    <3> QED
      BY <2>1, <3>1
  <2> QED
    BY <2>2, <2>3
<1> QED
  BY <1>1, TwoListInvariant, PTL

\* With QUEUEs one non-empty queue is served in every state, unless all are empty.
LEMMA TwoListServesOne == TwoListIInv /\ ~imm => Server!Serves(len, deq)
<1> SUFFICES ASSUME TwoListIInv, ~imm PROVE Server!Serves(len, deq)
  OBVIOUS
<1>0. TwoListTypes /\ Apart /\ Active /\ Packets /\ TwoListChoice
  BY DEF TwoListIInv
<1>1. \A q \in Q : deq[q] = IF q = Chosen THEN 1 ELSE 0
  BY <1>0 DEF TwoListChoice
<1>2. CASE Chosen = NoPkt
  <2>1. ASSUME NEW q \in Q PROVE len[q] = 0 /\ deq[q] = 0
    <3>1. new = <<>> /\ old = <<>> /\ q # Chosen
      BY <1>0, <1>2, Leaving
    <3>2. Within(new) = {} /\ Within(old) = {}
      BY <3>1, <1>0, Leaving DEF Within
    <3>3. inactive[q]
      BY <3>2, <1>0 DEF Active
    <3> QED
      BY <3>1, <3>3, <1>0, <1>1 DEF Packets, Fresh
  <2> QED
    BY <2>1 DEF Server!Serves
<1>3. CASE Chosen # NoPkt
  <2>1. Chosen \in Q
    BY <1>0, <1>3, Leaving
  <2>2. ~inactive[Chosen]
    BY <2>1, <1>0, WhereQueuesAre
  <2>3. len[Chosen] > 0
    BY <2>1, <2>2, <1>0 DEF Packets
  <2>4. deq = [x \in Q |-> IF x = Chosen THEN 1 ELSE 0]
    BY <1>0, <1>1 DEF TwoListTypes
  <2> QED
    BY <2>1, <2>3, <2>4 DEF Server!Serves
<1> QED
  BY <1>2, <1>3

\* With QUEUEs the scheduler is a work-conserving server of one packet per step.
THEOREM TwoListImplementsServer == TwoListSpec => ImplementsServerUnlessImm
<1>1. TwoListInit => (~imm => Server!Init)
  <2> SUFFICES ASSUME TwoListInit, ~imm PROVE Server!Init
    OBVIOUS
  <2>1. TwoListIInv
    BY InitTwoListIInv
  <2>2. len \in [Q -> 0 .. Server!Smaller(Size, MaxEnq)]
    <3>1. len = [q \in Q |-> 0]
      BY DEF TwoListInit
    <3>2. Server!Smaller(Size, MaxEnq) \in Nat
      BY SchedulerAssumption, TwoListAssumption DEF Server!Smaller
    <3> QED
      BY <3>1, <3>2
  <2> QED
    BY <2>1, <2>2, TwoListServesOne DEF TwoListInit, Server!Init
<1>2. TwoListIInv => (~imm => Server!Serves(len, deq))
  BY TwoListServesOne
<1>3. TwoListIInv /\ [TwoListNext]_twoListVars /\ (~imm => Server!Serves(len, deq))'
      => [imm \/ Server!Next]_(Server!vars)
  <2> SUFFICES ASSUME TwoListIInv, [TwoListNext]_twoListVars, (~imm => Server!Serves(len, deq))', ~imm
               PROVE  [Server!Next]_(Server!vars)
    OBVIOUS
  <2>1. CASE TwoListNext
    <3>1. imm' = imm /\ arr \in [Q -> 0 .. MaxEnq] /\ deq' \in [Q -> 0 .. 1]
      BY <2>1 DEF TwoListNext, TwoListIInv, TwoListTypes
    <3>2. len' = [q \in Q |-> Server!Smaller(Size, len[q] - deq[q] + arr[q])]
      BY <2>1 DEF TwoListNext, TwoListNextLen, Smaller, Server!Smaller
    <3>3. Server!Serves(len', deq')
      BY <3>1 DEF Server!Serves
    <3> QED
      BY <3>1, <3>2, <3>3 DEF Server!Next
  <2>2. CASE UNCHANGED twoListVars
    BY <2>2 DEF twoListVars, Server!vars
  <2> QED
    BY <2>1, <2>2
<1> QED
  BY <1>1, <1>2, <1>3, TwoListInvariant, PTL DEF TwoListSpec, ImplementsServerUnlessImm
=============================================================================
