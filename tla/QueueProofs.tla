----------------------------- MODULE QueueProofs -----------------------------
(***************************************************************************)
(* Queue and ImmQueue are first-in first-out buffers that lose arrivals    *)
(* only when full, for every size, every enqueue and dequeue bound up to   *)
(* it and every encoding length.                                           *)
(*                                                                         *)
(* And of the filter between two such queues, for any rate and bucket: its *)
(* output in a window of steps is bounded by the bucket and the rate, in   *)
(* the long run by the rate alone, and a backlogged filter sends at the    *)
(* full rate.                                                              *)
(***************************************************************************)
EXTENDS Queue, TokenBucket, Sequences, TLAPS

(* The window constraints ************************************************)

\* A queue has one length (queue.cpp:246-252, "no holes").
LEMMA QLenIs ==
    ASSUME NEW elem, NEW n \in 0 .. Size, HoldsFirst(elem, n)
    PROVE  QLen(elem) = n
<1>1. PICK m \in 0 .. Size : m = QLen(elem) /\ HoldsFirst(elem, m)
  BY DEF QLen
<1>2. ASSUME m < n PROVE FALSE
  <2>1. m \in Slots
    BY <1>2, BoundsAssumption DEF Slots
  <2> QED
    BY <1>1, <1>2, <2>1 DEF HoldsFirst
<1>3. ASSUME n < m PROVE FALSE
  <2>1. n \in Slots
    BY <1>3, BoundsAssumption DEF Slots
  <2> QED
    BY <1>1, <1>3, <2>1 DEF HoldsFirst
<1> QED
  BY <1>1, <1>2, <1>3, BoundsAssumption

\* No more packets are dequeued than there are (queue.cpp:228-243).
LEMMA DeqWithinLength ==
    ASSUME NEW elem, NEW n \in 0 .. Size, HoldsFirst(elem, n),
           NEW d, DeqCntBounds(elem, d)
    PROVE  d \in 0 .. n
<1>1. d \in 0 .. MaxDeq /\ d \in Nat
  BY BoundsAssumption DEF DeqCntBounds
<1>2. CASE n = Size
  BY <1>1, <1>2, BoundsAssumption
<1>3. CASE n < Size
  <2>1. n \in Slots /\ ~Valid(elem[n])
    BY <1>3, BoundsAssumption DEF Slots, HoldsFirst
  <2> QED
    BY <1>1, <2>1 DEF DeqCntBounds
<1> QED
  BY <1>2, <1>3, BoundsAssumption

\* After d packets are gone the first n - d slots are still occupied
\* (queue.cpp:106-121).
LEMMA TmpValIs ==
    ASSUME NEW elem, NEW n \in 0 .. Size, HoldsFirst(elem, n),
           NEW d \in 0 .. n, NEW p \in Slots
    PROVE  TmpVal(elem, d, p) <=> p < n - d
BY BoundsAssumption DEF TmpVal, HoldsFirst, Slots

\* Every constraint of the window holds of one function only.
LEMMA WindowIsSuccessor ==
    ASSUME NEW elem, NEW n \in 0 .. Size, HoldsFirst(elem, n),
           NEW d \in 0 .. n, NEW enq \in Enqs, NEW next \in Elems,
           Window(elem, d, enq, next)
    PROVE  next = Successor(elem, d, enq)
<1> DEFINE left == n - d
<1>0. QLen(elem) = n /\ left \in 0 .. Size
  BY QLenIs, BoundsAssumption
<1>1. \A p \in Slots : TmpVal(elem, d, p) <=> p < left
  BY TmpValIs
<1>2. ASSUME NEW p \in Slots, p < left PROVE next[p] = elem[p + d]
  BY <1>1, <1>2 DEF Window, ShiftForward
<1>3. ASSUME NEW p \in Slots, ~(p < left), p < left + MaxEnq
      PROVE  next[p] = enq[p - left]
  <2>1. CASE left = 0
    <3>1. 0 \in Slots /\ ~TmpVal(elem, d, 0) /\ p \in EnqSlots
      BY <1>1, <1>3, <2>1, BoundsAssumption DEF Slots, EnqSlots
    <3> QED
      BY <2>1, <3>1 DEF Window, GetsEnqs, Slots
  <2>2. CASE left # 0
    <3> DEFINE last == left - 1
               i == p - last
    <3>1. /\ last \in 0 .. Size - 2 /\ last \in Slots /\ last + 1 \in Slots
          /\ i \in 1 .. MaxEnq /\ last + i = p /\ i - 1 = p - left /\ p < Size
      BY <1>0, <1>3, <2>2, BoundsAssumption DEF Slots
    <3>2. TmpVal(elem, d, last) /\ ~TmpVal(elem, d, last + 1)
      BY <1>1, <3>1, <1>0
    <3>3. next[last + i] = enq[i - 1]
      <4> HIDE DEF last, i
      <4> QED
        BY <3>1, <3>2 DEF Window, GetsEnqs
    <3> QED
      BY <3>1, <3>3
  <2> QED
    BY <2>1, <2>2
<1>4. ASSUME NEW p \in Slots, ~(p < left + MaxEnq) PROVE next[p] = Null
  <2> DEFINE free == p - MaxEnq
  <2>1. /\ free \in 0 .. Size - MaxEnq - 1 /\ free \in Slots /\ ~(free < left)
        /\ free + MaxEnq = p
    BY <1>0, <1>4, BoundsAssumption DEF Slots
  <2>2. next[free + MaxEnq] = Null
    <3> HIDE DEF free, left
    <3> QED
      BY <1>1, <2>1 DEF Window, GetsNull
  <2> QED
    BY <2>1, <2>2
<1>5. \A p \in Slots : next[p] = IF p < left THEN elem[p + d]
                                 ELSE IF p < left + MaxEnq THEN enq[p - left]
                                 ELSE Null
  BY <1>2, <1>3, <1>4
<1> QED
  BY <1>0, <1>5 DEF Successor, Elems

\* The successor holds the packets that stay and the valid ones of enq, as
\* far as they fit.
LEMMA SuccessorHolds ==
    ASSUME NEW elem \in Elems, NEW n \in 0 .. Size, HoldsFirst(elem, n),
           NEW d \in 0 .. n, NEW enq \in Enqs,
           NEW cnt, EnqCntBounds(enq, cnt)
    PROVE  /\ Successor(elem, d, enq) \in Elems
           /\ Abstract!Smaller(Size, n - d + cnt) \in 0 .. Size
           /\ HoldsFirst(Successor(elem, d, enq), Abstract!Smaller(Size, n - d + cnt))
<1> DEFINE left == n - d
           next == Successor(elem, d, enq)
           held == Abstract!Smaller(Size, left + cnt)
<1>0. /\ QLen(elem) = n /\ left \in 0 .. Size /\ cnt \in 0 .. MaxEnq
      /\ held \in 0 .. Size /\ MaxEnq \in 1 .. Size
  BY QLenIs, BoundsAssumption DEF EnqCntBounds, Abstract!Smaller
<1>1. ASSUME NEW p \in Slots, p < left
      PROVE  next[p] = elem[p + d] /\ next[p] \in AnyPkt /\ Valid(next[p]) /\ p < held
  <2>1. p + d \in Slots /\ p + d < n /\ p < held
    BY <1>0, <1>1, BoundsAssumption DEF Slots, Abstract!Smaller
  <2>2. next[p] = elem[p + d]
    BY <1>0, <1>1 DEF Successor
  <2> QED
    BY <2>1, <2>2 DEF HoldsFirst, Elems
<1>2. ASSUME NEW p \in Slots, ~(p < left), p < left + MaxEnq
      PROVE  next[p] \in AnyPkt /\ (Valid(next[p]) <=> p < held)
  <2>1. p - left \in EnqSlots
    BY <1>0, <1>2 DEF Slots, EnqSlots
  <2>2. next[p] = enq[p - left]
    BY <1>0, <1>2 DEF Successor
  <2>3. Valid(enq[p - left]) <=> cnt > p - left
    BY <2>1, <1>0 DEF EnqCntBounds, EnqSlots
  <2>4. cnt > p - left <=> p < held
    BY <1>0, <1>2 DEF Slots, Abstract!Smaller
  <2> QED
    BY <2>1, <2>2, <2>3, <2>4 DEF Enqs
<1>3. ASSUME NEW p \in Slots, ~(p < left + MaxEnq)
      PROVE  next[p] = Null /\ next[p] \in AnyPkt /\ ~Valid(next[p]) /\ ~(p < held)
  <2>1. ~(p < held)
    BY <1>0, <1>3 DEF Slots, Abstract!Smaller
  <2>2. next[p] = Null
    BY <1>0, <1>3 DEF Successor, Slots
  <2> QED
    BY <2>1, <2>2, PacketAssumption DEF AnyPkt, Valid
<1>4. next \in Elems
  <2>1. next = [p \in Slots |-> next[p]]
    BY DEF Successor
  <2>2. \A p \in Slots : next[p] \in AnyPkt
    BY <1>1, <1>2, <1>3
  <2> HIDE DEF next
  <2> QED
    BY <2>1, <2>2 DEF Elems
<1>5. HoldsFirst(next, held)
  <2> HIDE DEF next, held, left
  <2> QED
    BY <1>1, <1>2, <1>3 DEF HoldsFirst
<1> QED
  BY <1>0, <1>4, <1>5

\* The successor satisfies every constraint: the overlapping windows never
\* contradict each other.
LEMMA SuccessorInWindow ==
    ASSUME NEW elem \in Elems, NEW n \in 0 .. Size, HoldsFirst(elem, n),
           NEW d \in 0 .. n, NEW enq \in Enqs,
           NEW cnt, EnqCntBounds(enq, cnt)
    PROVE  Window(elem, d, enq, Successor(elem, d, enq))
<1> DEFINE left == n - d
           next == Successor(elem, d, enq)
<1>0. QLen(elem) = n /\ left \in 0 .. Size /\ MaxEnq \in 1 .. Size
  BY QLenIs, BoundsAssumption
<1>1. \A p \in Slots : TmpVal(elem, d, p) <=> p < left
  BY TmpValIs
<1>2. \A p \in Slots : next[p] = IF p < left THEN elem[p + d]
                                 ELSE IF p < left + MaxEnq THEN enq[p - left]
                                 ELSE Null
  BY <1>0 DEF Successor
<1> HIDE DEF next, left
<1>3. ShiftForward(elem, d, next)
  BY <1>1, <1>2 DEF ShiftForward
<1>4. GetsEnqs(elem, d, enq, next)
  <2>1. ASSUME ~TmpVal(elem, d, 0), NEW i \in EnqSlots PROVE next[i] = enq[i]
    <3>1. left = 0 /\ i \in Slots /\ 0 \in Slots
      BY <1>0, <1>1, <2>1, BoundsAssumption DEF Slots, EnqSlots
    <3> QED
      BY <1>0, <1>2, <3>1 DEF EnqSlots, Slots
  <2>2. ASSUME NEW p \in 0 .. Size - 2, TmpVal(elem, d, p), ~TmpVal(elem, d, p + 1),
               NEW i \in 1 .. MaxEnq, p + i < Size
        PROVE  next[p + i] = enq[i - 1]
    <3>1. p \in Slots /\ p + 1 \in Slots /\ p + i \in Slots
      BY <1>0, <2>2, BoundsAssumption DEF Slots
    <3>2. left = p + 1
      BY <1>0, <1>1, <2>2, <3>1 DEF Slots
    <3> QED
      BY <1>0, <1>2, <3>1, <3>2
  <2> QED
    BY <2>1, <2>2 DEF GetsEnqs
<1>5. GetsNull(elem, d, next)
  <2> SUFFICES ASSUME NEW p \in 0 .. Size - MaxEnq - 1, ~TmpVal(elem, d, p)
               PROVE  next[p + MaxEnq] = Null
    BY DEF GetsNull
  <2>1. p \in Slots /\ p + MaxEnq \in Slots
    BY <1>0, BoundsAssumption DEF Slots
  <2>2. ~(p < left) /\ ~(p + MaxEnq < left) /\ ~(p + MaxEnq < left + MaxEnq)
    BY <1>0, <1>1, <2>1 DEF Slots
  <2> QED
    BY <1>2, <2>1, <2>2
<1>6. NoHoles(next)
  <2>1. PICK held \in 0 .. Size : HoldsFirst(next, held)
    BY SuccessorHolds DEF next
  <2> SUFFICES ASSUME NEW p \in 0 .. Size - 2
               PROVE  Valid(next[p]) \/ ~Valid(next[p + 1])
    BY DEF NoHoles
  <2>2. p \in Slots /\ p + 1 \in Slots
    BY BoundsAssumption DEF Slots
  <2> QED
    BY <2>1, <2>2, BoundsAssumption DEF HoldsFirst, Slots
<1> QED
  BY <1>3, <1>4, <1>5, <1>6 DEF Window, next

\* Hence the window constraints are a function of what leaves and arrives.
LEMMA WindowDetermines ==
    ASSUME NEW elem \in Elems, Compact(elem),
           NEW d, DeqCntBounds(elem, d),
           NEW enq \in Enqs, NEW cnt, EnqCntBounds(enq, cnt)
    PROVE  {next \in Elems : Window(elem, d, enq, next)} = {Successor(elem, d, enq)}
<1>1. PICK n \in 0 .. Size : HoldsFirst(elem, n)
  BY DEF Compact
<1>2. d \in 0 .. n
  BY <1>1, DeqWithinLength
<1>3. \A next \in Elems : Window(elem, d, enq, next) => next = Successor(elem, d, enq)
  BY <1>1, <1>2, WindowIsSuccessor
<1>4. Window(elem, d, enq, Successor(elem, d, enq)) /\ Successor(elem, d, enq) \in Elems
  BY <1>1, <1>2, SuccessorInWindow, SuccessorHolds
<1> QED
  BY <1>3, <1>4

(* Invariants ************************************************************)

\* The valid packets are always at the front, whatever invalid packets the
\* solver put in enq: the window constraints depend on it (queue.cpp:154-183).
Front == Compact(elems)

\* What CountsBoundLength and the refinement need of a state: the packets are
\* at the front, so that the queue's length is that of the buffer it stands for.
PartTypeOK ==
    /\ time \in 0 .. TotalTime - 1
    /\ elems \in Elems
    /\ cenq \in Nat
    /\ cdeq \in Nat

IInv == PartTypeOK /\ Front /\ CountsBoundLength

\* One step of either kind of queue, without its clock and without the
\* constraint against holes, which counting the arrivals implies.
LEMMA MoveKeeps ==
    ASSUME IInv, time' \in 0 .. TotalTime - 1,
           NEW d \in 0 .. MaxDeq, NEW cnt \in 0 .. MaxEnq, NEW enq \in Enqs,
           ImmMove(d, cnt, enq)
    PROVE  IInv' /\ Abstract!Next
<1>1. PICK n \in 0 .. Size : HoldsFirst(elems, n)
  BY DEF IInv, Front, Compact
<1>2. elems \in Elems /\ EnqCntBounds(enq, cnt) /\ DeqCntBounds(elems, d)
  BY DEF IInv, PartTypeOK, ImmMove
<1>3. d \in 0 .. n
  BY <1>1, <1>2, DeqWithinLength
<1>4. elems' = Successor(elems, d, enq)
  BY <1>1, <1>2, <1>3, WindowIsSuccessor DEF ImmMove
<1> DEFINE left == n - d
           held == Abstract!Smaller(Size, left + cnt)
<1>5. elems' \in Elems /\ held \in 0 .. Size /\ HoldsFirst(elems', held)
  BY <1>1, <1>2, <1>3, <1>4, SuccessorHolds
<1>6. QLen(elems) = n /\ QLen(elems') = held
  BY <1>1, <1>5, QLenIs
<1>7. cenq \in Nat /\ cdeq \in Nat /\ cenq' = cenq + cnt /\ cdeq' = cdeq + d
  BY DEF IInv, PartTypeOK, ImmMove
<1>8. /\ left \in 0 .. Size /\ cnt \in 0 .. MaxEnq /\ MaxEnq \in 1 .. Size
      /\ Size \in Nat /\ d \in Nat /\ MaxDeq \in 1 .. Size
  BY <1>3, BoundsAssumption
<1>9. PartTypeOK'
  BY <1>5, <1>7, <1>8 DEF PartTypeOK
<1>10. Front'
  BY <1>5 DEF Front, Compact
<1>11. CountsBoundLength'
  <2>1. n <= cenq - cdeq /\ (cenq <= Size => n = cenq - cdeq)
    BY <1>6 DEF IInv, CountsBoundLength
  <2> QED
    BY <1>3, <1>6, <1>7, <1>8, <2>1 DEF CountsBoundLength, Abstract!Smaller
<1>12. Abstract!Next
  <2> DEFINE joined == [i \in 1 .. cnt |-> enq[i - 1]]
  <2>1. joined \in [1 .. cnt -> Pkt]
    <3> SUFFICES ASSUME NEW i \in 1 .. cnt PROVE enq[i - 1] \in Pkt
      OBVIOUS
    <3>1. i - 1 \in EnqSlots /\ i - 1 < cnt
      BY <1>8 DEF EnqSlots
    <3> QED
      BY <1>2, <3>1, <1>8 DEF EnqCntBounds, Valid, EnqSlots
  <2>2. joined \in Abstract!Arrivals
    BY <1>8, <2>1 DEF Abstract!Arrivals
  <2>3. Len(joined) = cnt /\ Len(Contents(elems)) = n
    BY <1>6, <1>8 DEF Contents
  <2>4. Contents(elems)' = Abstract!DropTail(Contents(elems), d, joined)
    <3>1. \A i \in 1 .. held : elems'[i - 1] =
             IF i <= left THEN Contents(elems)[i + d] ELSE joined[i - left]
      <4> TAKE i \in 1 .. held
      <4>1. i - 1 \in Slots /\ i - 1 < left + MaxEnq /\ i - 1 < left + cnt
        BY <1>5, <1>8 DEF Slots, Abstract!Smaller
      <4>2. CASE i <= left
        <5>1. i + d \in 1 .. n /\ (i - 1) + d = (i + d) - 1 /\ i - 1 < left
          BY <1>3, <1>8, <4>2
        <5>2. Contents(elems)[i + d] = elems[(i - 1) + d]
          BY <1>6, <5>1 DEF Contents
        <5>3. elems'[i - 1] = elems[(i - 1) + d]
          BY <1>4, <1>6, <4>1, <5>1 DEF Successor
        <5> QED
          BY <4>2, <5>2, <5>3
      <4>3. CASE ~(i <= left)
        <5>1. i - left \in 1 .. cnt /\ (i - left) - 1 = (i - 1) - left /\ ~(i - 1 < left)
          BY <1>8, <4>1, <4>3
        <5>2. elems'[i - 1] = enq[(i - 1) - left]
          BY <1>4, <1>6, <4>1, <5>1 DEF Successor
        <5> QED
          BY <4>3, <5>1, <5>2
      <4> QED
        BY <4>2, <4>3
    <3>2. Abstract!DropTail(Contents(elems), d, joined)
            = [i \in 1 .. held |-> IF i <= left THEN Contents(elems)[i + d]
                                  ELSE joined[i - left]]
      BY <2>3 DEF Abstract!DropTail
    <3>3. Contents(elems)' = [i \in 1 .. held |-> elems'[i - 1]]
      BY <1>6 DEF Contents
    <3> HIDE DEF held, left, joined
    <3> QED
      BY <3>1, <3>2, <3>3
  <2> HIDE DEF joined
  <2> QED
    BY <1>3, <1>7, <2>2, <2>3, <2>4 DEF Abstract!Next
<1> QED
  BY <1>9, <1>10, <1>11, <1>12 DEF IInv

\* An empty queue at time 0 (queue.cpp:124-130).
LEMMA QueueInitKeeps == QueueInit => IInv /\ Abstract!Init /\ Contents(elems) = <<>>
<1> SUFFICES ASSUME QueueInit
             PROVE  IInv /\ Abstract!Init /\ Contents(elems) = <<>>
  OBVIOUS
<1>1. HoldsFirst(elems, 0) /\ elems \in Elems
  BY PacketAssumption, BoundsAssumption
     DEF QueueInit, HoldsFirst, Valid, Elems, AnyPkt, Slots
<1>2. 0 \in 0 .. Size
  BY BoundsAssumption
<1>3. QLen(elems) = 0
  BY <1>1, <1>2, QLenIs
<1>4. PartTypeOK /\ Front /\ CountsBoundLength
  BY <1>1, <1>2, <1>3, TimeAssumption
     DEF QueueInit, PartTypeOK, Front, Compact, CountsBoundLength
<1>5. Contents(elems) = <<>>
  BY <1>3 DEF Contents
<1> QED
  <2>1. <<>> \in [1 .. 0 -> Pkt] /\ 0 \in 0 .. MaxEnq
    BY BoundsAssumption
  <2> QED
    BY <1>4, <1>5, <2>1 DEF QueueInit, IInv, Abstract!Init, Abstract!Arrivals

\* An ImmQueue holds its first arrivals at time 0 (queue.cpp:421-432).
LEMMA ImmInitKeeps == ImmInit => IInv /\ Abstract!Init
<1> SUFFICES ASSUME ImmInit PROVE IInv /\ Abstract!Init
  OBVIOUS
<1>1. PICK enq \in Enqs, cnt \in 0 .. MaxEnq :
         /\ EnqCntBounds(enq, cnt)
         /\ elems = [p \in Slots |-> IF p < MaxEnq THEN enq[p] ELSE Null]
         /\ cenq = cnt
  BY DEF ImmInit
<1>2. MaxEnq \in 1 .. Size /\ Size \in Nat /\ cnt \in Nat /\ cnt \in 0 .. Size
  BY BoundsAssumption
<1>3. elems \in Elems
  BY <1>1, <1>2 DEF Elems, Enqs, EnqSlots, AnyPkt, Slots
<1>4. HoldsFirst(elems, cnt)
  BY <1>1, <1>2, PacketAssumption DEF HoldsFirst, EnqCntBounds, Valid, EnqSlots, Slots
<1>5. QLen(elems) = cnt
  BY <1>2, <1>4, QLenIs
<1>6. PartTypeOK /\ Front /\ CountsBoundLength
  BY <1>1, <1>2, <1>3, <1>4, <1>5, TimeAssumption
     DEF ImmInit, PartTypeOK, Front, Compact, CountsBoundLength
<1>7. Contents(elems) \in [1 .. cnt -> Pkt] /\ Len(Contents(elems)) = cnt
  <2>1. \A i \in 1 .. cnt : elems[i - 1] \in Pkt
    BY <1>2, <1>4 DEF HoldsFirst, Valid, Slots
  <2> QED
    BY <1>2, <1>5, <2>1 DEF Contents
<1>8. Contents(elems) \in Abstract!Arrivals
  BY <1>7 DEF Abstract!Arrivals
<1> QED
  BY <1>1, <1>6, <1>7, <1>8 DEF ImmInit, IInv, Abstract!Init

\* Both classes start as an empty first-in first-out buffer.
LEMMA InitKeeps ==
    Init => IInv /\ Abstract!Init /\ (~imm => Contents(elems) = <<>>)
BY QueueInitKeeps, ImmInitKeeps DEF Init

\* Every step of either is a step of the buffer, or none.
LEMMA NextKeeps == IInv /\ [Next]_vars => IInv' /\ [Abstract!Next]_(Abstract!vars)
<1> SUFFICES ASSUME IInv, [Next]_vars
             PROVE  IInv' /\ [Abstract!Next]_(Abstract!vars)
  OBVIOUS
<1>1. CASE Step
  <2>1. PICK d \in 0 .. MaxDeq, cnt \in 0 .. MaxEnq, enq \in Enqs : Move(d, cnt, enq)
    BY <1>1 DEF Step
  <2>2. ImmMove(d, cnt, enq)
    BY <2>1 DEF Move, ImmMove
  <2>3. time' \in 0 .. TotalTime - 1
    BY <1>1, TimeAssumption DEF Step, IInv, PartTypeOK
  <2> QED
    BY <2>2, <2>3, MoveKeeps
<1>2. CASE ImmStep
  <2>1. PICK d \in 0 .. MaxDeq, cnt \in 0 .. MaxEnq, enq \in Enqs : ImmMove(d, cnt, enq)
    BY <1>2 DEF ImmStep
  <2>2. time' \in 0 .. TotalTime - 1
    BY <1>2, TimeAssumption DEF ImmStep, IInv, PartTypeOK
  <2> QED
    BY <2>1, <2>2, MoveKeeps
<1>3. CASE UNCHANGED vars
  <2>1. /\ time' = time /\ elems' = elems /\ cenq' = cenq /\ cdeq' = cdeq
    BY <1>3 DEF vars
  <2>2. QLen(elems)' = QLen(elems) /\ Contents(elems)' = Contents(elems)
    BY <2>1 DEF QLen, HoldsFirst, Contents
  <2>3. IInv'
    BY <2>1, <2>2 DEF IInv, PartTypeOK, Front, Compact, HoldsFirst, CountsBoundLength
  <2>4. UNCHANGED Abstract!vars
    BY <2>1, <2>2 DEF Abstract!vars
  <2> QED
    BY <2>3, <2>4
<1> QED
  BY <1>1, <1>2, <1>3 DEF Next

\* The packets stay in front throughout an encoding.
LEMMA Invariant == Spec => []IInv
<1>1. Init => IInv
  BY InitKeeps
<1>2. IInv /\ [Next]_vars => IInv'
  BY NextKeeps
<1> QED
  BY <1>1, <1>2, PTL DEF Spec

\* What the runs check follows from the invariant.
LEMMA InvariantImplies == IInv => TypeOK /\ CountsBoundLength /\ WindowDeterminesElems
<1> SUFFICES ASSUME IInv PROVE TypeOK /\ CountsBoundLength /\ WindowDeterminesElems
  OBVIOUS
<1>1. PICK n \in 0 .. Size : HoldsFirst(elems, n)
  BY DEF IInv, Front, Compact
<1>2. QLen(elems) = n /\ n <= cenq - cdeq /\ n \in Nat
  BY <1>1, QLenIs, BoundsAssumption DEF IInv, CountsBoundLength
<1>3. TypeOK
  BY <1>2 DEF IInv, PartTypeOK, TypeOK
<1>4. WindowDeterminesElems
  BY WindowDetermines DEF IInv, PartTypeOK, Front, WindowDeterminesElems
<1> QED
  BY <1>3, <1>4 DEF IInv

(* Theorems **************************************************************)

\* The queue's variables stay in range, and no more packets leave than came.
THEOREM QueueTypeOK == Spec => []TypeOK
BY Invariant, InvariantImplies, PTL

\* The cumulative counts bound the queue's length, and are exact until it has
\* been offered more than it can hold.
THEOREM QueueLength == Spec => []CountsBoundLength
BY Invariant, InvariantImplies, PTL

\* In every reachable state the constraints leave the solver exactly one next
\* value of the elements, for each dequeue count and each arrivals.
THEOREM QueueWindow == Spec => []WindowDeterminesElems
BY Invariant, InvariantImplies, PTL

\* A Queue is a first-in first-out buffer that loses its latest arrivals, and
\* so is an ImmQueue, although nothing forbids holes in its arrivals.
THEOREM QueueImplementsFifo == Spec => ImplementsFifo
<1>1. Init => IInv /\ Abstract!Init /\ (~imm => Contents(elems) = <<>>)
  BY InitKeeps
<1>2. IInv /\ [Next]_vars => IInv' /\ [Abstract!Next]_(Abstract!vars)
  BY NextKeeps
<1> QED
  BY <1>1, <1>2, PTL DEF Spec, ImplementsFifo, Abstract!Spec

(* The token bucket filter *********************************************)

\* The tokens that a step leaves unspent.
Unspent == tokens - deq

\* What has been sent, with what could still be, is within the rate ...
RateInv == CDEQ + Unspent <= LinkRate * now

\* ... and since any earlier step within a full bucket more than the rate.
WindowInv ==
    \A s \in 0 .. now :
       CDEQ - before[s] + Unspent <= MaxTokens + LinkRate * (now - s)

BucketInv ==
    /\ BucketTypeOK
    /\ deq = DeqCnt(len, tokens)
    /\ RateInv
    /\ WindowInv
    /\ OutputKept

-----------------------------------------------------------------------------

\* A step more is the link rate more.
LEMMA OneMoreStep ==
    ASSUME NEW n \in Int
    PROVE  LinkRate * (n + 1) = LinkRate * n + LinkRate
BY BucketAssumption

\* The bucket never gains more than the rate, nor holds more than its size.
LEMMA RefillBounds ==
    ASSUME NEW k \in Nat, NEW d \in 0 .. k
    PROVE  /\ Refill(k, d) \in 0 .. MaxTokens
           /\ Refill(k, d) <= k - d + LinkRate
BY BucketAssumption DEF Refill, Greater, Smaller

\* The bucket and both queues are empty at first.
LEMMA BucketInitInv == BucketInit => BucketInv
<1> SUFFICES ASSUME BucketInit PROVE BucketInv
  OBVIOUS
<1> USE BucketAssumption
<1>1. BucketTypeOK
  BY DEF BucketInit, BucketTypeOK, Smaller
<1>2. LinkRate * 0 = 0
  OBVIOUS
<1> QED
  BY <1>1, <1>2 DEF BucketInit, BucketInv, RateInv, WindowInv, OutputKept, CDEQ, Unspent, DeqCnt, Smaller

\* The values TypeOK gives each variable, as numbers.
LEMMA BucketNumbers ==
    ASSUME BucketTypeOK
    PROVE  /\ now \in Nat /\ len \in Nat /\ arr \in Nat /\ tokens \in Nat
           /\ deq \in Nat /\ deq <= len /\ deq <= tokens /\ sink \in Nat
           /\ len <= Size /\ sink <= Size /\ drained \in Nat
           /\ before[now] \in Nat /\ CDEQ \in Nat /\ Unspent \in Nat
           /\ \A s \in 0 .. now : before[s] \in Nat
BY BucketAssumption DEF BucketTypeOK, Smaller, CDEQ, Unspent

\* A step keeps the values in their ranges.
LEMMA BucketNextTypeOK == BucketInv /\ BucketNext => BucketTypeOK'
<1> SUFFICES ASSUME BucketInv, BucketNext PROVE BucketTypeOK'
  OBVIOUS
<1> USE BucketAssumption
<1>0. BucketTypeOK
  BY DEF BucketInv
<1>1. now' = now + 1 /\ now' \in 0 .. TotalTime - 1
  BY <1>0, BucketNumbers DEF BucketNext
<1>2. len' \in 0 .. Size /\ arr' \in 0 .. MaxEnq
  BY <1>0, BucketNumbers DEF BucketNext, NextLen, Smaller
<1>3. tokens' \in 0 .. MaxTokens
  <2>1. tokens \in Nat /\ deq \in 0 .. tokens
    BY <1>0, BucketNumbers
  <2>2. tokens' = Refill(tokens, deq)
    BY DEF BucketNext
  <2> QED
    BY <2>1, <2>2, RefillBounds
<1>4. deq' \in 0 .. Smaller(len', tokens')
  BY <1>2, <1>3 DEF BucketNext, DeqCnt, Smaller
<1>5. sink' \in 0 .. Size /\ drained' \in Nat
  <2>1. sink' = SinkTakes(sink, deq) /\ drained' = drained + Smaller(sink, Size)
    BY DEF BucketNext
  <2>2. sink \in Nat /\ deq \in Nat /\ drained \in Nat
    BY <1>0, BucketNumbers
  <2> QED
    BY <2>1, <2>2 DEF SinkTakes, Smaller
<1>6. before' \in [0 .. now' -> Nat]
  <2>1. ASSUME NEW s \in 0 .. now'
        PROVE  (IF s = now' THEN before[now] + deq ELSE before[s]) \in Nat
    BY <1>0, <1>1, BucketNumbers
  <2> QED
    BY <2>1 DEF BucketNext
<1> QED
  BY <1>1, <1>2, <1>3, <1>4, <1>5, <1>6 DEF BucketTypeOK

\* What a step adds to what has been sent, and to what it could have been.
LEMMA SentStep ==
    ASSUME BucketInv, BucketNext
    PROVE  /\ before'[now'] = CDEQ
           /\ CDEQ' + Unspent' = CDEQ + tokens'
           /\ tokens' \in 0 .. MaxTokens
           /\ tokens' <= Unspent + LinkRate
           /\ \A s \in 0 .. now : before'[s] = before[s]
<1> USE BucketAssumption
<1>1. BucketTypeOK /\ BucketTypeOK' /\ now' = now + 1
  BY BucketNextTypeOK DEF BucketInv, BucketNext
<1>2. before'[now'] = CDEQ
  <2>1. now' \in 0 .. now'
    BY <1>1, BucketNumbers
  <2> QED
    BY <2>1 DEF BucketNext, CDEQ
<1>3. CDEQ' + Unspent' = CDEQ + tokens'
  <2>1. tokens' \in Int /\ deq' \in Int /\ CDEQ \in Int
    BY <1>1, BucketNumbers DEF BucketTypeOK, Smaller
  <2>2. CDEQ' = CDEQ + deq' /\ Unspent' = tokens' - deq'
    BY <1>2 DEF CDEQ, Unspent
  <2> QED
    BY <2>1, <2>2
<1>4. tokens' \in 0 .. MaxTokens /\ tokens' <= Unspent + LinkRate
  <2>1. tokens \in Nat /\ deq \in 0 .. tokens
    BY <1>1, BucketNumbers
  <2>2. tokens' = Refill(tokens, deq)
    BY DEF BucketNext
  <2> QED
    BY <2>1, <2>2, RefillBounds DEF Unspent
<1>5. \A s \in 0 .. now : before'[s] = before[s]
  <2> SUFFICES ASSUME NEW s \in 0 .. now PROVE before'[s] = before[s]
    OBVIOUS
  <2>1. s \in 0 .. now' /\ s # now'
    BY <1>1, BucketNumbers
  <2> QED
    BY <2>1 DEF BucketNext
<1> QED
  BY <1>2, <1>3, <1>4, <1>5

\* A step adds at most the rate to what has been or could be sent ...
LEMMA NextRateInv == BucketInv /\ BucketNext => RateInv'
<1> SUFFICES ASSUME BucketInv, BucketNext PROVE RateInv'
  OBVIOUS
<1>1. BucketTypeOK /\ now' = now + 1 /\ CDEQ + Unspent <= LinkRate * now
  BY DEF BucketInv, RateInv, BucketNext
<1>2. LinkRate * now' = LinkRate * now + LinkRate /\ LinkRate * now \in Int
  BY <1>1, BucketNumbers, OneMoreStep, BucketAssumption
<1>3. CDEQ' + Unspent' <= LinkRate * now'
  BY <1>1, <1>2, SentStep, BucketNumbers, BucketAssumption
<1> QED
  BY <1>3 DEF RateInv

\* ... in every window, of which a new one opens with a full bucket at most.
LEMMA NextWindowInv == BucketInv /\ BucketNext => WindowInv'
<1> SUFFICES ASSUME BucketInv, BucketNext, NEW s \in 0 .. now'
             PROVE  CDEQ' - before'[s] + Unspent' <= MaxTokens + LinkRate * (now' - s)
  BY DEF WindowInv
<1> USE BucketAssumption
<1>1. BucketTypeOK /\ BucketTypeOK' /\ now' = now + 1 /\ now \in Nat
  BY BucketNextTypeOK, BucketNumbers DEF BucketInv, BucketNext
<1>2. CDEQ \in Nat /\ Unspent \in Nat /\ tokens' \in Nat
  BY <1>1, BucketNumbers, SentStep
<1>3. CDEQ' \in Int /\ Unspent' \in Int /\ CDEQ' + Unspent' = CDEQ + tokens'
  <2>1. deq' \in Int /\ before'[now'] \in Int
    BY <1>1, <1>2, SentStep DEF BucketTypeOK, Smaller
  <2> QED
    BY <1>2, <2>1, SentStep DEF CDEQ, Unspent
<1>4. CASE s = now'
  <2>1. LinkRate * (now' - s) = 0
    BY <1>1, <1>4
  <2>2. before'[s] = CDEQ /\ tokens' <= MaxTokens
    BY <1>4, SentStep
  <2> QED
    BY <1>2, <1>3, <2>1, <2>2
<1>5. CASE s # now'
  <2>1. s \in 0 .. now /\ before[s] \in Nat /\ before'[s] = before[s]
    BY <1>1, <1>5, SentStep, BucketNumbers
  <2>2. CDEQ - before[s] + Unspent <= MaxTokens + LinkRate * (now - s)
    BY <2>1 DEF BucketInv, WindowInv
  <2>3. LinkRate * (now' - s) = LinkRate * (now - s) + LinkRate
    <3>1. now - s \in Int /\ now' - s = (now - s) + 1
      BY <1>1, <2>1
    <3> QED
      BY <3>1, OneMoreStep
  <2>4. LinkRate * (now - s) \in Int /\ tokens' <= Unspent + LinkRate
    BY <1>1, <2>1, SentStep
  <2> QED
    BY <1>2, <1>3, <2>1, <2>2, <2>3, <2>4
<1> QED
  BY <1>4, <1>5

\* The sink is emptied in every step and has room for any burst.
LEMMA NextOutputKept == BucketInv /\ BucketNext => OutputKept'
<1> SUFFICES ASSUME BucketInv, BucketNext PROVE OutputKept'
  OBVIOUS
<1>1. BucketTypeOK /\ drained + sink = before[now]
  BY DEF BucketInv, OutputKept
<1>2. sink' = deq /\ drained' = drained + sink
  BY <1>1, BucketNumbers, BucketAssumption DEF BucketNext, SinkTakes, Smaller
<1> QED
  BY <1>1, <1>2, BucketNumbers, SentStep DEF OutputKept, CDEQ

\* So each step keeps all of it ...
LEMMA BucketNextInv == BucketInv /\ [BucketNext]_bucketVars => BucketInv'
<1> SUFFICES ASSUME BucketInv, [BucketNext]_bucketVars PROVE BucketInv'
  OBVIOUS
<1>1. CASE BucketNext
  <2>1. deq' = DeqCnt(len', tokens')
    BY <1>1 DEF BucketNext
  <2> QED
    BY <1>1, <2>1, BucketNextTypeOK, NextRateInv, NextWindowInv, NextOutputKept DEF BucketInv
<1>2. CASE UNCHANGED bucketVars
  BY <1>2 DEF bucketVars, BucketInv, BucketTypeOK, RateInv, WindowInv, OutputKept, CDEQ, Unspent
<1> QED
  BY <1>1, <1>2

\* ... and it holds throughout an encoding.
LEMMA BucketInvariant == BucketSpec => []BucketInv
BY BucketInitInv, BucketNextInv, PTL DEF BucketSpec

\* The solver's valuations stay in the ranges the constraints intend.
THEOREM BucketTypeCorrect == BucketSpec => []BucketTypeOK
<1>1. BucketInv => BucketTypeOK
  BY DEF BucketInv
<1> QED
  BY <1>1, BucketInvariant, PTL

\* What has been sent never exceeds the link rate times the steps.
THEOREM BucketRateBound == BucketSpec => []RateBound
<1>1. BucketInv => RateBound
  <2> SUFFICES ASSUME BucketInv PROVE RateBound
    OBVIOUS
  <2>1. LinkRate * now \in Int /\ CDEQ + Unspent <= LinkRate * now
    BY BucketNumbers, BucketAssumption DEF BucketInv, RateInv
  <2> QED
    BY <2>1, BucketNumbers DEF BucketInv, RateBound
<1> QED
  BY <1>1, BucketInvariant, PTL

\* A window of any length sees at most a full bucket more than the rate.
THEOREM BucketBurstBound == BucketSpec => []BurstBound
<1>1. BucketInv => BurstBound
  <2> SUFFICES ASSUME BucketInv, NEW s \in 0 .. now
               PROVE  CDEQ - before[s] <= MaxTokens + LinkRate * (now - s)
    BY DEF BurstBound
  <2>1. CDEQ - before[s] + Unspent <= MaxTokens + LinkRate * (now - s)
    BY DEF BucketInv, WindowInv
  <2>2. now \in Nat /\ CDEQ \in Nat /\ Unspent \in Nat /\ before[s] \in Nat
    BY BucketNumbers DEF BucketInv
  <2>3. LinkRate * (now - s) \in Int
    BY <2>2, BucketAssumption
  <2> QED
    BY <2>1, <2>2, <2>3, BucketAssumption
<1> QED
  BY <1>1, BucketInvariant, PTL

\* Everything that leaves the input queue comes out of the sink.
THEOREM BucketOutputKept == BucketSpec => []OutputKept
<1>1. BucketInv => OutputKept
  BY DEF BucketInv
<1> QED
  BY <1>1, BucketInvariant, PTL

\* While packets wait the filter sends at the full rate.
THEOREM BucketBackloggedGetsRate == BucketSpec => BackloggedGetsRate
<1>1. ASSUME BucketInv, BucketNext, deq < len
      PROVE  deq' = Smaller(len', Smaller(MaxTokens, LinkRate))
  <2>1. deq = tokens
    BY <1>1, BucketNumbers DEF BucketInv, DeqCnt, Smaller
  <2>2. tokens' = Smaller(MaxTokens, LinkRate)
    BY <1>1, <2>1, BucketNumbers, BucketAssumption DEF BucketInv, BucketNext, Refill, Greater, Smaller
  <2> QED
    BY <1>1, <2>2 DEF BucketNext, DeqCnt
<1>2. BucketInv /\ [BucketNext]_bucketVars
        => [deq < len => deq' = Smaller(len', Smaller(MaxTokens, LinkRate))]_bucketVars
  BY <1>1
<1> QED
  BY <1>2, BucketInvariant, PTL DEF BucketSpec, BackloggedGetsRate
=============================================================================
