--------------------------- MODULE SlidingWindow ---------------------------
(***************************************************************************)
(* The constraints fperf's Queue and ImmQueue put on the packets of one    *)
(* queue at two consecutive time steps (src/src/queue.cpp).  The solver    *)
(* may give the next elements ANY value that satisfies them: nothing here  *)
(* computes the next elements, the constraints only relate them to the     *)
(* current ones.                                                           *)
(***************************************************************************)
EXTENDS QueueBounds

CONSTANTS
    MaxDeq,  \* packets that may be dequeued in a step (Queue::max_deq_)
    Pkt,     \* the valid packets: those whose val bit is true
    Junk,    \* invalid packets whose two metadata fields are not 0
    Null     \* the null packet: val false, both metadata fields 0

\* Queue's constructor calls MaxDeq > Size "Invalid configuration parameters",
\* and a MaxEnq above Size indexes elems_ out of bounds.
ASSUME BoundsAssumption ==
    /\ Size \in Nat \ {0}
    /\ MaxEnq \in 1 .. Size
    /\ MaxDeq \in 1 .. Size

ASSUME PacketAssumption ==
    /\ Null \notin Pkt
    /\ Junk \cap Pkt = {}

AnyPkt == Pkt \cup Junk \cup {Null}
Valid(pkt) == pkt \in Pkt

Slots == 0 .. Size - 1
EnqSlots == 0 .. MaxEnq - 1
Elems == [Slots -> AnyPkt]
Enqs == [EnqSlots -> AnyPkt]

-----------------------------------------------------------------------------

\* Is slot p still occupied once the first d packets are gone?
TmpVal(elem, d, p) == p + d < Size /\ Valid(elem[p + d])

\* What stays valid after the dequeue moves d slots towards the head.
ShiftForward(elem, d, next) ==
    \A p \in Slots : TmpVal(elem, d, p) => next[p] = elem[p + d]

Mut_GetsEnqs(elem, d, enq, next) ==
    \A p \in 0 .. Size - 2 :
       TmpVal(elem, d, p) /\ ~TmpVal(elem, d, p + 1) =>
          \A i \in 1 .. MaxEnq : p + i < Size => next[p + i] = enq[i - 1]

\* The new packets land right behind the last packet that stays; those that
\* would land past the last slot land nowhere.
GetsEnqs(elem, d, enq, next) ==
    /\ ~TmpVal(elem, d, 0) => \A i \in EnqSlots : next[i] = enq[i]
    /\ \A p \in 0 .. Size - 2 :
          TmpVal(elem, d, p) /\ ~TmpVal(elem, d, p + 1) =>
             \A i \in 1 .. MaxEnq : p + i < Size => next[p + i] = enq[i - 1]

\* MaxEnq slots behind a free slot no new packet can land.
GetsNull(elem, d, next) ==
    \A p \in 0 .. Size - MaxEnq - 1 :
       ~TmpVal(elem, d, p) => next[p + MaxEnq] = Null

NoEnqHoles(enq) ==
    \A p \in 0 .. MaxEnq - 2 : Valid(enq[p]) \/ ~Valid(enq[p + 1])

\* cnt counts the valid packets of enq, given that they have no holes.
EnqCntBounds(enq, cnt) ==
    /\ cnt \in 0 .. MaxEnq
    /\ \A i \in EnqSlots : /\ Valid(enq[i]) => cnt > i
                           /\ ~Valid(enq[i]) => cnt <= i

DeqCntBounds(elem, d) ==
    /\ d \in 0 .. MaxDeq
    /\ \A p \in Slots : ~Valid(elem[p]) => d <= p

NoHoles(elem) ==
    \A p \in 0 .. Size - 2 : Valid(elem[p]) \/ ~Valid(elem[p + 1])

\* All the constraints that relate the elements of two consecutive steps.
Window(elem, d, enq, next) ==
    /\ ShiftForward(elem, d, next)
    /\ GetsEnqs(elem, d, enq, next)
    /\ GetsNull(elem, d, next)
    /\ NoHoles(next)

-----------------------------------------------------------------------------
(* What the constraints are meant to say.                                  *)

\* The valid packets are exactly the first n.
HoldsFirst(elem, n) == \A p \in Slots : Valid(elem[p]) <=> p < n

Compact(elem) == \E n \in 0 .. Size : HoldsFirst(elem, n)

QLen(elem) == CHOOSE n \in 0 .. Size : HoldsFirst(elem, n)

\* The queue's packets, head first.
Contents(elem) == [i \in 1 .. QLen(elem) |-> elem[i - 1]]

\* The only next elements a correct encoding leaves the solver to choose.
Successor(elem, d, enq) ==
    LET left == QLen(elem) - d
    IN  [p \in Slots |-> IF p < left THEN elem[p + d]
                         ELSE IF p < left + MaxEnq THEN enq[p - left]
                         ELSE Null]
=============================================================================
