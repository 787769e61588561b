-------------------------------- MODULE Queue --------------------------------
(***************************************************************************)
(* One fperf Queue, or ImmQueue, over the TotalTime steps of an encoding.  *)
(* A state is the queue at one time step; Step (ImmStep) relates it to the *)
(* next one through the constraints of the class's sliding_window_constrs, *)
(* with any arrivals and any dequeue count the constraints allow: whatever *)
(* feeds and drains the queue can only choose among these.                 *)
(***************************************************************************)
EXTENDS SlidingWindow

ASSUME TimeAssumption == TotalTime \in Nat \ {0}

VARIABLES
    imm,    \* is it an ImmQueue?
    time,   \* the time step
    elems,  \* the packet in each slot at that step
    cenq,   \* packets offered up to this step, the ones that found no room included
    cdeq    \* packets dequeued before this step

vars == <<imm, time, elems, cenq, cdeq>>

QueueInit ==
    /\ time = 0
    /\ elems = [p \in Slots |-> Null]
    /\ cenq = 0
    /\ cdeq = 0

\* From one time step to the next: d packets leave, cnt arrive in enq.
Move(d, cnt, enq) ==
    /\ DeqCntBounds(elems, d)
    /\ NoEnqHoles(enq)
    /\ EnqCntBounds(enq, cnt)
    /\ elems' \in {next \in Elems : Window(elems, d, enq, next)}
    /\ cenq' = cenq + cnt
    /\ cdeq' = cdeq + d

Step ==
    /\ time < TotalTime - 1
    /\ time' = time + 1
    /\ \E d \in 0 .. MaxDeq, cnt \in 0 .. MaxEnq, enq \in Enqs : Move(d, cnt, enq)

\* An ImmQueue's arrivals are among the elements of the same time step.
ImmInit ==
    /\ time = 0
    /\ \E enq \in Enqs, cnt \in 0 .. MaxEnq :
          /\ EnqCntBounds(enq, cnt)
          /\ elems = [p \in Slots |-> IF p < MaxEnq THEN enq[p] ELSE Null]
          /\ cenq = cnt
    /\ NoHoles(elems)
    /\ cdeq = 0

\* The same window, with the arrivals of the NEXT time step and no constraint
\* of its own against holes in them.
ImmMove(d, cnt, enq) ==
    /\ DeqCntBounds(elems, d)
    /\ EnqCntBounds(enq, cnt)
    /\ elems' \in {next \in Elems : Window(elems, d, enq, next)}
    /\ cenq' = cenq + cnt
    /\ cdeq' = cdeq + d

ImmStep ==
    /\ time < TotalTime - 1
    /\ time' = time + 1
    /\ \E d \in 0 .. MaxDeq, cnt \in 0 .. MaxEnq, enq \in Enqs : ImmMove(d, cnt, enq)

Init == imm \in BOOLEAN /\ IF imm THEN ImmInit ELSE QueueInit

Next == imm' = imm /\ IF imm THEN ImmStep ELSE Step

Spec == Init /\ [][Next]_vars

-----------------------------------------------------------------------------

\* The variables stay in range, and no more packets leave than have come.
TypeOK ==
    /\ time \in 0 .. TotalTime - 1
    /\ elems \in Elems
    /\ cenq \in Nat
    /\ cdeq \in 0 .. cenq

\* The overlapping window constraints neither contradict each other (the
\* encoding would silently lose behaviours) nor leave a slot open (the solver
\* would invent packets): one successor for each choice of d and enq.
\* That enq has no holes is not assumed: counting it already rules them out,
\* which is what ImmQueue, whose own constraint is commented out, relies on.
WindowDeterminesElems ==
    \A d \in 0 .. MaxDeq, enq \in Enqs :
       DeqCntBounds(elems, d) /\ (\E cnt \in 0 .. MaxEnq : EnqCntBounds(enq, cnt)) =>
          {next \in Elems : Window(elems, d, enq, next)} = {Successor(elems, d, enq)}

\* enq_cnt counts packets that found no room, so the cumulative metrics bound
\* the queue's length from above, and give it exactly as long as what was
\* offered in all fits in the queue.
CountsBoundLength ==
    /\ QLen(elems) <= cenq - cdeq
    /\ cenq <= Size => QLen(elems) = cenq - cdeq

Abstract == INSTANCE Fifo WITH buf <- Contents(elems)

\* The encoding is a first-in first-out buffer that loses its latest arrivals
\* when full.  Only an ImmQueue may hold packets at once: those of step 0.
ImplementsFifo == (~imm => Contents(elems) = <<>>) /\ Abstract!Spec
=============================================================================
