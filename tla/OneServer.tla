------------------------------ MODULE OneServer ------------------------------
(***************************************************************************)
(* What the round-robin, priority and two-list schedulers of fperf promise *)
(* alike: in every time step one packet leaves one non-empty input queue,  *)
(* unless all are empty, and a queue loses packets only when it is full.   *)
(***************************************************************************)
EXTENDS Integers

CONSTANTS
    Queues,  \* the input queues
    Size,    \* packets a queue can hold
    MaxEnq   \* packets that can arrive in a queue in a step

VARIABLES
    len,  \* packets in each queue in this time step
    deq   \* packets each queue gives away in this time step

vars == <<len, deq>>

Smaller(m, n) == IF m <= n THEN m ELSE n

\* Exactly one non-empty queue is served, if there is one.
Serves(l, d) ==
    \/ \A q \in Queues : l[q] = 0 /\ d[q] = 0
    \/ \E q \in Queues : /\ l[q] > 0
                         /\ d = [x \in Queues |-> IF x = q THEN 1 ELSE 0]

Init ==
    /\ len \in [Queues -> 0 .. Smaller(Size, MaxEnq)]
    /\ deq \in [Queues -> 0 .. 1]
    /\ Serves(len, deq)

Next ==
    /\ \E in \in [Queues -> 0 .. MaxEnq] :
          len' = [q \in Queues |-> Smaller(Size, len[q] - deq[q] + in[q])]
    /\ deq' \in [Queues -> 0 .. 1]
    /\ Serves(len', deq')

Spec == Init /\ [][Next]_vars
=============================================================================
