----------------------------- MODULE Scheduler -----------------------------
(***************************************************************************)
(* What fperf's schedulers have in common: input queues of which one sends *)
(* a packet in each step, to a sink (src/src/cps/rr_scheduler.cpp,         *)
(* cps/priority_scheduler.cpp, cps/buggy_2l_rr_scheduler.cpp).             *)
(*                                                                         *)
(* A state is the valuation the solver gives the variables of one time     *)
(* step.  Packets are abstracted to counts (module Queue shows that a      *)
(* queue's elements are its first len packets), and what the sink gets to  *)
(* the queue it came from.                                                 *)
(***************************************************************************)
EXTENDS Integers

CONSTANTS
    N,       \* number of input queues
    Size,    \* packets a QUEUE or IMM_QUEUE can hold
    MaxEnq   \* packets that can arrive in a QUEUE or IMM_QUEUE in a step

ASSUME SchedulerAssumption ==
    /\ N \in Nat \ {0}
    /\ Size \in Nat \ {0}
    /\ MaxEnq \in 1 .. Size

Q == 0 .. N - 1
NoPkt == -1

VARIABLES
    len,   \* packets in each input queue
    arr,   \* packets enqueued into each input queue in this step
    deq,   \* deq_cnt of each input queue
    out    \* origin of the packet enqueued into the sink in this step

Smaller(m, n) == IF m <= n THEN m ELSE n

NonEmpty(q) == len[q] > 0
AllEmpty == \A q \in Q : ~NonEmpty(q)

\* The sink gets the packet of the served queue, and no other.  The constraints
\* of RRQM and of PriorityQM for it are the same.
Output ==
    /\ \A q \in Q : deq[q] = 1 => out = q
    /\ AllEmpty => out = NoPkt

\* The sink gets the packet of the queue that is served, if one is, and never
\* a packet out of nowhere: nothing pins its packet down when neither a queue is
\* served nor all are empty.
OutputIsServed ==
    /\ \A q \in Q : out = q <=> deq[q] = 1
    /\ out = NoPkt <=> \A q \in Q : deq[q] = 0

Server == INSTANCE OneServer WITH Queues <- Q

\* A scheduler is a work-conserving server of one packet per step.
ImplementsServer == Server!Spec
=============================================================================
