--------------------------- MODULE StrictPriority ---------------------------
(***************************************************************************)
(* fperf's strict-priority scheduler: PriorityQM, its input queues and the *)
(* CBLOCKED metric its queries are about                                   *)
(* (src/src/qms/priority_qm.cpp, cps/priority_scheduler.cpp,               *)
(* metrics/cblocked.cpp).  Queue 0 has the highest priority.               *)
(*                                                                         *)
(* As in module RoundRobin a state is the valuation of one time step and   *)
(* packets are abstracted to counts.  All queues have type QUEUE.          *)
(***************************************************************************)
EXTENDS Scheduler

CONSTANT TotalTime  \* time steps of the encoding

ASSUME PriorityAssumption == TotalTime \in Nat \ {0}

VARIABLES
    time,      \* the time step
    cblocked,  \* the CBLOCKED metric of each input queue
    charge,    \* observer: steps of the present wait in which a higher queue was served
    work       \* observer: the packets above a blocked queue when its wait began,
               \* and those that have been offered there since

priorityVars == <<time, len, arr, deq, out, cblocked, charge, work>>

Higher(q) == {x \in Q : x < q}

-----------------------------------------------------------------------------

Mut_DeqCnt(q) ==
    IF NonEmpty(q) /\ (\A x \in Higher(q) \cup ({q} \ {0}) : ~NonEmpty(x)) THEN 1 ELSE 0

\* A queue is served when it has packets and every higher one is empty.
DeqCnt(q) == IF NonEmpty(q) /\ (\A x \in Higher(q) : ~NonEmpty(x)) THEN 1 ELSE 0

PriorityChoice ==
    /\ deq = [q \in Q |-> DeqCnt(q)]
    /\ \A q \in Q : deq[q] <= len[q]   \* the queue's own bound on deq_cnt
    /\ Output

Blocked == {q \in Q : NonEmpty(q) /\ deq[q] = 0}

Mut_CountBlocked(blocked, before) ==
    [q \in Q |-> IF q \in blocked THEN before[q] + 1 ELSE before[q]]

\* CBLOCKED of every queue, given its value in the step before.
CountBlocked(blocked, before) ==
    [q \in Q |-> IF q \in blocked THEN before[q] + 1 ELSE 0]

Mut_PriorityNextLen(q) == Smaller(Size, len[q] + arr[q])

PriorityNextLen(q) == Smaller(Size, len[q] - deq[q] + arr[q])

ServedAbove(q) == \E x \in Higher(q) : deq[x] = 1

\* What the queues above q add up to.
SumAbove(q, f) ==
    LET sum[x \in 0 .. q] == IF x = 0 THEN 0 ELSE sum[x - 1] + f[x - 1]
    IN  sum[q]

PriorityInit ==
    /\ time = 0
    /\ len = [q \in Q |-> 0]
    /\ arr \in [Q -> 0 .. MaxEnq]
    /\ deq \in [Q -> 0 .. 1]
    /\ out \in Q \cup {NoPkt}
    /\ PriorityChoice
    /\ cblocked = CountBlocked(Blocked, [q \in Q |-> 0])
    /\ charge = [q \in Q |-> 0]
    /\ work = [q \in Q |-> 0]

PriorityNext ==
    /\ time < TotalTime - 1
    /\ time' = time + 1
    /\ len' = [q \in Q |-> PriorityNextLen(q)]
    /\ arr' \in [Q -> 0 .. MaxEnq]
    /\ deq' \in [Q -> 0 .. 1]
    /\ out' \in Q \cup {NoPkt}
    /\ PriorityChoice'
    /\ cblocked' = CountBlocked(Blocked', cblocked)
    /\ charge' = [q \in Q |-> IF q \notin Blocked' THEN 0
                              ELSE charge[q] + (IF ServedAbove(q)' THEN 1 ELSE 0)]
    /\ work' = [q \in Q |-> IF q \notin Blocked' THEN 0
                            ELSE SumAbove(q, arr)' +
                                 (IF q \in Blocked THEN work[q] ELSE SumAbove(q, len)')]

PrioritySpec == PriorityInit /\ [][PriorityNext]_priorityVars

-----------------------------------------------------------------------------

\* Queues never hold more than their size, and CBLOCKED never exceeds the time.
PriorityTypeOK ==
    /\ time \in 0 .. TotalTime - 1
    /\ len \in [Q -> 0 .. Size]
    /\ arr \in [Q -> 0 .. MaxEnq]
    /\ deq \in [Q -> 0 .. 1]
    /\ out \in Q \cup {NoPkt}
    /\ cblocked \in [Q -> 0 .. time]
    /\ charge \in [Q -> 0 .. time]
    /\ work \in [Q -> Nat]

\* Every step a queue is blocked for, as CBLOCKED counts them, is a step in
\* which a queue of higher priority was served: CBLOCKED never charges a queue
\* for an idle scheduler or for a lower queue (priority_qm.cpp:28-50 against
\* cblocked.cpp:42-52).
BlockedByHigher == cblocked = charge

\* A queue waits no longer than the packets that were above it or arrived
\* above it take, one step each.
WaitBoundedByWork == \A q \in Q : cblocked[q] <= work[q]
=============================================================================
