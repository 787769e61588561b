----------------------------- MODULE RoundRobin -----------------------------
(***************************************************************************)
(* fperf's round-robin scheduler: the RR queueing module, its input queues *)
(* and the sink behind it (src/src/qms/rr_qm.cpp, cps/rr_scheduler.cpp).   *)
(*                                                                         *)
(* A state is the valuation the solver gives the variables of one time     *)
(* step; Choice holds the constraints within a step and Next those between *)
(* two steps.  The solver may pick any valuation that satisfies them.  A   *)
(* state without a successor is an encoding the solver finds UNSAT.        *)
(*                                                                         *)
(* The sink holds the queues that its packets came from.                   *)
(***************************************************************************)
EXTENDS Scheduler, Sequences

Kinds == {"QUEUE", "IMM_QUEUE", "LINK"}

VARIABLES
    kind,  \* the type of all queues
    lsq,   \* last_served_queue_: one Boolean per input queue
    sink,  \* origins of the packets in the sink
    wait,  \* observer: consecutive earlier steps a waiting queue was passed over
    lead   \* observer: services a got over b while both had packets

vars == <<kind, len, arr, lsq, deq, out, sink, wait, lead>>

\* A Link has room for one packet and takes one in a step.
Room == IF kind = "LINK" THEN 1 ELSE Size
MaxArr == IF kind = "LINK" THEN 1 ELSE MaxEnq

-----------------------------------------------------------------------------

Mut_Steps(h, q) == IF q >= h THEN q - h ELSE q - h + N

\* The i in 1 .. N for which q is (h + i) % N.
Steps(h, q) == IF q > h THEN q - h ELSE q - h + N

Mut_FirstAfter(h, q) ==
    /\ NonEmpty(q) /\ q # h
    /\ \A x \in Q : Steps(h, x) < Steps(h, q) => ~NonEmpty(x)

\* q is the first non-empty queue after h.
FirstAfter(h, q) ==
    /\ NonEmpty(q)
    /\ \A x \in Q : Steps(h, x) < Steps(h, q) => ~NonEmpty(x)

ServeFirst ==
    \A h \in Q : lsq[h] =>
        \A q \in Q : deq[q] = IF FirstAfter(h, q) THEN 1 ELSE 0

\* The dequeue counts the input queues themselves allow.
QueuesAllow ==
    \A q \in Q : /\ deq[q] <= len[q]
                 /\ kind = "LINK" => deq[q] = len[q]

Choice == ServeFirst /\ QueuesAllow /\ Output

-----------------------------------------------------------------------------

Mut_MoveHead(next) ==
    \A q \in Q :
       /\ deq[q] > 0 => next[q]
       /\ AllEmpty => next[q] = lsq[q]

\* Which values of last_served_queue_ the next step may have.
MoveHead(next) ==
    \A q \in Q :
       /\ deq[q] > 0 => next[q]
       /\ deq[q] = 0 /\ ~AllEmpty => ~next[q]
       /\ AllEmpty => next[q] = lsq[q]

\* Packets in q in the next step: the arrivals of this step join a QUEUE or a
\* LINK, those of the next step itself an IMM_QUEUE.
NextLen(q, now, next) ==
    Smaller(Room, len[q] - deq[q] + (IF kind = "IMM_QUEUE" THEN next ELSE now))

\* The sink drains one packet a step.
Drained == IF sink = <<>> THEN <<>> ELSE Tail(sink)
Carried(pkt) == IF pkt = NoPkt THEN <<>> ELSE <<pkt>>

Init ==
    /\ kind \in Kinds   \* RRScheduler::add_nodes leaves QueueInfo::type unset
    /\ arr \in [Q -> 0 .. MaxArr]
    /\ len = [q \in Q |-> IF kind = "IMM_QUEUE" THEN arr[q] ELSE 0]
    /\ lsq = [q \in Q |-> q = N - 1]
    /\ deq \in [Q -> 0 .. 1]
    /\ out \in Q \cup {NoPkt}
    /\ Choice
    /\ sink = IF kind = "IMM_QUEUE" THEN Carried(out) ELSE <<>>
    /\ wait = [q \in Q |-> 0]
    /\ lead = [a \in Q |-> [b \in Q |-> 0]]

Observe ==
    /\ wait' = [q \in Q |-> IF NonEmpty(q) /\ deq[q] = 0 THEN wait[q] + 1 ELSE 0]
    /\ lead' = [a \in Q |-> [b \in Q |->
                  IF NonEmpty(a) /\ NonEmpty(b) THEN lead[a][b] + deq[a] - deq[b]
                  ELSE 0]]

\* The next step, in which in arrives.
Step(in) ==
    /\ kind' = kind
    /\ arr' = in
    /\ len' = [q \in Q |-> NextLen(q, arr[q], in[q])]
    /\ lsq' \in {next \in [Q -> BOOLEAN] : MoveHead(next)}
    /\ deq' \in [Q -> 0 .. 1]
    /\ out' \in Q \cup {NoPkt}
    /\ Choice'
    /\ sink' = Drained \o Carried(IF kind = "IMM_QUEUE" THEN out' ELSE out)
    /\ Observe

Next == \E in \in [Q -> 0 .. MaxArr] : Step(in)

Spec == Init /\ [][Next]_vars

-----------------------------------------------------------------------------

\* Queues never hold more than their size, and counts are in range.
TypeOK ==
    /\ kind \in Kinds
    /\ len \in [Q -> 0 .. Room]
    /\ arr \in [Q -> 0 .. MaxArr]
    /\ lsq \in [Q -> BOOLEAN]
    /\ deq \in [Q -> 0 .. 1]
    /\ out \in Q \cup {NoPkt}
    /\ sink \in Seq(Q)
    /\ wait \in [Q -> Nat]
    /\ lead \in [Q -> [Q -> Int]]

\* No constraint says that exactly one queue is the last served one; it
\* follows from the constraints that move it (rr_qm.cpp:100-115).
OneHead == \E h \in Q : \A q \in Q : lsq[q] <=> q = h

\* A queue with packets is served within N steps whatever the others send.
BoundedWait == \A q \in Q : wait[q] < N

\* Two queues that keep having packets get the same service, up to one packet.
FairShare == \A a, b \in Q : lead[a][b] \in -1 .. 1

\* The sink, which drains one packet a step, never holds two: the scheduler's
\* output is never lost.
SinkKeepsUp == Len(sink) <= 1

\* The queues the constructor makes when type is unset are usable unless they
\* are Links: every arrival pattern has a valuation.  With Links the last queues
\* of a backlogged scheduler must both leave and stay, and there is none.
Satisfiable ==
    kind # "LINK" => \A in \in [Q -> 0 .. MaxArr] : ENABLED Step(in)
=============================================================================
