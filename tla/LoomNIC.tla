------------------------------ MODULE LoomNIC ------------------------------
(***************************************************************************)
(* fperf's model of Loom, a NIC with one transmit queue per core           *)
(* (src/src/cps/loom_mqprio.cpp and its queueing modules).                 *)
(*                                                                         *)
(* The flows of a core go to two tenant queues (LoomFlowEnqQM), which are  *)
(* served round robin (RRQM).  The packets of all cores in one step go to  *)
(* the NIC's Memcached and Spark queues (LoomNICEnqQM), of which Memcached *)
(* comes first (PriorityQM), and then to the output of their tenant        *)
(* (LoomDemuxQM).                                                          *)
(*                                                                         *)
(* All queues are ImmQueues: a packet is an element in the step in which   *)
(* it arrives, so within one time step it may pass all modules.  A state   *)
(* is the valuation of one time step, a packet its class.                  *)
(***************************************************************************)
EXTENDS Integers, Sequences, FiniteSets, FiniteSetsExt, SequencesExt

CONSTANTS
    CoreCnt,    \* nic_tx_queue_cnt
    MaxEnq,     \* MAX_ENQ, packets a queue takes in one step
    Size,       \* MAX_QUEUE_SIZE
    Arrivals,   \* what the cores may get in a step: packets of each class
    MaxTime     \* total_time

Cores == 0 .. CoreCnt - 1
Tenant1Spark == 1
Tenant2Spark == 2
Tenant2Memcached == 3
Classes == {Tenant1Spark, Tenant2Spark, Tenant2Memcached}
NoPkt == 0

\* One slot of the NIC's queues per core: per_queue_share is 1, as in loom().
ASSUME LoomAssumption ==
    /\ MaxEnq \in Nat \ {0} /\ MaxEnq % 2 = 0
    /\ CoreCnt = MaxEnq
    /\ Size \in Nat /\ Size >= MaxEnq
    /\ Arrivals \subseteq [Cores -> [Classes -> 0 .. MaxEnq]]
    /\ MaxTime \in Nat

VARIABLES
    time,
    flow,       \* packets in the queue of each flow, one per class and core
    deq,        \* how many of them leave in this step
    tenant,     \* the two tenant queues of each core
    last,       \* last_served_queue_ of each core
    memcached,  \* packets in the NIC's queue for Memcached
    spark,      \* the NIC's queue for Spark
    arrived,    \* observer: packets of each class so far
    sent,       \* observer: those that reached the tenants' outputs
    filled      \* observer: some queue has been full

vars == <<time, flow, deq, tenant, last, memcached, spark, arrived, sent, filled>>

\* f[0] + ... + f[CoreCnt - 1]
OverCores(f) ==
    LET sum[n \in 0 .. CoreCnt] == IF n = 0 THEN 0 ELSE sum[n - 1] + f[n - 1]
    IN  sum[CoreCnt]

Count(s, k) == Cardinality({i \in DOMAIN s : s[i] = k})
Keep(s) == SubSeq(s, 1, Min({Len(s), Size}))
Rest(s) == IF s = <<>> THEN s ELSE Tail(s)

-----------------------------------------------------------------------------

\* Each of n output slots takes the first of the valid candidates, from its own
\* number on, that no slot before it has taken (le_i_gets_j); the rest is null.
Mut_TakenAfter(valid, n) ==
    LET taken[i \in 0 .. n] ==
            IF i = 0 THEN <<>>
            ELSE LET open == {j \in valid : j >= i /\ j \notin Range(taken[i - 1])}
                 IN  IF open = {} THEN taken[i - 1] ELSE Append(taken[i - 1], Min(open))
    IN  taken[n]

Taken(valid, n) ==
    LET taken[i \in 0 .. n] ==
            IF i = 0 THEN <<>>
            ELSE LET open == {j \in valid : j >= i - 1 /\ j \notin Range(taken[i - 1])}
                 IN  IF open = {} THEN taken[i - 1] ELSE Append(taken[i - 1], Min(open))
    IN  taken[n]

\* Tenant 2's candidates: its Spark and its Memcached packets in turn.
FlowOf(j) == Tenant2Spark + (j % 2)
Candidates(f) == {j \in 0 .. 2 * MaxEnq - 1 : j \div 2 < f[FlowOf(j)]}

ToTenant1(f) == [i \in 1 .. Min({MaxEnq, f[Tenant1Spark]}) |-> Tenant1Spark]
ToTenant2(f) ==
    LET slots == Taken(Candidates(f), MaxEnq) IN [i \in DOMAIN slots |-> FlowOf(slots[i])]

\* At least the packets handed on leave; nothing keeps others from leaving.
Mut_Dequeues(f) ==
    LET onward == ToTenant1(f) \o ToTenant2(f)
    IN  {d \in [Classes -> 0 .. Size] :
            \A k \in Classes : d[k] <= f[k] /\ d[k] + 1 >= Count(onward, k)}

Dequeues(f) ==
    LET onward == ToTenant1(f) \o ToTenant2(f)
    IN  {d \in [Classes -> 0 .. Size] :
            \A k \in Classes : d[k] <= f[k] /\ d[k] >= Count(onward, k)}

\* Round robin over a core's tenant queues q: the one not served last comes first.
Mut_Turn(q, l) == 3 - l

Turn(q, l) == IF q[3 - l] # <<>> THEN 3 - l ELSE l

Idle(q) == q[1] = <<>> /\ q[2] = <<>>
Served(q, l) == IF q[Turn(q, l)] = <<>> THEN NoPkt ELSE Head(q[Turn(q, l)])
Left(q, l) == [q EXCEPT ![Turn(q, l)] = Rest(@)]

\* Of the packets that the cores hand on in a step, those for one NIC queue.
Enqueued(pkts, classes) ==
    LET slots == Taken({c \in Cores : pkts[c] \in classes}, CoreCnt)
    IN  [i \in DOMAIN slots |-> pkts[slots[i]]]

\* Strict priority; the demultiplexer passes the packet on in the same step.
Output == IF memcached > 0 THEN Tenant2Memcached
          ELSE IF spark # <<>> THEN Head(spark) ELSE NoPkt

-----------------------------------------------------------------------------

\* Before the first step every queue is empty.
Init ==
    /\ time = 0
    /\ flow = [c \in Cores |-> [k \in Classes |-> 0]]
    /\ deq = flow
    /\ tenant = [c \in Cores |-> <<(<<>>), (<<>>)>>]
    /\ last = [c \in Cores |-> 2]
    /\ memcached = 0
    /\ spark = <<>>
    /\ arrived = [k \in Classes |-> 0]
    /\ sent = arrived
    /\ filled = FALSE

FlowEnq(in) ==
    /\ flow' = [c \in Cores |-> [k \in Classes |->
                   Min({Size, flow[c][k] - deq[c][k] + in[c][k]})]]
    /\ deq' \in [Cores -> UNION {Dequeues(flow'[c]) : c \in Cores}]
    /\ \A c \in Cores : deq'[c] \in Dequeues(flow'[c])

RoundRobin ==
    /\ tenant' = [c \in Cores |->
                     LET left == Left(tenant[c], last[c])
                     IN  <<Keep(left[1] \o ToTenant1(flow'[c])),
                           Keep(left[2] \o ToTenant2(flow'[c]))>>]
    /\ last' = [c \in Cores |->
                   IF Idle(tenant[c]) THEN last[c] ELSE Turn(tenant[c], last[c])]

NICEnq ==
    LET pkts == [c \in Cores |-> Served(tenant'[c], last'[c])]
        left == IF memcached > 0 THEN spark ELSE Rest(spark)
    IN  /\ memcached' = Min({Size, memcached - (IF memcached > 0 THEN 1 ELSE 0)
                                     + Len(Enqueued(pkts, {Tenant2Memcached}))})
        /\ spark' = Keep(left \o Enqueued(pkts, {Tenant1Spark, Tenant2Spark}))

Full ==
    \/ Size \in {memcached, Len(spark)}
    \/ \E c \in Cores : \/ \E k \in Classes : flow[c][k] = Size
                        \/ Size \in {Len(tenant[c][1]), Len(tenant[c][2])}

\* One time step: each queue holds what was left in it, and what the module
\* before it hands on in this very step.
Next ==
    /\ time < MaxTime
    /\ time' = time + 1
    /\ \E in \in Arrivals :
          /\ FlowEnq(in)
          /\ arrived' = [k \in Classes |->
                            arrived[k] + OverCores([c \in Cores |-> in[c][k]])]
    /\ RoundRobin
    /\ NICEnq
    /\ sent' = [k \in Classes |-> sent[k] + (IF Output' = k THEN 1 ELSE 0)]
    /\ filled' = (filled \/ Full')

Spec == Init /\ [][Next]_vars

-----------------------------------------------------------------------------

\* The slots, filled one after the other by implications that refer to the slots
\* before, get the first valid candidates in their order: none is merged with
\* another or passed over (loom_nic_enq_qm.cpp:88, loom_flow_enq_qm.cpp:71).
InOrder(valid, n) ==
    LET slots == Taken(valid, n)
    IN  /\ Len(slots) = Min({n, Cardinality(valid)})
        /\ \A i \in DOMAIN slots :
              slots[i] \in valid /\ Cardinality({j \in valid : j < slots[i]}) = i - 1

SlotsInOrder ==
    \A c \in Cores :
       /\ InOrder(Candidates(flow[c]), MaxEnq)
       /\ \A k \in SUBSET Classes :
             InOrder({b \in Cores : Served(tenant[b], last[b]) \in k}, CoreCnt)

\* The NIC as a whole is work conserving: in each step it sends a packet if any
\* queue of any module holds one, although each module only sees its own queues.
WorkConserving ==
    Output = NoPkt <=>
       /\ \A c \in Cores : Idle(tenant[c]) /\ \A k \in Classes : flow[c][k] = 0
       /\ memcached = 0 /\ spark = <<>>

\* The packets of class k that stay in a core's queues when this step ends, and
\* those that the NIC's own queues hold in it.
Held(c, k) ==
    LET left == Left(tenant[c], last[c])
    IN  flow[c][k] - deq[c][k] + Count(left[1], k) + Count(left[2], k)

InNIC(k) == IF k = Tenant2Memcached THEN memcached ELSE Count(spark, k)

\* Those that are still there when this step ends.
Queued(k) ==
    OverCores([c \in Cores |-> Held(c, k)]) + InNIC(k) - (IF Output = k THEN 1 ELSE 0)

Accounted(k) == sent[k] + Queued(k) = arrived[k]

\* No packet leaves twice.  As long as no queue was full, none of Tenant 1 is
\* lost on the way, nor any of Tenant 2 while only one of its flows sends.
\* When both do, packets may leave their queues that no slot takes: their deq_cnt
\* has a lower bound only (loom_flow_enq_qm.cpp:63, :103).
PacketsKept ==
    /\ \A k \in Classes : sent[k] + Queued(k) <= arrived[k]
    /\ ~filled => Accounted(Tenant1Spark)
    /\ ~filled /\ arrived[Tenant2Memcached] = 0 => Accounted(Tenant2Spark)
    /\ ~filled /\ arrived[Tenant2Spark] = 0 => Accounted(Tenant2Memcached)

=============================================================================
