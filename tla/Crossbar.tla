------------------------------ MODULE Crossbar ------------------------------
(***************************************************************************)
(* fperf's switch crossbar with its virtual output queues, which are       *)
(* ImmQueues, and the links it feeds (src/src/qms/switch_xbar_qm.cpp).     *)
(*                                                                         *)
(* A state is the valuation the solver gives the variables of one time     *)
(* step.  No constraint computes the matching: each pair of ports is       *)
(* matched if and only if neither is matched with one it prefers, so any   *)
(* set of pairs that satisfies all these equivalences at once is an        *)
(* execution, and with none the encoding is UNSAT.                         *)
(*                                                                         *)
(* Ports stand for positions in input_voq_map and output_voq_map: both are *)
(* in port order, and only the cyclic order matters.  A queue is its       *)
(* number of packets, a packet the queue it comes from.                    *)
(***************************************************************************)
EXTENDS Integers, FiniteSets

CONSTANTS
    N,      \* number of ports, each an input and an output
    Voqs,   \* the pairs <<i, j>> that have a queue of packets from i to j
    Size    \* packets a queue can hold

Ports == 0 .. N - 1
NoPkt == <<>>

ASSUME CrossbarAssumption ==
    /\ N \in Nat \ {0}
    /\ Voqs \subseteq Ports \X Ports
    /\ Size \in Nat \ {0}

VARIABLES
    len,        \* packets in each queue
    match,      \* in_to_out_ and out_from_in_: the matched pairs
    inHead,     \* in_prio_head_: the output each input prefers least
    outHead,    \* out_prio_head_: the input each output prefers least
    line,       \* the packet on the link of each output
    wait        \* observer: consecutive steps a non-empty queue was not served

vars == <<len, match, inHead, outHead, line, wait>>

Smaller(m, n) == IF m <= n THEN m ELSE n

-----------------------------------------------------------------------------

Mut_Steps(h, q) == IF q >= h THEN q - h ELSE q - h + N

\* How far behind the head h, in cyclic order, port q comes: h itself is last.
Steps(h, q) == IF q > h THEN q - h ELSE q - h + N

\* Output j prefers input k to input i; input i prefers output k to output j.
InputIsBetter(j, k, i) == Steps(outHead[j], k) < Steps(outHead[j], i)
OutputIsBetter(i, k, j) == Steps(inHead[i], k) < Steps(inHead[i], j)

LostAtOutput(v) ==
    \E u \in match : u[2] = v[2] /\ InputIsBetter(v[2], u[1], v[1])

LostAtInput(v) ==
    \E u \in match : u[1] = v[1] /\ OutputIsBetter(v[1], u[2], v[2])

Outstanding(v) == len[v] > 0

\* A pair is matched if and only if it has a packet and loses on neither side.
Matches ==
    \A v \in Voqs :
       v \in match <=> Outstanding(v) /\ ~LostAtOutput(v) /\ ~LostAtInput(v)

\* The sets of pairs in which no input and no output is matched twice.
Matchings ==
    {m \in SUBSET Voqs : \A u, v \in m : u[1] = v[1] \/ u[2] = v[2] => u = v}

\* deq_cnt is 1 for the matched queues, and no more than what a queue holds.
QueuesAllow == \A v \in match : len[v] > 0

Choice == QueuesAllow /\ Matches

-----------------------------------------------------------------------------

Outputs(i) == {j \in Ports : <<i, j>> \in Voqs}
Inputs(j) == {i \in Ports : <<i, j>> \in Voqs}

\* The head in the first step.  A port without queues has none in the code;
\* what it is here makes no difference.
First(S) == IF S = {} THEN 0 ELSE CHOOSE p \in S : \A q \in S : p <= q

\* A port that was matched puts its partner last, any other keeps its order.
MoveInHead(next) ==
    /\ \A v \in match : next[v[1]] = v[2]
    /\ \A i \in Ports : (\A v \in match : v[1] # i) => next[i] = inHead[i]

Mut_MoveOutHead(next) ==
    /\ \A v \in match : next[v[2]] = v[1]
    /\ \A j \in Ports : next[j] = outHead[j]

MoveOutHead(next) ==
    /\ \A v \in match : next[v[2]] = v[1]
    /\ \A j \in Ports : (\A v \in match : v[2] # j) => next[j] = outHead[j]

Mut_LinksEmpty(next) ==
    \A j \in Ports : (\A v \in match : v[2] # j) => next[j] = line[j]

\* A Link hands on its packet in every step and keeps only what it is given.
LinksEmpty(next) ==
    \A j \in Ports : (\A v \in match : v[2] # j) => next[j] = NoPkt

\* The head of a matched queue is enqueued into the output's link, the null
\* packet into that of an unmatched one.
Carry(next) ==
    /\ \A v \in match : next[v[2]] = v
    /\ LinksEmpty(next)

\* A forwarding module, which feeds the queues of one input port, passes on the
\* head of its own queue, to one of them.
Arrivals ==
    {in \in [Voqs -> 0 .. 1] :
        \A u, v \in Voqs : u[1] = v[1] /\ in[u] = 1 /\ in[v] = 1 => u = v}

NextLen(v, in) == Smaller(Size, len[v] - (IF v \in match THEN 1 ELSE 0) + in)

Init ==
    /\ len \in Arrivals
    /\ inHead = [i \in Ports |-> First(Outputs(i))]
    /\ outHead = [j \in Ports |-> First(Inputs(j))]
    /\ match \in Matchings
    /\ Choice
    /\ line = [j \in Ports |-> NoPkt]
    /\ wait = [v \in Voqs |-> 0]

\* The next step, with what the forwarding modules pass on in it.
Step(in) ==
    /\ inHead' \in {next \in [Ports -> Ports] : MoveInHead(next)}
    /\ outHead' \in {next \in [Ports -> Ports] : MoveOutHead(next)}
    /\ line' \in {next \in [Ports -> Voqs \cup {NoPkt}] : Carry(next)}
    /\ wait' = [v \in Voqs |->
                  IF Outstanding(v) /\ v \notin match THEN wait[v] + 1 ELSE 0]
    /\ len' = [v \in Voqs |-> NextLen(v, in[v])]
    /\ match' \in Matchings
    /\ Choice'

Next == \E in \in Arrivals : Step(in)

Spec == Init /\ [][Next]_vars

-----------------------------------------------------------------------------

TypeOK ==
    /\ len \in [Voqs -> 0 .. Size]
    /\ match \in SUBSET Voqs
    /\ inHead \in [Ports -> Ports]
    /\ outHead \in [Ports -> Ports]
    /\ line \in [Ports -> Voqs \cup {NoPkt}]
    /\ wait \in [Voqs -> Nat]

\* Whatever arrives and whatever the heads, some matching satisfies all the
\* equivalences: they never contradict each other (switch_xbar_qm.cpp:226-234).
Satisfiable == \A in \in Arrivals : ENABLED Step(in)

\* Each port is fair on its own: whenever it is matched with another that it
\* prefers to v, v comes closer to its front, and v falls back only when the
\* port is matched with v itself or with one it likes less than v.  What a port
\* does while the OTHER port of v passes it over bounds no wait.
Fair(v) ==
    /\ LostAtInput(v) => Steps(inHead'[v[1]], v[2]) < Steps(inHead[v[1]], v[2])
    /\ LostAtOutput(v) => Steps(outHead'[v[2]], v[1]) < Steps(outHead[v[2]], v[1])
    /\ Steps(inHead'[v[1]], v[2]) > Steps(inHead[v[1]], v[2]) =>
          \E u \in match : u[1] = v[1] /\ (u = v \/ OutputIsBetter(v[1], v[2], u[2]))
    /\ Steps(outHead'[v[2]], v[1]) > Steps(outHead[v[2]], v[1]) =>
          \E u \in match : u[2] = v[2] /\ (u = v \/ InputIsBetter(v[2], v[1], u[1]))

PortsAreFair == [][\A v \in Voqs : Fair(v)]_vars

\* With up to three ports that do not send to themselves, as in the spines of
\* tests.cpp's leaf_spine_bw, both sides together are fair as well.
NeverStarves ==
    N <= 3 /\ (\A v \in Voqs : v[1] # v[2]) => \A v \in Voqs : wait[v] < N

Switch == INSTANCE InputQueuedSwitch

\* A maximal matching in every step, and each matched queue's packet on the
\* link of its output for exactly one step.
ImplementsSwitch == Switch!Spec
=============================================================================
