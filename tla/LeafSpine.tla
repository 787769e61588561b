----------------------------- MODULE LeafSpine -----------------------------
(***************************************************************************)
(* fperf's leaf-spine data centre network: servers behind leaf switches,   *)
(* which spine switches connect (src/src/cps/leaf_spine.cpp).  A switch is *)
(* a forwarding module per port, whose outputs are the virtual output      *)
(* queues (VOQs) of one crossbar.                                          *)
(*                                                                         *)
(* A state is one time step of the encoding.  A server's queue hands its   *)
(* head to a VOQ, which is an ImmQueue and holds it in the SAME step; a    *)
(* matched VOQ puts its head on a link, and the next switch, or server,    *)
(* finds it there one step later.  Which matching a crossbar makes is left *)
(* open: any maximal one, which is what the crossbar's module implements.  *)
(***************************************************************************)
EXTENDS Integers, Sequences, FiniteSets, SequencesExt

CONSTANTS
    LeafCnt, SpineCnt, ServersPerLeaf,
    ReduceQueues,    \* leave out the queues that no packet should need?
    MaxEnq,          \* packets that can join a server's queue in a step
    QueueSize,       \* packets a server's queue can hold
    VoqSize,         \* packets a VOQ can hold
    Senders,         \* the servers that send in this instance
    InFlight         \* bound on the packets in all queues together

ASSUME LeafSpineAssumption ==
    /\ {LeafCnt, SpineCnt, ServersPerLeaf} \subseteq Nat \ {0}
    /\ ReduceQueues \in BOOLEAN
    /\ {MaxEnq, QueueSize, VoqSize, InFlight} \subseteq Nat \ {0}
    /\ Senders \subseteq 0 .. LeafCnt * ServersPerLeaf - 1

VARIABLES
    inq,     \* the queue in front of each port: a Queue at servers, else a Link
    voq,     \* the VOQs of all switches
    down,    \* the Link to each server
    owed     \* observer: packets for each server that it is still to get

vars == <<inq, voq, down, owed>>

-----------------------------------------------------------------------------
(* Ports and packets *)

Leaves == 0 .. LeafCnt - 1
Spines == 0 .. SpineCnt - 1
Servers == 0 .. LeafCnt * ServersPerLeaf - 1

\* leaf_port_cnt, spine_port_cnt: a leaf's first ports lead to its servers.
LeafPorts == 0 .. ServersPerLeaf + SpineCnt - 1
SpinePorts == Leaves

Ports == ({"L"} \X Leaves \X LeafPorts) \cup ({"S"} \X Spines \X SpinePorts)

ServerPort(d) == <<"L", d \div ServersPerLeaf, d % ServersPerLeaf>>
IsServerPort(p) == p[1] = "L" /\ p[3] < ServersPerLeaf

\* A packet: is it one, its destination (meta1), the spine to take (meta2).
AllPackets == [val : BOOLEAN, dst : Servers, via : Spines]
NullPkt == [val |-> FALSE, dst |-> 0, via |-> 0]

\* What may arrive at a server: nothing for itself, and any choice of spine.
Arrivals(d) == {pkt \in AllPackets : pkt.val /\ pkt.dst # d}

-----------------------------------------------------------------------------
(* Wiring *)

Before(u, v) == u[1] < v[1] \/ (u[1] = v[1] /\ u[2] < v[2])

\* The input and output port of each VOQ of a leaf, or of a spine, in the order
\* of voq_input_map and voq_output_map.
LeafPairs ==
    {u \in LeafPorts \X LeafPorts :
        ReduceQueues => u[1] # u[2] /\ (u[1] < ServersPerLeaf \/ u[2] < ServersPerLeaf)}
SpinePairs == {u \in SpinePorts \X SpinePorts : ReduceQueues => u[1] # u[2]}

InOrder(S) ==
    [q \in 1 .. Cardinality(S) |-> CHOOSE u \in S : Cardinality({x \in S : Before(x, u)}) = q - 1]

VoqList == [L |-> InOrder(LeafPairs), S |-> InOrder(SpinePairs)]

\* The first entry of the list for this input port (leaf_base_port).
BasePort(kind, i) ==
    Min({q \in DOMAIN VoqList[kind] : VoqList[kind][q][1] >= i})

\* output_voq_map: the output queue, counted from 0, by which the forwarding
\* module of port i reaches port j.
OutputVoqMap(kind, i) ==
    [j \in {u[2] : u \in {x \in ToSet(VoqList[kind]) : x[1] = i}} |->
        CHOOSE k \in 0 .. Len(VoqList[kind]) - BasePort(kind, i) :
           VoqList[kind][BasePort(kind, i) + k] = <<i, j>>]

\* queue_edges: the output queues of the forwarding modules, one module after
\* the other, are the queues of the crossbar in its own order (xbar_qind).
OutQueues(kind, i) ==
    0 .. Cardinality({q \in DOMAIN VoqList[kind] : VoqList[kind][q][1] = i}) - 1

XBarQueue(kind, i, k) ==
    Cardinality({q \in DOMAIN VoqList[kind] : VoqList[kind][q][1] < i}) + k + 1

\* A VOQ is the pair of the ports that the crossbar takes it to connect.
Voqs == (UNION {{<<<<"L", l, u[1]>>, <<"L", l, u[2]>>>> : u \in LeafPairs} : l \in Leaves})
        \cup (UNION {{<<<<"S", s, u[1]>>, <<"S", s, u[2]>>>> : u \in SpinePairs} : s \in Spines})

\* The output queue of the forwarding module that this VOQ is.
OutQueue(v) ==
    CHOOSE k \in OutQueues(v[1][1], v[1][3]) :
       VoqList[v[1][1]][XBarQueue(v[1][1], v[1][3], k)] = <<v[1][3], v[2][3]>>

\* The ports that the forwarding module takes this VOQ to lead to.
PortsBehind(v) ==
    LET map == OutputVoqMap(v[1][1], v[1][3])
    IN  {j \in DOMAIN map : map[j] = OutQueue(v)}

Mut_Peer(p) == IF p[1] = "L" THEN <<"S", p[3] - ServersPerLeaf, p[2]>>
                             ELSE <<"L", p[3], ServersPerLeaf + ((p[2] + 1) % SpineCnt)>>

\* The port at the other end of the links, in both directions: uplink s of a
\* leaf is port l of spine s, and port l of spine s leads back to that uplink.
Peer(p) == IF p[1] = "L" THEN <<"S", p[3] - ServersPerLeaf, p[2]>>
                         ELSE <<"L", p[3], ServersPerLeaf + p[2]>>

INSTANCE Matching

-----------------------------------------------------------------------------
(* Forwarding: what the constraints of a forwarding module allow as the    *)
(* packet e enqueued into VOQ v when pkt is at the head of its input queue *)

Inside(l, d) == d >= l * ServersPerLeaf /\ d <= (l + 1) * ServersPerLeaf - 1

Mut_ToSpine(v, pkt, e) ==
    \A s \in Spines : v[1][3] < ServersPerLeaf /\ ServersPerLeaf + s \in PortsBehind(v) =>
       /\ pkt.val /\ pkt.via = s => e = pkt
       /\ Inside(v[1][2], pkt.dst) \/ pkt.via # s => e = NullPkt

ToSpine(v, pkt, e) ==
    \A s \in Spines : v[1][3] < ServersPerLeaf /\ ServersPerLeaf + s \in PortsBehind(v) =>
       /\ pkt.val /\ ~Inside(v[1][2], pkt.dst) /\ pkt.via = s => e = pkt
       /\ Inside(v[1][2], pkt.dst) \/ pkt.via # s => e = NullPkt

WithinLeaf(v, pkt, e) ==
    \A d \in Servers : Inside(v[1][2], d) /\ d % ServersPerLeaf \in PortsBehind(v) =>
       /\ pkt.val /\ pkt.dst = d => e = pkt
       /\ pkt.dst # d => e = NullPkt

ToLeaf(v, pkt, e) ==
    /\ \A d \in Servers : d \div ServersPerLeaf \in PortsBehind(v) =>
          (pkt.val /\ pkt.dst = d => e = pkt)
    /\ \A j \in PortsBehind(v) :
          pkt.dst < j * ServersPerLeaf \/ pkt.dst >= (j + 1) * ServersPerLeaf => e = NullPkt

Forwards(v, pkt, e) ==
    /\ IF v[1][1] = "L" THEN ToSpine(v, pkt, e) /\ WithinLeaf(v, pkt, e) ELSE ToLeaf(v, pkt, e)
    /\ ~pkt.val => e = NullPkt

\* f itself; the choice only makes TLC compute a constant table once.
Table(f) == CHOOSE g \in {f} : g = f

\* All that the solver may enqueue, for each packet at the head.
Outcomes ==
    Table([x \in Voqs \X AllPackets |-> {e \in AllPackets : Forwards(x[1], x[2], e)}])

\* What the VOQ gets: in a reduced network there is one outcome (ForwardedOnce),
\* so it makes no difference which of them this takes.
Forwarded ==
    Table([x \in Voqs \X AllPackets |-> SetToSeq({e \in Outcomes[x] : e.val})])

\* An empty queue shows a packet that is none at its head.
Enqueued(v, q) == IF q = <<>> THEN <<>> ELSE Forwarded[<<v, q[1]>>]

-----------------------------------------------------------------------------
(* Steps *)

Keep(n, q) == SubSeq(q, 1, IF Len(q) < n THEN Len(q) ELSE n)

\* deq_cnt is 1 whenever there is a packet at the head.
Rest(q) == IF q = <<>> THEN <<>> ELSE Tail(q)

Mut_Served(m) == [v \in Voqs |-> voq[v]]

Served(m) == [v \in Voqs |-> IF v \in m THEN Tail(voq[v]) ELSE voq[v]]

\* The packet that the crossbar puts on the link behind this output port.
OnLink(m, p) == SetToSeq({Head(voq[v]) : v \in {x \in m : x[2] = p}})

Places(f) == UNION {{x} \X DOMAIN f[x] : x \in DOMAIN f}

TotalLen(f) == Cardinality(Places(f))

TotalTo(d, f) == Cardinality({x \in Places(f) : f[x[1]][x[2]].dst = d})

\* What the forwarding modules enqueue in the next step and finds no room.
DroppedTo(d, left) ==
    Cardinality({v \in Voqs : Len(left[v]) = VoqSize /\ \E e \in ToSet(Enqueued(v, inq'[v[1]])) : e.dst = d})

\* The enqs of all servers' queues: which slots hold a packet, without holes.
EnqSlots == {x \in SUBSET (Senders \X (1 .. MaxEnq)) :
                \A u \in x : \A k \in 1 .. u[2] : <<u[1], k>> \in x}

\* What the servers may send in a step, at most n packets together.
Sendings(n) ==
    UNION {{arr \in [slots -> {pkt \in AllPackets : pkt.val}] :
              \A u \in slots : arr[u] \in Arrivals(u[1])} :
           slots \in {x \in EnqSlots : Cardinality(x) <= n}}

\* What is in a server's queue in the next step.
Joined(arr, d) ==
    Keep(QueueSize, Rest(inq[ServerPort(d)]) \o
         [k \in 1 .. Cardinality({u \in DOMAIN arr : u[1] = d}) |-> arr[<<d, k>>]])

Step(m, arr) ==
    LET left == Served(m)
        in == [d \in Servers |-> Joined(arr, d)]
        joined == [d \in Servers |->
                     SubSeq(in[d], Len(Rest(inq[ServerPort(d)])) + 1, Len(in[d]))]
    IN  /\ inq' = [p \in Ports |->
                     IF IsServerPort(p) THEN in[p[2] * ServersPerLeaf + p[3]]
                                        ELSE OnLink(m, Peer(p))]
        /\ voq' = [v \in Voqs |-> Keep(VoqSize, left[v] \o Enqueued(v, inq'[v[1]]))]
        /\ down' = [d \in Servers |-> OnLink(m, ServerPort(d))]
        /\ owed' = [d \in Servers |->
                      owed[d] + TotalTo(d, joined) - DroppedTo(d, left) - Len(down'[d])]

Room == InFlight - TotalLen(voq) - TotalLen([d \in Servers |-> Rest(inq[ServerPort(d)])])

Init ==
    /\ inq = [p \in Ports |-> <<>>]
    /\ voq = [v \in Voqs |-> <<>>]
    /\ down = [d \in Servers |-> <<>>]
    /\ owed = [d \in Servers |-> 0]

Mut_Matchings ==
    {m \in SUBSET {v \in Voqs : voq[v] # <<>>} :
        MaximalMatching([v \in Voqs |-> Len(voq[v]) - 1], m)}

Matchings ==
    {m \in SUBSET {v \in Voqs : voq[v] # <<>>} : MaximalMatching([v \in Voqs |-> Len(voq[v])], m)}

\* A time step in which the servers send nothing, and one in which some do.
Quiet == \E m \in Matchings : Step(m, <<>>)

Busy == \E m \in Matchings, arr \in Sendings(Room) : arr # <<>> /\ Step(m, arr)

Next == Quiet \/ Busy

Spec == Init /\ [][Next]_vars

-----------------------------------------------------------------------------
(* Bounds that the modules add to the encoding on packets they know of.    *)

InFront(p) == ToSet(inq[p])

\* LeafXBarQM, and ReducedLeafXBarQM: on the link to a server only packets for
\* it, on one up to a spine only those that leave the leaf.
LeafXBarBounds ==
    /\ \A d \in Servers : \A pkt \in ToSet(down[d]) : pkt.dst = d
    /\ \A p \in Ports : p[1] = "S" => \A pkt \in InFront(p) : ~Inside(p[3], pkt.dst)

\* LeafForwardingQM: from a spine only packets for this leaf that chose it.
LeafInputBounds ==
    \A p \in Ports : p[1] = "L" /\ ~IsServerPort(p) =>
        \A pkt \in InFront(p) : Inside(p[2], pkt.dst) /\ pkt.via = p[3] - ServersPerLeaf

\* SpineForwardingQM: in front of a spine and inside only packets that chose it.
SpineBounds ==
    /\ \A p \in Ports : p[1] = "S" => \A pkt \in InFront(p) : pkt.via = p[2]
    /\ \A v \in Voqs : v[1][1] = "S" => \A pkt \in ToSet(voq[v]) : pkt.via = v[1][2]

-----------------------------------------------------------------------------
(* Properties *)

\* Every packet is where the modules say that packets are.  The modules do not
\* check these bounds but add them to the encoding, so a packet that forwarding
\* misdirects would not be reported, it would make the whole execution
\* impossible; so the bounds must follow from the forwarding and the wiring.
AssertedBounds == LeafXBarBounds /\ LeafInputBounds /\ SpineBounds

\* Whatever is at the head of a port's queue, a packet or, when the queue is
\* empty, any packet that is none, the constraints of all its VOQs have exactly
\* one solution: the one VOQ gets the packet, all others nothing.  They are
\* written as separate implications about overlapping cases: one too many makes
\* the step impossible, one missing lets the solver make packets up
\* (leaf_forwarding_qm.cpp:79-123, 271-276, spine_forwarding_qm.cpp:44-77).
ForwardedOnce ==
    \A p \in Ports :
       \A pkt \in IF inq[p] = <<>> THEN {x \in AllPackets : ~x.val} ELSE {inq[p][1]} :
          LET out == {v \in Voqs : v[1] = p}
          IN  IF pkt.val
              THEN \E u \in out : \A v \in out :
                      Outcomes[<<v, pkt>>] = IF v = u THEN {pkt} ELSE {NullPkt}
              ELSE \A v \in out : Outcomes[<<v, pkt>>] = {NullPkt}

\* A server gets what was sent to it: packets are neither duplicated nor lost,
\* except at a full queue, on the way through up to three switches.
Conserved ==
    \A d \in Servers :
       owed[d] = TotalTo(d, voq) + TotalTo(d, [s \in Servers |-> Rest(inq[ServerPort(s)])])

NothingArrives ==
    \A d \in Servers : inq'[ServerPort(d)] = Rest(inq[ServerPort(d)])

Drained == \A p \in Ports : inq[p] = <<>> /\ \A v \in Voqs : voq[v] = <<>>

\* Once the servers stop sending, and time goes on, the network runs empty: no
\* packet circulates between the switches or waits in a queue that is never
\* served, whichever maximal matchings the crossbars make.
Drains == <>[][NothingArrives]_vars /\ WF_vars(Quiet) => <>[]Drained
=============================================================================
