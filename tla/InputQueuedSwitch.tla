-------------------------- MODULE InputQueuedSwitch --------------------------
(***************************************************************************)
(* What fperf's switch crossbar promises: in every time step a maximal     *)
(* matching of inputs with outputs, by which each matched virtual output   *)
(* queue (VOQ) hands one packet to its output line.                        *)
(***************************************************************************)
EXTENDS Integers, Matching

CONSTANTS
    Ports,
    Size,    \* packets a queue can hold
    NoPkt    \* an empty line

VARIABLES
    len,    \* packets in each queue in this time step
    match,  \* the queues that give away a packet in this time step
    line    \* the queue that the packet on each output line comes from

vars == <<len, match, line>>

Smaller(m, n) == IF m <= n THEN m ELSE n

Init ==
    /\ len \in [Voqs -> 0 .. 1]
    /\ match \in SUBSET Voqs
    /\ MaximalMatching(len, match)
    /\ line = [j \in Ports |-> NoPkt]

\* A packet is on the line in the step after it left its queue, and then gone.
Next ==
    /\ \E in \in [Voqs -> 0 .. 1] :
          len' = [v \in Voqs |->
                     Smaller(Size, len[v] - (IF v \in match THEN 1 ELSE 0) + in[v])]
    /\ match' \in SUBSET Voqs
    /\ MaximalMatching(len', match')
    /\ line' \in [Ports -> match \cup {NoPkt}]
    /\ \A v \in Voqs : v \in match <=> line'[v[2]] = v
    /\ \A j \in Ports : line'[j] # NoPkt => line'[j][2] = j

Spec == Init /\ [][Next]_vars
=============================================================================
