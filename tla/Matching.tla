------------------------------ MODULE Matching ------------------------------
(***************************************************************************)
(* What the matchings of an input-queued switch are, whichever of them a   *)
(* switch makes.  A queue is the pair of its input and its output port.    *)
(***************************************************************************)
EXTENDS Integers

CONSTANT Voqs    \* the switch's virtual output queues

SharePort(u, v) == u[1] = v[1] \/ u[2] = v[2]

\* Each port takes part once, and no waiting packet finds both its ports free.
MaximalMatching(l, m) ==
    /\ \A u, v \in m : SharePort(u, v) => u = v
    /\ \A v \in m : l[v] > 0
    /\ \A v \in Voqs : l[v] > 0 => \E u \in m : SharePort(u, v)
=============================================================================
