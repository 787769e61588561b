-------------------------------- MODULE Fifo --------------------------------
(***************************************************************************)
(* What a queue of fperf promises: a bounded first-in first-out buffer     *)
(* that loses arrivals only when it is full, and loses the latest ones.    *)
(***************************************************************************)
EXTENDS Integers, Sequences

CONSTANTS Size, MaxEnq, MaxDeq, Pkt

VARIABLES
    buf,   \* the packets in the queue, head first
    cenq,  \* packets offered to the queue so far, lost ones included
    cdeq   \* packets taken from the queue so far

vars == <<buf, cenq, cdeq>>

Arrivals == UNION {[1 .. n -> Pkt] : n \in 0 .. MaxEnq}

Smaller(m, n) == IF m <= n THEN m ELSE n

\* The first Size packets of what is left of s behind its first d packets,
\* followed by the arrivals.
DropTail(s, d, arr) ==
    LET left == Len(s) - d
    IN  [i \in 1 .. Smaller(Size, left + Len(arr)) |->
            IF i <= left THEN s[i + d] ELSE arr[i - left]]

\* Packets that arrive at the start may be in the buffer at once.
Init == buf \in Arrivals /\ cenq = Len(buf) /\ cdeq = 0

Next ==
    \E d \in 0 .. MaxDeq, arr \in Arrivals :
       /\ d <= Len(buf)
       /\ buf' = DropTail(buf, d, arr)
       /\ cenq' = cenq + Len(arr)
       /\ cdeq' = cdeq + d

Spec == Init /\ [][Next]_vars
=============================================================================
