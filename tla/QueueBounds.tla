----------------------------- MODULE QueueBounds -----------------------------
(***************************************************************************)
(* The sizes that a queue and the modules at its ends are built with.      *)
(***************************************************************************)
EXTENDS Integers

CONSTANTS
    Size,      \* number of element slots (Queue::size_)
    MaxEnq,    \* packets that may be enqueued in a step (Queue::max_enq_)
    TotalTime  \* time steps of the encoding (Queue::total_time)
=============================================================================
