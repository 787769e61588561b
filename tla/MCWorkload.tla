------------------------------ MODULE MCWorkload ------------------------------
(* Three queues and three steps, at most one packet to a queue in a step.   *)
EXTENDS Workload

MCQueues == 0 .. 2

\* Arrivals of one queue, a step at a time: none, or a packet and where to.
MCArrivals ==
    <<[0 .. 2 -> {-1, 0, 1}],
      {[t \in 0 .. 2 |-> -1], [t \in 0 .. 2 |-> t % 2],
       [t \in 0 .. 2 |-> IF t = 1 THEN 1 ELSE -1], [t \in 0 .. 2 |-> IF t = 2 THEN 0 ELSE -1]},
      {[t \in 0 .. 2 |-> -1], [t \in 0 .. 2 |-> 1]}>>

Execution(d) ==
    [dst |-> d,
     cenq |-> [q \in 0 .. 2 |->
                 [t \in 0 .. 2 |-> Cardinality({x \in 0 .. t : d[q][x] # -1})]]]

MCExecutions ==
    {Execution([q \in 0 .. 2 |-> CASE q = 0 -> a [] q = 1 -> b [] q = 2 -> c]) :
        a \in MCArrivals[1], b \in MCArrivals[2], c \in MCArrivals[3]}

Cenq(qs) == Metric("CENQ", qs)
Dst(q) == Metric("DST", {q})

MCDrawn ==
    {Timed(Comp(Cenq({0}), "LE", Constant(0)), 0, 1),
     Timed(Comp(Cenq({2}), "LT", Constant(1)), 1, 1),
     Timed(Comp(Cenq({0, 1}), "GE", Constant(1)), 1, 1),
     Timed(Comp(Cenq({0, 1, 2}), "GE", Time(2)), 0, 0),
     Timed(Comp(Cenq({0, 1, 2}), "GT", Time(1)), 1, 2),
     Timed(Comp(Cenq({0}), "GE", Constant(1)), 0, 1),
     Timed(Comp(Cenq({0}), "EQ", Time(1)), 1, 2),
     Timed(Comp(Cenq({1}), "LE", Time(1)), 0, 2),
     Timed(Comp(Dst(0), "LE", Constant(0)), 1, 2),
     Timed(Comp(Dst(0), "GT", Constant(0)), 1, 1),
     Timed(Comp(Dst(0), "EQ", Constant(0)), 0, 1)}

MCWritten == {Timed(Same("DST", 0), 0, 1), Timed(Unique("DST", {0, 1}), 0, 1)}

MCNear ==
    {Timed(Comp(Cenq({0}), "LT", Constant(0)), 0, 1),
     Timed(Comp(Cenq({0, 1}), "EQ", Time(2)), 1, 1),
     Timed(Comp(Dst(0), "EQ", Constant(0)), 0, 2),
     Timed(Same("DST", 0), 1, 1),
     Timed(Same("DST", 0), 1, 2)}

MCOthers ==
    {c \in {RawComp(Cenq(l), op, Cenq(r)) : l, r \in SUBSET MCQueues \ {{}}, op \in Ops} :
        IsIndiv(c.lhs) => IsIndiv(c.rhs)}
      \cup {Same("DST", 0), Incr("CENQ", 0), Decr("DST", 0), Incr("DST", 0), Unique("DST", {0, 1})}
=============================================================================
