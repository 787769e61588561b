----------------------------- MODULE SpecFactory -----------------------------
(***************************************************************************)
(* The specs the search draws (src/src/spec_factory.cpp): the Comps that   *)
(* can be drawn at random, and the neighbors of one.  A set holds every    *)
(* spec that a draw may return.                                            *)
(***************************************************************************)
EXTENDS WlSpec

CONSTANTS
    TargetQueues,  \* target_queues
    ConstVals,     \* the values of rhs_const_dist
    DstVals,       \* and of pkt_meta1_val_dist
    TimeCoeffs     \* and of rhs_time_coeff_dist

ASSUME FactoryAssumption ==
    /\ TargetQueues \subseteq Queues /\ TargetQueues # {}
    /\ ConstVals \cup DstVals \subseteq 0 .. MaxInt - 1
    /\ TimeCoeffs \subseteq Nat \ {0}

\* No bound in time overflows an int: those of params.hpp are far from it.
ASSUME CoeffsAssumption ==
    \A c \in TimeCoeffs \cup {1} : c < MaxInt /\ c * TotalTime <= MaxInt

Mut_Timed(s, lo, hi) ==
    LET steady == IsComp(s) /\ s.is = "some" /\ s.rhs.kind = "constant"
    IN  [spec |-> s,
         lo |-> IF steady /\ s.op \in {"LE", "LT"} THEN 0 ELSE lo,
         hi |-> IF steady /\ s.op \in {"GE", "GT"} THEN TotalTime - 1 ELSE hi]

\* TimedSpec: a Comp of a metric that never decreases holds on to the last
\* step when it bounds it below, and from the first when it bounds it above.
Timed(s, lo, hi) ==
    LET steady == IsComp(s) /\ s.is = "some" /\ s.rhs.kind = "constant"
                    /\ s.lhs.metric \in NonDecreasing
    IN  [spec |-> s,
         lo |-> IF steady /\ s.op \in {"LE", "LT"} THEN 0 ELSE lo,
         hi |-> IF steady /\ s.op \in {"GE", "GT"} THEN TotalTime - 1 ELSE hi]

Useful(comps) == {c \in comps : ~IsEmptySpec(c) /\ ~IsAllSpec(c)}

-----------------------------------------------------------------------------
(* Draws.                                                                  *)

RandomIndivs == {Metric(m, {q}) : m \in Metrics, q \in TargetQueues}

RandomQSums ==
    {Metric("CENQ", qs) : qs \in {x \in SUBSET TargetQueues : Cardinality(x) > 1}}

\* get_metric_params: whether time is drawn, and the constants that are.
TimeValid(lhs) == lhs.metric # "DST"
Constants(lhs) == IF lhs.metric = "DST" THEN DstVals ELSE ConstVals

RandomRhs(lhs) ==
    {Constant(c) : c \in Constants(lhs)}
      \cup (IF TimeValid(lhs) THEN {Time(c) : c \in TimeCoeffs} ELSE {})

RandomRaw ==
    {RawComp(l, op, r) : l \in RandomIndivs \cup RandomQSums, op \in Ops,
                         r \in UNION {RandomRhs(x) : x \in RandomIndivs \cup RandomQSums}}

\* random_comp
RandomComps ==
    Useful({Normalized(c) : c \in {d \in RandomRaw : d.rhs \in RandomRhs(d.lhs)}})

\* random_timed_spec
RandomTimedSpecs ==
    {Timed(c, r[1], r[2]) : c \in RandomComps, r \in {x \in Steps \X Steps : x[1] <= x[2]}}

-----------------------------------------------------------------------------
(* Neighbors.                                                              *)

OneMore(qs) == {qs \cup {q} : q \in TargetQueues \ qs}
OneLess(qs) == {qs \ {q} : q \in qs}

LhsNeighbors(lhs) ==
    IF IsQSum(lhs)
      THEN {Metric(lhs.metric, qs) : qs \in OneLess(lhs.queues)
              \cup (IF Cardinality(lhs.queues) < Cardinality(TargetQueues)
                      THEN OneMore(lhs.queues) ELSE {})}
      ELSE {Metric(lhs.metric, {q}) :
              q \in IF Cardinality(TargetQueues) > 1 THEN TargetQueues \ lhs.queues
                                                     ELSE TargetQueues}

RhsNeighbors(lhs, rhs) ==
    IF rhs.kind = "time"
      THEN {Time(c) : c \in TimeCoeffs \ {rhs.coeff}} \cup {Constant(rhs.coeff)}
      ELSE {Constant(c) : c \in Constants(lhs) \ {rhs.value}}
             \cup (IF TimeValid(lhs) THEN {Time(1)} ELSE {})

RawNeighbors(c) ==
    {RawComp(l, c.op, c.rhs) : l \in LhsNeighbors(c.lhs)}
      \cup {RawComp(c.lhs, op, c.rhs) : op \in Ops \ {c.op}}
      \cup {RawComp(c.lhs, c.op, r) : r \in RhsNeighbors(c.lhs, c.rhs)}

\* pick_neighbors(Comp&)
NeighborComps(c) == Useful({Normalized(n) : n \in RawNeighbors(c)})

\* pick_neighbors(TimedSpec&)
NeighborTimedSpecs(ts) ==
    {Timed(c, ts.lo, ts.hi) : c \in IF IsComp(ts.spec) THEN NeighborComps(ts.spec) ELSE {}}
      \cup {Timed(ts.spec, lo, ts.hi) : lo \in (0 .. ts.hi) \ {ts.lo}}
      \cup {Timed(ts.spec, ts.lo, hi) : hi \in (ts.lo .. TotalTime - 1) \ {ts.hi}}

=============================================================================
