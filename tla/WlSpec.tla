-------------------------------- MODULE WlSpec --------------------------------
(***************************************************************************)
(* The specs a workload is made of (src/lib/workload.hpp): how a Comp is   *)
(* normalised when it is constructed (src/src/workload.cpp), what the      *)
(* solver is given for a spec, and how a spec is evaluated on an example   *)
(* (src/src/contention_point.cpp).                                         *)
(*                                                                         *)
(* A metric expression is a metric and a set of queues: an Indiv has one   *)
(* queue, a QSum several.  Of the metrics, CENQ stands for those that are  *)
(* always valid and never decrease, DST for those that have a value only   *)
(* in the steps in which the packets that arrive agree on one.             *)
(***************************************************************************)
EXTENDS Integers, FiniteSets

CONSTANTS
    InQueueCnt, \* in_queue_cnt
    TotalTime,  \* total_time
    MaxEnq,     \* MAX_ENQ
    MaxInt,     \* INT_MAX
    Executions  \* what arrives: [cenq, dst], each a function of queue and step

ASSUME SpecAssumption ==
    /\ InQueueCnt \in Nat
    /\ TotalTime \in Nat \ {0} /\ MaxEnq \in Nat \ {0} /\ MaxInt \in Nat

Queues == 0 .. InQueueCnt - 1
Steps == 0 .. TotalTime - 1

NoValue == -1   \* nothing arrives, or packets of different destinations

\* Without an arrival there is no destination.
ASSUME ExecutionsAssumption ==
    /\ Executions \subseteq [cenq : [Queues -> [Steps -> Nat]],
                             dst : [Queues -> [Steps -> Nat \cup {NoValue}]]]
    /\ \A e \in Executions, q \in Queues, t \in Steps :
          /\ e.cenq[q][t] - (IF t = 0 THEN 0 ELSE e.cenq[q][t - 1]) \in 0 .. MaxEnq
          /\ e.cenq[q][t] = (IF t = 0 THEN 0 ELSE e.cenq[q][t - 1]) => e.dst[q][t] = NoValue

-----------------------------------------------------------------------------
(* Expressions.                                                            *)

Ops == {"GT", "GE", "LT", "LE", "EQ"}

Metrics == {"CENQ", "DST"}

\* Metric::properties
NonNegative == Metrics
NonDecreasing == {"CENQ"}

Metric(m, qs) == [kind |-> "metric", metric |-> m, queues |-> qs]
Constant(c) == [kind |-> "constant", value |-> c]
Time(c) == [kind |-> "time", coeff |-> c]

IsIndiv(x) == x.kind = "metric" /\ Cardinality(x.queues) = 1
IsQSum(x) == x.kind = "metric" /\ Cardinality(x.queues) > 1

\* unsigned int, and int_val(int) of one.
Unsigned(n) == n % (2 * (MaxInt + 1))
Signed(u) == IF u > MaxInt THEN u - 2 * (MaxInt + 1) ELSE u

\* Op::eval
Compare(a, op, b) ==
    \/ op = "GT" /\ a > b
    \/ op = "GE" /\ a >= b
    \/ op = "LT" /\ a < b
    \/ op = "LE" /\ a <= b
    \/ op = "EQ" /\ a = b

\* Op::neg
Neg(op) == [GT |-> "LE", GE |-> "LT", LT |-> "GE", LE |-> "GT", EQ |-> "EQ"][op]

-----------------------------------------------------------------------------
(* The four specs that are not a Comp keep the object they are made as;    *)
(* a Comp also keeps what normalising found out about it.                  *)

Same(m, q) == [kind |-> "same", metric |-> m, queue |-> q]
Incr(m, q) == [kind |-> "incr", metric |-> m, queue |-> q]
Decr(m, q) == [kind |-> "decr", metric |-> m, queue |-> q]
Unique(m, qs) == [kind |-> "unique", metric |-> m, queues |-> qs]

RawComp(lhs, op, rhs) ==
    [kind |-> "comp", lhs |-> lhs, op |-> op, rhs |-> rhs, is |-> "some"]

IsComp(s) == s.kind = "comp"
IsEmptySpec(s) == IsComp(s) /\ s.is = "empty"
IsAllSpec(s) == IsComp(s) /\ s.is = "all"

-----------------------------------------------------------------------------
(* Comp::normalize.  An Indiv compared with a QSum is left out: nothing    *)
(* constructs one, and the code dereferences a null pointer on it.         *)

Flagged(c, is) == [c EXCEPT !.is = is]

\* Whatever the values are, the comparison holds, or fails.
Known(c, holds, fails, otherwise) ==
    IF c.op \in holds THEN Flagged(c, "all")
    ELSE IF c.op \in fails THEN Flagged(c, "empty")
    ELSE otherwise

\* What is left of a sum, against zero.
Rest(c, qs, op) == RawComp(Metric(c.rhs.metric, qs), op, Constant(0))

BothQSums(c) ==
    LET L == c.lhs.queues
        R == c.rhs.queues
    IN  CASE L = R -> Known(c, {"GE", "LE"}, {"GT", "LT"}, c)
          [] L \subseteq R /\ L # R ->
               Known(c, {"LE"}, {"GT"}, Rest(c, R \ L, IF c.op = "EQ" THEN "LE" ELSE Neg(c.op)))
          [] R \subseteq L /\ L # R ->
               Known(c, {"GE"}, {"LT"}, Rest(c, L \ R, c.op))
          [] L \cap R # {} /\ ~(L \subseteq R) /\ ~(R \subseteq L) ->
               RawComp(Metric(c.lhs.metric, L \ R), c.op, Metric(c.rhs.metric, R \ L))
          [] OTHER -> c

QSumAndIndiv(c) ==
    IF c.rhs.queues \subseteq c.lhs.queues
      THEN Known(c, {"GE"}, {"LT"}, Rest(c, c.lhs.queues \ c.rhs.queues, c.op))
      ELSE c

AgainstMetric(c) ==
    IF c.rhs.kind # "metric" THEN c
    ELSE IF IsIndiv(c.lhs) /\ IsIndiv(c.rhs)
      THEN IF c.lhs.metric # c.rhs.metric THEN Flagged(c, "empty") ELSE c
    ELSE IF c.lhs.metric # c.rhs.metric THEN c
    ELSE IF IsQSum(c.rhs) THEN BothQSums(c) ELSE QSumAndIndiv(c)

Mut_AgainstConstant(c) ==
    IF c.rhs.kind # "constant" THEN c
    ELSE IF c.op = "GT"
      THEN [c EXCEPT !.op = "GE", !.rhs = Constant(c.rhs.value)]
    ELSE c

\* The test for the bound 0 is of the pointer, and never true.
AgainstConstant(c) ==
    IF c.rhs.kind # "constant" THEN c
    ELSE IF c.op = "GT"
      THEN [c EXCEPT !.op = "GE", !.rhs = Constant(Unsigned(c.rhs.value + 1))]
    ELSE IF c.op = "LT"
      THEN [c EXCEPT !.op = "LE", !.rhs = Constant(Unsigned(c.rhs.value - 1))]
    ELSE c

\* The most an expression is taken to grow by in a step.
Growth(x) == (IF IsIndiv(x) THEN 1 ELSE Cardinality(x.queues) - 1) * MaxEnq

TooFast(c) ==
    \/ c.op \in {"GE", "EQ"} /\ c.rhs.coeff > Growth(c.lhs)
    \/ c.op = "GT" /\ c.rhs.coeff >= Growth(c.lhs)

AgainstTime(c) ==
    IF c.rhs.kind # "time" THEN c
    ELSE IF c.rhs.coeff = 0 THEN [c EXCEPT !.rhs = Constant(0)]
    ELSE IF TooFast(c) THEN Flagged(c, "empty") ELSE c

Normalized(c) == AgainstTime(AgainstConstant(AgainstMetric(c)))

Comp(lhs, op, rhs) == Normalized(RawComp(lhs, op, rhs))

\* Comp::get_zero_queues, with the metric.
ZeroQueues(s) ==
    IF IsComp(s) /\ s.op = "LE" /\ s.rhs = Constant(0) /\ s.lhs.metric \in NonNegative
      THEN {<<s.lhs.metric, q>> : q \in s.lhs.queues}
      ELSE {}

-----------------------------------------------------------------------------
(* The values of an execution.                                             *)

Arrived(e, q, t) == e.cenq[q][t] - (IF t = 0 THEN 0 ELSE e.cenq[q][t - 1])

Value(m, q, e, t) == IF m = "CENQ" THEN e.cenq[q][t] ELSE e.dst[q][t]
Valid(m, q, e, t) == m = "CENQ" \/ e.dst[q][t] # NoValue

ExprValid(x, e, t) == x.kind = "metric" => \A q \in x.queues : Valid(x.metric, q, e, t)

\* Queue after queue.
Total(f) ==
    LET upTo[n \in 0 .. InQueueCnt] == IF n = 0 THEN 0 ELSE upTo[n - 1] + f[n - 1]
    IN  upTo[InQueueCnt]

SumOf(x, e, t) ==
    Total([q \in Queues |-> IF q \in x.queues THEN Value(x.metric, q, e, t) ELSE 0])

\* get_expr(Expr*), as an int.
Encoded(x, e, t) ==
    CASE x.kind = "metric"   -> SumOf(x, e, t)
      [] x.kind = "constant" -> Signed(x.value)
      [] x.kind = "time"     -> Signed(Unsigned(x.coeff * (t + 1)))

\* eval_m_expr, eval_rhs, as an unsigned int.
Evaluated(x, e, t) ==
    CASE x.kind = "metric"   -> SumOf(x, e, t)
      [] x.kind = "constant" -> x.value
      [] x.kind = "time"     -> Unsigned(x.coeff * (t + 1))

-----------------------------------------------------------------------------
(* What get_expr asks of the steps lo to hi, and eval_spec.                *)

EncodedComp(c, e, t) ==
    /\ ExprValid(c.lhs, e, t) /\ ExprValid(c.rhs, e, t)
    /\ Compare(Encoded(c.lhs, e, t), c.op, Encoded(c.rhs, e, t))

EvaluatedComp(c, e, t) ==
    /\ ExprValid(c.lhs, e, t) /\ ExprValid(c.rhs, e, t)
    /\ Compare(Evaluated(c.lhs, e, t), c.op, Evaluated(c.rhs, e, t))

Distinct(s, e, t) ==
    \A q, r \in s.queues :
        q # r /\ Valid(s.metric, q, e, t) /\ Valid(s.metric, r, e, t)
            => Value(s.metric, q, e, t) # Value(s.metric, r, e, t)

AllValid(s, e, lo, hi) == \A t \in lo .. hi : Valid(s.metric, s.queue, e, t)

Follows(s, e, lo, hi, op) ==
    /\ AllValid(s, e, lo, hi)
    /\ \A t \in lo + 1 .. hi :
           Compare(Value(s.metric, s.queue, e, t), op, Value(s.metric, s.queue, e, t - 1))

EncodedOver(s, e, lo, hi) ==
    CASE s.kind = "comp"   -> \A t \in lo .. hi : EncodedComp(s, e, t)
      [] s.kind = "unique" -> \A t \in lo .. hi : Distinct(s, e, t)
      [] s.kind = "same"   -> \/ \A t \in lo + 1 .. hi : Arrived(e, s.queue, t) = 0
                              \/ Follows(s, e, lo, hi, "EQ")
      [] s.kind = "incr"   -> Follows(s, e, lo, hi, "GT")
      [] s.kind = "decr"   -> Follows(s, e, lo, hi, "LT")

Mut_EvaluatedOver(s, e, lo, hi) ==
    CASE s.kind = "comp"   -> \A t \in lo .. hi : EvaluatedComp(s, e, t)
      [] s.kind = "unique" -> \A t \in lo + 1 .. hi : Distinct(s, e, t)
      [] s.kind = "same"   -> Follows(s, e, lo, hi, "EQ")
      [] s.kind = "incr"   -> Follows(s, e, lo, hi, "GE")
      [] s.kind = "decr"   -> Follows(s, e, lo, hi, "LT")

EvaluatedOver(s, e, lo, hi) ==
    CASE s.kind = "comp"   -> \A t \in lo .. hi : EvaluatedComp(s, e, t)
      [] s.kind = "unique" -> \A t \in lo + 1 .. hi : Distinct(s, e, t)
      [] s.kind = "same"   -> Follows(s, e, lo, hi, "EQ")
      [] s.kind = "incr"   -> Follows(s, e, lo, hi, "GT")
      [] s.kind = "decr"   -> Follows(s, e, lo, hi, "LT")

=============================================================================
