------------------------------- MODULE Workload -------------------------------
(***************************************************************************)
(* A workload (src/src/workload.cpp): a timeline of entries, each a range  *)
(* of steps with the specs that hold in it, and the TimedSpecs that are    *)
(* regenerated from it after every change.                                 *)
(*                                                                         *)
(* An entry is a set of pointers.  Normalising an entry clones its Comps,  *)
(* so equal Comps are told apart, and an entry is a bag; a spec that is    *)
(* not cloned keeps its identity over the entries it is in.  The Comps of  *)
(* a timeline compare a metric with a constant or with time.               *)
(***************************************************************************)
EXTENDS SpecFactory, Bags, FiniteSetsExt

CONSTANTS
    MaxSize,  \* max_size
    Written,  \* the TimedSpecs of a base workload
    Drawn,    \* a bound: the TimedSpecs that are drawn
    Near,     \* a bound: those that are taken as neighbors
    Others,   \* specs that are constructed besides those drawn
    MaxConst  \* a bound: the largest constant that neighbors are taken of

ASSUME WorkloadAssumption ==
    /\ MaxSize \in Nat
    /\ Drawn \subseteq RandomTimedSpecs
    /\ MaxConst \in Nat /\ MaxConst < MaxInt

\* The Comps of two metrics that are constructed: no queue's value is compared
\* with a sum, and sums are of CENQ.
Indivs == {Metric(m, {q}) : m \in Metrics, q \in Queues}
Sums == {Metric("CENQ", qs) : qs \in SUBSET Queues \ {{}}}

OfTwoMetrics ==
    {RawComp(x, op, y) : x \in Indivs, op \in Ops, y \in Indivs}
      \cup {RawComp(x, op, y) : x \in {s \in Sums : ~IsIndiv(s)}, op \in Ops, y \in Sums}

OfOneMetric ==
    {Same(m, q) : m \in Metrics, q \in Queues}
      \cup {Incr(m, q) : m \in Metrics, q \in Queues}
      \cup {Decr(m, q) : m \in Metrics, q \in Queues}
      \cup {Unique(m, qs) : m \in Metrics, qs \in SUBSET Queues}

ASSUME OthersAssumption == Others \subseteq OfTwoMetrics \cup OfOneMetric

\* The Comps of numbers that a base workload is written with: one of two
\* metrics would lose its right side where zeros are taken out of it.  As in
\* those drawn, DST is not compared with time, and no bound in time overflows.
OfNumbers ==
    {RawComp(x, op, Constant(v)) : x \in Indivs \cup Sums, op \in Ops, v \in 0 .. MaxInt - 1}
      \cup {RawComp(x, op, Time(c)) :
               x \in {y \in Indivs \cup Sums : TimeValid(y)}, op \in Ops,
               c \in {k \in 0 .. MaxInt - 1 : k * TotalTime <= MaxInt}}

ASSUME TimedAssumption ==
    /\ \A ts \in Written \cup Near : ts.lo \in Steps /\ ts.hi \in Steps /\ ts.lo <= ts.hi
    /\ \A ts \in Written : ts.spec \in OfOneMetric \cup {Normalized(c) : c \in OfNumbers}

VARIABLES
    timeline,  \* range -> the specs that hold in it
    empty,     \* the last change left a contradiction, or too many specs
    made       \* the last spec constructed, added or put in place of another

vars == <<timeline, empty, made>>

None == [kind |-> "none"]

Whole == <<0, TotalTime - 1>>

\* Specs that normalising leaves the objects they are.
Kept(s) == ~IsComp(s) \/ s.is = "empty"

-----------------------------------------------------------------------------
(* Workload::normalize(time_range_t)                                       *)

Zeros(b) == UNION {ZeroQueues(s) : s \in BagToSet(b)}

IsZero(s) == ZeroQueues(s) # {}

\* The queues of a Comp that are not known to be zero.
NonZero(s, zeros) == {q \in s.lhs.queues : <<s.lhs.metric, q>> \notin zeros}

Affected(s, zeros) == IsComp(s) /\ ~IsZero(s) /\ NonZero(s, zeros) # s.lhs.queues

Drops(s, zeros) == Affected(s, zeros) /\ NonZero(s, zeros) = {}

\* What is left of a Comp once the zeros are taken out of it.  One that
\* this makes empty is known by the entry it was made in.
Propagated(s, zeros, r) ==
    IF ~Affected(s, zeros) THEN s
    ELSE LET c == Comp(Metric(s.lhs.metric, NonZero(s, zeros)), s.op, s.rhs)
         IN  IF c.is = "empty"
               THEN [kind |-> "comp", lhs |-> c.lhs, op |-> c.op, rhs |-> c.rhs,
                     is |-> "empty", in |-> r]
               ELSE c

ZeroIs(s, t) == Compare(0, s.op, Evaluated(s.rhs, None, t))

Impossible(b, r) ==
    \E s \in BagToSet(b) : Drops(s, Zeros(b)) /\ \E t \in r[1] .. r[2] : ~ZeroIs(s, t)

OnlySuch(b, set) == [s \in BagToSet(b) \cap set |-> b[s]]

\* Of several empty specs the first is kept, in the order of the pointers.
Marked(b) == {s \in BagToSet(b) : IsEmptySpec(s)}

Entry(b, r) ==
    IF Marked(b) # {} THEN SetToBag({CHOOSE s \in Marked(b) : TRUE})
    ELSE LET zeros == Zeros(b)
             live == {s \in BagToSet(b) : ~IsAllSpec(s) /\ ~Drops(s, zeros)}
         IN  BagOfAll(LAMBDA s : Propagated(s, zeros, r), OnlySuch(b, live))

Contradicts(b, r) == Marked(b) = {} /\ Impossible(b, r)

-----------------------------------------------------------------------------
(* Workload::normalize(), Workload::regenerate_spec_set.                   *)

\* Entries of the same objects: without Comps, for those are cloned.
Alike(b, c) == b = c /\ \A s \in BagToSet(b) : Kept(s)

\* The range of r and the entries after it that are like it.
RunFrom(tl, r) ==
    LET alike(hi) == \A x \in DOMAIN tl : r[1] <= x[1] /\ x[1] <= hi => Alike(tl[r], tl[x]) \/ x = r
    IN  <<r[1], Max({x[2] : x \in {y \in DOMAIN tl : r[1] <= y[1] /\ alike(y[1])}})>>

StartsRun(tl, r) ==
    ~ \E x \in DOMAIN tl : x[2] = r[1] - 1 /\ Alike(tl[x], tl[r])

Merged(tl) ==
    LET starts == {r \in DOMAIN tl : StartsRun(tl, r)}
        runs == {RunFrom(tl, r) : r \in starts}
    IN  [u \in runs |-> tl[CHOOSE r \in starts : r[1] = u[1]]]

Cleaned(tl) == Merged([r \in DOMAIN tl |-> Entry(tl[r], r)])

\* The range of the TimedSpec that a spec of the entry r belongs to.
Extent(tl, s, r) ==
    IF ~Kept(s) THEN r
    ELSE LET with(lo, hi) == \A x \in DOMAIN tl :
                                 lo <= x[2] /\ x[1] <= hi => s \in BagToSet(tl[x])
         IN  <<Min({x[1] : x \in {y \in DOMAIN tl : y[1] <= r[1] /\ with(y[1], r[2])}}),
               Max({x[2] : x \in {y \in DOMAIN tl : y[2] >= r[2] /\ with(r[1], y[2])}})>>

TimedOf(tl, s, r) == LET x == Extent(tl, s, r) IN Timed(s, x[1], x[2])

AllSpecs(tl) == UNION {{TimedOf(tl, s, r) : s \in BagToSet(tl[r])} : r \in DOMAIN tl}

\* all_specs.size()
Size(tl) ==
    LET clones(r) == MapThenSumSet(LAMBDA s : tl[r][s], {s \in BagToSet(tl[r]) : ~Kept(s)})
    IN  MapThenSumSet(clones, DOMAIN tl)
          + Cardinality({ts \in AllSpecs(tl) : Kept(ts.spec)})

-----------------------------------------------------------------------------
(* The changes.  Each works on a timeline as it is, and is followed by the *)
(* normalising of the result.                                              *)

\* add_time_range: the entry of t, if it starts earlier, is cut before t.
CutBefore(tl, t) ==
    LET cut == {r \in DOMAIN tl : r[1] < t /\ t <= r[2]}
        parts == UNION {{<<r[1], t - 1>>, <<t, r[2]>>} : r \in cut}
        whole(x) == CHOOSE r \in DOMAIN tl : r[1] <= x[1] /\ x[2] <= r[2]
    IN  [x \in (DOMAIN tl \ cut) \cup parts |-> tl[whole(x)]]

\* A pointer that is already in the set is not inserted again.
Inserted(b, s) == IF Kept(s) /\ s \in BagToSet(b) THEN b ELSE b (+) SetToBag({s})

Mut_WithSpec(tl, ts) ==
    [r \in DOMAIN tl |->
        IF ts.lo <= r[2] /\ r[1] <= ts.hi THEN Inserted(tl[r], ts.spec) ELSE tl[r]]

WithSpec(tl, ts) ==
    LET cut == CutBefore(CutBefore(tl, ts.lo), ts.hi + 1)
    IN  [r \in DOMAIN cut |->
            IF ts.lo <= r[1] /\ r[2] <= ts.hi THEN Inserted(cut[r], ts.spec) ELSE cut[r]]

\* The pointer of the entry r is erased from the entries of its TimedSpec.
WithoutSpec(tl, s, r) ==
    LET x == Extent(tl, s, r)
        erased(y) == IF Kept(s) THEN x[1] <= y[1] /\ y[2] <= x[2] ELSE y = r
    IN  [y \in DOMAIN tl |-> IF erased(y) THEN tl[y] (-) SetToBag({s}) ELSE tl[y]]

Becomes(tl) ==
    /\ timeline' = Cleaned(tl)
    /\ empty' = (\/ \E r \in DOMAIN tl : Contradicts(tl[r], r)
                 \/ Size(timeline') > MaxSize)

-----------------------------------------------------------------------------
Clear == timeline = [r \in {Whole} |-> EmptyBag]

Init ==
    /\ Clear
    /\ empty = FALSE
    /\ made = None

IsEmpty == empty \/ \E ts \in AllSpecs(timeline) : IsEmptySpec(ts.spec)

\* Search::pick_neighbors adds only while there is room.
Add(ts) ==
    /\ Size(timeline) < MaxSize
    /\ ts \notin {x \in AllSpecs(timeline) : Kept(x.spec)}
    /\ Becomes(WithSpec(timeline, ts))
    /\ made' = [kind |-> "added", spec |-> ts]

\* The search drops a workload that has become empty.
Remove(s, r) ==
    /\ ~IsEmpty
    /\ Becomes(WithoutSpec(timeline, s, r))
    /\ made' = None

\* rm_spec and add_spec, each with its normalising.
Modify(s, r, ts) ==
    /\ ~IsEmpty
    /\ Becomes(WithSpec(Cleaned(WithoutSpec(timeline, s, r)), ts))
    /\ made' = [kind |-> "modified", spec |-> ts]

\* Workload::clear
MakeClear ==
    /\ timeline' = [r \in {Whole} |-> EmptyBag]
    /\ empty' = FALSE
    /\ made' = None

\* A spec is constructed: drawn, written, or a neighbor of the last.  This
\* does not depend on the workload, and is done while that is clear.
Construct(c) ==
    /\ Clear
    /\ made' = c
    /\ UNCHANGED <<timeline, empty>>

\* The bound MaxConst, with the constants that wrap around below zero.
NeighborsOfMade ==
    IF /\ made.kind = "comp" /\ made.rhs.kind # "metric"
       /\ made.rhs.kind = "constant" => Signed(Normalized(made).rhs.value) \in -1 .. MaxConst
       /\ Normalized(made) \in Useful({Normalized(made)})
      THEN RawNeighbors(Normalized(made))
      ELSE {}

Constructible == {c \in RandomRaw : c.rhs \in RandomRhs(c.lhs)} \cup Others

Next ==
    \/ \E ts \in Drawn \cup Written : Add(ts)
    \/ \E r \in DOMAIN timeline : \E s \in BagToSet(timeline[r]) :
           \/ Remove(s, r)
           \/ \E ts \in Drawn \cup (Near \cap NeighborTimedSpecs(TimedOf(timeline, s, r))) :
                  Modify(s, r, ts)
    \/ MakeClear
    \/ \E c \in Constructible \cup NeighborsOfMade : Construct(c)

Spec == Init /\ [][Next]_vars

-----------------------------------------------------------------------------
(* Properties.                                                             *)

Satisfies(e, ts) == EncodedOver(ts.spec, e, ts.lo, ts.hi)

\* What ContentionPoint::get_expr(Workload) admits.
Admits ==
    IF IsEmpty THEN {}
    ELSE {e \in Executions : \A ts \in AllSpecs(timeline) : Satisfies(e, ts)}

\* A sum that grows faster than all but one of its queues can is taken to be
\* impossible, though all of them together may reach it.
OneQueueShort(c) ==
    /\ IsQSum(c.lhs) /\ c.rhs.kind = "time" /\ TooFast(c)
    /\ LET most == Cardinality(c.lhs.queues) * MaxEnq
       IN  IF c.op = "GT" THEN c.rhs.coeff < most ELSE c.rhs.coeff <= most

\* Of two sums the smaller is taken out of the larger with its comparison
\* negated and not turned around; different metrics are never compared.
WrongSide(c) ==
    /\ c.rhs.kind = "metric"
    /\ IF IsIndiv(c.lhs) THEN c.lhs.metric # c.rhs.metric
       ELSE /\ c.lhs.metric = c.rhs.metric
            /\ c.lhs.queues \subseteq c.rhs.queues /\ c.lhs.queues # c.rhs.queues
            /\ c.op \in {"GE", "LT"}

Means(c, e, t) == ~IsEmptySpec(c) /\ (IsAllSpec(c) \/ EncodedComp(c, e, t))

\* Normalising a Comp changes how it is written and not what it asks of an
\* execution, apart from the two mistakes named above: a bound < 0 becomes
\* one that the solver reads as <= -1, and is as unsatisfiable.
NormalizeKeepsMeaning ==
    made.kind = "comp" /\ ~OneQueueShort(made) /\ ~WrongSide(made) =>
        \A e \in Executions, t \in Steps :
            Means(Normalized(made), e, t) <=> EncodedComp(made, e, t)

\* A constant that is not an int.
Wraps(s) == IsComp(s) /\ s.rhs.kind = "constant" /\ s.rhs.value > MaxInt
AnyWraps(tl) == \E r \in DOMAIN tl : \E s \in BagToSet(tl[r]) : Wraps(s)

\* An example is evaluated against a spec as the solver is asked for it, but
\* for three cases: a constant that wrapped around is negative to the solver
\* and large to the evaluation; nothing new in the range makes Same hold for
\* the solver alone; Unique is not evaluated in the first step of its range.
EvaluatesAsEncoded ==
    made.kind \notin {"none", "added", "modified"} =>
        LET s == IF IsComp(made) THEN Normalized(made) ELSE made
        IN  ~Wraps(s) /\ ~IsEmptySpec(s) /\ ~IsAllSpec(s) =>
            \A e \in Executions, lo, hi \in Steps : lo <= hi =>
                CASE s.kind = "same" ->
                       EncodedOver(s, e, lo, hi) <=>
                           (\/ EvaluatedOver(s, e, lo, hi)
                            \/ \A t \in lo + 1 .. hi : Arrived(e, s.queue, t) = 0)
                  [] s.kind = "unique" ->
                       EncodedOver(s, e, lo, hi) <=>
                           (EvaluatedOver(s, e, lo, hi) /\ Distinct(s, e, lo))
                  [] OTHER -> EncodedOver(s, e, lo, hi) <=> EvaluatedOver(s, e, lo, hi)

\* The entries share out the steps, and the TimedSpecs, whose ranges are
\* widened and joined, ask of an execution what the Comps of the entries do.
TimelineIsTheSpecs ==
    /\ \A t \in Steps : Cardinality({r \in DOMAIN timeline : r[1] <= t /\ t <= r[2]}) = 1
    /\ ~IsEmpty =>
          \A e \in Executions :
              (\A ts \in AllSpecs(timeline) : IsComp(ts.spec) => Satisfies(e, ts))
              <=> \A r \in DOMAIN timeline : \A s \in BagToSet(timeline[r]) :
                      IsComp(s) => EncodedOver(s, e, r[1], r[2])

Mistaken(tl) == \E ts \in AllSpecs(tl) : IsEmptySpec(ts.spec) /\ OneQueueShort(ts.spec)

\* A spec that is not a Comp, and speaks of successive steps, is in the
\* workload already, with a range that the new one touches: the two become
\* one, in which it says more than in each.
Joins(tl, ts) ==
    /\ ~IsComp(ts.spec) /\ ts.spec.kind # "unique"
    /\ \E x \in AllSpecs(tl) :
          /\ x.spec = ts.spec
          /\ x.lo <= ts.hi + 1 /\ ts.lo <= x.hi + 1
          /\ ~(x.lo <= ts.lo /\ ts.hi <= x.hi)
          /\ ~(ts.lo <= x.lo /\ x.hi <= ts.hi)

\* Adding a spec to a workload that is not empty leaves what both admit,
\* though others are rewritten, split, joined and dropped.  The exceptions
\* are that there are too many specs then, that one is mistaken for
\* impossible, that an object is added again next to where it is, and that
\* a bound wrapped around below zero: no execution meets it, but next to a
\* zero of its queue it is dropped as always true.
AddIsConjunction ==
    [][made'.kind = "added" /\ ~IsEmpty
         /\ ~(Size(timeline') > MaxSize) /\ ~Mistaken(timeline') /\ ~Joins(timeline, made'.spec)
         /\ ~AnyWraps(timeline) /\ ~Wraps(made'.spec.spec) =>
       Admits' = {e \in Admits : Satisfies(e, made'.spec)}]_vars

=============================================================================
