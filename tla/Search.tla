-------------------------------- MODULE Search --------------------------------
(***************************************************************************)
(* The search for a workload that guarantees the query, and its refinement *)
(* (src/src/search.cpp).  An execution is what the solver or an example    *)
(* says of one run of the network; a workload is its set of TimedSpecs.    *)
(*                                                                         *)
(* TimedSpecs, and so Workloads, are compared by pointer, and every change *)
(* to a workload clones them.  A clone is a spec of the same meaning, and  *)
(* no candidate equals an earlier workload.                                *)
(***************************************************************************)
EXTENDS Integers, Sequences, FiniteSets

CONSTANTS
    Execs,          \* executions of the contention point
    Base,           \* those the base workload admits
    Query,          \* those that satisfy the query
    Specs,          \* the TimedSpecs the SpecFactory can produce
    Holds,          \* for each, the executions its encoding admits
    Matches,        \* and the executions its evaluation accepts
    Hard,           \* workloads the solver answers UNKNOWN for
    Good,           \* the good examples
    Bad,            \* the bad examples the search is given
    MaxCopies,      \* bound of the model: copies of one bad example
    MaxSpec,        \* the largest workload
    WlCost,         \* Workload::cost
    ZeroCounts,     \* how many input queues may not be target queues
    Entries,        \* the entries of a workload's timeline
    MaxHops,        \* LOCAL_SEARCH_MAX_HOPS
    LocalThresh,    \* LOCAL_SEARCH_THRESH
    SlowThresh,     \* RESET_THRESH_SLOW_PROGRESS
    BacktrackThresh,\* RESET_THRESH_BACKTRACK
    Negligible,     \* NEGLIGIBLE_PROGRESS_FRAC * MAX_COST
    Queues,         \* input queues that refinement may draw in
    QueuesOf,       \* the queues a spec is about
    AsCEnq,         \* a DST or ECMP spec -> its CENQ specs, others -> {}
    Weaker,         \* a spec -> its weaker right-hand sides, closest first
    Wider           \* a spec and a queue -> the spec over both

ASSUME ExecsAssumption ==
    /\ Base \subseteq Execs /\ Base # {}
    /\ Bad \in Seq(Base \ Query)
ASSUME SpecsAssumption ==
    /\ Holds \in [Specs -> SUBSET Execs]
    /\ AsCEnq \in [Specs -> SUBSET Specs]
    /\ Weaker \in [Specs -> Seq(Specs)]
    /\ Queues \subseteq Nat
    /\ Wider \in [Specs \X Queues -> SUBSET Specs]

\* The random specs compare CENQ, AIPG, DST and ECMP, which examples and solver
\* count alike.  Their constants differ once below zero: CENQ < 0 is drawn and
\* becomes <= UINT_MAX (workload.cpp:681), which to the solver is <= -1.  Examples
\* are accepted, and no execution is admitted.
AcceptedInVain(s) == Holds[s] \cap Base = {} /\ Matches[s] \cap Base # {}

\* A neighbor of that spec is >= UINT_MAX, the other way round: executions are
\* admitted that are not accepted as examples.
Misread(s) == ~(Holds[s] \cap Base \subseteq Matches[s])

ASSUME MatchesAssumption ==
    \A s \in Specs : AcceptedInVain(s) \/ Matches[s] \cap Base \subseteq Holds[s]
\* Refinement compares with the constants of the specs it replaces or with lower
\* ones down to zero.
ASSUME MisreadAssumption ==
    \A s \in Specs : ~Misread(s) =>
        /\ \A r \in AsCEnq[s] : ~Misread(r)
        /\ \A k \in DOMAIN Weaker[s] : ~Misread(Weaker[s][k])
        /\ \A q \in Queues : \A r \in Wider[<<s, q>>] : ~Misread(r)
ASSUME ThresholdAssumption ==
    /\ MaxSpec \in Nat /\ ZeroCounts \subseteq Nat /\ MaxCopies \in Nat \ {0}
    /\ SlowThresh \in Nat /\ BacktrackThresh \in Nat

VARIABLES
    pc,                    \* what Search::run does next
    wl,                    \* the current workload
    wl_last_step,          \* the one the last step was taken from
    bad_examples,          \* executions that violate the query
    infeasible_wls,        \* workloads rejected since the last feasible one
    last_input_infeasible, \* no execution satisfies the last workload checked
    close_count,           \* rounds without progress
    backtrack_count,       \* steps undone in a row
    zeros,                 \* input queues that are not target queues
    todo,                  \* specs the current refinement has left to try
    stale,                 \* they are no longer those of wl
    free                   \* queues left to widen with

vars == <<pc, wl, wl_last_step, bad_examples, infeasible_wls,
          last_input_infeasible, close_count, backtrack_count,
          zeros, todo, stale, free>>
searchVars == <<wl_last_step, infeasible_wls, last_input_infeasible,
                close_count, backtrack_count, zeros>>

Workloads == SUBSET Specs

-----------------------------------------------------------------------------
(* Checking a workload.                                                    *)

\* What ContentionPoint::get_expr(Workload) admits.
Meaning(w) == {e \in Execs : \A s \in w : e \in Holds[s]}

Feasible(w) == Meaning(w) \cap Base # {}

Counterexamples(w) == (Meaning(w) \cap Base) \ Query

IsAnswer(w) == Feasible(w) /\ Counterexamples(w) = {}

\* Search::satisfies_bad_example
Refuted(w) == \E i \in DOMAIN bad_examples : \A s \in w : bad_examples[i] \in Matches[s]

\* Search::check returns true.
Accepts(w) == ~Refuted(w) /\ w \notin Hard /\ IsAnswer(w)

Infeasible(w) == ~Refuted(w) /\ w \notin Hard /\ ~Feasible(w)

Copies(e) == Cardinality({i \in DOMAIN bad_examples : bad_examples[i] = e})

\* bad_examples.push_back(e)
Recorded(e) == IF Copies(e) < MaxCopies THEN Append(bad_examples, e) ELSE bad_examples

Mut_Learnt(w) ==
    IF w \in Hard \/ Counterexamples(w) = {}
      THEN {bad_examples}
      ELSE {Recorded(e) : e \in Counterexamples(w)}

\* The bad examples there can be after a check of w.
Learnt(w) ==
    IF Refuted(w) \/ w \in Hard \/ Counterexamples(w) = {}
      THEN {bad_examples}
      ELSE {Recorded(e) : e \in Counterexamples(w)}

-----------------------------------------------------------------------------
(* Choosing the next workload.                                             *)

Matching(w) == {i \in DOMAIN bad_examples : \A s \in w : bad_examples[i] \in Matches[s]}

Missed(w) == {e \in Good : \E s \in w : e \notin Matches[s]}

Cost(w) == 10 * (Cardinality(Missed(w)) + 2 * Cardinality(Matching(w))) + WlCost[w]

Added(w) == IF Cardinality(w) < MaxSpec THEN {w \cup {s} : s \in Specs} ELSE {}

Removed(w) == {w \ {s} : s \in w} \ {{}}

Replaced(w) == {(w \ {s}) \cup {t} : s \in w, t \in Specs}

Neighbors(w) == Added(w) \cup Removed(w) \cup Replaced(w)

Within(w, hops) ==
    LET reach[h \in 1 .. hops] ==
          IF h = 1 THEN Neighbors(w)
          ELSE reach[h - 1] \cup UNION {Neighbors(n) : n \in reach[h - 1]}
    IN  reach[hops]

\* Cheaper candidates go first, but only removals are sure to be among them;
\* a costlier one is taken with a probability above zero.
RandomNeighbors(w, hops) ==
    LET now == Cost(w)
        near == Within(w, hops) \cap Workloads
    IN  IF \E r \in Removed(w) : Cost(r) < now
          THEN {c \in near : Cost(c) < now}
          ELSE near

Progress(v, w) ==
    LET gain == Cost(v) - Cost(w)
    IN  IF gain > 0 THEN gain ELSE -gain

-----------------------------------------------------------------------------
(* Search::search.                                                         *)

Init ==
    /\ pc = "check"
    /\ wl = {} /\ wl_last_step = {}
    /\ bad_examples = Bad
    /\ infeasible_wls = {} /\ last_input_infeasible = FALSE
    /\ close_count = 0 /\ backtrack_count = 0
    /\ zeros \in ZeroCounts
    /\ todo = {} /\ stale = FALSE /\ free = {}

Found ==
    /\ pc = "check" /\ zeros = 0 /\ Accepts(wl)
    /\ pc' = "remove"
    /\ todo' = wl
    /\ last_input_infeasible' = FALSE
    /\ UNCHANGED <<wl, wl_last_step, bad_examples, infeasible_wls, close_count,
                   backtrack_count, zeros, stale, free>>

NotFound ==
    /\ pc = "check" /\ zeros = 0 /\ ~Accepts(wl)
    /\ pc' = "move"
    /\ bad_examples' \in Learnt(wl)
    /\ last_input_infeasible' = Infeasible(wl)
    /\ UNCHANGED <<wl, wl_last_step, infeasible_wls, close_count, backtrack_count,
                   zeros, todo, stale, free>>

\* For each queue that is no target a spec with a null right-hand side is added
\* to every entry of the timeline.
ZerosFit == Cardinality(wl) + zeros * Entries[wl] <= MaxSpec

\* It matches no bad example, and encoding it throws, unless the specs are too
\* many and the workload counts as empty.
CheckZeros ==
    /\ pc = "check" /\ zeros > 0
    /\ pc' = IF ZerosFit THEN "aborted" ELSE "move"
    /\ last_input_infeasible' = ~ZerosFit
    /\ UNCHANGED <<wl, wl_last_step, bad_examples, infeasible_wls, close_count,
                   backtrack_count, zeros, todo, stale, free>>

Mut_Undone == wl
Undone == IF last_input_infeasible THEN wl_last_step ELSE wl

Mut_Backtracks == IF last_input_infeasible THEN backtrack_count ELSE 0
Backtracks == IF last_input_infeasible THEN backtrack_count + 1 ELSE 0

Rejected == IF last_input_infeasible THEN infeasible_wls \cup {wl} ELSE {}

Reset == close_count > SlowThresh \/ Backtracks > BacktrackThresh

Move ==
    /\ pc = "move"
    /\ pc' = "check"
    /\ LET from == IF Reset THEN {} ELSE Undone
           hops == IF close_count > LocalThresh /\ ~Reset THEN MaxHops ELSE 1
           close == IF Reset THEN 0 ELSE close_count
       IN  /\ wl_last_step' = from
           /\ wl' \in RandomNeighbors(from, hops)
           /\ close_count' = IF Progress(from, wl') <= Negligible THEN close + 1 ELSE 0
    /\ backtrack_count' = IF Reset THEN 0 ELSE Backtracks
    /\ infeasible_wls' = IF Reset THEN {} ELSE Rejected
    /\ UNCHANGED <<bad_examples, last_input_infeasible, zeros, todo, stale, free>>

-----------------------------------------------------------------------------
(* Search::refine.  Each loop goes over the specs wl had when it started, in *)
(* an order of pointers; once wl has changed they are no longer in it, and   *)
(* mod_spec leaves a candidate as it is.                                     *)

Modified(s, new) == IF stale THEN wl ELSE (wl \ {s}) \cup new

\* A candidate that passes the check replaces wl.
Try(candidate) ==
    /\ wl' = IF Accepts(candidate) THEN candidate ELSE wl
    /\ bad_examples' \in IF Accepts(candidate) THEN {bad_examples} ELSE Learnt(candidate)

Skip(s) ==
    /\ todo' = todo \ {s}
    /\ UNCHANGED <<pc, wl, bad_examples, stale, free>>

\* The first loop starts again after every spec it removes.
Mut_AfterRemoval(s) == IF Accepts(wl \ {s}) THEN {} ELSE todo \ {s}
AfterRemoval(s) == IF Accepts(wl \ {s}) THEN wl \ {s} ELSE todo \ {s}

Remove ==
    /\ pc = "remove"
    /\ \E s \in todo :
          IF wl = {s} THEN Skip(s)
          ELSE /\ Try(wl \ {s})
               /\ todo' = AfterRemoval(s)
               /\ UNCHANGED <<pc, stale, free>>
    /\ UNCHANGED searchVars

Broaden ==
    /\ pc = "broaden"
    /\ \E s \in todo :
          IF AsCEnq[s] = {} THEN Skip(s)
          ELSE LET candidate == Modified(s, AsCEnq[s])
               IN  /\ Try(candidate)
                   /\ todo' = todo \ {s}
                   /\ stale' = (stale \/ Accepts(candidate))
                   /\ UNCHANGED <<pc, free>>
    /\ UNCHANGED searchVars

Lowest(S) == CHOOSE q \in S : \A r \in S : q <= r

\* The right-hand side of s goes down until a candidate fails, and the last one
\* that passed is kept.
Failing(s) == {k \in 1 .. Len(Weaker[s]) : ~Accepts(Modified(s, {Weaker[s][k]}))}

LastPassing(s) == IF Failing(s) = {} THEN Len(Weaker[s]) ELSE Lowest(Failing(s)) - 1

Mut_Weakened(s) ==
    IF Weaker[s] = <<>> THEN wl ELSE Modified(s, {Weaker[s][Len(Weaker[s])]})
Weakened(s) ==
    IF LastPassing(s) = 0 THEN wl ELSE Modified(s, {Weaker[s][LastPassing(s)]})

Weaken ==
    /\ pc = "weaken"
    /\ \E s \in todo :
          /\ wl' = Weakened(s)
          /\ bad_examples' \in
                IF Failing(s) = {} THEN {bad_examples}
                ELSE Learnt(Modified(s, {Weaker[s][LastPassing(s) + 1]}))
          /\ todo' = todo \ {s}
          /\ stale' = (stale \/ LastPassing(s) > 0)
    /\ UNCHANGED <<pc, free>> /\ UNCHANGED searchVars

\* Queues that neither wl nor the base workload mentions.
Unmentioned(w) == Queues \ UNION {QueuesOf[s] : s \in w}

Widen ==
    /\ pc = "widen" /\ free # {}
    /\ \E s \in todo :
          IF stale \/ Wider[<<s, Lowest(free)>>] = {} THEN Skip(s)
          ELSE LET candidate == Modified(s, Wider[<<s, Lowest(free)>>])
               IN  /\ Try(candidate)
                   /\ todo' = todo \ {s}
                   /\ stale' = Accepts(candidate)
                   /\ UNCHANGED <<pc, free>>
    /\ UNCHANGED searchVars

\* A loop is over: the next one takes the specs wl has now.
NextLoop ==
    /\ todo = {}
    /\ \/ pc = "remove" /\ pc' = "broaden" /\ todo' = wl /\ free' = free
       \/ pc = "broaden" /\ pc' = "weaken" /\ todo' = wl /\ free' = free
       \/ pc = "weaken" /\ pc' = "widen" /\ todo' = wl /\ free' = Unmentioned(wl)
       \/ pc = "widen" /\ free # {} /\ pc' = pc /\ todo' = wl /\ free' = free \ {Lowest(free)}
    /\ stale' = FALSE
    /\ UNCHANGED <<wl, bad_examples>> /\ UNCHANGED searchVars

Done ==
    /\ pc = "widen" /\ free = {}
    /\ pc' = "done" /\ todo' = {}
    /\ UNCHANGED <<wl, bad_examples, stale, free>> /\ UNCHANGED searchVars

Next == Found \/ NotFound \/ CheckZeros \/ Move \/ Remove \/ Broaden \/ Weaken \/ Widen \/ NextLoop \/ Done

\* One thread runs the search; the solver is taken to return in the end.
Spec == Init /\ [][Next]_vars /\ WF_vars(Next)

-----------------------------------------------------------------------------

Refining == pc \in {"remove", "broaden", "weaken", "widen", "done"}

\* Every workload from the solution to the refined one that run prints
\* is feasible and guarantees the query (search.cpp:656-676).
RefinedIsAnswer == Refining => IsAnswer(wl)

Known(e) == \E i \in DOMAIN bad_examples : bad_examples[i] = e

\* No counterexample is found twice: a workload an example refutes does not go
\* to the solver again, and those the solver refutes add to the examples
\* (search.cpp:123-127).  The exception is a workload with a bound that the
\* solver reads as -1 and the examples as UINT_MAX.
NoExampleTwice ==
    [][\A e \in Execs : Known(e) /\ bad_examples' = Append(bad_examples, e) =>
          \E s \in wl : Misread(s)]_vars

\* Undoing a step leads back to a workload with an execution, even though a
\* workload a bad example refutes is never checked for one (search.cpp:292-301).
\* It does not if a spec such as CENQ < 0 let the example match in vain.
LastStepFeasible ==
    Feasible(wl_last_step) \/ wl_last_step \in Hard \/ \E s \in wl_last_step : AcceptedInVain(s)

\* Undone steps cannot go on for ever: in the end the search is reset
\* (search.cpp:312-321).
InfeasibleRunsReset ==
    []<>(wl_last_step = {} \/ ~last_input_infeasible \/ pc = "aborted")

\* When the first loop ends no single spec is left that could be dropped, and
\* that is so until the second loop changes one (search.cpp:408-431).
NoSpecToRemove ==
    pc = "broaden" /\ ~stale =>
        \A s \in wl : wl = {s} \/ wl \ {s} \in Hard \/ ~IsAnswer(wl \ {s})

\* A check has an outcome: the comment at its call says it is "true" or adds a
\* bad example (search.cpp:269-270).
CheckReturns == pc # "aborted"
=============================================================================
