----------------------------- MODULE SearchProofs -----------------------------
(***************************************************************************)
(* What holds of the search for any executions, specs, examples and        *)
(* thresholds.  A spec that an example accepts and the solver does not is   *)
(* taken to be one that no execution satisfies, such as CENQ <= UINT_MAX.   *)
(***************************************************************************)
EXTENDS Search, WellFoundedInduction, TLAPS

Irreducible(s) == wl = {s} \/ wl \ {s} \in Hard \/ ~IsAnswer(wl \ {s})

TypeInv ==
    /\ pc \in {"check", "move", "aborted", "remove", "broaden", "weaken", "widen", "done"}
    /\ wl \in Workloads /\ wl_last_step \in Workloads /\ todo \in Workloads
    /\ bad_examples \in Seq(Base \ Query)
    /\ stale \in BOOLEAN /\ last_input_infeasible \in BOOLEAN
    /\ free \subseteq Queues

Possible(w) == Feasible(w) \/ w \in Hard \/ \E s \in w : AcceptedInVain(s)

SearchInv ==
    /\ Possible(wl_last_step)
    /\ pc = "move" /\ zeros = 0 /\ ~last_input_infeasible => Possible(wl)
    /\ pc = "move" /\ zeros > 0 => last_input_infeasible
    /\ zeros \in Nat

RefineInv ==
    /\ RefinedIsAnswer
    /\ Refining /\ ~stale => todo \subseteq wl
    /\ pc = "remove" => \A s \in wl \ todo : Irreducible(s)
    /\ pc = "broaden" /\ ~stale => \A s \in wl : Irreducible(s)

IInv == TypeInv /\ SearchInv /\ RefineInv

-----------------------------------------------------------------------------

\* A workload that a bad example matches is no answer: the example is an
\* execution of it, or it has none.
LEMMA RefutedMeans ==
    ASSUME NEW w \in Workloads, bad_examples \in Seq(Base \ Query), Refuted(w)
    PROVE  /\ Feasible(w) \/ \E s \in w : AcceptedInVain(s)
           /\ ~IsAnswer(w)
<1>1. PICK i \in DOMAIN bad_examples : \A s \in w : bad_examples[i] \in Matches[s]
  BY DEF Refuted
<1>2. bad_examples[i] \in Base \ Query
  BY <1>1
<1>3. CASE \A s \in w : Matches[s] \cap Base \subseteq Holds[s]
  <2>1. bad_examples[i] \in Meaning(w)
    BY <1>1, <1>2, <1>3, ExecsAssumption DEF Meaning
  <2> QED
    BY <1>2, <2>1 DEF Feasible, IsAnswer, Counterexamples
<1>4. CASE \E s \in w : ~(Matches[s] \cap Base \subseteq Holds[s])
  <2>1. PICK s \in w : AcceptedInVain(s)
    BY <1>4, MatchesAssumption DEF Workloads
  <2>2. Meaning(w) \cap Base = {}
    BY <2>1 DEF Meaning, AcceptedInVain
  <2> QED
    BY <2>1, <2>2 DEF IsAnswer, Feasible
<1> QED
  BY <1>3, <1>4

\* A counterexample of a workload no bad example matches is not among them,
\* if the examples accept what the solver admits.
LEMMA CounterexampleIsNew ==
    ASSUME NEW w \in Workloads, ~Refuted(w), \A s \in w : ~Misread(s),
           NEW e \in Counterexamples(w)
    PROVE  ~Known(e)
<1>1. \A s \in w : e \in Matches[s]
  BY DEF Counterexamples, Meaning, Misread
<1> QED
  BY <1>1 DEF Refuted, Known

\* A check leaves examples of real executions ...
LEMMA LearntKeeps ==
    ASSUME NEW w \in Workloads, bad_examples \in Seq(Base \ Query),
           bad_examples' \in Learnt(w)
    PROVE  bad_examples' \in Seq(Base \ Query)
<1>1. \A e \in Counterexamples(w) : e \in Base \ Query
  BY DEF Counterexamples
<1>2. \A e \in Counterexamples(w) : Recorded(e) \in Seq(Base \ Query)
  BY <1>1 DEF Recorded
<1> QED
  BY <1>2 DEF Learnt

\* ... and finds none again.
LEMMA LearntIsNew ==
    ASSUME NEW w \in Workloads, bad_examples \in Seq(Base \ Query),
           \A s \in w : ~Misread(s), bad_examples' \in Learnt(w),
           NEW e \in Execs, bad_examples' = Append(bad_examples, e)
    PROVE  ~Known(e)
<1>1. bad_examples' # bad_examples
  <2>1. Len(Append(bad_examples, e)) = Len(bad_examples) + 1 /\ Len(bad_examples) \in Nat
    OBVIOUS
  <2> QED
    BY <2>1
<1>2. ~Refuted(w) /\ \E c \in Counterexamples(w) : bad_examples' = Recorded(c)
  BY <1>1 DEF Learnt
<1>3. PICK c \in Counterexamples(w) : bad_examples' = Append(bad_examples, c)
  BY <1>1, <1>2 DEF Recorded
<1>4. Append(bad_examples, c)[Len(bad_examples) + 1] = c
      /\ Append(bad_examples, e)[Len(bad_examples) + 1] = e
  OBVIOUS
<1>5. c = e
  BY <1>3, <1>4
<1> QED
  BY <1>2, <1>3, <1>5, CounterexampleIsNew

\* Only answers are accepted.
LEMMA AcceptsIsAnswer ==
    ASSUME NEW w \in Workloads, Accepts(w)
    PROVE  IsAnswer(w)
BY DEF Accepts

\* A workload is turned down because it is hard or no answer.
LEMMA NotAcceptedMeans ==
    ASSUME NEW w \in Workloads, bad_examples \in Seq(Base \ Query), ~Accepts(w)
    PROVE  w \in Hard \/ ~IsAnswer(w)
BY RefutedMeans DEF Accepts

\* Putting one spec in the place of another gives a workload.
LEMMA ModifiedIsWorkload ==
    ASSUME wl \in Workloads, NEW s, NEW new \in Workloads
    PROVE  Modified(s, new) \in Workloads
BY DEF Modified, Workloads

-----------------------------------------------------------------------------

\* Nothing is known at first.
LEMMA InitInv == Init => IInv
<1> SUFFICES ASSUME Init PROVE IInv
  OBVIOUS
<1>1. Feasible({})
  BY ExecsAssumption DEF Feasible, Meaning
<1>2. TypeInv
  BY ExecsAssumption DEF Init, TypeInv, Workloads
<1> QED
  BY <1>1, <1>2, ThresholdAssumption
  DEF Init, IInv, SearchInv, Possible, RefineInv, RefinedIsAnswer, Refining

\* A non-empty set of naturals has a least element.
LEMMA LeastNumberExists ==
    ASSUME NEW T \in SUBSET Nat, T # {}
    PROVE  \E x \in T : \A y \in T : x <= y
<1>1. PICK x \in T : \A y \in T : <<y, x>> \notin OpToRel(<, Nat)
  BY NatLessThanWellFounded, WFMin
<1>2. ASSUME NEW y \in T, y < x PROVE <<y, x>> \in OpToRel(<, Nat)
  BY <1>2 DEF OpToRel
<1>3. ASSUME NEW y \in T PROVE ~(y < x)
  BY <1>1, <1>2
<1>4. ASSUME NEW y \in T PROVE x <= y
  BY <1>3
<1> QED
  BY <1>4

\* Refinement takes its queues in the order of their numbers.
LEMMA LowestIsMember ==
    ASSUME free \subseteq Queues, free # {}
    PROVE  Lowest(free) \in Queues
<1>1. free \in SUBSET Nat
  BY SpecsAssumption
<1>2. \E q \in free : \A r \in free : q <= r
  BY <1>1, LeastNumberExists
<1> QED
  BY <1>2 DEF Lowest

\* An answer is the one that the refinement starts from.
LEMMA FoundKeeps == ASSUME IInv, Found PROVE IInv'
<1>1. IsAnswer(wl)
  BY AcceptsIsAnswer DEF Found, IInv, TypeInv
<1>2. TypeInv'
  BY DEF IInv, TypeInv, Found
<1>3. SearchInv'
  BY DEF IInv, SearchInv, Found, Possible
<1>4. RefineInv'
  BY <1>1 DEF Found, RefineInv, RefinedIsAnswer, Refining
<1> QED
  BY <1>2, <1>3, <1>4 DEF IInv

\* A counterexample, or a workload that cannot be: something is learnt.
LEMMA NotFoundKeeps == ASSUME IInv, NotFound PROVE IInv'
<1>1. wl \in Workloads /\ bad_examples \in Seq(Base \ Query)
  BY DEF IInv, TypeInv
<1>2. bad_examples' \in Seq(Base \ Query)
  BY <1>1, LearntKeeps DEF NotFound
<1>3. TypeInv'
  BY <1>2 DEF IInv, TypeInv, NotFound, Infeasible
<1>4. ~last_input_infeasible' => Possible(wl)
  BY <1>1, RefutedMeans DEF NotFound, Infeasible, Possible
<1>5. SearchInv'
  BY <1>4 DEF IInv, SearchInv, NotFound, Possible
<1>6. RefineInv'
  BY DEF NotFound, RefineInv, RefinedIsAnswer, Refining
<1> QED
  BY <1>3, <1>5, <1>6 DEF IInv

\* The refinement starts from an answer.
LEMMA CheckZerosKeeps == ASSUME IInv, CheckZeros PROVE IInv'
<1>1. TypeInv'
  BY DEF IInv, TypeInv, CheckZeros, ZerosFit
<1>2. SearchInv'
  BY DEF IInv, SearchInv, CheckZeros, Possible
<1>3. RefineInv'
  BY DEF CheckZeros, RefineInv, RefinedIsAnswer, Refining
<1> QED
  BY <1>1, <1>2, <1>3 DEF IInv

\* What the search moves to is a workload, and it can still move back.
LEMMA MoveKeeps == ASSUME IInv, Move PROVE IInv'
<1>1. Feasible({})
  BY ExecsAssumption DEF Feasible, Meaning
<1>2. Possible(Undone) /\ Undone \in Workloads
  BY ThresholdAssumption DEF IInv, SearchInv, TypeInv, Undone, Move
<1>3. Possible(wl_last_step') /\ wl_last_step' \in Workloads
  BY <1>1, <1>2 DEF Move, Possible, Workloads
<1>4. wl' \in Workloads
  BY DEF Move, RandomNeighbors
<1>5. TypeInv'
  BY <1>3, <1>4 DEF IInv, TypeInv, Move
<1>6. SearchInv'
  BY <1>3 DEF IInv, SearchInv, Move, Possible
<1>7. RefineInv'
  BY DEF Move, RefineInv, RefinedIsAnswer, Refining
<1> QED
  BY <1>5, <1>6, <1>7 DEF IInv

-----------------------------------------------------------------------------

\* What a refinement step needs to keep: examples stay real and wl an answer.
Kept ==
    /\ wl' \in Workloads /\ IsAnswer(wl')
    /\ bad_examples' \in Seq(Base \ Query)

\* A candidate is kept only if it is an answer.
LEMMA TryKeeps ==
    ASSUME IInv, Refining, NEW candidate \in Workloads, Try(candidate)
    PROVE  Kept /\ (~Accepts(candidate) => wl' = wl)
<1>1. wl \in Workloads /\ IsAnswer(wl) /\ bad_examples \in Seq(Base \ Query)
  BY DEF IInv, TypeInv, RefineInv, RefinedIsAnswer
<1>2. CASE Accepts(candidate)
  BY <1>1, <1>2, AcceptsIsAnswer DEF Try, Kept
<1>3. CASE ~Accepts(candidate)
  BY <1>1, <1>3, LearntKeeps DEF Try, Kept
<1> QED
  BY <1>2, <1>3

\* After a step of the refinement only what its loop has established is left.
LEMMA RefineStepKeeps ==
    ASSUME IInv, Refining', Kept, todo' \in Workloads, stale' \in BOOLEAN,
           free' \subseteq Queues, UNCHANGED searchVars,
           pc' \in {"remove", "broaden", "weaken", "widen", "done"},
           ~stale' => todo' \subseteq wl',
           pc' = "remove" => \A s \in wl' \ todo' : Irreducible(s)',
           pc' = "broaden" /\ ~stale' => \A s \in wl' : Irreducible(s)'
    PROVE  IInv'
<1>1. TypeInv'
  BY DEF IInv, TypeInv, Kept, searchVars
<1>2. SearchInv'
  BY DEF IInv, SearchInv, Possible, searchVars
<1>3. RefineInv'
  BY DEF Kept, RefineInv, RefinedIsAnswer
<1> QED
  BY <1>1, <1>2, <1>3 DEF IInv, Kept

\* A spec that is passed over changes no workload.
LEMMA SkipKeeps ==
    ASSUME IInv, Refining, NEW s, Skip(s)
    PROVE  /\ Kept /\ todo' \in Workloads /\ stale' \in BOOLEAN /\ free' \subseteq Queues
           /\ ~stale' => todo' \subseteq wl'
BY DEF IInv, TypeInv, RefineInv, RefinedIsAnswer, Kept, Skip, Workloads

\* After the loop that removes, each spec of the workload is needed.
LEMMA RemoveKeeps == ASSUME IInv, Remove PROVE IInv'
<1>1. wl \in Workloads /\ todo \in Workloads /\ stale \in BOOLEAN /\ free \subseteq Queues
      /\ bad_examples \in Seq(Base \ Query) /\ Refining
      /\ (~stale => todo \subseteq wl)
      /\ \A t \in wl \ todo : Irreducible(t)
  BY DEF IInv, TypeInv, RefineInv, Remove, Refining
<1>2. PICK s \in todo :
          IF wl = {s} THEN Skip(s)
          ELSE /\ Try(wl \ {s})
               /\ todo' = AfterRemoval(s)
               /\ UNCHANGED <<pc, stale, free>>
  BY DEF Remove
<1>3. pc = "remove" /\ UNCHANGED searchVars
  BY DEF Remove
<1>4. CASE wl = {s}
  <2>1. Skip(s)
    BY <1>2, <1>4
  <2>2. /\ Kept /\ todo' \in Workloads /\ stale' \in BOOLEAN /\ free' \subseteq Queues
        /\ ~stale' => todo' \subseteq wl'
    BY <1>1, <2>1, SkipKeeps
  <2>3. \A t \in wl' \ todo' : Irreducible(t)'
    BY <1>4, <2>1 DEF Skip, Irreducible
  <2> QED
    BY <1>3, <2>1, <2>2, <2>3, RefineStepKeeps DEF Skip, Refining
<1>5. CASE wl # {s}
  <2>1. Try(wl \ {s}) /\ todo' = AfterRemoval(s) /\ UNCHANGED <<pc, stale, free>>
    BY <1>2, <1>5
  <2>2. wl \ {s} \in Workloads
    BY <1>1 DEF Workloads
  <2>3. Kept /\ (~Accepts(wl \ {s}) => wl' = wl)
    BY <1>1, <2>1, <2>2, TryKeeps
  <2>4. todo' \in Workloads
    BY <1>1, <2>1 DEF AfterRemoval, Workloads
  <2>5. ~stale' => todo' \subseteq wl'
    <3>1. CASE Accepts(wl \ {s})
      BY <2>1, <3>1 DEF Try, AfterRemoval
    <3>2. CASE ~Accepts(wl \ {s})
      <4>1. ~stale' => todo \subseteq wl
        BY <1>1, <2>1
      <4>2. todo' = todo \ {s} /\ wl' = wl
        BY <2>1, <2>3, <3>2 DEF AfterRemoval
      <4> QED
        BY <4>1, <4>2
    <3> QED
      BY <3>1, <3>2
  <2>6. \A t \in wl' \ todo' : Irreducible(t)'
    <3>1. CASE Accepts(wl \ {s})
      BY <2>1, <3>1 DEF Try, AfterRemoval
    <3>2. CASE ~Accepts(wl \ {s})
      <4>1. Irreducible(s)
        BY <1>1, <2>2, <3>2, NotAcceptedMeans DEF Irreducible
      <4> QED
        BY <1>1, <2>1, <2>3, <3>2, <4>1 DEF AfterRemoval, Irreducible
    <3> QED
      BY <3>1, <3>2
  <2> QED
    BY <1>1, <1>3, <2>1, <2>3, <2>4, <2>5, <2>6, RefineStepKeeps DEF Refining
<1> QED
  BY <1>4, <1>5

\* Broadening keeps the answer one.
LEMMA BroadenKeeps == ASSUME IInv, Broaden PROVE IInv'
<1>1. wl \in Workloads /\ todo \in Workloads /\ stale \in BOOLEAN /\ Refining /\ free \subseteq Queues
      /\ (~stale => todo \subseteq wl /\ \A t \in wl : Irreducible(t))
      /\ pc = "broaden" /\ UNCHANGED searchVars
  BY DEF IInv, TypeInv, RefineInv, Broaden, Refining
<1>2. PICK s \in todo :
          IF AsCEnq[s] = {} THEN Skip(s)
          ELSE LET candidate == Modified(s, AsCEnq[s])
               IN  /\ Try(candidate)
                   /\ todo' = todo \ {s}
                   /\ stale' = (stale \/ Accepts(candidate))
                   /\ UNCHANGED <<pc, free>>
  BY DEF Broaden
<1>3. CASE AsCEnq[s] = {}
  <2>1. Skip(s)
    BY <1>2, <1>3
  <2>2. /\ Kept /\ todo' \in Workloads /\ stale' \in BOOLEAN /\ free' \subseteq Queues
        /\ ~stale' => todo' \subseteq wl'
    BY <1>1, <2>1, SkipKeeps
  <2> QED
    BY <1>1, <2>1, <2>2, RefineStepKeeps DEF Skip, Refining, Irreducible
<1>4. CASE AsCEnq[s] # {}
  <2> DEFINE candidate == Modified(s, AsCEnq[s])
  <2>1. /\ Try(candidate) /\ todo' = todo \ {s} /\ UNCHANGED <<pc, free>>
        /\ stale' = (stale \/ Accepts(candidate))
    BY <1>2, <1>4
  <2>2. candidate \in Workloads
    BY <1>1, SpecsAssumption, ModifiedIsWorkload DEF Workloads
  <2>3. Kept /\ (~Accepts(candidate) => wl' = wl)
    BY <1>1, <2>1, <2>2, TryKeeps
  <2>4. todo' \in Workloads /\ stale' \in BOOLEAN
    BY <1>1, <2>1 DEF Workloads, Accepts
  <2>5. ~stale' => todo' \subseteq wl' /\ \A t \in wl' : Irreducible(t)'
    BY <1>1, <2>1, <2>3 DEF Irreducible
  <2> QED
    BY <1>1, <2>1, <2>3, <2>4, <2>5, RefineStepKeeps DEF Refining
<1> QED
  BY <1>3, <1>4

\* So does widening the sets of queues ...
LEMMA WidenKeeps == ASSUME IInv, Widen PROVE IInv'
<1>1. wl \in Workloads /\ todo \in Workloads /\ stale \in BOOLEAN /\ Refining
      /\ free \subseteq Queues /\ free # {} /\ (~stale => todo \subseteq wl)
      /\ pc = "widen" /\ UNCHANGED searchVars
  BY DEF IInv, TypeInv, RefineInv, Widen, Refining
<1>2. PICK s \in todo :
          IF stale \/ Wider[<<s, Lowest(free)>>] = {} THEN Skip(s)
          ELSE LET candidate == Modified(s, Wider[<<s, Lowest(free)>>])
               IN  /\ Try(candidate)
                   /\ todo' = todo \ {s}
                   /\ stale' = Accepts(candidate)
                   /\ UNCHANGED <<pc, free>>
  BY DEF Widen
<1>3. CASE Skip(s)
  <2>1. /\ Kept /\ todo' \in Workloads /\ stale' \in BOOLEAN /\ free' \subseteq Queues
        /\ ~stale' => todo' \subseteq wl'
    BY <1>1, <1>3, SkipKeeps
  <2> QED
    BY <1>1, <1>3, <2>1, RefineStepKeeps DEF Skip, Refining
<1>4. CASE ~Skip(s)
  <2> DEFINE candidate == Modified(s, Wider[<<s, Lowest(free)>>])
  <2>1. /\ Try(candidate) /\ todo' = todo \ {s} /\ UNCHANGED <<pc, free>>
        /\ stale' = Accepts(candidate)
    BY <1>2, <1>4
  <2>2. candidate \in Workloads
    BY <1>1, LowestIsMember, SpecsAssumption, ModifiedIsWorkload DEF Workloads
  <2>3. Kept /\ (~Accepts(candidate) => wl' = wl)
    BY <1>1, <2>1, <2>2, TryKeeps
  <2>4. todo' \in Workloads /\ stale' \in BOOLEAN /\ (~stale' => todo' \subseteq wl')
    <3>1. ~stale
      BY <1>2, <1>4
    <3> QED
      BY <1>1, <2>1, <2>3, <3>1 DEF Workloads, Accepts
  <2> QED
    BY <1>1, <2>1, <2>3, <2>4, RefineStepKeeps DEF Refining
<1> QED
  BY <1>3, <1>4

\* The last right-hand side that passed is an answer, the next one is not.
LEMMA LastPassingIsLast ==
    ASSUME NEW s \in Specs
    PROVE  /\ LastPassing(s) \in 0 .. Len(Weaker[s])
           /\ LastPassing(s) > 0 => Accepts(Modified(s, {Weaker[s][LastPassing(s)]}))
           /\ Failing(s) # {} => LastPassing(s) + 1 \in 1 .. Len(Weaker[s])
<1>1. Weaker[s] \in Seq(Specs) /\ Len(Weaker[s]) \in Nat
  BY SpecsAssumption
<1>2. CASE Failing(s) = {}
  <2>1. \A k \in 1 .. Len(Weaker[s]) : Accepts(Modified(s, {Weaker[s][k]}))
    BY <1>2 DEF Failing
  <2>2. LastPassing(s) = Len(Weaker[s])
    BY <1>2 DEF LastPassing
  <2> QED
    BY <1>1, <1>2, <2>1, <2>2
<1>3. CASE Failing(s) # {}
  <2>1. Failing(s) \in SUBSET Nat
    BY <1>1 DEF Failing
  <2>2. \E k \in Failing(s) : \A i \in Failing(s) : k <= i
    BY <1>3, <2>1, LeastNumberExists
  <2>3. Lowest(Failing(s)) \in Failing(s) /\ \A i \in Failing(s) : Lowest(Failing(s)) <= i
    BY <2>2 DEF Lowest
  <2>4. Lowest(Failing(s)) \in 1 .. Len(Weaker[s]) /\ LastPassing(s) = Lowest(Failing(s)) - 1
    BY <1>3, <2>3 DEF Failing, LastPassing
  <2>5. LastPassing(s) \in 0 .. Len(Weaker[s]) /\ LastPassing(s) + 1 = Lowest(Failing(s))
    BY <1>1, <2>4
  <2>6. LastPassing(s) \notin Failing(s)
    BY <1>1, <2>3, <2>4
  <2> QED
    BY <1>1, <2>4, <2>5, <2>6 DEF Failing
<1> QED
  BY <1>2, <1>3

\* ... and weakening the bounds.
LEMMA WeakenKeeps == ASSUME IInv, Weaken PROVE IInv'
<1>1. wl \in Workloads /\ todo \in Workloads /\ stale \in BOOLEAN /\ Refining
      /\ bad_examples \in Seq(Base \ Query) /\ IsAnswer(wl)
      /\ free \subseteq Queues /\ pc = "weaken" /\ UNCHANGED searchVars
      /\ UNCHANGED <<pc, free>> /\ (~stale => todo \subseteq wl)
  BY DEF IInv, TypeInv, RefineInv, RefinedIsAnswer, Weaken, Refining
<1>2. PICK s \in todo :
          /\ wl' = Weakened(s)
          /\ bad_examples' \in
                IF Failing(s) = {} THEN {bad_examples}
                ELSE Learnt(Modified(s, {Weaker[s][LastPassing(s) + 1]}))
          /\ todo' = todo \ {s}
          /\ stale' = (stale \/ LastPassing(s) > 0)
  BY DEF Weaken
<1>3. s \in Specs /\ Weaker[s] \in Seq(Specs)
  BY <1>1, SpecsAssumption DEF Workloads
<1>4. \A k \in 1 .. Len(Weaker[s]) : {Weaker[s][k]} \in Workloads
  BY <1>3 DEF Workloads
<1>5. \A k \in 1 .. Len(Weaker[s]) : Modified(s, {Weaker[s][k]}) \in Workloads
  BY <1>1, <1>4, ModifiedIsWorkload
<1>6. wl' \in Workloads /\ IsAnswer(wl')
  <2>1. CASE LastPassing(s) = 0
    BY <1>1, <1>2, <2>1 DEF Weakened
  <2>2. CASE LastPassing(s) # 0
    <3>1. LastPassing(s) \in 1 .. Len(Weaker[s]) /\ LastPassing(s) > 0
      <4>1. Len(Weaker[s]) \in Nat
        BY <1>3
      <4>2. LastPassing(s) \in 0 .. Len(Weaker[s])
        BY <1>3, LastPassingIsLast
      <4> QED
        BY <2>2, <4>1, <4>2
    <3>2. wl' = Modified(s, {Weaker[s][LastPassing(s)]})
      BY <1>2, <2>2 DEF Weakened
    <3> QED
      BY <1>3, <1>5, <3>1, <3>2, LastPassingIsLast, AcceptsIsAnswer
  <2> QED
    BY <2>1, <2>2
<1>7. bad_examples' \in Seq(Base \ Query)
  <2>1. CASE Failing(s) = {}
    BY <1>1, <1>2, <2>1
  <2>2. CASE Failing(s) # {}
    <3>1. Modified(s, {Weaker[s][LastPassing(s) + 1]}) \in Workloads
      BY <1>3, <1>5, <2>2, LastPassingIsLast
    <3> QED
      BY <1>1, <1>2, <2>2, <3>1, LearntKeeps
  <2> QED
    BY <2>1, <2>2
<1>8. todo' \in Workloads /\ stale' \in BOOLEAN
  BY <1>1, <1>2 DEF Workloads
<1>9. ~stale' => todo' \subseteq wl'
  <2>1. LastPassing(s) > 0 \/ LastPassing(s) = 0
    <3>1. Len(Weaker[s]) \in Nat
      BY <1>3
    <3>2. LastPassing(s) \in 0 .. Len(Weaker[s])
      BY <1>3, LastPassingIsLast
    <3> QED
      BY <3>1, <3>2
  <2>2. stale' = (stale \/ LastPassing(s) > 0)
    BY <1>2
  <2>3. ~stale' => ~stale /\ LastPassing(s) = 0
    BY <2>1, <2>2, Zenon
  <2> QED
    BY <1>1, <1>2, <2>3 DEF Weakened
<1> QED
  BY <1>1, <1>6, <1>7, <1>8, <1>9, RefineStepKeeps DEF Kept, Refining

\* From one loop to the next nothing changes but the list to do.
LEMMA NextLoopKeeps == ASSUME IInv, NextLoop PROVE IInv'
<1>1. Kept
  BY DEF IInv, TypeInv, RefineInv, RefinedIsAnswer, Refining, NextLoop, Kept
<1>2. /\ todo' \in Workloads /\ stale' \in BOOLEAN /\ free' \subseteq Queues
      /\ pc' \in {"broaden", "weaken", "widen"} /\ todo' \subseteq wl'
  BY DEF IInv, TypeInv, NextLoop, Unmentioned
<1>3. pc' = "broaden" /\ ~stale' => \A s \in wl' : Irreducible(s)'
  BY DEF IInv, RefineInv, NextLoop, Irreducible
<1> QED
  BY <1>1, <1>2, <1>3, RefineStepKeeps DEF NextLoop, Refining

\* Nothing happens after the end.
LEMMA DoneKeeps == ASSUME IInv, Done PROVE IInv'
<1>1. Kept
  BY DEF IInv, TypeInv, RefineInv, RefinedIsAnswer, Refining, Done, Kept
<1>2. /\ todo' \in Workloads /\ stale' \in BOOLEAN /\ free' \subseteq Queues
      /\ todo' \subseteq wl'
  BY DEF IInv, TypeInv, Done, Workloads
<1> QED
  BY <1>1, <1>2, RefineStepKeeps DEF Done, Refining

\* Every step is one of these.
LEMMA StepInv == ASSUME IInv, [Next]_vars PROVE IInv'
<1>1. CASE UNCHANGED vars
  BY <1>1 DEF vars, IInv, TypeInv, SearchInv, RefineInv, RefinedIsAnswer, Refining,
              Irreducible
<1>2. CASE Next
  BY <1>2, FoundKeeps, NotFoundKeeps, CheckZerosKeeps, MoveKeeps, RemoveKeeps, BroadenKeeps,
     WeakenKeeps, WidenKeeps, NextLoopKeeps, DoneKeeps DEF Next
<1> QED
  BY <1>1, <1>2

\* The search and the refinement keep all of the invariant.
THEOREM SearchInvariant == Spec => []IInv
BY InitInv, StepInv, PTL DEF Spec

-----------------------------------------------------------------------------

\* The solution, and each workload its refinement goes through up to the one
\* that is printed, has an execution and guarantees the query.
THEOREM SearchRefinedIsAnswer == Spec => []RefinedIsAnswer
<1>1. IInv => RefinedIsAnswer
  BY DEF IInv, RefineInv
<1> QED
  BY <1>1, SearchInvariant, PTL

\* A spec that is put into a workload in the place of one of its own is read
\* no worse than that one.
LEMMA ModifiedIsRead ==
    ASSUME \A s \in wl : ~Misread(s), NEW s, NEW new, ~stale => \A r \in new : ~Misread(r)
    PROVE  \A r \in Modified(s, new) : ~Misread(r)
BY DEF Modified

\* What a candidate adds to the examples was not among them.
LEMMA TryIsNew ==
    ASSUME IInv, NEW candidate \in Workloads, \A s \in candidate : ~Misread(s),
           Try(candidate), NEW e \in Execs, bad_examples' = Append(bad_examples, e)
    PROVE  ~Known(e)
<1>1. bad_examples \in Seq(Base \ Query)
  BY DEF IInv, TypeInv
<1>2. bad_examples' # bad_examples
  BY <1>1, Len(Append(bad_examples, e)) = Len(bad_examples) + 1
<1>3. bad_examples' \in Learnt(candidate)
  BY <1>2 DEF Try
<1> QED
  BY <1>1, <1>3, LearntIsNew

\* A step that adds an example found it for wl, or for a candidate made of wl.
LEMMA StepIsNew ==
    ASSUME IInv, Next, \A s \in wl : ~Misread(s),
           NEW e \in Execs, bad_examples' = Append(bad_examples, e)
    PROVE  ~Known(e)
<1>1. /\ wl \in Workloads /\ todo \in Workloads /\ bad_examples \in Seq(Base \ Query)
      /\ free \subseteq Queues
  BY DEF IInv, TypeInv
<1>2. Refining /\ ~stale => \A s \in todo : ~Misread(s)
  BY DEF IInv, RefineInv
<1>3. bad_examples' # bad_examples
  BY <1>1, Len(Append(bad_examples, e)) = Len(bad_examples) + 1
<1>4. CASE NotFound
  BY <1>1, <1>4, LearntIsNew DEF NotFound
<1>5. CASE Remove
  <2>1. PICK s \in todo : Try(wl \ {s})
    BY <1>3, <1>5 DEF Remove, Skip
  <2>2. wl \ {s} \in Workloads
    BY <1>1 DEF Workloads
  <2> QED
    BY <2>1, <2>2, TryIsNew
<1>6. CASE Broaden
  <2>1. PICK s \in todo : Try(Modified(s, AsCEnq[s]))
    BY <1>3, <1>6 DEF Broaden, Skip
  <2>2. s \in Specs /\ AsCEnq[s] \in Workloads
    BY <1>1, SpecsAssumption DEF Workloads
  <2>3. ~stale => \A r \in AsCEnq[s] : ~Misread(r)
    BY <1>2, <1>6, <2>2, MisreadAssumption DEF Broaden, Refining
  <2>4. Modified(s, AsCEnq[s]) \in Workloads
    BY <1>1, <2>2, ModifiedIsWorkload
  <2>5. \A r \in Modified(s, AsCEnq[s]) : ~Misread(r)
    BY <2>3, ModifiedIsRead
  <2> QED
    BY <2>1, <2>4, <2>5, TryIsNew
<1>7. CASE Weaken
  <2>1. PICK s \in todo : bad_examples' \in
            IF Failing(s) = {} THEN {bad_examples}
            ELSE Learnt(Modified(s, {Weaker[s][LastPassing(s) + 1]}))
    BY <1>7 DEF Weaken
  <2> DEFINE next == LastPassing(s) + 1
  <2>2. s \in Specs /\ Weaker[s] \in Seq(Specs)
    BY <1>1, SpecsAssumption DEF Workloads
  <2>3. next \in DOMAIN Weaker[s] /\ bad_examples' \in Learnt(Modified(s, {Weaker[s][next]}))
    <3>1. Failing(s) # {} /\ bad_examples' \in Learnt(Modified(s, {Weaker[s][next]}))
      BY <1>3, <2>1
    <3>2. next \in 1 .. Len(Weaker[s])
      BY <2>2, <3>1, LastPassingIsLast
    <3> QED
      BY <2>2, <3>1, <3>2
  <2> HIDE DEF next
  <2>4. Weaker[s][next] \in Specs
    BY <2>2, <2>3
  <2>5. ~stale => ~Misread(Weaker[s][next])
    BY <1>2, <1>7, <2>2, <2>3, MisreadAssumption DEF Weaken, Refining
  <2>6. Modified(s, {Weaker[s][next]}) \in Workloads
    BY <1>1, <2>4, ModifiedIsWorkload DEF Workloads
  <2>7. \A r \in Modified(s, {Weaker[s][next]}) : ~Misread(r)
    BY <2>5, ModifiedIsRead
  <2> QED
    BY <1>1, <2>3, <2>6, <2>7, LearntIsNew
<1>8. CASE Widen
  <2> DEFINE q == Lowest(free)
  <2>1. PICK s \in todo : ~stale /\ Try(Modified(s, Wider[<<s, q>>]))
    BY <1>3, <1>8 DEF Widen, Skip
  <2>2. q \in Queues
    BY <1>1, <1>8, LowestIsMember DEF Widen
  <2> HIDE DEF q
  <2>3. s \in Specs /\ Wider[<<s, q>>] \in Workloads
    BY <1>1, <2>2, SpecsAssumption DEF Workloads
  <2>4. \A r \in Wider[<<s, q>>] : ~Misread(r)
    BY <1>2, <1>8, <2>1, <2>2, <2>3, MisreadAssumption DEF Widen, Refining
  <2>5. Modified(s, Wider[<<s, q>>]) \in Workloads
    BY <1>1, <2>3, ModifiedIsWorkload
  <2>6. \A r \in Modified(s, Wider[<<s, q>>]) : ~Misread(r)
    BY <2>4, ModifiedIsRead
  <2> QED
    BY <2>1, <2>5, <2>6, TryIsNew
<1>9. CASE Found \/ CheckZeros \/ Move \/ NextLoop \/ Done
  BY <1>3, <1>9 DEF Found, CheckZeros, Move, NextLoop, Done
<1> QED
  BY <1>4, <1>5, <1>6, <1>7, <1>8, <1>9 DEF Next

\* The solver never returns a counterexample that it returned before, unless
\* the workload has a bound that the examples read larger than the solver does.
THEOREM SearchNoExampleTwice == Spec => NoExampleTwice
<1>1. ASSUME IInv, [Next]_vars,
             NEW e \in Execs, Known(e), bad_examples' = Append(bad_examples, e)
      PROVE  \E s \in wl : Misread(s)
  <2>1. bad_examples \in Seq(Base \ Query)
    BY <1>1 DEF IInv, TypeInv
  <2>2. bad_examples' # bad_examples
    BY <1>1, <2>1, Len(Append(bad_examples, e)) = Len(bad_examples) + 1
  <2>3. Next
    BY <1>1, <2>2 DEF vars
  <2> QED
    BY <1>1, <2>3, StepIsNew
<1>2. IInv /\ [Next]_vars =>
        [\A e \in Execs : Known(e) /\ bad_examples' = Append(bad_examples, e) =>
            \E s \in wl : Misread(s)]_vars
  BY <1>1
<1> QED
  BY <1>2, SearchInvariant, PTL DEF Spec, NoExampleTwice

\* The workload a step can be undone to has an execution, unless the solver
\* could not tell or an example stood for a spec that no execution satisfies.
THEOREM SearchLastStepFeasible == Spec => []LastStepFeasible
<1>1. IInv => LastStepFeasible
  BY DEF IInv, SearchInv, Possible, LastStepFeasible
<1> QED
  BY <1>1, SearchInvariant, PTL

\* The first refinement loop leaves no spec that could be removed on its own.
THEOREM SearchNoSpecToRemove == Spec => []NoSpecToRemove
<1>1. IInv => NoSpecToRemove
  BY DEF IInv, RefineInv, NoSpecToRemove, Irreducible
<1> QED
  BY <1>1, SearchInvariant, PTL
=============================================================================
