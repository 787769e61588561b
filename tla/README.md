# A verification model of fperf

fperf finds conditions on the traffic entering a network component under which a
performance query is sure to hold. A *contention point* (schedulers, switches,
queues) is encoded for Z3 over a fixed number of time steps. A *search* proposes
*workloads*, asks the solver whether a workload is feasible and whether it has
executions that violate the query, learns from each counterexample, and weakens
the first answer it finds.

Two kinds of error make such a tool wrong without any crash:

* the encoding may admit behaviour the component does not have, or exclude
  behaviour it has. Contradictory constraints do not fail, they make executions
  disappear and every query true;
* the search may mix up what the solver, the examples and the workloads mean.

Neither shows in a test that expects SAT or UNSAT. The modules here are about
both. Source paths below are relative to the repository's `src/` directory;
headers are in `lib/`.

## 1. Inventory

| Component | State | Operations | Correct when |
|---|---|---|---|
| Queues (`queue.cpp`) | packet slots, counts of a step, running totals | the window constraints of `Queue`, `ImmQueue`, `Link` | they determine the next content, which is that of a FIFO that drops its latest arrivals |
| Round robin (`qms/rr_qm.cpp`) | last served queue | serve the next non-empty one | one head, bounded waiting, fair shares, nothing invented or lost |
| Strict priority (`qms/priority_qm.cpp`) | none of its own | serve the highest non-empty queue | CBLOCKED charges exactly the steps that served a higher queue |
| Token bucket (`qms/tbf_qm.cpp`) | tokens | refill, spend | rate and burst bounds, no token lost while packets wait |
| Two-list round robin (`qms/buggy_2l_rr_qm.cpp`) | new and old list, activity bits | activate, serve, move between lists | lists and bits agree, a packet is never stranded |
| Metrics (`metrics/`) | per step values | an expression for the solver, a computation over examples | both computations agree |
| Search (`search.cpp`) | current and last workload, counterexamples, counters | check, move, undo, reset, four refinement loops | what is printed is feasible and guarantees the query; the search does not repeat itself |
| Contention point (`contention_point.cpp`) | modules, edges, base workload, query, solver | set-up, checks, encoding and evaluation of specs, example generation | encoding and evaluation agree; sinks keep up |
| Workloads (`workload.cpp`) | specs, timeline of specs per range, flags | add, remove, modify, normalise | normalising keeps the meaning; comparison recognises equals |
| Spec factory (`spec_factory.cpp`) | none | random specs and neighbours | every spec reachable, every draw ends |
| Switch crossbar (`qms/switch_xbar_qm.cpp`) | priority heads per port | match inputs with outputs | a matching always exists and is maximal; who waits how long |
| Leaf-spine network (`cps/leaf_spine.cpp`, forwarding modules) | that of its modules | forward by destination and spine | packets reach their destination only |
| Loom NIC (`cps/loom_mqprio.cpp`, its modules) | that of its modules | classify, interleave, demultiplex | nothing merged, nothing dropped but by queue limits |
| Queries, examples, configuration, Z3 wrapper, test programs | | | records, file formats, random draws, names |

How they interact: a queueing module reads the heads of its input queues and
constrains their `deq_cnt` and the `enqs` of its output queues, so modules meet
only in the queues they share. `ContentionPoint` adds a draining constraint to
every queue with no module behind it. `Search` calls the contention point twice
per check (without, then with the negated query), and evaluates each workload
on all stored examples. Nothing runs concurrently; the difficulty lies in
constraints that hold *at once*, in two implementations of one meaning, and in
long sequences of steps of the search.

What is hard: overlapping constraints, first and last steps, full queues,
counts that include lost packets, uninitialised data, specs that a loop keeps
using after the workload changed, undoing a step, counters that must end a
fruitless stretch. `PROJECT.json` lists each hazard at its line.

## 2. Modules

How an encoding is modelled: a **state** is the valuation the solver gives the
variables of one time step. Constraints on one step are a predicate on states
(`Choice`), constraints on two steps relate a state and the next (`Next`). The
solver may pick any valuation the constraints allow, so nothing is computed
that the code leaves open. A state without successor is an encoding that is UNSAT.

| Module | Models | State and actions |
|---|---|---|
| `SlidingWindow`, `Queue` | `Queue::sliding_window_constrs`, `ImmQueue::sliding_window_constrs` | `elems` are the slots, `cenq`/`cdeq` the running totals; `Step` and `ImmStep` are one time step of either class |
| `QueueBounds` | the sizes a queue is built with | constants that `SlidingWindow` and `TokenBucket` share |
| `Fifo` | what a queue promises: a drop-tail buffer | implemented by `Queue` |
| `Scheduler` | what `RRQM`, `PriorityQM` and `Buggy2LRRQM` have in common: input queues, dequeue counts, the output | extended by the three schedulers; `OutputIsServed` and the refinement of `OneServer` are stated here once |
| `RoundRobin` | `RRQM::add_constrs`, its queues, the sink | `lsq` is `last_served_queue_`; `kind` the `QueueInfo::type` that `RRScheduler` leaves unset |
| `StrictPriority` | `PriorityQM::add_constrs`, CBLOCKED | `cblocked` is the metric, `charge` and `work` observe; `PrioritySpec` is its specification |
| `TokenBucket` | `TBFQM::add_constrs`, the sink | `tokens`, `deq`, and `before`, what had left before each step |
| `TwoListRR` | `Buggy2LRRQM::add_constrs` | the lists `new` and `old`, `inactive`, and `passed`, an observer; `TwoListSpec` is its specification |
| `OneServer` | what a scheduler promises: one packet per step whenever there is one | implemented by `RoundRobin`, `StrictPriority`, and `TwoListRR` with queues of type QUEUE |
| `Crossbar` | `SwitchXBarQM::add_constrs`, its VOQs (`ImmQueue`), its links (`Link::add_constrs`) | `match` is `in_to_out_` and `out_from_in_`, `inHead` and `outHead` the priority heads, `line` the links; `wait` observes |
| `InputQueuedSwitch` | what a crossbar promises: a maximal matching in every step | implemented by `Crossbar` |
| `LoomNIC` | `LoomMQPrio` with `LoomFlowEnqQM`, `RRQM`, `LoomNICEnqQM`, `PriorityQM`, `LoomDemuxQM` | one variable per row of queues, `deq` what the solver lets leave the flows' queues, `last` the round-robin heads; `FlowEnq`, `RoundRobin`, `NICEnq` are the parts of one step; `arrived`, `sent`, `filled` observe |
| `Matching` | what the matchings of an input-queued switch are | used by `InputQueuedSwitch`'s promise and by `LeafSpine` |
| `LeafSpine` | `LeafSpine::add_nodes`, `add_edges`; `LeafForwardingQM`, `SpineForwardingQM`, `LeafXBarQM` and `ReducedLeafXBarQM` | `inq` the queue in front of each port, `voq` the crossbars' queues, `down` the links to the servers; `Quiet` and `Busy` are a time step without and with arrivals; `owed` observes |
| `WlSpec` | `Comp`, `Same`, `Incr`, `Decr`, `Unique`; `Comp::normalize`; `ContentionPoint::get_expr` and `eval_spec` for each | no state: a spec is a record, an execution a function |
| `SpecFactory` | `random_timed_spec`, `random_comp`, `pick_neighbors` and what they draw; `TimedSpec` | no state: the set of specs a draw may return |
| `Workload` | `Workload::add_spec`, `rm_spec`, `mod_spec`, `clear`, `normalize`, `add_time_range`, `regenerate_spec_set` | `timeline` maps a range of steps to a bag of specs, `empty` is the flag of that name; `Add`, `Remove`, `Modify`, `MakeClear`; `Construct` makes one spec, for the properties about `made` |
| `Metrics` | `populate_val_exprs` and `eval` of CENQ, CDEQ, QSIZE, CBLOCKED, AIPG | histories of one queue |
| `Search` | `Search::search`, `check`, `refine`, `run` | one action per part of a round: `Found`, `NotFound`, `CheckZeros`, `Move`; one per loop of refinement: `Remove`, `Broaden`, `Weaken`, `Widen`, with `NextLoop` and `Done` |

Abstractions, each chosen so that it cannot hide what a property is about:

* The Loom NIC has as many cores as a queue takes packets in a step, so that each
  core has one slot, as in the test program; the state before the first step has
  empty queues.
* Schedulers see queues as packet counts. `Queue` justifies it: a queue's
  contents are determined by its history, and its packets are its first slots.
* In `Search` an execution is an element of a set, a spec the executions its
  encoding admits (`Holds`) and those its evaluation accepts (`Matches`), a
  workload a set of specs. The two sets differ where a bound wrapped below zero
  (`workload.cpp:681`): `AcceptedInVain` and `Misread`. Otherwise normalisation is taken to keep the meaning; the run
  `workload` shows for which specs it does, and the observations below list the rest.
* `WlSpec` has two metrics for all: CENQ always has a value and never decreases,
  DST has one only where packets that agree on it arrive. AIPG is non-negative
  and may decrease, ECMP is DST on another field.
* An entry of a workload's timeline is a set of pointers, and normalising it
  clones its Comps but not the other specs. So Comps are kept in a bag, and the
  others keep their identity over the entries they are in.
* Of `LeafSpine`'s crossbars only the promise is kept: any maximal matching, which
  `Crossbar` implements (`ImplementsSwitch`), so what holds does not depend on
  the priority heads.
* `Workload::operator==` compares sets of pointers, and every change clones the
  specs. So the filters for "same as the current workload" and "found
  infeasible" never fire in `random_neighbor`, and the model has none.
* The loops of refinement walk over the specs the workload had when they
  began. Once one is replaced all are clones, the old ones are no longer in the
  workload, and `mod_spec` does nothing: `stale` says so.
* The solver may answer UNKNOWN (`Hard`); the input-only solver always does.
* A check may find any counterexample; a move may go to any neighbour the code
  could draw. `Workload::cost` is a constant function of the workload.
* A counterexample of a misread spec may be found again without end; `MaxCopies`
  bounds the copies that `bad_examples` holds. New ones are always added.
* Names of variables and constraints are left out everywhere.

## 3. Runs

| Run | Question | Bounds, and why they suffice |
|---|---|---|
| `queue` | Do the window constraints leave exactly one next content, a FIFO's? | 3 slots, 2 arrivals and departures, 5 steps: a full queue, partial drops, shifting and appending in one step; junk metadata in invalid packets; `SYMMETRY` over packets (no liveness is checked) |
| `round_robin` | Bounded waiting, shares, a work-conserving server, a next step for every arrival | 3 queues of 2 packets, each queue type: the head wraps, queues fill and empty in turn |
| `strict_priority` | Who is charged with blocking, for how long | 3 levels, 2 packets, 5 steps |
| `token_bucket` | Rate, burst, no token lost, nothing lost behind | link rate below the bucket, bursts above both, 6 steps |
| `two_list_rr` | Lists and bits agree; who is served in the end | 3 queues of 2 packets, both usable types |
| `crossbar` | Is there always a matching, is it maximal, who waits how long? | 3 ports, each sending to both others, as in the spines of `leaf_spine_bw`; VOQs of one packet, since only an empty and a non-empty VOQ differ to the matching (with two packets the run passes too, in four minutes) |
| `loom` | Do packets pass five modules without being merged, reordered or lost? | 2 cores, 2 packets a queue takes in a step, queues of 3, 6 steps; five kinds of load, from none to a burst of both flows of Tenant 2, so that queues empty, build up and overflow |
| `leaf_spine` | Does a packet go to its destination and nowhere else, and is nothing left in the end? | 2 leaves, 2 spines, 2 servers a leaf, reduced queues as in the test programs, 2 of the servers sending, on different leaves, at most 3 packets in flight, VOQs of 1: packets meet at spines, at links and in VOQs, and VOQs overflow |
| `workload` | Do specs mean the same written, normalised, encoded and evaluated; do changes to a workload compose? | 3 queues, 3 steps, 1 packet to a queue in a step, 216 executions; integers of 6 bits, so that unsigned bounds wrap around; 3 specs at most in a workload; every Comp that can be drawn, its neighbours, theirs in turn, Comps of two metrics, and the four other kinds of spec; `Same` over two ranges that meet |
| `metrics` | Do the two computations agree? | 3 slots, 2 arrivals, 5 steps: losses, gaps before, after and around a step |
| `search` | Answers, counterexamples, undoing, resets | 2 queues, 10 specs over CENQ and DST, two of them the bounds `<= UINT_MAX` and `>= UINT_MAX` that solver and examples read differently, up to 3 in a workload, an undecidable workload, thresholds of 0 and 1, 2 copies of an example: local search, undone stretches, resets and every refinement loop happen |
| `search_zero` | Does a check have an outcome? **Violated** | as above, with 0, 1 or 4 non-target queues |

What the properties say beyond the obvious:

* `WindowDeterminesElems`: for every dequeue count and every arrivals the
  constraints admit, exactly one next content satisfies all of them. It does not
  assume that arrivals have no holes, since `ImmQueue`'s constraint for it is
  commented out.
* `Satisfiable` of `RoundRobin`: no constraint of `RRQM` says that exactly one
  queue was the last served; were there two, their constraints would contradict each
  other. Whatever arrives in the next step, there must be a valuation. It excepts queues of type LINK, with which the code has no next step once
  a queue is passed over. (`SchedulerProofs` proves that there is one head.)
* `BoundedWait`, `FairShare`: a queue is passed over fewer than N times, and two
  backlogged queues never differ by more than one packet.
* `BurstBound`, `BackloggedGetsRate`: over *any* window, not only the one of
  `tests/tbf_test.cpp`; and a bucket that is never emptied early.
* `ListsMatchQueues`, `PassedInList`: the lists, the
  activity bits and the queues are separate variables tied by implications.
* `OldIsServedInTheEnd`: holds only because it assumes activations end; without
  it the old list starves, which is the known defect the scheduler models.
* `Satisfiable` of `Crossbar`: a pair is matched if and only if it loses on
  neither side, for all pairs at once; some set of pairs satisfies that for each of the
  arrivals there can be, not only for some.
* `PortsAreFair`, `NeverStarves`: each port rotates on its own, which says
  nothing about a pair whose two ports take turns in passing it over. With three
  ports that do not send to themselves no VOQ waits N steps, and N - 1 happen.
  This does not extend: with four ports (a leaf of `leaf_spine_bw` has two
  servers and two spines), or with three that also send to themselves, several
  matchings can satisfy the constraints, and the solver may choose them so that
  one VOQ waits for ever. `NeverStarves` states the case it holds in.
* `SlotsInOrder`: which packet goes to which slot is a chain of implications,
  each of which refers to the slots before; the result is the first packets in order.
* `WorkConserving`: no module knows of the others' queues, yet the NIC sends a
  packet in every step in which any of its queues holds one.
* `PacketsKept`: no packet leaves twice, and, as long as no queue was full, none of
  Tenant 1 is lost. For Tenant 2 this holds while only one of its flows sends, as
  in the test program `loom`, which keeps its Memcached flows empty.
* `AssertedBounds`: the modules of the network do not check where packets are, they
  add it to the encoding. A misdirected packet would be no error, it would make the
  execution impossible; so the bounds must follow from wiring and forwarding.
* `ForwardedOnce`: implications over overlapping cases, each naming a queue by a
  number counted along another list, have exactly one solution for every packet.
* `Conserved`: on the way through three switches no packet is doubled, and none lost
  but at a full queue.
* `Drains`: no packet goes round between the switches, and none waits for ever,
  whichever maximal matchings are made.
* `NormalizeKeepsMeaning`: what normalising a Comp asks of an execution is what
  the Comp asked. It names the two kinds of Comp for which it is not
  (`OneQueueShort`, `WrongSide`).
* `EvaluatesAsEncoded`: an example is evaluated as the solver would be asked; it
  states precisely how `Same`, `Unique` and wrapped constants differ.
* `TimelineIsTheSpecs`: the TimedSpecs, rebuilt from the timeline with ranges
  joined and widened, ask together what the entries ask.
* `AddIsConjunction`: adding a spec leaves exactly the executions that satisfied
  both, after others were rewritten by zero propagation, split and joined. Four
  exceptions are stated with it: too many specs, one mistaken for impossible
  (`Mistaken`), a bound that wrapped (`Wraps`), and an object added again next to
  where it already is (`Joins`).
* `QSizeOffByLost`, `CBlockedUntilLoss`, `SumsAndGapsAgree`: how far, and in
  which direction, an example's value may differ from the solver's.
* `RefinedIsAnswer`: from the solution to the printed workload, through every
  stale spec and failed candidate.
* `NoExampleTwice`: examples accept what the solver admits, or the search would
  loop. With `>= UINT_MAX` in the workload they do not: the exception the property names.
* `LastStepFeasible`: undoing ends in a workload with an execution, even when
  that workload was refuted by an example and so never checked for one. It does
  not when the example was accepted in vain, by `CENQ < 0`; without that
  exception the run fails.
* `InfeasibleRunsReset`: a stretch of undone steps ends.
* `NoSpecToRemove`: the first refinement loop really reaches a fixpoint.

### Findings

One finding has a run, `search_zero`:

* `search.cpp:264`: `0u` is a null `Expr*`, not a `Constant`. With an input queue
  that is no target the first check that reaches the solver throws.

Others are stated as the exceptions of properties that hold, or were met while
modelling:

* `cps/rr_scheduler.cpp:22`: `QueueInfo::type` is never set and is read
  uninitialised. As `LINK` it makes the encoding UNSAT (`Satisfiable`).
* `qms/loom_flow_enq_qm.cpp:103`: how many packets leave a flow's queue is bounded
  from below only. When Tenant 2's flows together hold more than `MAX_ENQ`
  packets, the solver may drop the rest in an empty NIC (`PacketsKept`).
* `workload.cpp:681`: `constant == 0` compares the pointer. LT can be drawn with the
  constant 0, and `CENQ < 0` becomes `<= UINT_MAX`. The solver reads -1 and admits nothing;
  an example always satisfies it. So a workload with it is refuted by a bad
  example before the solver is asked (`search.cpp:125`), `last_input_infeasible` stays
  false although no execution satisfies the workload, against the comment at
  `search.cpp:289`, and the workload becomes the one that later steps are undone to (`LastStepFeasible`).
  Next to a zero of its queue the spec is dropped as always true,
  which makes a workload feasible that was not (`AddIsConjunction`).
* `workload.cpp:704`: a QSum of n queues is bounded by (n - 1) * `MAX_ENQ` a step, so
  specs that some execution meets are marked empty (`OneQueueShort`).
* `workload.cpp:554`: when the left sum is part of the right, the comparison of the
  rest with zero is negated where it should be mirrored (`WrongSide`); an Indiv
  and another metric's Indiv are marked empty whatever their values.
* `workload.cpp:628`: an Indiv compared with a QSum is swapped, but not what the code then reads (`lhs_qsum`), a null pointer.
* `workload.cpp:1215`: zero propagation tests the left-hand side for the zero queue
  where it rewrites the right-hand side, and rewrites that to `0u`, a null `Expr*`.
* A contradiction that zero propagation finds sets `empty` and drops the spec; the
  next normalisation starts with `empty` false and no longer knows of it.
  The search drops such a workload at once (`IsEmpty` guards the actions).
* `workload.cpp:1366`: what is not a Comp is one object in all the entries that hold it,
  and its TimedSpecs are rebuilt with the longest ranges. Added over two ranges
  that touch or overlap, `Same` becomes one over both, and so asks that the value is
  kept across the two as well (`Joins`): the executions are fewer than both admit.
  The proof of `AddIsConjunction` came upon it; the run has the case (`Same` over
  steps 0 to 1, after 1 to 2) and fails without the exception. The search adds
  no such spec, base workloads may.
* Splitting an entry clones its Comps, and `max_size` counts the clones: a
  workload with few specs may be marked empty for its size.
* `contention_point.cpp:2075` and `:2232`: `Same` without arrivals and the first step
  of `Unique`, as `EvaluatesAsEncoded` says. The search draws neither; base
  workloads hold them.
* `qms/leaf_forwarding_qm.cpp:79-123`: with the full set of queues (`reduce_queues`
  false) no implication speaks of a VOQ from one spine to another. While a packet
  is in front of the port the solver may put anything into that VOQ, or nothing;
  theorem `FullLeafIsOpen` says so. The test programs reduce the queues.
* `qms/leaf_forwarding_qm.cpp:220`: that a packet is not sent to its own server is
  asserted for packets that are none as well, which costs nothing, as their fields
  are not read.

### Fairness

`TwoListRR` and `Search` assume `WF_vars(Next)`. For the scheduler a step is one
time step of the encoding; fairness says that time goes on, of the execution
whose prefixes are the encodings for every `total_time`. For the search there is
one thread and every call returns: solver calls have no timeout, and the loop
that accepts a costlier neighbour with a probability above zero ends with
probability one. No property assumes that a particular neighbour is ever drawn.
`Drains` assumes, in the property, `WF_vars(Quiet)` and that servers stop sending:
again, that time goes on. It does not need the crossbars to be fair, since any
maximal matching serves someone. The other modules have no liveness properties and no fairness.

`CHECK_DEADLOCK FALSE` is used where encodings end with their last step, where
an encoding may become UNSAT, and where the search ends or aborts.

## 4. Proofs

All theorems hold for every value of the constants that the named assumptions
allow: any number of queues, ports, cores, switches, servers, packets and
specs, and executions of any length. Each proof has an inductive invariant, whose
preservation by every action is shown first; what follows says what had to be added
to the property to make it inductive, and why the step works.

* `QueueProofs`, under `BoundsAssumption` (at most `size` arrivals and
  departures, as the constructor requires) and `PacketAssumption`. The invariant
  adds `Front`, that valid packets fill the first slots. One lemma shows that
  the constraints have the one solution `Successor`, by looking at each slot
  once for every constraint that speaks of it; then FIFO behaviour is a fact
  about `Successor`. The token bucket, a queue with a filter, is proved here too:
  its bounds become inductive when unspent tokens are added to what has left
  (`RateInv`, `WindowInv`).
* `SchedulerProofs`. `BoundedWait` is not inductive: `WaitInv` bounds the wait
  by the distance from the head, which shrinks whenever a queue is passed over.
  `FairShare` needs to know which of two queues the head reaches first
  (`LeadInv`). Both need `OneHead` and that a queue is served when one can be.
  Among non-empty queues one is highest, so under strict priority a blocked
  queue is blocked by it (`PriorityBlockedByHigher`), and each blocked step takes
  a packet from the queues above: `WaitBoundedByWork` is a balance of their sum,
  kept as a recursive function of the queue's number.
  The two-list scheduler is here too. Its invariant says that no queue is in two
  places of the lists, none in both lists, that activity bits, places and
  non-empty queues are the same set (`Distinct`, `Apart`, `Active`). The lists
  never overflow because they hold distinct queues. A queue that waits in a list
  is passed over by those before it only, since arrivals go to the end:
  `PassedInList`.
* That a step exists is proved without `ENABLED`: `RRSatisfiable` and
  `PrioritySatisfiable` give, for any content of the queues, the dequeue and the
  output that satisfy the constraints, and `RRLinksUnsatisfiable` shows that with
  two backlogged queues of type LINK there are none.
* `CrossbarProofs`, for any number of ports and any set of VOQs.
  `PortsAreFair` follows from two facts about cyclic distance: moving the head
  to a partner the port prefers brings everyone it passes over closer.
  `ImplementsSwitch`: a pair with a packet that is not matched lost on one side
  to a matched pair, which is maximality; `Carry` puts each matched VOQ's packet
  on its link and leaves the others empty. `CrossbarSatisfiable`: some matching
  satisfies the constraints, whatever the heads are: what the inputs may propose is what
  the outputs do not refuse, and a monotone map of sets of pairs has a fixed point. `CrossbarNeverStarves` is a case
  analysis over three ports that do not send to themselves, with an
  invariant that relates the wait to where the two heads are.
* `MetricsProofs`. The code's loops are recursive functions over the steps, so the
  invariant can say that the last value of each equals what the solver's running
  variables hold; QSIZE differs by the packets lost, which is the invariant's
  balance of arrivals, departures, losses and contents.
* `LoomNICProofs`. `SlotsInOrder` is a statement about ranks among the candidates:
  each implication of the chain fixes the slot whose rank is the number
  of taken slots before. `WorkConserving` goes through the modules from the wire
  back to the flows: a packet in any queue makes the head of the next queue non-empty
  within the same step. `PacketsKept` is a balance for every core and class
  (`KeptInv`) with what arrived on one side, what was sent and what the queues hold
  on the other. `LoomNeverStuck`: the bounds on what leaves the flows' queues can be met.
* `LeafSpineProofs`, for networks of any size with the reduced set of queues. Each VOQ
  leads to the port it is wired to, and of the overlapping implications
  of a forwarding module exactly one applies to each packet (`ForwardedOnce`).
  The invariant `IInv` says of every queue which destinations and spines its packets
  can have; the modules' asserted bounds follow. `Conserved` is shown from it by
  counting: a step moves the head of each matched VOQ to one port or to one server, and
  the head at each port to one VOQ, or drops it if that is full; so the number of
  packets for a server changes by arrivals and drops only.
* `WorkloadProofs`, for any number of queues and steps and any executions, under
  `FactoryAssumption` and `CoeffsAssumption` (no constant or bound in time is as
  large as `INT_MAX`, as `params.hpp` has it) and `OthersAssumption` (of two
  metrics only two queues or two sums of CENQ are compared). The invariant
  `MadeInv` says which Comps are drawn or become neighbors, and that their constants
  never wrap below -1; the model takes neighbors of neighbors only up to such a
  constant (the code could go on, to -2 and below, with the same difference between
  solver and examples). The sum over a
  set of queues is a recursive function of the queue's number, so that it can be
  proved to split over disjoint sets and to be bounded by what can arrive: what
  two sums share cancels out, and a Comp is only marked impossible when it is
  (`NormalizeKeepsMeaning`). What normalising leaves is a Comp of plain bounds,
  which the encoding and the evaluation read alike (`EvaluatesAsEncoded`).
  `TimelineIsTheSpecs` also needs `TimedAssumption` (the ranges lie within the steps
  and are not empty; base workloads compare a metric with a number, DST not with time,
  and no bound in time overflows: see below for two metrics) and the invariant `Fine`: the ranges of the entries are a partition of the steps, and the
  Comps in them are of a metric with a constant or time. The first is kept because
  cutting an entry divides it, and because each entry is reached from exactly one
  start of a run when those that are alike are merged; the second through normalising,
  neighbors and zero propagation. A sum of CENQ never decreases, so a bound holds in
  all the steps that its TimedSpec is widened by, and a Comp asks the same in both.
* The same module proves what a change does to the executions that a workload admits.
  The argument goes step by step through `At`, the specs of one step: cutting
  entries and merging them leave it as it is, adding a spec adds it to the
  steps of its range, normalising replaces it by its `Entry`. `EntryMeans` says that this
  asks the same of an execution in that step: where a sum is said to be zero each of
  its queues is, for values are not negative, so leaving these queues out of
  another sum changes nothing (`WithoutZeros`), a Comp of nothing but zeros is decided
  by its bound (`DropMeans`), and what is flagged empty no execution does. Specs
  that are not Comps speak of successive steps, and need more: each asks what it says of
  every run of steps that it is in, and its TimedSpec has the longest
  (`ExtentIs`, `SpecsMean`, `RunsWith`). Together that is `AddIsConjunction`. `Fine` is
  strong enough as an invariant, because it says of each Comp that it is flagged
  empty only where it grows too fast.
  `WorkloadRemoveWeakens` and `WorkloadModifyKeeps` also need `TimelineZerosOut`: no
  Comp has a queue left that its entry says is zero. It is inductive because taking
  zeros out of a Comp never makes a new one, which is why the `while (changed)`
  loop of `normalize` is one step in the model (`WorkloadZerosTakenOut`). So erasing a
  spec leaves nothing to rewrite and no new contradiction.
* `SearchProofs`, under `MatchesAssumption`: on executions of the base workload a
  spec's evaluation accepts only what its encoding admits, unless the encoding admits
  nothing. It is justified for what the spec factory draws, comparisons of CENQ, AIPG,
  DST and ECMP (`Dists::wl_metric` has these four weights): where the constant did not
  wrap the two agree (`EvaluatesAsEncoded`, and the run `metrics` for CENQ and AIPG);
  where it did, the solver compares with a negative number and the evaluation with one near
  `UINT_MAX`, so `<=` and `=` admit nothing and `>=` accepts nothing. `SearchNoExampleTwice` also
  needs `MisreadAssumption`: refinement makes no spec `>= UINT_MAX` out of another,
  since its constants are those it finds or lower ones down to zero. The
  invariant adds that the current workload is feasible, undecided or holds a spec that
  was accepted in vain whenever it may become the last step's (`SearchInv`), that
  the list a loop has left is part of the workload until one is replaced, and that no tried spec can be
  dropped while the first loop goes on (`RefineInv`), because a failed candidate
  changes nothing and a passed one starts the loop again.

Some theorems state what no run checks because the proof is stronger:
type correctness, `OneHead`, `OutputIsServed`, that a sink keeps up, `QueueLength`,
that a step exists, and that removing a spec loses no execution and putting one in
place of another none that the new one has.

Only model-checked, and why:

* `Satisfiable` of `RoundRobin` and of `Crossbar` as stated, because they use
  `ENABLED` (what makes them true is proved, as above), and the liveness properties `OldIsServedInTheEnd`, `Drains` and
  `InfeasibleRunsReset`: liveness and `ENABLED` are beyond the prover.

## 5. Not modelled

* Example generation (`ContentionPoint::generate_*`, the random changes of an
  example): it asks the solver for executions near others; what a search may
  rely on is only that they are executions of the base workload, which `Search` keeps.
* Zero propagation into Comps of two metrics: it leaves a null right-hand side
  that every later use dereferences. Timelines have no such Comps; `Normalized`
  and the encodings have them. TimedSpecs of `until_time` 0, which nothing makes.
* DEQ is the same count for solver and examples. ECMP is DST on another field.
* Networks with a full set of queues (`reduce_queues` false): `LeafSpine` has them,
  the run and the proofs have the reduced ones. The full set is too large to check,
  and its leaves are open, as the findings say; `FullLeafIsOpen` is all that is said of it.
* `example.cpp`'s file format, `query.cpp`, `shared_config.cpp`, `net_context.cpp`,
  `util.cpp`, `main.cpp`, test programs: no state or control of interest
  beyond what the modules use. Names, of variables and of constraints.
* That random draws end: where only one value can be drawn, loops that draw until
  it differs do not (`spec_factory.cpp:235`).
* Comparing workloads (`Workload::operator==`): it never finds two alike, as above.
* Z3 itself: it is taken to answer correctly or UNKNOWN.

## 6. Plan

1. Queues and their abstract buffer - done, proved.
2. Schedulers and their abstract server - done, proved.
3. Metrics - done, proved for CENQ, CDEQ, QSIZE, CBLOCKED and AIPG.
4. Search and refinement - done, proved.
5. Switch crossbar with the links behind it - done, proved, with the existence of a matching.
6. Networks: the Loom NIC and the leaf-spine network - done, proved.
7. Specs, their draws, workloads - done, proved: normalising a Comp keeps its meaning,
   for any execution, evaluation and encoding agree, the timeline means what its
   TimedSpecs do, adding a spec is a conjunction, removing one only weakens. Open: that
   removing a spec never leaves more specs than there were (`Size`), so that
   `WorkloadRemoveWeakens` would need no exception.
8. Example generation.
