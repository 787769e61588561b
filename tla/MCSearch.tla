------------------------------- MODULE MCSearch -------------------------------
(* Two input queues over one time step: an execution is the packets that come *)
(* to each and the destination of those of queue 1; the query asks for a      *)
(* packet in queue 1.  Specs are numbers, described by SpecList.              *)
EXTENDS Search

MCQueues == {1, 2}
MCExecs ==
    {e \in [cenq : {<<m, n>> : m \in 0 .. 2, n \in 0 .. 1}, dst : 0 .. 2] :
        e.cenq[1] = 0 => e.dst = 0}
MCBase == {e \in MCExecs : e.cenq[1] + e.cenq[2] <= 2}
MCQuery == {e \in MCExecs : e.cenq[1] >= 1}

CEnq(queues, op, c) == [metric |-> "CENQ", queues |-> queues, op |-> op, c |-> c]
Dst(c) == [metric |-> "DST", queues |-> {1}, op |-> "GE", c |-> c]

SpecList ==
    <<CEnq({1}, "GE", 1), CEnq({1}, "GE", 2), CEnq({1, 2}, "GE", 1), CEnq({1, 2}, "GE", 2),
      CEnq({1, 2}, "LE", 1), Dst(0), Dst(1), Dst(2),
      CEnq({1, 2}, "LE", -1), CEnq({1, 2}, "GE", -1)>>
MCSpecs == DOMAIN SpecList
Number(spec) == CHOOSE s \in MCSpecs : SpecList[s] = spec

Value(e, spec) ==
    IF spec.metric = "DST" THEN e.dst
    ELSE (IF 1 \in spec.queues THEN e.cenq[1] ELSE 0)
         + (IF 2 \in spec.queues THEN e.cenq[2] ELSE 0)
Valid(e, spec) == spec.metric = "DST" => e.cenq[1] > 0
Compare(m, op, n) == IF op = "GE" THEN m >= n ELSE m <= n

\* The encoding reads a constant as an int, the evaluation as an unsigned int.
Satisfying(spec, c) == {e \in MCExecs : Valid(e, spec) /\ Compare(Value(e, spec), spec.op, c)}
MCHolds == [s \in MCSpecs |-> Satisfying(SpecList[s], SpecList[s].c)]
MCMatches == [s \in MCSpecs |-> Satisfying(SpecList[s], SpecList[s].c % 8)]
MCHard == {{Number(CEnq({1, 2}, "LE", 1))}}
MCGood == {[cenq |-> <<1, 0>>, dst |-> 1], [cenq |-> <<2, 0>>, dst |-> 2]}
MCBad == <<[cenq |-> <<0, 0>>, dst |-> 0]>>
MCEntries == [w \in SUBSET MCSpecs |-> 1]
MCWlCost == [w \in SUBSET MCSpecs |-> 1 + 2 * Cardinality(w)]
MCQueuesOf == [s \in MCSpecs |-> SpecList[s].queues]
MCAsCEnq ==
    [s \in MCSpecs |->
        LET spec == SpecList[s]
        IN  IF spec.metric = "DST"
              THEN {Number(CEnq({1}, "GE", IF spec.c < 1 THEN 1 ELSE spec.c))} ELSE {}]
\* A CENQ bound is a multiple of the time, of at least one; a DST bound is a constant.
MCWeaker ==
    [s \in MCSpecs |->
        LET spec == SpecList[s]
        IN  CASE spec.op = "LE" -> <<>>
              [] spec.metric = "DST" -> [i \in 1 .. spec.c |-> Number(Dst(spec.c - i))]
              [] OTHER -> [i \in 1 .. spec.c - 1 |-> Number(CEnq(spec.queues, "GE", spec.c - i))]]
MCWider ==
    [pair \in MCSpecs \X MCQueues |->
        LET spec == SpecList[pair[1]]
        IN  IF spec.metric = "DST" THEN {}
            ELSE {Number(CEnq(spec.queues \cup {pair[2]}, spec.op, spec.c))}]
=============================================================================
