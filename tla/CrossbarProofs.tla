--------------------------- MODULE CrossbarProofs ---------------------------
(***************************************************************************)
(* For any number of ports, any set of virtual output queues and any queue *)
(* size: the crossbar's constraints always admit a valuation, each that    *)
(* they admit is a maximal matching, and each port on its own is fair.     *)
(***************************************************************************)
EXTENDS Crossbar, WellFoundedInduction, TLAPS

IInv == TypeOK /\ match \in Matchings /\ Choice

\* A VOQ is the pair of the ports it connects.
LEMMA VoqIsPair ==
    ASSUME NEW v \in Voqs
    PROVE  v = <<v[1], v[2]>> /\ v[1] \in Ports /\ v[2] \in Ports
BY CrossbarAssumption

\* The empty tuple is no pair of ports.
LEMMA NoPktIsNoVoq == NoPkt \notin Voqs
<1> SUFFICES ASSUME NoPkt \in Voqs PROVE FALSE
  OBVIOUS
<1>1. NoPkt \in Ports \X Ports
  BY CrossbarAssumption
<1> QED
  BY <1>1 DEF NoPkt

\* A non-empty set of naturals has a least element.
LEMMA LeastNumberExists ==
    ASSUME NEW T \in SUBSET Nat, T # {}
    PROVE  \E x \in T : \A y \in T : x <= y
<1>1. PICK x \in T : \A y \in T : <<y, x>> \notin OpToRel(<, Nat)
  BY NatLessThanWellFounded, WFMin
<1>2. ASSUME NEW y \in T, y < x PROVE <<y, x>> \in OpToRel(<, Nat)
  BY <1>2 DEF OpToRel
<1>3. ASSUME NEW y \in T PROVE ~(y < x)
  BY <1>1, <1>2
<1>4. ASSUME NEW y \in T PROVE x <= y
  BY <1>3
<1> QED
  BY <1>4

\* The first head is a port (switch_xbar_qm.cpp:345-385).
LEMMA FirstIsPort ==
    ASSUME NEW S \in SUBSET Ports
    PROVE  First(S) \in Ports
<1>1. CASE S = {}
  BY <1>1, CrossbarAssumption DEF First, Ports
<1>2. CASE S # {}
  <2>1. S \in SUBSET Nat
    BY CrossbarAssumption DEF Ports
  <2>2. \E p \in S : \A q \in S : p <= q
    BY <1>2, <2>1, LeastNumberExists
  <2>3. First(S) \in S
    BY <1>2, <2>2 DEF First
  <2> QED
    BY <2>3
<1> QED
  BY <1>1, <1>2

\* Whichever pairs are matched, no packet is left waiting between two ports
\* that are free: it must have lost to a pair that uses one of them.
LEMMA ChoiceIsMaximal ==
    ASSUME Choice, match \in Matchings
    PROVE  Switch!MaximalMatching(len, match)
<1>1. \A u, v \in match : Switch!SharePort(u, v) => u = v
  BY DEF Matchings, Switch!SharePort
<1>2. \A v \in match : len[v] > 0
  BY DEF Choice, QueuesAllow
<1>3. ASSUME NEW v \in Voqs, len[v] > 0
      PROVE  \E u \in match : Switch!SharePort(u, v)
  <2>1. CASE v \in match
    BY <2>1 DEF Switch!SharePort
  <2>2. CASE v \notin match
    <3>1. LostAtOutput(v) \/ LostAtInput(v)
      BY <1>3, <2>2 DEF Choice, Matches, Outstanding
    <3> QED
      BY <3>1 DEF LostAtOutput, LostAtInput, Switch!SharePort
  <2> QED
    BY <2>1, <2>2
<1> QED
  BY <1>1, <1>2, <1>3 DEF Switch!MaximalMatching

\* The packet each link holds next is the one its output was matched with.
LEMMA CarriedIsMatched ==
    ASSUME match \in SUBSET Voqs, NEW next \in [Ports -> Voqs \cup {NoPkt}], Carry(next)
    PROVE  /\ next \in [Ports -> match \cup {NoPkt}]
           /\ \A v \in Voqs : v \in match <=> next[v[2]] = v
           /\ \A j \in Ports : next[j] # NoPkt => next[j][2] = j
<1>1. \A j \in Ports : \/ next[j] = NoPkt /\ \A v \in match : v[2] # j
                       \/ \E v \in match : v[2] = j /\ next[j] = v
  BY DEF Carry, LinksEmpty
<1>2. \A j \in Ports : next[j] \in match \cup {NoPkt}
  BY <1>1
<1>3. ASSUME NEW v \in Voqs, next[v[2]] = v PROVE v \in match
  <2>1. v[2] \in Ports /\ v # NoPkt
    BY VoqIsPair, NoPktIsNoVoq
  <2> QED
    BY <1>1, <1>3, <2>1
<1>4. \A v \in match : next[v[2]] = v
  BY DEF Carry, LinksEmpty
<1> QED
  BY <1>1, <1>2, <1>3, <1>4

(* The type invariant ****************************************************)

\* The constraints of the first step bind the heads and the matching.
LEMMA InitIInv == Init => IInv
<1> SUFFICES ASSUME Init PROVE IInv
  OBVIOUS
<1>1. len \in [Voqs -> 0 .. Size]
  BY CrossbarAssumption DEF Init, Arrivals
<1>2. \A p \in Ports : First(Outputs(p)) \in Ports /\ First(Inputs(p)) \in Ports
  BY FirstIsPort DEF Outputs, Inputs
<1>3. inHead \in [Ports -> Ports] /\ outHead \in [Ports -> Ports]
  BY <1>2 DEF Init
<1> QED
  BY <1>1, <1>3 DEF Init, IInv, TypeOK, Matchings

\* What a step does, whatever arrives in it.
LEMMA NextIs ==
    ASSUME Next
    PROVE  /\ inHead' \in [Ports -> Ports] /\ MoveInHead(inHead')
           /\ outHead' \in [Ports -> Ports] /\ MoveOutHead(outHead')
           /\ line' \in [Ports -> Voqs \cup {NoPkt}] /\ Carry(line')
           /\ wait' = [v \in Voqs |->
                         IF Outstanding(v) /\ v \notin match THEN wait[v] + 1 ELSE 0]
           /\ \E in \in Arrivals : len' = [v \in Voqs |-> NextLen(v, in[v])]
           /\ match' \in Matchings /\ Choice'
BY DEF Next, Step

\* So do those of every later step.
LEMMA NextIInv == IInv /\ Next => IInv'
<1> SUFFICES ASSUME IInv, Next PROVE IInv'
  OBVIOUS
<1>1. len' \in [Voqs -> 0 .. Size]
  <2>1. PICK in \in Arrivals : len' = [v \in Voqs |-> NextLen(v, in[v])]
    BY NextIs
  <2>2. ASSUME NEW v \in Voqs PROVE NextLen(v, in[v]) \in 0 .. Size
    <3>1. len[v] \in 0 .. Size /\ in[v] \in 0 .. 1
      BY <2>1 DEF IInv, TypeOK, Arrivals
    <3>2. v \in match => len[v] > 0
      BY DEF IInv, Choice, QueuesAllow
    <3> QED
      BY <3>1, <3>2, CrossbarAssumption DEF NextLen, Smaller
  <2> QED
    BY <2>1, <2>2
<1>2. wait' \in [Voqs -> Nat]
  BY NextIs DEF IInv, TypeOK
<1>3. match' \in Matchings /\ Choice'
  BY NextIs
<1> QED
  BY <1>1, <1>2, <1>3, NextIs DEF IInv, TypeOK, Matchings

\* The variables stay in range, and what a step chooses is a matching.
THEOREM TypeCorrect == Spec => []TypeOK
<1>1. IInv /\ UNCHANGED vars => IInv'
  BY DEF IInv, TypeOK, Choice, QueuesAllow, Matches, Outstanding, LostAtInput,
         LostAtOutput, InputIsBetter, OutputIsBetter, Steps, vars
<1>2. IInv => TypeOK
  BY DEF IInv
<1> QED
  BY InitIInv, NextIInv, <1>1, <1>2, PTL DEF Spec

(* Fairness of each port *************************************************)

\* Distances behind a head, as in RoundRobin (switch_xbar_qm.cpp:196-222).
LEMMA StepsOrder ==
    ASSUME NEW h \in Ports, NEW p \in Ports, NEW q \in Ports
    PROVE  /\ Steps(h, q) \in 1 .. N
           /\ Steps(h, p) = Steps(h, q) => p = q
           /\ Steps(h, p) < Steps(h, q) => Steps(p, q) < Steps(h, q)
BY CrossbarAssumption DEF Steps, Ports

\* A port either keeps its order or puts last the one it was matched with.
LEMMA StepIsFair ==
    ASSUME IInv, Next, NEW v \in Voqs
    PROVE  Fair(v)
<1> DEFINE i == v[1]
           j == v[2]
<1>1. i \in Ports /\ j \in Ports /\ v = <<i, j>>
  BY VoqIsPair
<1>2. \A u \in match : u = <<u[1], u[2]>> /\ u[1] \in Ports /\ u[2] \in Ports
  BY VoqIsPair DEF IInv, TypeOK
<1>3. inHead[i] \in Ports /\ outHead[j] \in Ports
  BY <1>1 DEF IInv, TypeOK
<1>4. MoveInHead(inHead') /\ MoveOutHead(outHead')
  BY NextIs
<1>5. LostAtInput(v) => Steps(inHead'[i], j) < Steps(inHead[i], j)
  <2> SUFFICES ASSUME NEW u \in match, u[1] = i, Steps(inHead[i], u[2]) < Steps(inHead[i], j)
               PROVE  Steps(inHead'[i], j) < Steps(inHead[i], j)
    BY DEF LostAtInput, OutputIsBetter
  <2>1. inHead'[i] = u[2]
    BY <1>4 DEF MoveInHead
  <2> QED
    BY <1>1, <1>2, <1>3, <2>1, StepsOrder
<1>6. LostAtOutput(v) => Steps(outHead'[j], i) < Steps(outHead[j], i)
  <2> SUFFICES ASSUME NEW u \in match, u[2] = j, Steps(outHead[j], u[1]) < Steps(outHead[j], i)
               PROVE  Steps(outHead'[j], i) < Steps(outHead[j], i)
    BY DEF LostAtOutput, InputIsBetter
  <2>1. outHead'[j] = u[1]
    BY <1>4 DEF MoveOutHead
  <2> QED
    BY <1>1, <1>2, <1>3, <2>1, StepsOrder
<1>7. ASSUME Steps(inHead'[i], j) > Steps(inHead[i], j)
      PROVE  \E u \in match : u[1] = i /\ (u = v \/ OutputIsBetter(i, j, u[2]))
  <2>1. inHead'[i] # inHead[i]
    BY <1>1, <1>3, <1>7, StepsOrder
  <2>2. PICK u \in match : u[1] = i
    BY <1>1, <1>4, <2>1 DEF MoveInHead
  <2>3. inHead'[i] = u[2]
    BY <1>4, <2>2 DEF MoveInHead
  <2>4. ~(Steps(inHead[i], u[2]) < Steps(inHead[i], j))
    BY <1>1, <1>2, <1>3, <1>7, <2>3, StepsOrder
  <2>5. u[2] = j \/ Steps(inHead[i], j) < Steps(inHead[i], u[2])
    BY <1>1, <1>2, <1>3, <2>4, StepsOrder
  <2> QED
    BY <1>1, <1>2, <2>2, <2>5 DEF OutputIsBetter
<1>8. ASSUME Steps(outHead'[j], i) > Steps(outHead[j], i)
      PROVE  \E u \in match : u[2] = j /\ (u = v \/ InputIsBetter(j, i, u[1]))
  <2>1. outHead'[j] # outHead[j]
    BY <1>1, <1>3, <1>8, StepsOrder
  <2>2. PICK u \in match : u[2] = j
    BY <1>1, <1>4, <2>1 DEF MoveOutHead
  <2>3. outHead'[j] = u[1]
    BY <1>4, <2>2 DEF MoveOutHead
  <2>4. ~(Steps(outHead[j], u[1]) < Steps(outHead[j], i))
    BY <1>1, <1>2, <1>3, <1>8, <2>3, StepsOrder
  <2>5. u[1] = i \/ Steps(outHead[j], i) < Steps(outHead[j], u[1])
    BY <1>1, <1>2, <1>3, <2>4, StepsOrder
  <2> QED
    BY <1>1, <1>2, <2>2, <2>5 DEF InputIsBetter
<1> QED
  BY <1>5, <1>6, <1>7, <1>8 DEF Fair

\* A port that prefers others to a queue comes closer to serving it.
THEOREM PortsFair == Spec => PortsAreFair
<1>1. IInv /\ [Next]_vars => [\A v \in Voqs : Fair(v)]_vars
  BY StepIsFair
<1>2. IInv /\ UNCHANGED vars => IInv'
  BY DEF IInv, TypeOK, Choice, QueuesAllow, Matches, Outstanding, LostAtInput,
         LostAtOutput, InputIsBetter, OutputIsBetter, Steps, vars
<1> QED
  BY InitIInv, NextIInv, <1>1, <1>2, PTL DEF Spec, PortsAreFair

(* The matching **********************************************************)

\* The first step is one of the abstract switch ...
LEMMA InitSwitch == Init => Switch!Init
<1> SUFFICES ASSUME Init PROVE Switch!Init
  OBVIOUS
<1>1. len \in [Voqs -> 0 .. 1] /\ match \in SUBSET Voqs
  BY DEF Init, Arrivals, Matchings
<1>2. Switch!MaximalMatching(len, match)
  BY ChoiceIsMaximal DEF Init
<1> QED
  BY <1>1, <1>2 DEF Init, Switch!Init

\* ... and so is each step from one to the next.
LEMMA NextSwitch == IInv /\ Next => Switch!Next
<1> SUFFICES ASSUME IInv, Next PROVE Switch!Next
  OBVIOUS
<1>1. \E in \in [Voqs -> 0 .. 1] :
         len' = [v \in Voqs |->
                    Switch!Smaller(Size, len[v] - (IF v \in match THEN 1 ELSE 0) + in[v])]
  BY NextIs DEF Arrivals, NextLen, Smaller, Switch!Smaller
<1>2. match' \in SUBSET Voqs /\ Switch!MaximalMatching(len', match')
  <2>1. Choice' /\ match' \in Matchings
    BY NextIs
  <2>2. (Choice /\ match \in Matchings => Switch!MaximalMatching(len, match))'
    BY ChoiceIsMaximal, PTL
  <2> QED
    BY <2>1, <2>2 DEF Matchings
<1>3. /\ line' \in [Ports -> match \cup {NoPkt}]
      /\ \A v \in Voqs : v \in match <=> line'[v[2]] = v
      /\ \A j \in Ports : line'[j] # NoPkt => line'[j][2] = j
  <2>1. line' \in [Ports -> Voqs \cup {NoPkt}] /\ Carry(line')
    BY NextIs
  <2>2. match \in SUBSET Voqs
    BY DEF IInv, TypeOK
  <2> QED
    BY <2>1, <2>2, CarriedIsMatched
<1> QED
  BY <1>1, <1>2, <1>3 DEF Switch!Next

\* The crossbar serves a maximal matching of non-empty queues in every step and
\* puts what it serves on the links, whatever the heads are.
THEOREM CrossbarImplementsSwitch == Spec => ImplementsSwitch
<1>1. IInv /\ [Next]_vars => [Switch!Next]_(Switch!vars)
  BY NextSwitch DEF vars, Switch!vars
<1>2. IInv /\ UNCHANGED vars => IInv'
  BY DEF IInv, TypeOK, Choice, QueuesAllow, Matches, Outstanding, LostAtInput,
         LostAtOutput, InputIsBetter, OutputIsBetter, Steps, vars
<1> QED
  BY InitIInv, NextIInv, InitSwitch, <1>1, <1>2, PTL
     DEF Spec, ImplementsSwitch, Switch!Spec

(* Waiting ***************************************************************)

\* The switches of NeverStarves: few ports, none of which sends to itself.
Small == N <= 3 /\ \A v \in Voqs : v[1] # v[2]

\* No other queue of its input, or of its output, is preferred to v.
FirstAtInput(v) == \A u \in Voqs : u[1] = v[1] => ~OutputIsBetter(v[1], u[2], v[2])
FirstAtOutput(v) == \A u \in Voqs : u[2] = v[2] => ~InputIsBetter(v[2], u[1], v[1])

\* Each step of waiting has put v first on one more side.
WaitInv ==
    Small => \A v \in Voqs :
       \/ wait[v] = 0
       \/ wait[v] = 1 /\ N = 3 /\ (FirstAtInput(v) \/ FirstAtOutput(v))
       \/ wait[v] = 2 /\ N = 3 /\ FirstAtInput(v) /\ FirstAtOutput(v)

\* Of three ports two others are left to each, of which one is left to each queue.
LEMMA OneOther ==
    ASSUME N <= 3, NEW p \in Ports, NEW q \in Ports, NEW r \in Ports, NEW s \in Ports,
           p # q, p # r, p # s, q # r, q # s
    PROVE  r = s /\ N = 3
BY CrossbarAssumption DEF Ports

\* A port matched with another queue than v will prefer v.
LEMMA PassedOverIsFirst ==
    ASSUME IInv, Next, Small, NEW v \in Voqs, NEW u \in match, u # v
    PROVE  /\ u[1] = v[1] => FirstAtInput(v)'
           /\ u[2] = v[2] => FirstAtOutput(v)'
<1>0. u \in Voqs
  BY DEF IInv, TypeOK
<1>1. ASSUME u[1] = v[1] PROVE FirstAtInput(v)'
  <2>1. inHead'[v[1]] = u[2] /\ u[2] # v[2]
    BY <1>0, <1>1, VoqIsPair, NextIs DEF MoveInHead
  <2>2. ASSUME NEW w \in Voqs, w[1] = v[1]
        PROVE  ~(Steps(u[2], w[2]) < Steps(u[2], v[2]))
    <3>1. CASE w[2] = v[2]
      BY <3>1, StepsOrder, VoqIsPair, <1>0
    <3>2. CASE w[2] # v[2]
      <4>1. v[2] # v[1] /\ w[2] # v[1] /\ u[2] # v[1]
        BY <1>0, <1>1, <2>2 DEF Small
      <4>2. w[2] = u[2]
        BY <3>2, <2>1, <4>1, <1>0, VoqIsPair, OneOther DEF Small
      <4>3. Steps(u[2], u[2]) = N
        BY <1>0, VoqIsPair, CrossbarAssumption DEF Steps, Ports
      <4>4. Steps(u[2], v[2]) \in 1 .. N
        BY <1>0, VoqIsPair, StepsOrder
      <4> QED
        BY <4>2, <4>3, <4>4, CrossbarAssumption
    <3> QED
      BY <3>1, <3>2
  <2> QED
    BY <2>1, <2>2 DEF FirstAtInput, OutputIsBetter
<1>2. ASSUME u[2] = v[2] PROVE FirstAtOutput(v)'
  <2>1. outHead'[v[2]] = u[1] /\ u[1] # v[1]
    BY <1>0, <1>2, VoqIsPair, NextIs DEF MoveOutHead
  <2>2. ASSUME NEW w \in Voqs, w[2] = v[2]
        PROVE  ~(Steps(u[1], w[1]) < Steps(u[1], v[1]))
    <3>1. CASE w[1] = v[1]
      BY <3>1, StepsOrder, VoqIsPair, <1>0
    <3>2. CASE w[1] # v[1]
      <4>1. v[1] # v[2] /\ w[1] # v[2] /\ u[1] # v[2]
        BY <1>0, <1>2, <2>2 DEF Small
      <4>2. w[1] = u[1]
        BY <3>2, <2>1, <4>1, <1>0, VoqIsPair, OneOther DEF Small
      <4>3. Steps(u[1], u[1]) = N
        BY <1>0, VoqIsPair, CrossbarAssumption DEF Steps, Ports
      <4>4. Steps(u[1], v[1]) \in 1 .. N
        BY <1>0, VoqIsPair, StepsOrder
      <4> QED
        BY <4>2, <4>3, <4>4, CrossbarAssumption
    <3> QED
      BY <3>1, <3>2
  <2> QED
    BY <2>1, <2>2 DEF FirstAtOutput, InputIsBetter
<1> QED
  BY <1>1, <1>2

\* A queue that is not matched stays first where it is first.
LEMMA StaysFirst ==
    ASSUME IInv, Next, Small, NEW v \in Voqs, v \notin match
    PROVE  /\ FirstAtInput(v) => FirstAtInput(v)'
           /\ FirstAtOutput(v) => FirstAtOutput(v)'
<1>1. ASSUME FirstAtInput(v) PROVE FirstAtInput(v)'
  <2>1. CASE \E u \in match : u[1] = v[1]
    BY <2>1, PassedOverIsFirst
  <2>2. CASE \A u \in match : u[1] # v[1]
    <3>1. inHead'[v[1]] = inHead[v[1]]
      BY <2>2, VoqIsPair, NextIs DEF MoveInHead
    <3> QED
      BY <1>1, <3>1 DEF FirstAtInput, OutputIsBetter
  <2> QED
    BY <2>1, <2>2
<1>2. ASSUME FirstAtOutput(v) PROVE FirstAtOutput(v)'
  <2>1. CASE \E u \in match : u[2] = v[2]
    BY <2>1, PassedOverIsFirst
  <2>2. CASE \A u \in match : u[2] # v[2]
    <3>1. outHead'[v[2]] = outHead[v[2]]
      BY <2>2, VoqIsPair, NextIs DEF MoveOutHead
    <3> QED
      BY <1>2, <3>1 DEF FirstAtOutput, InputIsBetter
  <2> QED
    BY <2>1, <2>2
<1> QED
  BY <1>1, <1>2

\* A queue that waits has lost where it was not first, and will be first there.
LEMMA NextWaitInv == IInv /\ WaitInv /\ Next => WaitInv'
<1> SUFFICES ASSUME IInv, WaitInv, Next, Small, NEW v \in Voqs
             PROVE  \/ wait'[v] = 0
                    \/ wait'[v] = 1 /\ N = 3 /\ (FirstAtInput(v)' \/ FirstAtOutput(v)')
                    \/ wait'[v] = 2 /\ N = 3 /\ FirstAtInput(v)' /\ FirstAtOutput(v)'
  BY DEF WaitInv, Small
<1>1. CASE ~(Outstanding(v) /\ v \notin match)
  BY <1>1, NextIs
<1>2. CASE Outstanding(v) /\ v \notin match
  <2>0. match \subseteq Voqs
    BY DEF IInv, TypeOK
  <2>1. wait'[v] = wait[v] + 1
    BY <1>2, NextIs
  <2>2. /\ LostAtInput(v) => ~FirstAtInput(v) /\ FirstAtInput(v)'
        /\ LostAtOutput(v) => ~FirstAtOutput(v) /\ FirstAtOutput(v)'
    BY <1>2, <2>0, PassedOverIsFirst
       DEF LostAtInput, LostAtOutput, FirstAtInput, FirstAtOutput
  <2>3. LostAtInput(v) \/ LostAtOutput(v)
    BY <1>2 DEF IInv, Choice, Matches
  <2>4. /\ FirstAtInput(v) => FirstAtInput(v)'
        /\ FirstAtOutput(v) => FirstAtOutput(v)'
    BY <1>2, StaysFirst
  <2>5. \/ wait[v] = 0
        \/ wait[v] = 1 /\ (FirstAtInput(v) \/ FirstAtOutput(v))
        \/ wait[v] = 2 /\ FirstAtInput(v) /\ FirstAtOutput(v)
    BY DEF WaitInv
  <2>8. N = 3
    <3>1. PICK u \in match : u # v /\ (u[1] = v[1] \/ u[2] = v[2])
      BY <1>2, <2>3 DEF LostAtInput, LostAtOutput
    <3>2. u \in Voqs /\ u[1] # u[2] /\ v[1] # v[2]
      BY <2>0, <3>1 DEF Small
    <3>3. CASE u[1] = v[1]
      BY <3>1, <3>2, <3>3, VoqIsPair, OneOther DEF Small
    <3>4. CASE u[2] = v[2]
      BY <3>1, <3>2, <3>4, VoqIsPair, OneOther DEF Small
    <3> QED
      BY <3>1, <3>3, <3>4
  <2>6. CASE wait[v] = 0
    BY <2>1, <2>2, <2>3, <2>6, <2>8
  <2>7. CASE wait[v] # 0
    <3>1. wait[v] = 1 /\ (FirstAtInput(v) \/ FirstAtOutput(v))
      BY <2>2, <2>3, <2>5, <2>7
    <3>2. FirstAtInput(v)' /\ FirstAtOutput(v)'
      BY <2>2, <2>3, <2>4, <3>1
    <3> QED
      BY <2>1, <2>8, <3>1, <3>2
  <2> QED
    BY <2>6, <2>7
<1> QED
  BY <1>1, <1>2

\* Up to three ports that do not send to themselves: no queue waits three steps.
THEOREM CrossbarNeverStarves == Spec => []NeverStarves
<1>1. Init => WaitInv
  BY DEF Init, WaitInv
<1>2. IInv /\ UNCHANGED vars => IInv'
  BY DEF IInv, TypeOK, Choice, QueuesAllow, Matches, Outstanding, LostAtInput,
         LostAtOutput, InputIsBetter, OutputIsBetter, Steps, vars
<1>3. WaitInv /\ UNCHANGED vars => WaitInv'
  BY DEF WaitInv, FirstAtInput, FirstAtOutput, InputIsBetter, OutputIsBetter, Steps,
         Small, vars
<1>4. IInv /\ WaitInv => NeverStarves
  <2> SUFFICES ASSUME IInv, WaitInv, Small, NEW v \in Voqs PROVE wait[v] < N
    BY DEF NeverStarves, Small
  <2> QED
    BY CrossbarAssumption DEF WaitInv
<1> QED
  BY InitIInv, NextIInv, NextWaitInv, <1>1, <1>2, <1>3, <1>4, PTL DEF Spec

(* Some matching always exists *******************************************)

\* Among the elements of a set there is one of least rank.
LEMMA LeastRank ==
    ASSUME NEW T, T # {}, NEW rank, \A u \in T : rank[u] \in Nat
    PROVE  \E u \in T : \A w \in T : rank[u] <= rank[w]
<1> DEFINE R == {rank[u] : u \in T}
<1>1. R \in SUBSET Nat /\ R # {}
  OBVIOUS
<1>2. PICK x \in R : \A y \in R : x <= y
  BY <1>1, LeastNumberExists
<1> QED
  BY <1>2

\* u shares an input, or an output, with v and is preferred there.
WinsIn(rank, u, v) == u[1] = v[1] /\ rank[u] < rank[v]
WinsOut(rank, u, v) == u[2] = v[2] /\ rank[u] < rank[v]

\* Each input and each output ranks the pairs in E it takes part in.
Ranks(E, rin, rout) ==
    /\ \A u \in E : rin[u] \in Nat /\ rout[u] \in Nat
    /\ \A u, v \in E : u[1] = v[1] /\ rin[u] = rin[v] => u = v
    /\ \A u, v \in E : u[2] = v[2] /\ rout[u] = rout[v] => u = v

\* However the inputs and the outputs rank the pairs, there is a set of pairs
\* that holds exactly those that lose to no other of the set.  It is where two
\* sets meet: what the inputs may propose is what the outputs do not refuse
\* among the rest, and what is left of it is a fixed point of a monotone map.
LEMMA StableSetExists ==
    ASSUME NEW E, NEW rin, NEW rout, Ranks(E, rin, rout)
    PROVE  \E m \in SUBSET E :
              /\ \A u, v \in m : u[1] = v[1] \/ u[2] = v[2] => u = v
              /\ \A v \in E : v \in m <=> /\ ~ \E u \in m : WinsIn(rin, u, v)
                                          /\ ~ \E u \in m : WinsOut(rout, u, v)
<1> USE DEF Ranks
<1> DEFINE LoseIn(A) == {v \in A : \E u \in A : WinsIn(rin, u, v)}
           LoseOut(A) == {v \in A : \E u \in A : WinsOut(rout, u, v)}
           F(A) == E \ LoseOut(E \ LoseIn(A))
           A0 == UNION {A \in SUBSET E : A \subseteq F(A)}
           B0 == E \ LoseIn(A0)
           m == A0 \cap B0
<1>1. ASSUME NEW A \in SUBSET E, NEW B \in SUBSET E, A \subseteq B PROVE F(A) \subseteq F(B)
  <2>1. LoseIn(A) \subseteq LoseIn(B)
    BY <1>1
  <2>2. E \ LoseIn(B) \subseteq E \ LoseIn(A)
    BY <2>1
  <2> HIDE DEF LoseIn
  <2>3. LoseOut(E \ LoseIn(B)) \subseteq LoseOut(E \ LoseIn(A))
    BY <2>2
  <2> HIDE DEF LoseOut
  <2> QED
    BY <2>3
<1>2. A0 = F(A0)
  <2> HIDE DEF F
  <2>1. \A A \in SUBSET E : F(A) \in SUBSET E
    BY DEF F
  <2>2. A0 \in SUBSET E
    OBVIOUS
  <2>3. A0 \subseteq F(A0)
    <3> SUFFICES ASSUME NEW A \in SUBSET E, A \subseteq F(A) PROVE A \subseteq F(A0)
      OBVIOUS
    <3>1. A \subseteq A0
      OBVIOUS
    <3> HIDE DEF A0
    <3> QED
      BY <1>1, <2>2, <3>1
  <2>4. F(A0) \subseteq F(F(A0))
    <3> HIDE DEF A0
    <3> QED
      BY <1>1, <2>1, <2>2, <2>3
  <2>5. F(A0) \subseteq A0
    BY <2>1, <2>2, <2>4
  <2> HIDE DEF A0
  <2> QED
    BY <2>3, <2>5
<1>3. A0 \in SUBSET E /\ B0 \in SUBSET E
  OBVIOUS
<1>4. \A v \in E : v \in B0 <=> ~(v \in A0 /\ \E u \in A0 : WinsIn(rin, u, v))
  <2> HIDE DEF A0
  <2> QED
    OBVIOUS
<1>5. \A v \in E : v \in A0 <=> ~(v \in B0 /\ \E u \in B0 : WinsOut(rout, u, v))
  <2> HIDE DEF A0
  <2> QED
    BY <1>2
<1> HIDE DEF A0, B0
<1>6. \A v \in m : v \in E /\ ~(\E u \in A0 : WinsIn(rin, u, v))
                           /\ ~(\E u \in B0 : WinsOut(rout, u, v))
  BY <1>3, <1>4, <1>5
<1>7. ASSUME NEW u \in m, NEW v \in m, u[1] = v[1] \/ u[2] = v[2] PROVE u = v
  <2>1. u \in E /\ v \in E /\ u \in A0 /\ v \in A0 /\ u \in B0 /\ v \in B0
    BY <1>6
  <2>2. CASE u[1] = v[1]
    <3>1. ~(rin[u] < rin[v]) /\ ~(rin[v] < rin[u])
      BY <1>6, <2>1, <2>2 DEF WinsIn
    <3>2. rin[u] = rin[v]
      BY <2>1, <3>1
    <3> QED
      BY <2>1, <2>2, <3>2
  <2>3. CASE u[2] = v[2]
    <3>1. ~(rout[u] < rout[v]) /\ ~(rout[v] < rout[u])
      BY <1>6, <2>1, <2>3 DEF WinsOut
    <3>2. rout[u] = rout[v]
      BY <2>1, <3>1
    <3> QED
      BY <2>1, <2>3, <3>2
  <2> QED
    BY <1>7, <2>2, <2>3
\* What an input turns down loses to the best of what it is offered, which stays.
<1>8. ASSUME NEW v \in E, v \notin B0 PROVE \E u \in m : WinsIn(rin, u, v)
  <2> DEFINE T == {u \in A0 : WinsIn(rin, u, v)}
  <2>1. T # {}
    BY <1>4, <1>8
  <2>2. PICK u \in T : \A w \in T : rin[u] <= rin[w]
    <3>1. \A u \in T : rin[u] \in Nat
      BY <1>3
    <3> HIDE DEF T
    <3> QED
      BY <2>1, <3>1, LeastRank
  <2>3. ASSUME NEW w \in A0, WinsIn(rin, w, u) PROVE FALSE
    <3>1. rin[w] \in Nat /\ rin[u] \in Nat /\ rin[v] \in Nat
      BY <1>3
    <3>2. w \in T
      BY <2>2, <2>3, <3>1 DEF WinsIn
    <3> QED
      BY <2>2, <2>3, <3>1, <3>2 DEF WinsIn
  <2>4. u \in m
    BY <1>3, <1>4, <2>3
  <2> QED
    BY <2>2, <2>4
<1>9. ASSUME NEW v \in E, v \notin A0 PROVE \E u \in m : WinsOut(rout, u, v)
  <2> DEFINE T == {u \in B0 : WinsOut(rout, u, v)}
  <2>1. T # {}
    BY <1>5, <1>9
  <2>2. PICK u \in T : \A w \in T : rout[u] <= rout[w]
    <3>1. \A u \in T : rout[u] \in Nat
      BY <1>3
    <3> HIDE DEF T
    <3> QED
      BY <2>1, <3>1, LeastRank
  <2>3. ASSUME NEW w \in B0, WinsOut(rout, w, u) PROVE FALSE
    <3>1. rout[w] \in Nat /\ rout[u] \in Nat /\ rout[v] \in Nat
      BY <1>3
    <3>2. w \in T
      BY <2>2, <2>3, <3>1 DEF WinsOut
    <3> QED
      BY <2>2, <2>3, <3>1, <3>2 DEF WinsOut
  <2>4. u \in m
    BY <1>3, <1>5, <2>3
  <2> QED
    BY <2>2, <2>4
<1>10. \A v \in E : v \in m <=> /\ ~ \E u \in m : WinsIn(rin, u, v)
                                /\ ~ \E u \in m : WinsOut(rout, u, v)
  <2> TAKE v \in E
  <2>1. CASE v \in m
    BY <1>6, <2>1
  <2>2. CASE v \notin m
    BY <1>8, <1>9, <2>2
  <2> QED
    BY <2>1, <2>2
<1>11. m \in SUBSET E
  BY <1>3
<1> HIDE DEF m
<1> QED
  BY <1>7, <1>10, <1>11

\* The crossbar in a time step with the lengths l, the heads h and g, and the
\* matching m.
In(l, h, g, m) ==
    INSTANCE Crossbar WITH len <- l, inHead <- h, outHead <- g, match <- m

\* Whatever is queued and wherever the heads are, there is a matching that
\* satisfies all of the crossbar's equivalences at once: the encoding never
\* becomes UNSAT for want of one (switch_xbar_qm.cpp:226-234).
THEOREM CrossbarSatisfiable ==
    \A l \in [Voqs -> Nat], h \in [Ports -> Ports], g \in [Ports -> Ports] :
       \E m \in Matchings : In(l, h, g, m)!Choice
<1> SUFFICES ASSUME NEW l \in [Voqs -> Nat], NEW h \in [Ports -> Ports],
                    NEW g \in [Ports -> Ports]
             PROVE  \E m \in Matchings : In(l, h, g, m)!Choice
  OBVIOUS
<1> DEFINE E == {v \in Voqs : l[v] > 0}
           rin == [v \in E |-> Steps(h[v[1]], v[2])]
           rout == [v \in E |-> Steps(g[v[2]], v[1])]
<1>1. \A v \in E : v = <<v[1], v[2]>> /\ v[1] \in Ports /\ v[2] \in Ports
  BY VoqIsPair
<1>2. \A v \in E : h[v[1]] \in Ports /\ g[v[2]] \in Ports
  BY <1>1
<1>3. \A u \in E : rin[u] = Steps(h[u[1]], u[2]) /\ rout[u] = Steps(g[u[2]], u[1])
  OBVIOUS
<1> HIDE DEF E, rin, rout
<1>4. \A u \in E : rin[u] \in Nat /\ rout[u] \in Nat
  <2> TAKE u \in E
  <2>1. rin[u] \in 1 .. N /\ rout[u] \in 1 .. N
    BY <1>1, <1>2, <1>3, StepsOrder
  <2> QED
    BY <2>1, CrossbarAssumption
<1>5. \A u, v \in E : u[1] = v[1] /\ rin[u] = rin[v] => u = v
  BY <1>1, <1>2, <1>3, StepsOrder
<1>6. \A u, v \in E : u[2] = v[2] /\ rout[u] = rout[v] => u = v
  BY <1>1, <1>2, <1>3, StepsOrder
<1>7. PICK m \in SUBSET E :
         /\ \A u, v \in m : u[1] = v[1] \/ u[2] = v[2] => u = v
         /\ \A v \in E : v \in m <=> /\ ~ \E u \in m : WinsIn(rin, u, v)
                                     /\ ~ \E u \in m : WinsOut(rout, u, v)
  <2>1. Ranks(E, rin, rout)
    BY <1>4, <1>5, <1>6 DEF Ranks
  <2> QED
    BY <2>1, StableSetExists
<1>8. m \in Matchings /\ m \subseteq Voqs /\ \A v \in m : v \in E /\ l[v] > 0
  BY <1>7 DEF Matchings, E
<1>9. ASSUME NEW v \in Voqs, l[v] > 0, NEW u \in m
      PROVE  /\ In(l, h, g, m)!OutputIsBetter(v[1], u[2], v[2]) /\ u[1] = v[1]
                   <=> WinsIn(rin, u, v)
             /\ In(l, h, g, m)!InputIsBetter(v[2], u[1], v[1]) /\ u[2] = v[2]
                   <=> WinsOut(rout, u, v)
  <2>1. u \in E /\ v \in E
    BY <1>8, <1>9 DEF E
  <2> QED
    BY <1>3, <2>1 DEF WinsIn, WinsOut, In!OutputIsBetter, In!InputIsBetter, In!Steps, Steps
<1>10. In(l, h, g, m)!Choice
  <2>1. In(l, h, g, m)!QueuesAllow
    BY <1>8 DEF In!QueuesAllow
  <2>2. ASSUME NEW v \in Voqs
        PROVE  v \in m <=> /\ In(l, h, g, m)!Outstanding(v)
                           /\ ~In(l, h, g, m)!LostAtOutput(v)
                           /\ ~In(l, h, g, m)!LostAtInput(v)
    <3>1. CASE l[v] > 0
      <4>1. v \in E
        BY <3>1 DEF E
      <4> QED
        BY <1>7, <1>9, <3>1, <4>1
           DEF In!Outstanding, In!LostAtOutput, In!LostAtInput
    <3>2. CASE ~(l[v] > 0)
      BY <1>8, <3>2 DEF In!Outstanding
    <3> QED
      BY <3>1, <3>2
  <2> QED
    BY <2>1, <2>2 DEF In!Choice, In!Matches
<1> QED
  BY <1>8, <1>10
=============================================================================
