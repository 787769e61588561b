------------------------------ MODULE TwoListRR ------------------------------
(***************************************************************************)
(* fperf's two-list round-robin scheduler (the "buggy" FQ-CoDel model):    *)
(* Buggy2LRRQM, its input queues and its lists of new and old queues       *)
(* (src/src/qms/buggy_2l_rr_qm.cpp, cps/buggy_2l_rr_scheduler.cpp).        *)
(*                                                                         *)
(* A state is the valuation of one time step; TwoListChoice holds the      *)
(* constraints within a step and TwoListNext those between two steps.      *)
(* Packets are abstracted to counts, and the two lists, which are Queues   *)
(* of queue numbers, to sequences (module Queue shows that a Queue is one).*)
(***************************************************************************)
EXTENDS Scheduler, Sequences, FiniteSets

\* The constraints read slot 1 of a queue.
ASSUME TwoListAssumption == Size > 1

ListSize == N + 2

VARIABLES
    imm,       \* are the queues of type IMM_QUEUE? (QueueInfo::type is unset)
    inactive,  \* inactive_
    new,       \* new_queues
    old,       \* old_queues
    passed     \* observer: services of the list a queue is in since it joined it

twoListVars == <<imm, len, arr, inactive, new, old, deq, out, passed>>

Within(s) == {s[i] : i \in 1 .. Len(s)}

-----------------------------------------------------------------------------
(* One time step.                                                          *)

\* The queue to serve heads the new list or, when that is empty, the old one.
Chosen == IF new # <<>> THEN Head(new) ELSE IF old # <<>> THEN Head(old) ELSE NoPkt

\* The queue has a packet behind the one it sends, or one is coming.
NonEmptyNextRound(q) == len[q] > 1 \/ arr[q] > 0

TwoListChoice ==
    /\ \A q \in Q : deq[q] = IF q = Chosen THEN 1 ELSE 0
    /\ \A q \in Q : deq[q] <= len[q]   \* the queue's own bound on deq_cnt
    /\ Chosen # NoPkt => out = Chosen
    /\ (\A q \in Q : inactive[q]) => out = NoPkt

-----------------------------------------------------------------------------
(* From one time step to the next.                                         *)

Activated == {q \in Q : inactive[q] /\ arr[q] > 0}

Lists == UNION {[1 .. n -> Q] : n \in 0 .. N}

Mut_InsertNew(s) ==
    /\ \A q \in Activated : \E i \in 1 .. Len(s) : s[i] = q
    /\ \A i, j \in 1 .. Len(s) : i # j => s[i] # s[j]

\* Each activated queue q gets one of the first q + 1 slots, and no slot is
\* filled twice or for nothing.  The slots below need not be taken first:
\* prev_unavailable, passed to implies as a whole vector, is a true constant.
InsertNew(s) ==
    /\ \A q \in Activated : \E i \in 1 .. Len(s) : i <= q + 1 /\ s[i] = q
    /\ Len(s) <= Cardinality(Activated)
    /\ \A i, j \in 1 .. Len(s) : i # j => s[i] # s[j]

Mut_InsertOld == IF new = <<>> /\ Chosen # NoPkt THEN <<Chosen>> ELSE <<>>

\* A served queue that still has packets joins the old list, from either list.
InsertOld ==
    IF Chosen # NoPkt /\ NonEmptyNextRound(Chosen) THEN <<Chosen>> ELSE <<>>

Mut_Shift(list, leaves, joining) ==
    LET all == joining \o (IF leaves THEN Tail(list) ELSE list)
    IN  SubSeq(all, 1, Smaller(ListSize, Len(all)))

\* A list is a Queue: the head leaves, then newcomers join as far as they fit.
Shift(list, leaves, joining) ==
    LET all == (IF leaves THEN Tail(list) ELSE list) \o joining
    IN  SubSeq(all, 1, Smaller(ListSize, Len(all)))

\* Is q in either list behind its head, or joining one?
Listed(q, joining) ==
    \/ \E i \in 2 .. Len(new) : new[i] = q
    \/ \E i \in 2 .. Len(old) : old[i] = q
    \/ q \in Within(joining) \cup Within(InsertOld)

\* The constraints on q's activity in the next step.  Nothing is said of an
\* active queue that is in no list.
NextInactive(q, joining, next) ==
    /\ inactive[q] => (next <=> arr[q] = 0)
    /\ q = Chosen /\ ~NonEmptyNextRound(q) => next
    /\ ~inactive[q] /\ Listed(q, joining) => ~next
    /\ new # <<>> /\ old # <<>> /\ q = Head(old) => ~next

Mut_TwoListNextLen(q, now, next) ==
    Smaller(Size, len[q] + (IF imm THEN next ELSE now))

TwoListNextLen(q, now, next) ==
    Smaller(Size, len[q] - deq[q] + (IF imm THEN next ELSE now))

\* The list a queue waits in is served when its head is the chosen queue.
ObservePassed ==
    passed' = [q \in Q |->
        IF \/ q \in Within(new) /\ q # Head(new)
           \/ q \in Within(old) /\ new = <<>> /\ q # Head(old)
        THEN passed[q] + 1
        ELSE IF q \in Within(old) /\ new # <<>> /\ q \notin Within(new)
        THEN passed[q]
        ELSE 0]

TwoListInit ==
    /\ imm \in BOOLEAN
    /\ arr \in [Q -> 0 .. MaxEnq]
    /\ len = [q \in Q |-> IF imm THEN arr[q] ELSE 0]
    /\ inactive = [q \in Q |-> TRUE]
    /\ new = <<>>
    /\ old = <<>>
    /\ deq \in [Q -> 0 .. 1]
    /\ out \in Q \cup {NoPkt}
    /\ TwoListChoice
    /\ passed = [q \in Q |-> 0]

TwoListNext ==
    /\ imm' = imm
    /\ arr' \in [Q -> 0 .. MaxEnq]
    /\ len' = [q \in Q |-> TwoListNextLen(q, arr[q], arr'[q])]
    /\ \E joining \in Lists :
          /\ InsertNew(joining)
          /\ inactive' \in {next \in [Q -> BOOLEAN] :
                               \A q \in Q : NextInactive(q, joining, next[q])}
          /\ new' = Shift(new, new # <<>>, joining)
    /\ old' = Shift(old, new = <<>> /\ old # <<>>, InsertOld)
    /\ deq' \in [Q -> 0 .. 1]
    /\ out' \in Q \cup {NoPkt}
    /\ TwoListChoice'
    /\ ObservePassed

\* Every time step of the encoding is followed by the next one.
TwoListSpec == TwoListInit /\ [][TwoListNext]_twoListVars /\ WF_twoListVars(TwoListNext)

-----------------------------------------------------------------------------

\* Packets that arrived in this very step and are in the queue already.
Fresh(q) == IF imm THEN arr[q] ELSE 0

\* A queue is active exactly when it is in one of the lists, and then in one
\* place of one list: none is forgotten by both (it would starve), none is
\* served twice in a round, and the lists never overflow their N + 2 slots.
\* It is inactive only without packets (but those just arriving), and active
\* only with some: the head of a list always has a packet to send.  No
\* constraint says so; the queues, inactive_, the lists and their enqs are
\* separate variables tied by implications, and whether a queue stays listed is
\* decided a step before it is empty (buggy_2l_rr_qm.cpp:58-130, 171-330).
ListsMatchQueues ==
    LET all == new \o old
    IN  /\ \A q \in Q : ~inactive[q] <=> q \in Within(all)
        /\ \A i, j \in 1 .. Len(all) : i # j => all[i] # all[j]
        /\ \A q \in Q : IF inactive[q] THEN len[q] = Fresh(q) ELSE len[q] > 0

\* While a queue waits in a list fewer than N others of that list are served.
PassedInList == \A q \in Q : passed[q] < N

\* With QUEUEs it is a work-conserving server of one packet per step.  With
\* IMM_QUEUEs it is not: a queue is listed a step after its packets show up.
ImplementsServerUnlessImm ==
    (~imm => Server!Init) /\ [][imm \/ Server!Next]_(Server!vars)

\* An old queue is only sure to be served once no queue is activated any more:
\* the lists guarantee no more than that (and the scheduler is known for it).
OldIsServedInTheEnd ==
    <>[](new = <<>>) => \A q \in Q : []<>(inactive[q] \/ deq[q] = 1)
=============================================================================
