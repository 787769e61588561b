------------------------------- MODULE Metrics -------------------------------
(***************************************************************************)
(* fperf computes every metric of a queue twice: as an expression over the *)
(* solver's variables (Metric::populate_val_exprs) and, for an example     *)
(* that a model was turned into, from the enqueue and dequeue counts alone *)
(* (Metric::eval).  The search believes both (src/src/metrics).            *)
(*                                                                         *)
(* A state is one Queue at one time step with all that has happened in it. *)
(***************************************************************************)
EXTENDS Integers, Sequences, FiniteSetsExt

CONSTANTS
    Size,      \* packets the queue can hold
    MaxEnq,    \* packets that can arrive in a step
    MaxDeq,    \* packets that can leave in a step
    TotalTime  \* time steps of the encoding

ASSUME MetricsAssumption ==
    /\ Size \in Nat \ {0}
    /\ MaxEnq \in 1 .. Size
    /\ MaxDeq \in 1 .. Size
    /\ TotalTime \in Nat \ {0}

VARIABLES
    enqs,      \* the example: enq_cnt of the steps up to this one
    deqs,      \* the example: deq_cnt of the same steps
    len,       \* packets in the queue in each of these steps
    lost,      \* packets that found the queue full before this step
    cenq,      \* the encoded value of CENQ in this step,
    cdeq,      \* of CDEQ
    cblocked   \* and of CBLOCKED

vars == <<enqs, deqs, len, lost, cenq, cdeq, cblocked>>

Smaller(m, n) == IF m <= n THEN m ELSE n

\* What is left of n packets that are offered the queue's slots.
Fitting(n) == Smaller(Size, n)

\* Sequences count time steps from 1, the code from 0.
time == Len(enqs) - 1
At(s, t) == s[t + 1]
Steps == 0 .. time

-----------------------------------------------------------------------------
(* The encoded values.                                                     *)

Blocked(l, d) == l > 0 /\ d = 0

Counted(l, d, n) == IF Blocked(l, d) THEN n + 1 ELSE 0

Init ==
    /\ enqs \in [1 .. 1 -> 0 .. MaxEnq]
    /\ len = <<0>>
    /\ deqs = <<0>>
    /\ lost = 0
    /\ cenq = enqs[1]
    /\ cdeq = 0
    /\ cblocked = Counted(0, 0, 0)

Next ==
    /\ time < TotalTime - 1
    /\ LET left == At(len, time) - At(deqs, time)
           offered == left + At(enqs, time)
           now == Fitting(offered)
       IN  \E e \in 0 .. MaxEnq, d \in 0 .. Smaller(MaxDeq, now) :
              /\ enqs' = Append(enqs, e)
              /\ deqs' = Append(deqs, d)
              /\ len' = Append(len, now)
              /\ lost' = lost + offered - now
              /\ cenq' = cenq + e
              /\ cdeq' = cdeq + d
              /\ cblocked' = Counted(now, d, cblocked)

Spec == Init /\ [][Next]_vars

-----------------------------------------------------------------------------
(* The evaluation of an example.                                           *)

SumBefore(s, before) ==
    LET sum[t \in 0 .. before] == IF t = 0 THEN 0 ELSE sum[t - 1] + At(s, t - 1)
    IN  sum[before]

EvalCEnq(t) == SumBefore(enqs, t + 1)

EvalCDeq(t) == SumBefore(deqs, t + 1)

Mut_EvalQSize(t) == SumBefore(enqs, t + 1) - SumBefore(deqs, t + 1)
EvalQSize(t) == SumBefore(enqs, t) - SumBefore(deqs, t)

Mut_EvalCBlocked(time_) ==
    LET run[t \in 0 .. time_ + 1] ==
          IF t = 0 THEN 0
          ELSE IF EvalQSize(t - 1) > 0 /\ At(deqs, t - 1) = 0 THEN run[t - 1] + 1
          ELSE run[t - 1]
    IN  run[time_ + 1]

\* The loop of CBlocked::eval: its len is the difference of the counts.
EvalCBlocked(time_) ==
    LET run[t \in 0 .. time_ + 1] ==
          IF t = 0 THEN 0
          ELSE IF EvalQSize(t - 1) > 0 /\ At(deqs, t - 1) = 0 THEN run[t - 1] + 1
          ELSE 0
    IN  run[time_ + 1]

\* AIPG asks about later steps too, so both its values exist for whole runs.
Done == time = TotalTime - 1

\* The loops of AIPG::populate_val_exprs wrap the value of step t in one ite per
\* other step; the last one wrapped around it is the first one decided.
Mut_WrapEarlier(t, v) ==
    LET val[n \in 0 .. t] ==
          IF n = 0 THEN v ELSE IF At(enqs, t - n) > 0 THEN n ELSE val[n - 1]
    IN  val[t]

WrapEarlier(t, v) ==
    LET val[n \in 0 .. t] ==
          IF n = 0 THEN v ELSE IF At(enqs, n - 1) > 0 THEN t - (n - 1) ELSE val[n - 1]
    IN  val[t]

WrapLater(t) ==
    LET val[n \in 0 .. TotalTime - 1 - t] ==
          IF n = 0 THEN TotalTime
          ELSE IF At(enqs, TotalTime - n) > 0 THEN TotalTime - n - t ELSE val[n - 1]
    IN  val[TotalTime - 1 - t]

AIPG(t) ==
    LET val[s \in 0 .. t] ==
          IF s = 0 \/ At(enqs, s) > 1 THEN 0
          ELSE IF At(enqs, s) = 0 THEN val[s - 1]
          ELSE WrapEarlier(s, WrapLater(s))
    IN  val[t]

Arrivals(from, to) == {s \in from .. to : At(enqs, s) > 0}

\* AIPG::eval goes back to a step with arrivals and from there looks for the
\* nearest earlier one, or else the nearest later one.
EvalAIPG(t) ==
    LET steps == {s \in 1 .. t : At(enqs, s) > 0}
        here == Max(steps)
        earlier == Arrivals(0, here - 1)
        later == Arrivals(here + 1, TotalTime - 1)
    IN  IF steps = {} \/ At(enqs, here) > 1 THEN 0
        ELSE IF earlier # {} THEN here - Max(earlier)
        ELSE IF later # {} THEN Min(later) - here
        ELSE TotalTime

-----------------------------------------------------------------------------

\* QSIZE::eval is wrong by exactly the packets the queue has lost, which the
\* example's enqueue counts still contain (qsize.cpp:17-29).
QSizeOffByLost == EvalQSize(time) = At(len, time) + lost

\* CBLOCKED::eval never misses a blocked step, and until a packet is lost it
\* is exact (cblocked.cpp:17-38).
CBlockedUntilLoss ==
    /\ EvalCBlocked(time) >= cblocked
    /\ lost = 0 => EvalCBlocked(time) = cblocked

\* CENQ, CDEQ and AIPG mean the same to the solver and to the search, whatever
\* arrives and is lost; AIPG's value may depend on the steps still to come.
SumsAndGapsAgree ==
    /\ EvalCEnq(time) = cenq
    /\ EvalCDeq(time) = cdeq
    /\ Done => \A t \in Steps : EvalAIPG(t) = AIPG(t)
=============================================================================
