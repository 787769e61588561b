----------------------------- MODULE TokenBucket -----------------------------
(***************************************************************************)
(* fperf's token bucket filter: TBFQM, its input queue and the sink behind *)
(* it (src/src/qms/tbf_qm.cpp, cps/tbf.cpp).                               *)
(*                                                                         *)
(* A state is the valuation of one time step; packets are abstracted to    *)
(* counts.  Both queues have type QUEUE.                                   *)
(***************************************************************************)
EXTENDS QueueBounds

CONSTANTS
    MaxTokens,  \* TBFInfo::max_tokens
    LinkRate    \* TBFInfo::link_rate

ASSUME BucketAssumption ==
    /\ Size \in Nat \ {0}
    /\ MaxEnq \in 1 .. Size
    /\ MaxTokens \in Nat
    /\ LinkRate \in Nat
    /\ TotalTime \in Nat \ {0}

VARIABLES
    now,      \* the time step
    len,      \* packets in the input queue
    arr,      \* packets enqueued into it in this step
    tokens,   \* token_queue
    deq,      \* deq_cnt of the input queue
    sink,     \* packets in the sink
    drained,  \* observer: packets taken from the sink before this step
    before    \* observer: packets dequeued before each step so far

bucketVars == <<now, len, arr, tokens, deq, sink, drained, before>>

Smaller(m, n) == IF m <= n THEN m ELSE n
Greater(m, n) == IF m <= n THEN n ELSE m

-----------------------------------------------------------------------------

Mut_DeqCnt(l, k) == l

\* Every packet leaves for which there is a token.
DeqCnt(l, k) == Smaller(l, k)

Mut_Refill(k, d) == k + LinkRate - d

Mut_CapFirst(k, d) == Greater(0, Smaller(MaxTokens, k + LinkRate) - d)

\* Tokens are added at the link rate, spent by the packets that leave, and
\* lost when the bucket is full.
Refill(k, d) == Greater(0, Smaller(MaxTokens, k + LinkRate - d))

NextLen(l, d, a) == Smaller(Size, l - d + a)

Mut_SinkTakes(s, d) == Smaller(Size, s + d)

\* The sink drains all it has (its max_deq is its size) and takes the output,
\* of which it has room for max_enq packets.
SinkTakes(s, d) == Smaller(Size, s - Smaller(s, Size) + Smaller(d, Size))

BucketInit ==
    /\ now = 0
    /\ len = 0
    /\ arr \in 0 .. MaxEnq
    /\ tokens = 0
    /\ deq = 0     \* no constraint of TBFQM at 0, but the queue is empty
    /\ sink = 0
    /\ drained = 0
    /\ before = [s \in {0} |-> 0]

BucketNext ==
    /\ now < TotalTime - 1
    /\ now' = now + 1
    /\ len' = NextLen(len, deq, arr)
    /\ arr' \in 0 .. MaxEnq
    /\ tokens' = Refill(tokens, deq)
    /\ deq' = DeqCnt(len', tokens')
    /\ sink' = SinkTakes(sink, deq)
    /\ drained' = drained + Smaller(sink, Size)
    /\ before' = [s \in 0 .. now' |-> IF s = now' THEN before[now] + deq ELSE before[s]]

BucketSpec == BucketInit /\ [][BucketNext]_bucketVars

-----------------------------------------------------------------------------

\* The metrics CDEQ and DEQ of the input queue in this step.
CDEQ == before[now] + deq
DEQ == deq

\* The queues and the bucket keep to their sizes; each packet sent has a token.
BucketTypeOK ==
    /\ now \in 0 .. TotalTime - 1
    /\ len \in 0 .. Size
    /\ arr \in 0 .. MaxEnq
    /\ tokens \in 0 .. MaxTokens
    /\ deq \in 0 .. Smaller(len, tokens)
    /\ sink \in 0 .. Size
    /\ drained \in Nat
    /\ before \in [0 .. now -> Nat]

\* tbf_test.cpp's test_deq_avg: CDEQ never exceeds the rate times the steps.
RateBound == CDEQ <= LinkRate * now

\* test_max_burst, for bursts of any duration: from any earlier step s up to
\* this one no more leaves than a full bucket and what the rate has added.
BurstBound ==
    \A s \in 0 .. now : CDEQ - before[s] <= MaxTokens + LinkRate * (now - s)

\* A queue that could not send all it had gets the full rate in the next step,
\* as far as the bucket can hold it: no token is lost while packets wait.
BackloggedGetsRate ==
    [][deq < len => deq' = Smaller(len', Smaller(MaxTokens, LinkRate))]_bucketVars

\* Nothing the filter sends is lost: the sink's bound on arrivals is never
\* less than a burst.
OutputKept == drained + sink = before[now]
=============================================================================
