---------------------------- MODULE RateLimiter -----------------------------
(***************************************************************************)
(* RateLimiter of client.rs: a token bucket for each topic that has been   *)
(* polled under a rate limit.  Time is in ticks, a rate is in tokens a     *)
(* tick, and tokens are whole: the fraction a bucket holds in the code is  *)
(* never granted, only kept.                                               *)
(***************************************************************************)
EXTENDS QueueState

NoBuckets == Empty

\* The bucket as take finds it: a new one is full.
Refilled(buckets, t, rate, burst, now) ==
    LET b == IF t \in DOMAIN buckets THEN buckets[t] ELSE [tokens |-> burst, last |-> now]
    IN  [tokens |-> Smaller(b.tokens + Monus(now, b.last) * rate, burst), last |-> now]

\* What take grants; a grant of nothing is the caller's rate_limited.
Grant(bucket, want) == Smaller(bucket.tokens, want)

PutBucket(buckets, t, bucket) ==
    [u \in DOMAIN buckets \cup {t} |-> IF u = t THEN bucket ELSE buckets[u]]

Take(buckets, t, bucket, want) ==
    IF want = 0 THEN buckets
    ELSE PutBucket(buckets, t, [bucket EXCEPT !.tokens = @ - Grant(bucket, want)])

RefundNothing(buckets, t, amount, burst) == buckets

\* A bucket that is gone is not brought back, and one is never overfilled.
Refund(buckets, t, amount, burst) ==
    IF amount = 0 \/ t \notin DOMAIN buckets THEN buckets
    ELSE [buckets EXCEPT ![t].tokens = Smaller(@ + amount, burst)]

ForgetBucket(buckets, t) == Without(buckets, {t})
=============================================================================
