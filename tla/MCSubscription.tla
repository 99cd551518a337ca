--------------------------- MODULE MCSubscription ---------------------------
(* Subscription for TLC: the sessions it is checked with.                  *)
EXTENDS Subscription

\* Everything may happen to the session, at any time.
Disturbed(auto) ==
    [prefetch |-> 1, lease |-> 1, auto |-> auto, nacks |-> TRUE, limited |-> TRUE, rival |-> TRUE,
     failover |-> TRUE, prompt |-> FALSE, frames |-> 1, leases |-> 3, until |-> 3]

\* A sole consumer with both messages in its hands.  Every step may take any
\* time, that of an ack too.
Slow ==
    [prefetch |-> 2, lease |-> 1, auto |-> FALSE, nacks |-> FALSE, limited |-> FALSE, rival |-> FALSE,
     failover |-> FALSE, prompt |-> FALSE, frames |-> 1, leases |-> 10, until |-> 4]

AnySession == {Disturbed(FALSE), Disturbed(TRUE), Slow}

\* A sole consumer that keeps up with the clock, under a rate limit.
Throttled ==
    [prefetch |-> 1, lease |-> 2, auto |-> FALSE, nacks |-> FALSE, limited |-> TRUE, rival |-> FALSE,
     failover |-> FALSE, prompt |-> TRUE, frames |-> 0, leases |-> 6, until |-> 7]

ThrottledSession == {Throttled}
=============================================================================
