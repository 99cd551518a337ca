------------------------------ MODULE MCClient ------------------------------
(* Client for TLC: the clients it is checked with.                         *)
EXTENDS Client

CONSTANTS t1, t2, t3, g1, k1, k2, k3

Produced(t, key) == [topic |-> t, priority |-> 0, key |-> key, ts_ms |-> 1]

Consumer(wait, auto, max) == [topic |-> t1, group |-> g1, wait |-> wait, auto |-> auto, max |-> max]

Nobody ==
    [items |-> <<>>, tries |-> 1, pollers |-> <<>>, ops |-> {}, initial |-> <<>>,
     group |-> g1, rate |-> 0, visibility |-> 1, failover |-> FALSE, until |-> 1]

\* Three producers, and two topics with room for one.
Contended ==
    [Nobody EXCEPT !.items = <<Produced(t1, k1), Produced(t2, k2), Produced(t1, k3)>>,
                   !.initial = <<Produced(t3, k1)>>]

\* Three producers, and room for both topics; the first message is a repeated
\* one.
Mixed ==
    [Nobody EXCEPT !.items = <<Produced(t1, k1), Produced(t2, k2), Produced(t1, k3)>>,
                   !.initial = <<Produced(t1, k1)>>]

\* Two producers that send again, here and after a failover.
Retried ==
    [Nobody EXCEPT !.items = <<Produced(t1, k1), Produced(t1, k2)>>, !.tries = 2, !.failover = TRUE]

\* Long polls on a topic that is written to, deleted and written to again.
LongPolls ==
    [Nobody EXCEPT !.items = <<Produced(t1, k1)>>,
                   !.pollers = <<Consumer(TRUE, FALSE, 1), Consumer(TRUE, TRUE, 1)>>,
                   !.ops = {[kind |-> "delete_topic", topic |-> t1], [kind |-> "nack", topic |-> t1]}]

\* A long poll on a node that is deposed.
Deposed ==
    [Nobody EXCEPT !.items = <<Produced(t1, k1)>>, !.pollers = <<Consumer(TRUE, FALSE, 1)>>,
                   !.ops = {[kind |-> "nack", topic |-> t1]}, !.tries = 2, !.failover = TRUE]

\* Leases that run out or are given back under a long poll.
Leases ==
    [Nobody EXCEPT !.initial = <<Produced(t1, k1), Produced(t1, k2)>>,
                   !.pollers = <<Consumer(TRUE, FALSE, 2), Consumer(TRUE, FALSE, 1)>>,
                   !.ops = {[kind |-> "ack", topic |-> t1], [kind |-> "commit", topic |-> t1],
                            [kind |-> "nack", topic |-> t1]},
                   !.until = 2]

\* A burst of one for three polls.
Paced ==
    [Nobody EXCEPT !.initial = <<Produced(t1, k1), Produced(t1, k2), Produced(t1, k3)>>,
                   !.pollers = [w \in 1 .. 3 |-> Consumer(FALSE, FALSE, 2)],
                   !.ops = {[kind |-> "set_rate_limit", topic |-> t1]},
                   !.rate = 1, !.until = 2, !.visibility = 9]

\* A burst of two for a single message.
Refunded ==
    [Nobody EXCEPT !.initial = <<Produced(t1, k1)>>,
                   !.pollers = <<Consumer(TRUE, FALSE, 2), Consumer(FALSE, TRUE, 2)>>,
                   !.ops = {[kind |-> "set_rate_limit", topic |-> t1], [kind |-> "delete_topic", topic |-> t1]},
                   !.rate = 2, !.failover = TRUE]

\* Requests that create topics race for the last place.
Creations ==
    [Nobody EXCEPT !.items = <<Produced(t2, k1)>>, !.initial = <<Produced(t3, k1)>>,
                   !.pollers = <<Consumer(FALSE, FALSE, 1)>>,
                   !.ops = {[kind |-> "create_topic", topic |-> t1], [kind |-> "set_retention", topic |-> t1]}]

AnyClients ==
    {Contended, Mixed, Retried, LongPolls, Deposed, Leases, Paced, Refunded, Creations}
=============================================================================
