------------------------------- MODULE Client -------------------------------
(***************************************************************************)
(* The requests of the client port of one node, client.rs, over the queue  *)
(* of module Queue: produces and the batcher that commits them in groups,  *)
(* long polls with their notifiers and the rate limiter, and the requests  *)
(* that configure topics or give leases back.  They share the state        *)
(* machine, the notifiers, the limiter and the batcher's channel, and      *)
(* interleave at every await.                                              *)
(*                                                                         *)
(* The node may lose its leadership for good.  What it had handed to Raft  *)
(* by then fails, and may be applied all the same; the state machine       *)
(* follows the new leader from there.  A client may give up on a produce   *)
(* and send it again, to this node or to the new leader.                   *)
(*                                                                         *)
(* Names and payloads are within their limits.  has_deliverable and        *)
(* rate_config, which follow each other without an await, are one step.    *)
(***************************************************************************)
EXTENDS Queue, RateLimiter, SequencesExt

CONSTANTS QueueDepth,     \* PRODUCE_QUEUE_DEPTH
          BatchMax,       \* PRODUCE_BATCH_MAX_ITEMS
          WritePipeline,  \* PRODUCE_WRITE_PIPELINE
          NotifierGc,     \* NOTIFIER_GC_THRESHOLD
          RefillRate,     \* tokens a tick, for every rate limit
          Setups          \* the clients that are tried

ASSUME ClientConstants ==
    /\ QueueDepth \in Nat \ {0} /\ BatchMax \in Nat \ {0} /\ WritePipeline \in Nat \ {0}
    /\ NotifierGc \in Nat /\ RefillRate \in Nat

VARIABLES setup,      \* the clients, and what may happen to them
          now,        \* now_ms of the node
          leader,     \* whether it leads
          producers,  \* handle_produce and its client: where it is, which attempt, the answer
          chan,       \* the jobs in produce_tx
          first,      \* the job the batcher took and holds until it has a permit
          batches,    \* the batches being written, by permit
          stored,     \* what was answered Produced: producer and offset
          notifiers,  \* the notifier of a topic, by identity
          polls,      \* handle_poll of every poller
          buckets,    \* the rate limiter
          op,         \* the other request being served, and the ones served
          past        \* history: topics deleted, topics written to with no notice,
                      \* and by topic what polls under a limit got and what they lost

rest == <<setup, now, leader, producers, chan, first, batches, stored, notifiers, polls, buckets, op, past>>
clientvars == <<vars, rest>>

Producers == DOMAIN setup.items
Pollers == DOMAIN setup.pollers
Slot == 1 .. WritePipeline

NoBatch == [pc |-> "none", jobs |-> <<>>, led |-> FALSE, ts |-> 0, offsets |-> <<>>]

NewPoll == [pc |-> "new", notifier |-> 0, woken |-> FALSE, ts |-> 0, led |-> FALSE,
            grant |-> 0, burst |-> 0, items |-> 0]

ClientInit ==
    /\ setup \in Setups
    /\ topics = StoreAll(Empty, setup.initial)
    /\ next_lease_id = 0 /\ now = 1 /\ leader = TRUE
    /\ producers = [p \in DOMAIN setup.items |-> [pc |-> "idle", try |-> 1, answer |-> "none"]]
    /\ chan = <<>> /\ first = <<>> /\ batches = [s \in Slot |-> NoBatch] /\ stored = {}
    /\ notifiers = Empty
    /\ polls = [w \in DOMAIN setup.pollers |-> NewPoll]
    /\ buckets = NoBuckets
    /\ op = [pc |-> "idle", req |-> {}, led |-> FALSE, served |-> {}]
    /\ past = [deleted |-> {}, unheard |-> {}, paced |-> [t \in Topic |-> 0],
               since |-> [t \in Topic |-> 0], lost |-> [t \in Topic |-> 0]]

-----------------------------------------------------------------------------
(***************************************************************************)
(* Produce                                                                 *)
(***************************************************************************)
\* handle_produce: check_new_topic against the state as it is now.
Admit(p) ==
    /\ producers[p].pc = "idle"
    /\ producers' = [producers EXCEPT ![p] =
           IF CheckTopic(setup.items[p].topic) THEN [@ EXCEPT !.pc = "checked"]
           ELSE [@ EXCEPT !.pc = "answered", !.answer = "rejected"]]
    /\ UNCHANGED <<vars, setup, now, leader, chan, first, batches, stored, notifiers, polls, buckets, op, past>>

\* The channel holds QueueDepth jobs; send waits for room.
Send(p) ==
    /\ producers[p].pc = "checked" /\ Len(chan) < QueueDepth
    /\ chan' = Append(chan, [p |-> p, try |-> producers[p].try])
    /\ producers' = [producers EXCEPT ![p].pc = "queued"]
    /\ UNCHANGED <<vars, setup, now, leader, first, batches, stored, notifiers, polls, buckets, op, past>>

\* The client waits no longer, and sends the same produce again.
GiveUp(p) ==
    /\ producers[p].pc = "queued" /\ producers[p].try < setup.tries
    /\ producers' = [producers EXCEPT ![p] = [pc |-> "idle", try |-> @.try + 1, answer |-> "none"]]
    /\ UNCHANGED <<vars, setup, now, leader, chan, first, batches, stored, notifiers, polls, buckets, op, past>>

\* The batcher receives a job, ...
Receive ==
    /\ first = <<>> /\ chan # <<>>
    /\ first' = <<Head(chan)>> /\ chan' = Tail(chan)
    /\ UNCHANGED <<vars, setup, now, leader, producers, batches, stored, notifiers, polls, buckets, op, past>>

\* Permits are alike; the first free one is taken.
FreePermit(s) == batches[s].pc = "none" /\ \A r \in 1 .. s - 1 : batches[r].pc # "none"

FillWhenFull(s) ==
    /\ first # <<>> /\ FreePermit(s) /\ Len(chan) >= BatchMax - 1
    /\ batches' = [batches EXCEPT ![s] =
           [NoBatch EXCEPT !.pc = "writing", !.jobs = first \o SubSeq(chan, 1, BatchMax - 1),
                           !.led = leader, !.ts = now]]
    /\ chan' = SubSeq(chan, BatchMax, Len(chan))
    /\ first' = <<>>
    /\ UNCHANGED <<vars, setup, now, leader, producers, stored, notifiers, polls, buckets, op, past>>

\* ... waits for a permit, adds what the channel holds, up to BatchMax jobs or
\* fewer if their payloads are large, and spawns the write.
Fill(s) ==
    /\ first # <<>> /\ FreePermit(s)
    /\ \E n \in 0 .. Smaller(Len(chan), BatchMax - 1) :
          /\ batches' = [batches EXCEPT ![s] =
                 [NoBatch EXCEPT !.pc = "writing", !.jobs = first \o SubSeq(chan, 1, n),
                                 !.led = leader, !.ts = now]]
          /\ chan' = SubSeq(chan, n + 1, Len(chan))
    /\ first' = <<>>
    /\ UNCHANGED <<vars, setup, now, leader, producers, stored, notifiers, polls, buckets, op, past>>

ItemOf(p, ts) == [setup.items[p] EXCEPT !.ts_ms = ts]

ItemsOf(b) == [i \in DOMAIN b.jobs |-> ItemOf(b.jobs[i].p, b.ts)]

TopicsOf(b) == {setup.items[j.p].topic : j \in ToSet(b.jobs)}

\* What produce_one answers for an item.
OffsetOf(q, item) ==
    LET t == TopicIn(q, item.topic)
    IN  IF item.key \in DOMAIN t.dedup THEN t.dedup[item.key] ELSE t.next_offset

\* The offset of every item of a batch, at its place in the batch.
OffsetsBefore(items) == [i \in DOMAIN items |-> OffsetOf(topics, items[i])]

Offsets(items) ==
    [i \in DOMAIN items |-> OffsetOf(StoreAll(topics, SubSeq(items, 1, i - 1)), items[i])]

\* The batch is committed and applied.  A node that no longer leads does not
\* hear of it.
BatchApplied(s) ==
    LET b == batches[s] IN
    /\ b.pc = "writing" /\ b.led
    /\ ProduceMany(ItemsOf(b))
    /\ batches' = [batches EXCEPT ![s].pc = IF leader THEN "applied" ELSE "failed",
                                  ![s].offsets = Offsets(ItemsOf(b))]
    /\ past' = IF leader THEN past ELSE [past EXCEPT !.unheard = @ \cup TopicsOf(b)]
    /\ UNCHANGED <<setup, now, leader, producers, chan, first, stored, notifiers, polls, buckets, op>>

\* It is committed, and the topics of its items are too many.
BatchRefused(s) ==
    LET b == batches[s] IN
    /\ b.pc = "writing" /\ leader
    /\ ~CheckProduce(ItemsOf(b))
    /\ batches' = [batches EXCEPT ![s].pc = "refused"]
    /\ UNCHANGED <<vars, setup, now, leader, producers, chan, first, stored, notifiers, polls, buckets, op, past>>

BatchLost(s) ==
    /\ batches[s].pc = "writing" /\ ~leader
    /\ batches' = [batches EXCEPT ![s].pc = "failed"]
    /\ UNCHANGED <<vars, setup, now, leader, producers, chan, first, stored, notifiers, polls, buckets, op, past>>

\* notify_waiters on the notifiers the topics have now.
Registered(w) == polls[w].pc \notin {"new", "begin", "done"}

NotifyAll(ts) ==
    LET ids == {notifiers[t] : t \in ts \cap DOMAIN notifiers}
    IN  [w \in Pollers |-> [polls[w] EXCEPT !.woken = @ \/ (Registered(w) /\ polls[w].notifier \in ids)]]

Answer(b) ==
    CASE b.pc = "applied" -> "produced"
      [] b.pc = "refused" -> "internal"
      [] b.pc = "failed"  -> "not_leader"

Awaits(p, b) == producers[p].pc = "queued" /\ [p |-> p, try |-> producers[p].try] \in ToSet(b.jobs)

\* The rest of write_produce_batch: every job is answered, with its own offset
\* or all with the same error, the pollers are notified if anything was
\* stored, and the permit is returned.  An answer nobody waits for is dropped.
AnswerBatch(s) ==
    LET b == batches[s] IN
    /\ b.pc \in {"applied", "refused", "failed"}
    /\ producers' = [p \in Producers |->
           IF Awaits(p, b) THEN [producers[p] EXCEPT !.pc = "answered", !.answer = Answer(b)]
           ELSE producers[p]]
    /\ stored' = stored \cup
           {[p |-> b.jobs[i].p, offset |-> b.offsets[i]] :
               i \in IF b.pc = "applied" THEN DOMAIN b.jobs ELSE {}}
    /\ batches' = [batches EXCEPT ![s] = NoBatch]
    /\ polls' = IF b.pc = "applied" THEN NotifyAll(TopicsOf(b)) ELSE polls
    /\ UNCHANGED <<vars, setup, now, leader, chan, first, notifiers, buckets, op, past>>

\* A client told not_leader sends the same produce to the new leader, which by
\* then has applied all that is left of the old leader's log.
RetryElsewhere(p) ==
    LET item == ItemOf(p, now) IN
    /\ ~leader /\ producers[p].pc = "answered" /\ producers[p].answer = "not_leader"
    /\ \A s \in Slot : ~(batches[s].pc = "writing" /\ batches[s].led)
    /\ ProduceMany(<<item>>)
    /\ producers' = [producers EXCEPT ![p].answer = "produced"]
    /\ stored' = stored \cup {[p |-> p, offset |-> OffsetOf(topics, item)]}
    /\ past' = [past EXCEPT !.unheard = @ \cup {item.topic}]
    /\ UNCHANGED <<setup, now, leader, chan, first, batches, notifiers, polls, buckets, op>>

-----------------------------------------------------------------------------
(***************************************************************************)
(* Poll                                                                    *)
(***************************************************************************)
\* Whom a poller polls for, and how.
Of(w) == setup.pollers[w]

Done(w) == [NewPoll EXCEPT !.pc = "done"]

\* Only the leader serves a poll; it is checked once.
BeginPoll(w) ==
    /\ polls[w].pc = "new"
    /\ polls' = [polls EXCEPT ![w] = IF leader THEN [@ EXCEPT !.pc = "begin"] ELSE Done(w)]
    /\ UNCHANGED <<vars, setup, now, leader, producers, chan, first, batches, stored, notifiers, buckets, op, past>>

\* gc_notifiers: past the threshold, the notifiers nobody holds are dropped.
Collected ==
    IF Cardinality(DOMAIN notifiers) <= NotifierGc THEN notifiers
    ELSE Restrict(notifiers, {t \in DOMAIN notifiers :
             \E w \in Pollers : Registered(w) /\ polls[w].notifier = notifiers[t]})

\* An identity no notifier in the map or in use has.
Fresh ==
    CHOOSE id \in 1 .. Cardinality(Topic) + Cardinality(Pollers) + 1 :
        /\ id \notin Range(notifiers)
        /\ \A w \in Pollers : Registered(w) => polls[w].notifier # id

\* The top of the loop: get the topic's notifier, or make it, and register
\* with it before looking at the topic.
Register(w) ==
    LET t == Of(w).topic IN
    /\ polls[w].pc = "begin"
    /\ notifiers' = IF t \in DOMAIN Collected THEN Collected
                    ELSE [u \in DOMAIN Collected \cup {t} |-> IF u = t THEN Fresh ELSE Collected[u]]
    /\ polls' = [polls EXCEPT ![w].pc = "check", ![w].notifier = notifiers'[t], ![w].woken = FALSE]
    /\ UNCHANGED <<vars, setup, now, leader, producers, chan, first, batches, stored, buckets, op, past>>

Deliverable(w) ==
    Of(w).topic \in DOMAIN topics /\ HasDeliverable(topics[Of(w).topic], Of(w).group, now)

ParkDeaf(w, ts) ==
    \/ /\ Of(w).wait
       /\ polls' = [polls EXCEPT ![w] =
              [NewPoll EXCEPT !.pc = "waiting", !.notifier = polls[w].notifier, !.ts = ts]]
    \/ polls' = [polls EXCEPT ![w] = Done(w)]

\* Nothing to hand out: wait, or answer empty once the deadline is over.
Park(w, ts) ==
    \/ /\ Of(w).wait
       /\ polls' = [polls EXCEPT ![w] =
              [NewPoll EXCEPT !.pc = "waiting", !.notifier = polls[w].notifier,
                              !.woken = polls[w].woken, !.ts = ts]]
    \/ polls' = [polls EXCEPT ![w] = Done(w)]

FindNothing(w) ==
    /\ polls[w].pc = "check" /\ ~Deliverable(w)
    /\ Park(w, now)
    /\ UNCHANGED <<vars, setup, now, leader, producers, chan, first, batches, stored, notifiers, buckets, op, past>>

Polling(w, grant, burst) ==
    [polls[w] EXCEPT !.pc = "polling", !.ts = now, !.led = leader, !.grant = grant, !.burst = burst]

\* The topic has no rate limit.
FindMessage(w) ==
    /\ polls[w].pc = "check" /\ Deliverable(w) /\ topics[Of(w).topic].rate = 0
    /\ polls' = [polls EXCEPT ![w] = Polling(w, Of(w).max, 0)]
    /\ UNCHANGED <<vars, setup, now, leader, producers, chan, first, batches, stored, notifiers, buckets, op, past>>

\* It has one: poll for as much as there are tokens, or answer rate_limited.
\* A limit r has a burst of r.
TakeTokens(w) ==
    LET t      == Of(w).topic
        burst  == topics[t].rate
        bucket == Refilled(buckets, t, RefillRate, burst, now)
        grant  == Grant(bucket, Of(w).max)
    IN  /\ polls[w].pc = "check" /\ Deliverable(w) /\ burst > 0
        /\ buckets' = Take(buckets, t, bucket, Of(w).max)
        /\ polls' = [polls EXCEPT ![w] = IF grant = 0 THEN Done(w) ELSE Polling(w, grant, burst)]
        /\ past' = IF t \in DOMAIN buckets THEN past ELSE [past EXCEPT !.since[t] = now]
        /\ UNCHANGED <<vars, setup, now, leader, producers, chan, first, batches, stored, notifiers, op>>

\* How many messages the poll gets.
Handed(w) ==
    LET t == Of(w).topic IN
    IF t \in DOMAIN topics /\ AdmitsGroup(Swept(t, polls[w].ts), Of(w).group)
    THEN Cardinality(PollChoice(t, Of(w).group, polls[w].grant, polls[w].ts)) ELSE 0

\* The poll is committed and applied; on a topic that is gone it does nothing.
PollApplied(w) ==
    LET t == Of(w).topic IN
    /\ polls[w].pc = "polling" /\ polls[w].led
    /\ IF t \notin DOMAIN topics THEN UNCHANGED vars
       ELSE IF Of(w).auto THEN PollAuto(t, Of(w).group, polls[w].grant, setup.visibility, polls[w].ts)
       ELSE Poll(t, Of(w).group, polls[w].grant, setup.visibility, polls[w].ts)
    /\ polls' = [polls EXCEPT ![w].pc = IF leader THEN "polled" ELSE "failed", ![w].items = Handed(w)]
    /\ past' = IF polls[w].burst = 0 THEN past ELSE [past EXCEPT !.paced[t] = @ + Handed(w)]
    /\ UNCHANGED <<setup, now, leader, producers, chan, first, batches, stored, notifiers, buckets, op>>

PollLost(w) ==
    /\ polls[w].pc = "polling" /\ ~leader
    /\ polls' = [polls EXCEPT ![w].pc = "failed"]
    /\ UNCHANGED <<vars, setup, now, leader, producers, chan, first, batches, stored, notifiers, buckets, op, past>>

\* client_write failed: the error is answered, and the tokens are not refunded.
PollFailed(w) ==
    /\ polls[w].pc = "failed"
    /\ polls' = [polls EXCEPT ![w] = Done(w)]
    /\ past' = IF polls[w].burst = 0 THEN past
               ELSE [past EXCEPT !.lost[Of(w).topic] = @ + polls[w].grant - polls[w].items]
    /\ UNCHANGED <<vars, setup, now, leader, producers, chan, first, batches, stored, notifiers, buckets, op>>

\* Refund what the grant has left over, and answer, or wait for more.
PollAnswered(w) ==
    /\ polls[w].pc = "polled"
    /\ buckets' = IF polls[w].burst = 0 THEN buckets
                  ELSE Refund(buckets, Of(w).topic, Monus(polls[w].grant, polls[w].items), polls[w].burst)
    /\ IF polls[w].items > 0 THEN polls' = [polls EXCEPT ![w] = Done(w)] ELSE Park(w, polls[w].ts)
    /\ UNCHANGED <<vars, setup, now, leader, producers, chan, first, batches, stored, notifiers, op, past>>

WakeNotified(w) ==
    /\ polls[w].pc = "waiting" /\ polls[w].woken
    /\ polls' = [polls EXCEPT ![w] = [NewPoll EXCEPT !.pc = "begin"]]
    /\ UNCHANGED <<vars, setup, now, leader, producers, chan, first, batches, stored, notifiers, buckets, op, past>>

\* The notifier woke it, or 200 ms are over.
Wake(w) ==
    /\ polls[w].pc = "waiting"
    /\ polls' = [polls EXCEPT ![w] = [NewPoll EXCEPT !.pc = "begin"]]
    /\ UNCHANGED <<vars, setup, now, leader, producers, chan, first, batches, stored, notifiers, buckets, op, past>>

-----------------------------------------------------------------------------
(***************************************************************************)
(* The other requests                                                      *)
(***************************************************************************)
Creates == {"create_topic", "set_rate_limit", "set_retention"}

\* check_new_topic for the requests that may create a topic.
BeginOp(req) ==
    /\ op.pc = "idle" /\ req \in setup.ops \ op.served
    /\ op' = IF req.kind \in Creates /\ ~CheckTopic(req.topic)
             THEN [op EXCEPT !.served = @ \cup {req}]
             ELSE [op EXCEPT !.pc = "writing", !.req = req, !.led = leader]
    /\ UNCHANGED <<vars, setup, now, leader, producers, chan, first, batches, stored, notifiers, polls, buckets, past>>

\* The leases the consumers of a topic hold, by group.
LeasesOf(t, n) ==
    IF t \in DOMAIN topics /\ n \in DOMAIN topics[t].groups THEN DOMAIN topics[t].groups[n].in_flight ELSE {}

\* What each request does to the queue; a refused one and one on a topic that
\* does not exist do nothing.
Perform(req) ==
    LET t       == req.topic
        n       == setup.group
        applies == IF req.kind \in Creates THEN CheckTopic(t) ELSE t \in DOMAIN topics
    IN  IF ~applies THEN UNCHANGED vars
        ELSE CASE req.kind = "create_topic"   -> CreateTopic(t)
               [] req.kind = "set_rate_limit" -> SetRateLimit(t, setup.rate)
               [] req.kind = "set_retention"  -> SetRetention(t, 1, 0)
               [] req.kind = "delete_topic"   -> DeleteTopic(t)
               [] req.kind = "ack"            -> AckMany(t, n, LeasesOf(t, n))
               [] req.kind = "nack"           -> NackMany(t, n, LeasesOf(t, n))
               [] req.kind = "commit"         -> CommitOffsetAt(t, n, 1, now)

OpApplied ==
    /\ op.pc = "writing" /\ op.led
    /\ Perform(op.req)
    /\ op' = [op EXCEPT !.pc = IF leader THEN "applied" ELSE "failed"]
    /\ past' = IF op.req.kind = "delete_topic" THEN [past EXCEPT !.deleted = @ \cup {op.req.topic}]
               ELSE IF leader THEN past ELSE [past EXCEPT !.unheard = @ \cup {op.req.topic}]
    /\ UNCHANGED <<setup, now, leader, producers, chan, first, batches, stored, notifiers, polls, buckets>>

OpLost ==
    /\ op.pc = "writing" /\ ~leader
    /\ op' = [op EXCEPT !.pc = "failed"]
    /\ UNCHANGED <<vars, setup, now, leader, producers, chan, first, batches, stored, notifiers, polls, buckets, past>>

\* The rest of handle_request: a nack notifies, a delete takes the topic's
\* notifier and bucket away.
OpAnswered ==
    LET t  == op.req.topic
        ok == op.pc = "applied"
    IN  /\ op.pc \in {"applied", "failed"}
        /\ op' = [op EXCEPT !.pc = "idle", !.req = {}, !.served = @ \cup {op.req}]
        /\ polls' = IF ok /\ op.req.kind = "nack" THEN NotifyAll({t}) ELSE polls
        /\ notifiers' = IF ok /\ op.req.kind = "delete_topic" THEN Without(notifiers, {t}) ELSE notifiers
        /\ buckets' = IF ok /\ op.req.kind = "delete_topic" THEN ForgetBucket(buckets, t) ELSE buckets
        /\ UNCHANGED <<vars, setup, now, leader, producers, chan, first, batches, stored, past>>

Tick ==
    /\ now < setup.until
    /\ now' = now + 1
    /\ UNCHANGED <<vars, setup, leader, producers, chan, first, batches, stored, notifiers, polls, buckets, op, past>>

StepDown ==
    /\ leader /\ setup.failover
    /\ leader' = FALSE
    /\ UNCHANGED <<vars, setup, now, producers, chan, first, batches, stored, notifiers, polls, buckets, op, past>>

ProduceStep ==
    \/ \E p \in Producers : Send(p)
    \/ Receive
    \/ \E s \in Slot : Fill(s) \/ AnswerBatch(s)

PollStep(w) ==
    \/ Register(w) \/ FindNothing(w) \/ FindMessage(w) \/ TakeTokens(w)
    \/ PollFailed(w) \/ PollAnswered(w) \/ Wake(w)

ClientNext ==
    \/ \E p \in Producers : Admit(p) \/ GiveUp(p) \/ RetryElsewhere(p)
    \/ ProduceStep
    \/ \E s \in Slot : BatchApplied(s) \/ BatchRefused(s) \/ BatchLost(s)
    \/ \E w \in Pollers : BeginPoll(w) \/ PollStep(w) \/ PollApplied(w) \/ PollLost(w)
    \/ \E req \in setup.ops : BeginOp(req)
    \/ OpApplied \/ OpLost \/ OpAnswered
    \/ Tick \/ StepDown

ClientSpec == ClientInit /\ [][ClientNext]_clientvars

SomePoller == UNION {DOMAIN s.pollers : s \in Setups}

\* A batch or a poll that waits for Raft is answered or fails.
RaftAnswers ==
    /\ \A s \in Slot : []<>(batches[s].pc # "writing")
    /\ \A w \in SomePoller : []<>(w \in Pollers => polls[w].pc # "polling")

\* The batcher and the handlers run on, the 200 ms timer fires and Raft
\* answers.  Nothing is assumed of the clients, the clock or the elections.
\* The produces are finitely many, so that fairness of all is fairness of each.
FairClient ==
    /\ ClientSpec /\ RaftAnswers
    /\ WF_clientvars(ProduceStep)
    /\ \A w \in SomePoller : WF_clientvars(w \in Pollers /\ PollStep(w))
-----------------------------------------------------------------------------
\* A produce that was answered with an offset has its message at that offset,
\* for as long as the topic keeps it: in a batch of several topics, new items
\* and repeated ones, each job is told its own offset.
AnsweredIsStored ==
    \A a \in stored :
        LET item == setup.items[a.p]
            t    == topics[item.topic]
        IN  item.topic \notin past.deleted =>
                /\ item.topic \in DOMAIN topics /\ a.offset < t.next_offset
                /\ a.offset \in DOMAIN t.messages => t.messages[a.offset].payload = item.key

\* README: retries are idempotent.  However often a produce was sent, queued,
\* left to an unknown fate by a lost leader and sent to the next one, its
\* message is stored once, and every answer names the same offset.  That is so
\* within the dedup window: a message that retention or the capacity of the
\* window has taken out is stored again, and here nothing ever is.
RetryStoredOnce ==
    \A p \in Producers :
        LET item == setup.items[p] IN
        item.topic \in DOMAIN topics \ past.deleted =>
            /\ Cardinality({o \in DOMAIN topics[item.topic].messages :
                               topics[item.topic].messages[o].payload = item.key}) <= 1
            /\ \A a, b \in stored : a.p = p /\ b.p = p => a.offset = b.offset

\* A poll that waits is not overtaken: if its topic has a message for its
\* group that was free when the poll last looked, the poll has been notified
\* or the write that freed the message is about to notify it.  The exceptions
\* are a topic deleted under the poll, whose notifier nobody signals any more,
\* and writes this node was not told the outcome of.
NoLostWakeup ==
    \A w \in Pollers :
        LET t == Of(w).topic IN
        /\ polls[w].pc = "waiting" /\ ~polls[w].woken
        /\ t \in DOMAIN topics \cap DOMAIN notifiers /\ polls[w].notifier = notifiers[t]
        /\ t \notin past.unheard
        /\ HasDeliverable(topics[t], Of(w).group, polls[w].ts)
        => \/ \E s \in Slot : batches[s].pc = "applied" /\ t \in TopicsOf(batches[s])
           \/ op.pc = "applied" /\ op.req.kind = "nack" /\ op.req.topic = t

Limited == DOMAIN buckets \ past.deleted

Outstanding(t) ==
    LET taken == {w \in Pollers : Of(w).topic = t /\ polls[w].burst > 0}
    IN  SumFunctionOnSet([w \in Pollers |-> polls[w].grant - polls[w].items], taken)

\* Rate limits pace delivery: since the bucket was made, polls under the limit
\* got no more than its burst and what came in since, however many of them took
\* tokens, were refunded or failed at once.  And no token is lost but by a poll
\* that failed: as long as no time has passed, what the bucket holds, what polls
\* hold, what they got and what failed with them is the burst.
TokensAccounted ==
    \A t \in Limited :
        /\ past.paced[t] <= setup.rate + RefillRate * (now - past.since[t])
        /\ now = past.since[t] =>
              buckets[t].tokens + Outstanding(t) + past.paced[t] + past.lost[t] = setup.rate

\* No produce that passed its checks waits for ever: there is always a time to
\* come when each has been answered or its client has given up, so the channel
\* and the permits are never held up for good.
ProduceAnswered == []<>(\A p \in Producers : producers[p].pc \in {"answered", "idle"})

\* No poll waits for ever while its group has something to get: there is always
\* a time to come when each is answered or someone else has got it, also if the
\* notifier it waits on is orphaned, a lease runs out or the write came from
\* another leader.
PollServed == []<>(\A w \in Pollers : polls[w].pc \in {"new", "done"} \/ ~Deliverable(w))
=============================================================================
