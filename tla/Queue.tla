------------------------------- MODULE Queue --------------------------------
(***************************************************************************)
(* The replicated queue: Queue::apply of queue.rs, one action per          *)
(* AppRequest.  Requests arrive in the order of the Raft log and each is   *)
(* applied whole, so the only nondeterminism is which request comes next   *)
(* and the clock value its leader stamped on it: a new leader's clock may  *)
(* be behind the old one's, so timestamps need not increase.               *)
(*                                                                         *)
(* A request that apply answers Rejected changes nothing and is left out,  *)
(* and so is every request on a topic that does not exist, other than the  *)
(* ones that create it.                                                    *)
(***************************************************************************)
EXTENDS QueueState

CONSTANTS Topic,          \* topic names
          MaxTopics,      \* MAX_TOPICS
          Priority,       \* message priorities
          Time,           \* clock values leaders stamp on requests
          PollSize,       \* values of max in a poll
          Visibility,     \* values of visibility_timeout_ms in a poll
          CommitPoint,    \* offsets clients commit
          RateConfig,     \* rate limits operators set
          RetentionCount, \* values of max_messages in SetRetention
          RetentionAge,   \* values of max_age_ms in SetRetention
          BatchSize,      \* the largest ProduceMany
          MaxOffset,      \* bound: offsets a topic hands out
          MaxLease        \* bound: lease ids handed out

ASSUME RequestConstants ==
    /\ MaxTopics \in Nat /\ Priority \subseteq Nat /\ Time \subseteq Nat
    /\ PollSize \subseteq Nat /\ Visibility \subseteq Nat /\ CommitPoint \subseteq Nat
    /\ RateConfig \subseteq Nat /\ RetentionCount \subseteq Nat /\ RetentionAge \subseteq Nat
    /\ BatchSize \in Nat /\ MaxOffset \in Nat /\ MaxLease \in Nat

VARIABLES topics,         \* the topics that exist, by name
          next_lease_id   \* the next lease id, over all topics

vars == <<topics, next_lease_id>>

Item == [topic : Topic, priority : Priority, key : Key \cup {NoKey}, ts_ms : Time]

\* topics.entry(t).or_default()
TopicIn(q, t) == IF t \in DOMAIN q THEN q[t] ELSE NewTopic

PutTopic(q, t, state) ==
    [u \in DOMAIN q \cup {t} |-> IF u = t THEN state ELSE q[u]]

CheckTopic(t) == t \in DOMAIN topics \/ Cardinality(DOMAIN topics) < MaxTopics

CheckProduceEach(batch) ==
    \A i \in DOMAIN batch : CheckTopic(batch[i].topic)

\* check_produce looks at the whole batch before any of it is applied.
CheckProduce(batch) ==
    Cardinality(DOMAIN topics \cup {batch[i].topic : i \in DOMAIN batch}) <= MaxTopics

Store(q, item) == PutTopic(q, item.topic, ProduceOne(TopicIn(q, item.topic), item))

\* The topics once the whole batch is stored, item by item.
StoreAll(q, batch) ==
    LET after[n \in 0 .. Len(batch)] ==
            IF n = 0 THEN q ELSE Store(after[n - 1], batch[n])
    IN  after[Len(batch)]

Batch == UNION {[1 .. n -> Item] : n \in 1 .. BatchSize}

-----------------------------------------------------------------------------
Init ==
    /\ topics = Empty
    /\ next_lease_id = 0

CreateTopic(t) ==
    /\ CheckTopic(t)
    /\ topics' = PutTopic(topics, t, TopicIn(topics, t))
    /\ UNCHANGED next_lease_id

DeleteTopic(t) ==
    /\ topics' = Without(topics, {t})
    /\ UNCHANGED next_lease_id

Produce(item) ==
    /\ CheckProduce(<<item>>)
    /\ TopicIn(topics, item.topic).next_offset < MaxOffset
    /\ topics' = Store(topics, item)
    /\ UNCHANGED next_lease_id

ProduceMany(batch) ==
    /\ CheckProduce(batch)
    /\ \A i \in DOMAIN batch :
          TopicIn(topics, batch[i].topic).next_offset + Len(batch) <= MaxOffset
    /\ topics' = StoreAll(topics, batch)
    /\ UNCHANGED next_lease_id

\* poll sweeps first, ...
Swept(t, now) == SweepIdleGroups(topics[t], now)

\* ... then chooses from its group, ...
PollChoice(t, n, max, now) ==
    LET entry == PollEntry(Swept(t, now), n, now)
    IN  Chosen(entry, entry.groups[n], max)

\* ... and grants leases on what it chose.
Granted(t, n, max, visibility, now) ==
    GrantLeases(PollEntry(Swept(t, now), n, now), n, PollChoice(t, n, max, now), next_lease_id,
                now + Smaller(visibility, MaxVisibility))

\* A poll the topic has no room for a new group for grants nothing.
PollRefused(t, n, now, after) ==
    /\ ~AdmitsGroup(Swept(t, now), n)
    /\ topics' = PutTopic(topics, t, after)
    /\ UNCHANGED next_lease_id

PollGranted(t, n, max, now, after) ==
    LET granted == Cardinality(PollChoice(t, n, max, now))
    IN  /\ AdmitsGroup(Swept(t, now), n)
        /\ next_lease_id + granted <= MaxLease
        /\ topics' = PutTopic(topics, t, after)
        /\ next_lease_id' = next_lease_id + granted

Poll(t, n, max, visibility, now) ==
    /\ t \in DOMAIN topics
    /\ \/ PollRefused(t, n, now, Swept(t, now))
       \/ PollGranted(t, n, max, now, Granted(t, n, max, visibility, now))

\* poll, then ack of everything it returned, then reclaim_topic.
PollAutoReleasing(t, n, max, visibility, now) ==
    LET granted  == Granted(t, n, max, visibility, now)
        g        == granted.groups[n]
        released == [granted EXCEPT !.groups[n] =
                        NackLeases(g, {l \in DOMAIN g.in_flight : l >= next_lease_id})]
    IN  /\ t \in DOMAIN topics
        /\ \/ PollRefused(t, n, now, Reclaim(Swept(t, now)))
           \/ PollGranted(t, n, max, now, Reclaim(released))

PollAuto(t, n, max, visibility, now) ==
    LET granted == Granted(t, n, max, visibility, now)
        g       == granted.groups[n]
        acked   == [granted EXCEPT !.groups[n] =
                       AckLeases(g, {l \in DOMAIN g.in_flight : l >= next_lease_id})]
    IN  /\ t \in DOMAIN topics
        /\ \/ PollRefused(t, n, now, Reclaim(Swept(t, now)))
           \/ PollGranted(t, n, max, now, Reclaim(acked))

\* The topic with g for its group n, if it has one.
WithGroup(state, n, g) ==
    IF n \in DOMAIN state.groups THEN [state EXCEPT !.groups[n] = g] ELSE state

\* Ack is AckMany of one lease.
AckMany(t, n, ids) ==
    /\ t \in DOMAIN topics
    /\ topics' = PutTopic(topics, t,
           Reclaim(WithGroup(topics[t], n, AckLeases(topics[t].groups[n], ids))))
    /\ UNCHANGED next_lease_id

\* Nack is NackMany of one lease.
NackMany(t, n, ids) ==
    /\ t \in DOMAIN topics
    /\ topics' = PutTopic(topics, t,
           WithGroup(topics[t], n, NackLeases(topics[t].groups[n], ids)))
    /\ UNCHANGED next_lease_id

CommitOffset(t, n, offset) ==
    /\ t \in DOMAIN topics
    /\ topics' = PutTopic(topics, t, Reclaim(CommitGroup(topics[t], n, offset, 0)))
    /\ UNCHANGED next_lease_id

CommitOffsetAt(t, n, offset, now) ==
    /\ t \in DOMAIN topics
    /\ topics' = PutTopic(topics, t,
           Reclaim(CommitGroup(SweepIdleGroups(topics[t], now), n, offset, now)))
    /\ UNCHANGED next_lease_id

SetRateLimit(t, rate) ==
    /\ CheckTopic(t)
    /\ topics' = PutTopic(topics, t, [TopicIn(topics, t) EXCEPT !.rate = rate])
    /\ UNCHANGED next_lease_id

SetRetention(t, count, age) ==
    /\ CheckTopic(t)
    /\ topics' = PutTopic(topics, t,
           [TopicIn(topics, t) EXCEPT !.retain_max_messages = count,
                                      !.retain_max_age_ms = age])
    /\ UNCHANGED next_lease_id

Issued == 0 .. next_lease_id - 1

Next ==
    \/ \E t \in Topic : CreateTopic(t)
    \/ \E t \in Topic : DeleteTopic(t)
    \/ \E item \in Item : Produce(item)
    \/ \E batch \in Batch : ProduceMany(batch)
    \/ \E t \in Topic, n \in Group, max \in PollSize, v \in Visibility, now \in Time :
          Poll(t, n, max, v, now)
    \/ \E t \in Topic, n \in Group, max \in PollSize, v \in Visibility, now \in Time :
          PollAuto(t, n, max, v, now)
    \/ \E t \in Topic, n \in Group, ids \in SUBSET Issued : AckMany(t, n, ids)
    \/ \E t \in Topic, n \in Group, ids \in SUBSET Issued : NackMany(t, n, ids)
    \/ \E t \in Topic, n \in Group, o \in CommitPoint : CommitOffset(t, n, o)
    \/ \E t \in Topic, n \in Group, o \in CommitPoint, now \in Time :
          CommitOffsetAt(t, n, o, now)
    \/ \E t \in Topic, r \in RateConfig : SetRateLimit(t, r)
    \/ \E t \in Topic, c \in RetentionCount, a \in RetentionAge : SetRetention(t, c, a)

Spec == Init /\ [][Next]_vars
-----------------------------------------------------------------------------
\* Every topic, message, group and lease has the shape queue.rs declares for it.
TypeOK ==
    /\ DOMAIN topics \subseteq Topic
    /\ topics = [t \in DOMAIN topics |-> topics[t]]
    /\ next_lease_id \in Nat
    /\ \A t \in DOMAIN topics : TopicType(topics[t])

(***************************************************************************)
(* Safety                                                                  *)
(***************************************************************************)
\* Whatever requests are applied, the state is one its own snapshot decoder
\* accepts: Queue::validate never fails on a state the queue produced, so a
\* node can always restart from the snapshot it wrote.
Validate == \A t \in DOMAIN topics : ValidTopic(topics[t], next_lease_id)

\* Reclaim and purge_retained only ever cut a prefix, so no message vanishes
\* between two that are still there, and they take the watermarks along: every
\* offset a group still owes is there to be delivered.
WatermarksRetained ==
    \A t \in DOMAIN topics :
        LET s == topics[t]
        IN  /\ DOMAIN s.messages = FirstOffset(s) .. s.next_offset - 1
            /\ \A n \in DOMAIN s.groups : FirstOffset(s) <= s.groups[n].ack_watermark

\* An offset the group acked is not leased again: poll skips acked_above, and
\* an ack gives its lease up before it marks the offset.
AckedNotLeased ==
    \A t \in DOMAIN topics : \A n \in DOMAIN topics[t].groups :
        LET g == topics[t].groups[n] IN g.acked_above \cap DOMAIN g.leased_offsets = {}

\* The dedup window is what it should be: while a keyed message is retained,
\* either a re-send of its key is answered from the table, or DEDUP_CAPACITY
\* later keyed messages have pushed the key out.  Neither retention nor
\* consumption forgets a key early.  dedup_order stays in offset order, which is
\* what lets prune_dedup stop at the first key that is still in range.
DedupWindow ==
    \A t \in DOMAIN topics :
        LET s == topics[t]
        IN  /\ \A o \in DOMAIN s.messages :
                  LET k == s.messages[o].payload
                  IN  \/ k = NoKey
                      \/ k \in DOMAIN s.dedup /\ s.dedup[k] >= o
                      \/ /\ Len(s.dedup_order) = DedupCapacity
                         /\ \A j \in DOMAIN s.dedup : s.dedup[j] > o
            /\ \A i, j \in DOMAIN s.dedup_order :
                  i < j => s.dedup[s.dedup_order[i]] < s.dedup[s.dedup_order[j]]

\* No topic is added past MAX_TOPICS, and no group past MAX_GROUPS_PER_TOPIC,
\* however requests and batches that create them interleave.
WithinLimits ==
    /\ Cardinality(DOMAIN topics) <= MaxTopics
    /\ \A t \in DOMAIN topics : Cardinality(DOMAIN topics[t].groups) <= MaxGroups

\* The long-poll gate and the poll agree: for a group the sweep would keep,
\* has_deliverable is true exactly when a poll at that clock hands out
\* something, so an idle consumer writes nothing to the log and a message is
\* never left behind the gate.
GateAgreesWithPoll ==
    \A t \in DOMAIN topics, now \in Time, max \in PollSize \ {0} :
        \A n \in DOMAIN topics[t].groups :
            LET swept == SweepIdleGroups(topics[t], now)
                entry == PollEntry(swept, n, now)
            IN  n \in DOMAIN swept.groups =>
                    (HasDeliverable(topics[t], n, now) <=>
                        Chosen(entry, entry.groups[n], max) # {})

(***************************************************************************)
(* Action properties                                                       *)
(***************************************************************************)
\* Every RESERVED_DEN-th poll of a group that hands out anything hands out the
\* oldest message it could, whatever its priority, so a flood of high-priority
\* messages cannot starve a low-priority one.
ReservedSlotServesOldest ==
    [][\A t \in DOMAIN topics \cap DOMAIN topics' :
          \A n \in DOMAIN topics'[t].groups :
              LET h     == topics'[t].groups[n]
                  fresh == {h.in_flight[l].offset :
                              l \in {m \in DOMAIN h.in_flight : m >= next_lease_id}}
              IN  fresh # {} /\ h.poll_count = 0 =>
                      \A o \in Candidates(topics'[t], h) : \E f \in fresh : f < o]_vars

(***************************************************************************)
(* Refinement                                                              *)
(***************************************************************************)
\* What a group is done with: acked, committed past or dropped by retention.
DoneOffsets(g) == (0 .. g.ack_watermark - 1) \cup g.acked_above

\* A group as the contract sees it.
Reader(g) ==
    [done |-> DoneOffsets(g),
     lent |-> {[id |-> l, offset |-> g.in_flight[l].offset, until |-> g.in_flight[l].deadline_ms] :
                  l \in DOMAIN g.in_flight}]

Log ==
    [t \in DOMAIN topics |->
        [next |-> topics[t].next_offset, kept |-> DOMAIN topics[t].messages,
         readers |-> [n \in DOMAIN topics[t].groups |-> Reader(topics[t].groups[n])]]]

Contract == INSTANCE QueueContract WITH log <- Log, issued <- next_lease_id

\* The queue implements the contract: messages leave only by retention or once
\* every group is done with them, leases are exclusive within a group and end
\* only as the contract says.  Stated for GROUP_GC_THRESHOLD above the group
\* limit, as compiled in; below it reclaim may also forget caught-up groups.
ImplementsContract == Contract!Spec
=============================================================================
