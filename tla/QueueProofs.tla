---------------------------- MODULE QueueProofs -----------------------------
(***************************************************************************)
(* Every state the queue reaches is well typed and passes its own          *)
(* validate(), for any number of topics, groups, keys and messages and any *)
(* limits.  The inductive invariant is IInv: the types, what validate()    *)
(* checks, and that no acked offset is leased.  validate() alone is not    *)
(* inductive: an ack drains the watermark over acked offsets, and it is    *)
(* only because none of them is leased that no lease is left behind it.    *)
(***************************************************************************)
EXTENDS Queue, QueueStateProofs

TopicsInv(q, lease) ==
    /\ DOMAIN q \subseteq Topic
    /\ q = [t \in DOMAIN q |-> q[t]]
    /\ \A t \in DOMAIN q : TopicInv(q[t], lease)

\* The inductive invariant.
IInv == next_lease_id \in Nat /\ TopicsInv(topics, next_lease_id)

-----------------------------------------------------------------------------
\* One topic replaced or added, as the lease counter moves on.
LEMMA PutTopicInv ==
  ASSUME NEW q, NEW lease \in Nat, TopicsInv(q, lease), NEW t \in Topic, NEW state,
         NEW lease2 \in Nat, lease <= lease2, TopicInv(state, lease2)
  PROVE  TopicsInv(PutTopic(q, t, state), lease2)
<1>1. \A u \in DOMAIN q : TopicInv(q[u], lease2)
  BY TopicInvMonotone DEF TopicsInv
<1> QED BY <1>1 DEF TopicsInv, PutTopic

\* A topic that exists, or a new one.
LEMMA TopicInInv ==
  ASSUME NEW q, NEW lease, TopicsInv(q, lease), NEW t
  PROVE  TopicInv(TopicIn(q, t), lease)
BY NewTopicInv DEF TopicsInv, TopicIn

\* One produced item stored.
LEMMA StoreInv ==
  ASSUME NEW q, NEW lease \in Nat, TopicsInv(q, lease), NEW item \in Item
  PROVE  TopicsInv(Store(q, item), lease)
<1>1. item.topic \in Topic /\ item.priority \in Nat /\ item.ts_ms \in Nat
      /\ item.key \in Key \cup {NoKey}
  BY RequestConstants, Zenon DEF Item
<1>2. TopicInv(TopicIn(q, item.topic), lease)
  BY TopicInInv
<1>3. TopicInv(ProduceOne(TopicIn(q, item.topic), item), lease)
  BY <1>1, <1>2, ProduceOneInv
<1>4. lease <= lease OBVIOUS
<1> QED BY <1>1, <1>3, <1>4, PutTopicInv DEF Store

\* A whole batch stored, item by item.  The loop's state after n items exists
\* for each n, and is fine: a first n for which it is not would follow one for
\* which it is.
LEMMA StoreAllInv ==
  ASSUME NEW q, NEW lease \in Nat, TopicsInv(q, lease), NEW batch \in Seq(Item)
  PROVE  TopicsInv(StoreAll(q, batch), lease)
<1> DEFINE L       == Len(batch)
           Def(f, m) == f = [n \in 0 .. m |-> IF n = 0 THEN q ELSE Store(f[n - 1], batch[n])]
<1>1. L \in Nat /\ \A n \in 1 .. L : batch[n] \in Item
  BY LenProperties, ElementOfSeq
<1> HIDE DEF L
<1>2. \A m \in 0 .. L : \E f : Def(f, m)
  <2> DEFINE Bad == {m \in 0 .. L : ~\E f : Def(f, m)}
  <2> SUFFICES ASSUME Bad # {} PROVE FALSE
    OBVIOUS
  <2>1. PICK m \in Bad : \A k \in Bad : m <= k
    <3>1. Bad \subseteq Nat BY <1>1
    <3> HIDE DEF Bad
    <3> QED BY <3>1, NatMin, Zenon
  <2>2. m \in 0 .. L /\ m \in Nat BY <1>1
  <2>3. m # 0
    <3>1. Def([n \in 0 .. 0 |-> q], 0) OBVIOUS
    <3> QED BY <3>1, Zenon
  <2>4. m - 1 \in 0 .. L /\ m - 1 \notin Bad
    <3> HIDE DEF Bad
    <3> QED BY <1>1, <2>1, <2>2, <2>3
  <2>5. PICK f : Def(f, m - 1)
    BY <2>4
  <2> DEFINE g == [n \in 0 .. m |-> IF n = m THEN Store(f[m - 1], batch[m]) ELSE f[n]]
  <2>6. \A n \in 0 .. m : g[n] = IF n = 0 THEN q ELSE Store(g[n - 1], batch[n])
    <3> SUFFICES ASSUME NEW n \in 0 .. m
                 PROVE  g[n] = IF n = 0 THEN q ELSE Store(g[n - 1], batch[n])
      BY SMTT(60)
    <3>1. CASE n = m
      <4>1. g[m] = Store(f[m - 1], batch[m]) BY <2>2
      <4>2. g[m - 1] = f[m - 1] BY <2>2, <2>3
      <4> QED BY <2>3, <3>1, <4>1, <4>2
    <3>2. CASE n # m
      <4>1. n \in 0 .. m - 1 /\ n \in Nat BY <2>2, <3>2
      <4>2. f[n] = IF n = 0 THEN q ELSE Store(f[n - 1], batch[n])
        BY <2>5, <4>1
      <4>3. g[n] = f[n] BY <3>2
      <4>4. n # 0 => g[n - 1] = f[n - 1] BY <2>2, <4>1
      <4> QED BY <4>2, <4>3, <4>4
    <3> QED BY <3>1, <3>2
  <2>7. Def(g, m)
    BY <2>6
  <2> QED BY <2>7, Zenon
<1>3. PICK f : Def(f, L)
  <2>1. L \in 0 .. L BY <1>1
  <2> HIDE DEF Def
  <2> QED BY <1>2, <2>1
<1> DEFINE after == CHOOSE h : Def(h, L)
<1>4. Def(after, L)
  BY <1>3, Zenon
<1>5. StoreAll(q, batch) = after[L]
  BY DEF StoreAll, L
<1>6. \A n \in 0 .. L : after[n] = IF n = 0 THEN q ELSE Store(after[n - 1], batch[n])
  BY <1>4, Zenon
<1> HIDE DEF after
<1>7. \A n \in 0 .. L : TopicsInv(after[n], lease)
  <2> DEFINE Bad == {m \in 0 .. L : ~TopicsInv(after[m], lease)}
  <2> SUFFICES ASSUME Bad # {} PROVE FALSE
    OBVIOUS
  <2>1. PICK m \in Bad : \A k \in Bad : m <= k
    <3>1. Bad \subseteq Nat BY <1>1
    <3> HIDE DEF Bad
    <3> QED BY <3>1, NatMin, Zenon
  <2>2. m \in 0 .. L /\ m # 0
    BY <1>1, <1>6
  <2>3. m - 1 \in 0 .. L /\ m - 1 \notin Bad /\ m \in 1 .. L
    BY <1>1, <2>1, <2>2
  <2>4. TopicsInv(after[m - 1], lease)
    BY <2>3
  <2>5. after[m] = Store(after[m - 1], batch[m])
    BY <1>6, <2>2, SMTT(60)
  <2> QED BY <1>1, <2>3, <2>4, <2>5, StoreInv, SMTT(60)
<1> QED BY <1>1, <1>5, <1>7


-----------------------------------------------------------------------------
\* What a poll that reaches its group makes of the topic.
LEMMA PollGrantInv ==
  ASSUME NEW state, NEW lease \in Nat, TopicInv(state, lease), NEW n \in Group,
         NEW max \in Nat, NEW visibility \in Nat, NEW now \in Nat
  PROVE  LET entry  == PollEntry(SweepIdleGroups(state, now), n, now)
             chosen == Chosen(entry, entry.groups[n], max)
             final  == GrantLeases(entry, n, chosen, lease,
                                   now + Smaller(visibility, MaxVisibility))
         IN  /\ TopicInv(final, lease + Cardinality(chosen))
             /\ n \in DOMAIN final.groups
             /\ lease + Cardinality(chosen) \in Nat
             /\ lease <= lease + Cardinality(chosen)
<1> DEFINE swept  == SweepIdleGroups(state, now)
           entry  == PollEntry(swept, n, now)
           chosen == Chosen(entry, entry.groups[n], max)
           until  == now + Smaller(visibility, MaxVisibility)
<1>1. TopicInv(swept, lease) BY SweepIdleGroupsInv
<1>2. TopicInv(entry, lease) /\ n \in DOMAIN entry.groups
  <2> HIDE DEF swept
  <2> QED BY <1>1, PollEntryInv
<1>3. until \in Nat BY QueueConstants DEF Smaller
<1>4. chosen \in SUBSET Candidates(entry, entry.groups[n]) /\ IsFiniteSet(chosen)
  <2> HIDE DEF entry
  <2> QED BY <1>2, ChosenCandidates
<1> HIDE DEF entry, chosen, until
<1>5. /\ TopicInv(GrantLeases(entry, n, chosen, lease, until), lease + Cardinality(chosen))
      /\ n \in DOMAIN GrantLeases(entry, n, chosen, lease, until).groups
      /\ lease + Cardinality(chosen) \in Nat
      /\ lease <= lease + Cardinality(chosen)
  BY <1>2, <1>3, <1>4, GrantLeasesInv, SMTT(60)
<1> QED BY <1>5 DEF entry, chosen, until

\* The topic with one group acked or nacked.
LEMMA AckGroupInv ==
  ASSUME NEW state, NEW lease \in Nat, TopicInv(state, lease), NEW n \in DOMAIN state.groups,
         NEW ids
  PROVE  /\ TopicInv([state EXCEPT !.groups[n] = AckLeases(state.groups[n], ids)], lease)
         /\ TopicInv([state EXCEPT !.groups[n] = NackLeases(state.groups[n], ids)], lease)
<1>1. state.next_offset \in Nat /\ GroupInv(state.groups[n], state.next_offset, lease)
  BY DEF TopicInv, TopicType
<1>2. GroupInv(AckLeases(state.groups[n], ids), state.next_offset, lease)
  BY <1>1, AckLeasesInv
<1>3. GroupInv(NackLeases(state.groups[n], ids), state.next_offset, lease)
  BY <1>1, NackLeasesInv
<1> QED BY <1>2, <1>3, UpdateGroupInv, SMTT(60)

\* A topic with its configuration set.
LEMMA ConfigureInv ==
  ASSUME NEW t, NEW lease, TopicInv(t, lease), NEW a \in Nat, NEW b \in Nat
  PROVE  /\ TopicInv([t EXCEPT !.rate = a], lease)
         /\ TopicInv([t EXCEPT !.retain_max_messages = a, !.retain_max_age_ms = b], lease)
<1> DEFINE r == [t EXCEPT !.rate = a]
           s == [t EXCEPT !.retain_max_messages = a, !.retain_max_age_ms = b]
<1>1. r = [t EXCEPT !.rate = a] OBVIOUS
<1>2. s = [t EXCEPT !.retain_max_messages = a, !.retain_max_age_ms = b] OBVIOUS
<1> SUFFICES TopicInv(r, lease) /\ TopicInv(s, lease) OBVIOUS
<1> HIDE DEF r, s
<1>3. /\ r.next_offset = t.next_offset /\ r.messages = t.messages /\ r.dedup = t.dedup
      /\ r.dedup_order = t.dedup_order /\ r.groups = t.groups /\ r.rate = a
      /\ r.retain_max_messages = t.retain_max_messages
      /\ r.retain_max_age_ms = t.retain_max_age_ms
      /\ r = [next_offset |-> r.next_offset, messages |-> r.messages, dedup |-> r.dedup,
              dedup_order |-> r.dedup_order, groups |-> r.groups, rate |-> r.rate,
              retain_max_messages |-> r.retain_max_messages,
              retain_max_age_ms |-> r.retain_max_age_ms]
  BY <1>1, SMTT(60) DEF TopicInv, TopicType
<1>4. /\ s.next_offset = t.next_offset /\ s.messages = t.messages /\ s.dedup = t.dedup
      /\ s.dedup_order = t.dedup_order /\ s.groups = t.groups /\ s.rate = t.rate
      /\ s.retain_max_messages = a /\ s.retain_max_age_ms = b
      /\ s = [next_offset |-> s.next_offset, messages |-> s.messages, dedup |-> s.dedup,
              dedup_order |-> s.dedup_order, groups |-> s.groups, rate |-> s.rate,
              retain_max_messages |-> s.retain_max_messages,
              retain_max_age_ms |-> s.retain_max_age_ms]
  BY <1>2, Zenon DEF TopicInv, TopicType
<1>5. TopicType(r) BY <1>3 DEF TopicInv, TopicType
<1>6. TopicType(s) BY <1>4, SMTT(60) DEF TopicInv, TopicType
<1>7. ValidDedup(r) /\ ValidDedup(s) BY <1>3, <1>4, SMTT(60) DEF TopicInv, ValidDedup
<1>8. TopicInv(r, lease) BY <1>3, <1>5, <1>7, SMTT(60) DEF TopicInv
<1>9. TopicInv(s, lease) BY <1>4, <1>6, <1>7, SMTT(60) DEF TopicInv
<1> QED BY <1>8, <1>9

-----------------------------------------------------------------------------
\* No topic exists at first, so there is nothing to check.
LEMMA InitInv == Init => IInv
BY DEF Init, IInv, TopicsInv, Empty

\* Every request keeps the inductive invariant.
LEMMA NextInv == IInv /\ [Next]_vars => IInv'
<1> SUFFICES ASSUME IInv, [Next]_vars PROVE IInv'
  OBVIOUS
<1> DEFINE lease == next_lease_id
<1>0. /\ lease \in Nat /\ TopicsInv(topics, lease) /\ lease <= lease
      /\ \A t \in DOMAIN topics : TopicInv(topics[t], lease)
  BY DEF IInv, TopicsInv
<1>1. ASSUME NEW t \in Topic, CreateTopic(t) PROVE IInv'
  <2>1. TopicInv(TopicIn(topics, t), lease) BY <1>0, TopicInInv
  <2>2. TopicsInv(PutTopic(topics, t, TopicIn(topics, t)), lease) BY <1>0, <2>1, PutTopicInv, SMTT(60)
  <2> QED BY <1>0, <1>1, <2>2 DEF CreateTopic, IInv
<1>2. ASSUME NEW t \in Topic, DeleteTopic(t) PROVE IInv'
  <2>1. Without(topics, {t}) = [u \in DOMAIN topics \ {t} |-> topics[u]]
    <3>1. DOMAIN topics \cap (DOMAIN topics \ {t}) = DOMAIN topics \ {t} OBVIOUS
    <3> QED BY <3>1 DEF Without, Restrict
  <2>2. TopicsInv(Without(topics, {t}), lease) BY <1>0, <2>1 DEF TopicsInv
  <2> QED BY <1>0, <1>2, <2>2, SMTT(60) DEF DeleteTopic, IInv
<1>3. ASSUME NEW item \in Item, Produce(item) PROVE IInv'
  <2>1. TopicsInv(Store(topics, item), lease) BY <1>0, StoreInv
  <2> QED BY <1>0, <1>3, <2>1 DEF Produce, IInv
<1>4. ASSUME NEW batch \in Batch, ProduceMany(batch) PROVE IInv'
  <2>1. batch \in Seq(Item) BY RequestConstants DEF Batch
  <2>2. TopicsInv(StoreAll(topics, batch), lease) BY <1>0, <2>1, StoreAllInv, SMTT(60)
  <2> QED BY <1>0, <1>4, <2>2, SMTT(60) DEF ProduceMany, IInv

<1>5. ASSUME NEW t \in Topic, NEW n \in Group, NEW max \in PollSize, NEW v \in Visibility,
             NEW now \in Time, Poll(t, n, max, v, now) \/ PollAuto(t, n, max, v, now)
      PROVE  IInv'
  <2> DEFINE swept  == SweepIdleGroups(topics[t], now)
             entry  == PollEntry(swept, n, now)
             chosen == Chosen(entry, entry.groups[n], max)
             final  == GrantLeases(entry, n, chosen, lease, now + Smaller(v, MaxVisibility))
             top    == lease + Cardinality(chosen)
             g      == final.groups[n]
             acked  == [final EXCEPT !.groups[n] =
                           AckLeases(g, {l \in DOMAIN g.in_flight : l >= lease})]
  <2>1. t \in DOMAIN topics BY <1>5 DEF Poll, PollAuto
  <2>2. max \in Nat /\ v \in Nat /\ now \in Nat /\ TopicInv(topics[t], lease)
    BY <1>0, <2>1, RequestConstants, SMTT(60)
  <2>3. TopicInv(swept, lease) /\ TopicInv(Reclaim(swept), lease)
    BY <2>2, SweepIdleGroupsInv, ReclaimInv, SMTT(60)
  <2>4. TopicInv(final, top) /\ n \in DOMAIN final.groups /\ top \in Nat /\ lease <= top
    BY <1>0, <2>2, PollGrantInv, Zenon
  <2>5. \/ topics' = PutTopic(topics, t, swept) /\ next_lease_id' = lease
        \/ topics' = PutTopic(topics, t, Reclaim(swept)) /\ next_lease_id' = lease
        \/ topics' = PutTopic(topics, t, final) /\ next_lease_id' = top
        \/ topics' = PutTopic(topics, t, Reclaim(acked)) /\ next_lease_id' = top
    BY <1>5, Zenon DEF Poll, PollAuto, PollRefused, PollGranted, Swept, PollChoice, Granted
  <2> HIDE DEF swept, final, top, lease
  <2>6. TopicInv(Reclaim(acked), top)
    <3>1. TopicInv(acked, top) BY <2>4, AckGroupInv, Zenon
    <3> HIDE DEF acked
    <3> QED BY <3>1, ReclaimInv
  <2> HIDE DEF acked
  <2>7. /\ TopicsInv(PutTopic(topics, t, swept), lease)
        /\ TopicsInv(PutTopic(topics, t, Reclaim(swept)), lease)
    BY <1>0, <2>3, PutTopicInv
  <2>8. /\ TopicsInv(PutTopic(topics, t, final), top)
        /\ TopicsInv(PutTopic(topics, t, Reclaim(acked)), top)
    BY <1>0, <2>4, <2>6, PutTopicInv, SMTT(60)
  <2> QED BY <1>0, <2>4, <2>5, <2>7, <2>8, SMTT(60) DEF IInv
<1>6. ASSUME NEW t \in Topic, NEW n \in Group, NEW ids,
             AckMany(t, n, ids) \/ NackMany(t, n, ids)
      PROVE  IInv'
  <2> DEFINE s  == topics[t]
             sa == IF n \in DOMAIN s.groups
                   THEN [s EXCEPT !.groups[n] = AckLeases(s.groups[n], ids)] ELSE s
             sn == IF n \in DOMAIN s.groups
                   THEN [s EXCEPT !.groups[n] = NackLeases(s.groups[n], ids)] ELSE s
  <2>1. TopicInv(s, lease) BY <1>0, <1>6 DEF AckMany, NackMany
  <2>2. \/ topics' = PutTopic(topics, t, Reclaim(sa))
        \/ topics' = PutTopic(topics, t, sn)
    BY <1>6 DEF AckMany, NackMany, WithGroup
  <2>3. next_lease_id' = lease BY <1>6 DEF AckMany, NackMany
  <2> HIDE DEF s
  <2>4. TopicInv(sa, lease) /\ TopicInv(sn, lease) BY <1>0, <2>1, AckGroupInv
  <2> HIDE DEF sa, sn
  <2>5. TopicInv(Reclaim(sa), lease) BY <2>4, ReclaimInv
  <2>6. /\ TopicsInv(PutTopic(topics, t, Reclaim(sa)), lease)
        /\ TopicsInv(PutTopic(topics, t, sn), lease)
    BY <1>0, <2>4, <2>5, PutTopicInv, SMTT(60)
  <2> QED BY <1>0, <2>2, <2>3, <2>6, SMTT(60) DEF IInv
<1>7. ASSUME NEW t \in Topic, NEW n \in Group, NEW o \in CommitPoint, CommitOffset(t, n, o)
      PROVE  IInv'
  <2>1. TopicInv(topics[t], lease) /\ o \in Nat /\ 0 \in Nat
    BY <1>0, <1>7, RequestConstants, SMTT(60) DEF CommitOffset
  <2>2. TopicInv(Reclaim(CommitGroup(topics[t], n, o, 0)), lease)
    BY <1>0, <2>1, CommitGroupInv, ReclaimInv, SMTT(60)
  <2>3. TopicsInv(PutTopic(topics, t, Reclaim(CommitGroup(topics[t], n, o, 0))), lease)
    BY <1>0, <2>2, PutTopicInv
  <2> QED BY <1>0, <1>7, <2>3 DEF CommitOffset, IInv
<1>8. ASSUME NEW t \in Topic, NEW n \in Group, NEW o \in CommitPoint, NEW now \in Time,
             CommitOffsetAt(t, n, o, now)
      PROVE  IInv'
  <2> DEFINE swept == SweepIdleGroups(topics[t], now)
             r     == Reclaim(CommitGroup(swept, n, o, now))
  <2>1. TopicInv(topics[t], lease) /\ o \in Nat /\ now \in Nat
    BY <1>0, <1>8, RequestConstants, SMTT(60) DEF CommitOffsetAt
  <2>2. TopicInv(swept, lease) BY <2>1, SweepIdleGroupsInv
  <2>3. topics' = PutTopic(topics, t, r) /\ next_lease_id' = lease
    BY <1>8 DEF CommitOffsetAt
  <2>4. TopicInv(r, lease)
    <3> HIDE DEF swept
    <3>1. TopicInv(CommitGroup(swept, n, o, now), lease) BY <1>0, <2>1, <2>2, CommitGroupInv, SMTT(60)
    <3> QED BY <3>1, ReclaimInv
  <2> HIDE DEF r
  <2>5. TopicsInv(PutTopic(topics, t, r), lease) BY <1>0, <2>4, PutTopicInv
  <2> QED BY <1>0, <2>3, <2>5 DEF IInv
<1>9. ASSUME NEW t \in Topic, NEW r \in RateConfig, SetRateLimit(t, r) PROVE IInv'
  <2>1. TopicInv(TopicIn(topics, t), lease) /\ r \in Nat
    BY <1>0, TopicInInv, RequestConstants, SMTT(60)
  <2>2. TopicInv([TopicIn(topics, t) EXCEPT !.rate = r], lease) BY <2>1, ConfigureInv, Zenon
  <2>3. TopicsInv(PutTopic(topics, t, [TopicIn(topics, t) EXCEPT !.rate = r]), lease)
    BY <1>0, <2>2, PutTopicInv
  <2> QED BY <1>0, <1>9, <2>3 DEF SetRateLimit, IInv
<1>10. ASSUME NEW t \in Topic, NEW c \in RetentionCount, NEW a \in RetentionAge,
              SetRetention(t, c, a)
       PROVE  IInv'
  <2> DEFINE s == [TopicIn(topics, t) EXCEPT !.retain_max_messages = c, !.retain_max_age_ms = a]
  <2>1. TopicInv(TopicIn(topics, t), lease) /\ c \in Nat /\ a \in Nat
    BY <1>0, TopicInInv, RequestConstants, SMTT(60)
  <2>2. TopicInv(s, lease) BY <2>1, ConfigureInv, Zenon
  <2>3. topics' = PutTopic(topics, t, s) /\ next_lease_id' = lease
    BY <1>10 DEF SetRetention
  <2> HIDE DEF s
  <2>4. TopicsInv(PutTopic(topics, t, s), lease) BY <1>0, <2>2, PutTopicInv
  <2> QED BY <1>0, <2>3, <2>4 DEF IInv
<1>11. CASE UNCHANGED vars
  BY <1>11 DEF vars, IInv, TopicsInv
<1> QED BY <1>1, <1>2, <1>3, <1>4, <1>5, <1>6, <1>7, <1>8, <1>9, <1>10, <1>11, SMTT(60) DEF Next

-----------------------------------------------------------------------------
\* The inductive invariant says what the model-checked ones say.
LEMMA InvImplies == IInv => TypeOK /\ Validate /\ AckedNotLeased
BY DEF IInv, TopicsInv, TopicInv, GroupInv, TypeOK, Validate, ValidTopic, AckedNotLeased

\* Every reachable queue has the types queue.rs declares.
THEOREM TypeCorrect == Spec => []TypeOK
<1>1. IInv => TypeOK BY InvImplies, SMTT(60)
<1> QED BY InitInv, NextInv, <1>1, PTL DEF Spec

\* Every reachable queue passes Queue::validate, so no node ever writes a
\* snapshot that it, or a follower, would refuse to decode.
THEOREM SnapshotsValidate == Spec => []Validate
<1>1. IInv => Validate BY InvImplies, SMTT(60)
<1> QED BY InitInv, NextInv, <1>1, PTL DEF Spec

\* No offset a group acked is ever leased to one of its members again.
THEOREM AckedStaysReleased == Spec => []AckedNotLeased
<1>1. IInv => AckedNotLeased BY InvImplies
<1> QED BY InitInv, NextInv, <1>1, PTL DEF Spec
=============================================================================
