--------------------------- MODULE SnapshotProofs ---------------------------
(***************************************************************************)
(* Reading a snapshot back, for any number of topics, groups and messages: *)
(* a snapshot of the current format restores the queue it was taken of,    *)
(* and one of a release before 0.8 is accepted, keeps its groups through   *)
(* the first sweep, and puts a group parked past the end where the next    *)
(* message produced reaches it.  All of it follows from the inductive      *)
(* invariant of QueueProofs.                                               *)
(***************************************************************************)
EXTENDS QueueSnapshot, QueueProofs

\* normalize changes nothing in a topic the queue can be in.
LEMMA NormalizeKeeps ==
  ASSUME NEW t, NEW lease, TopicInv(t, lease)
  PROVE  Normalize(t) = t
<1> DEFINE G == [n \in DOMAIN t.groups |-> ClampWatermark(t.groups[n], t.next_offset)]
<1>1. ASSUME NEW n \in DOMAIN t.groups
      PROVE  ClampWatermark(t.groups[n], t.next_offset) = t.groups[n]
  <2>1. GroupType(t.groups[n]) /\ t.groups[n].ack_watermark <= t.next_offset
    BY DEF TopicInv, GroupInv, ValidGroup
  <2>2. t.groups[n].ack_watermark \in Nat /\ t.next_offset \in Nat
    BY <2>1 DEF TopicInv, TopicType, GroupType
  <2> QED BY <2>1, <2>2, SMTT(60) DEF GroupType, ClampWatermark, Smaller
<1>2. t.groups = [n \in DOMAIN t.groups |-> t.groups[n]]
  BY DEF TopicInv, TopicType
<1>3. G = t.groups
  BY <1>1, <1>2, Zenon
<1>4. Normalize(t) = [t EXCEPT !.groups = G]
  BY DEF Normalize
<1> HIDE DEF G
<1> QED BY <1>3, <1>4 DEF TopicInv, TopicType

\* What is written is read back.
LEMMA RoundTrip == IInv => SnapshotRoundTrip
<1> SUFFICES ASSUME IInv PROVE SnapshotRoundTrip OBVIOUS
<1> DEFINE bytes == EncodeState(topics, next_lease_id)
<1>1. bytes.topics = topics /\ bytes.next_lease_id = next_lease_id /\ Body(bytes) = topics
  BY DEF EncodeState, Body
<1>2. \A t \in DOMAIN topics : TopicInv(topics[t], next_lease_id)
  BY DEF IInv, TopicsInv
<1>3. Decoded(bytes) = [t \in DOMAIN topics |-> Normalize(topics[t])]
  BY <1>1 DEF Decoded
<1>4. \A t \in DOMAIN topics : Normalize(topics[t]) = topics[t]
  BY <1>2, NormalizeKeeps
<1>5. topics = [t \in DOMAIN topics |-> topics[t]]
  BY DEF IInv, TopicsInv
<1>6. Decoded(bytes) = topics
  BY <1>3, <1>4, <1>5, Zenon
<1>7. Validate BY InvImplies
<1>8. Accepted(bytes) BY <1>1, <1>6, <1>7 DEF Accepted, Validate
<1> QED BY <1>6, <1>8 DEF SnapshotRoundTrip

\* A replica that starts from a snapshot holds the state of the replica that
\* wrote it: nothing between the bytes and the queue alters a reachable state.
THEOREM SnapshotsRestore == Spec => []SnapshotRoundTrip
BY InitInv, NextInv, RoundTrip, PTL DEF Spec
-----------------------------------------------------------------------------
\* A parked group as it comes out of an old snapshot of a topic that ends at
\* next, and any other group.
Unparked(g, next) ==
    [ack_watermark |-> next, acked_above |-> {}, in_flight |-> Empty,
     leased_offsets |-> Empty, poll_count |-> g.poll_count, last_active_ms |-> 0]

Unstamped(g) ==
    [ack_watermark |-> g.ack_watermark, acked_above |-> g.acked_above,
     in_flight |-> g.in_flight, leased_offsets |-> g.leased_offsets,
     poll_count |-> g.poll_count, last_active_ms |-> 0]

\* The topic as it comes out of an old snapshot.
OldTopic(t, parked) ==
    [t EXCEPT !.groups =
        [n \in DOMAIN t.groups |->
            IF n \in parked THEN Unparked(t.groups[n], t.next_offset)
            ELSE Unstamped(t.groups[n])]]

\* The fields of such a topic, group by group.
LEMMA OldTopicFields ==
  ASSUME NEW t, NEW lease, TopicInv(t, lease), NEW parked
  PROVE  LET u == OldTopic(t, parked)
         IN  /\ DOMAIN u.groups = DOMAIN t.groups /\ u.next_offset = t.next_offset
             /\ \A n \in DOMAIN t.groups :
                   /\ n \in parked => u.groups[n] = Unparked(t.groups[n], t.next_offset)
                   /\ n \notin parked => u.groups[n] = Unstamped(t.groups[n])
<1> DEFINE E == [n \in DOMAIN t.groups |->
                    IF n \in parked THEN Unparked(t.groups[n], t.next_offset)
                    ELSE Unstamped(t.groups[n])]
           u == OldTopic(t, parked)
<1>1. u = [t EXCEPT !.groups = E] BY DEF OldTopic
<1>2. \A n \in DOMAIN t.groups :
        /\ n \in parked => E[n] = Unparked(t.groups[n], t.next_offset)
        /\ n \notin parked => E[n] = Unstamped(t.groups[n])
  OBVIOUS
<1>3. DOMAIN E = DOMAIN t.groups OBVIOUS
<1> HIDE DEF E, u
<1>4. u.groups = E /\ u.next_offset = t.next_offset
  BY <1>1 DEF TopicInv, TopicType
<1>5. /\ DOMAIN u.groups = DOMAIN t.groups /\ u.next_offset = t.next_offset
      /\ \A n \in DOMAIN t.groups :
            /\ n \in parked => u.groups[n] = Unparked(t.groups[n], t.next_offset)
            /\ n \notin parked => u.groups[n] = Unstamped(t.groups[n])
  BY <1>2, <1>3, <1>4
<1> QED BY <1>5 DEF u

\* Decoding a group of an old snapshot clamps a parked one and unstamps all.
LEMMA DecodeOldGroup ==
  ASSUME NEW g, NEW next \in Nat, NEW past \in Nat, GroupType(g), g.ack_watermark <= next
  PROVE  /\ ClampWatermark(FromV0(ParkedV0(g, next + past)), next) = Unparked(g, next)
         /\ ClampWatermark(FromV0(GroupV0(g)), next) = Unstamped(g)
<1>1. Smaller(next + past, next) = next /\ Smaller(g.ack_watermark, next) = g.ack_watermark
  BY DEF GroupType, Smaller
<1>2. FromV0(ParkedV0(g, next + past)) =
        [ack_watermark |-> next + past, acked_above |-> {}, in_flight |-> Empty,
         leased_offsets |-> Empty, poll_count |-> g.poll_count, last_active_ms |-> 0]
  BY DEF FromV0, ParkedV0, GroupV0
<1>3. ClampWatermark(FromV0(ParkedV0(g, next + past)), next) = Unparked(g, next)
  BY <1>1, <1>2 DEF ClampWatermark, Unparked
<1>4. ClampWatermark(FromV0(GroupV0(g)), next) = Unstamped(g)
  BY <1>1 DEF ClampWatermark, FromV0, GroupV0, Unstamped
<1> QED BY <1>3, <1>4

\* Decoding a topic of an old snapshot does that to each of its groups.
LEMMA DecodeOldTopic ==
  ASSUME NEW t, NEW lease, TopicInv(t, lease), NEW parked, NEW past \in Nat
  PROVE  Normalize(TopicFromV0(TopicV0(t, parked, past))) = OldTopic(t, parked)
<1> DEFINE next == t.next_offset
           A == [n \in DOMAIN t.groups |->
                    IF n \in parked THEN ParkedV0(t.groups[n], next + past)
                    ELSE GroupV0(t.groups[n])]
           B == [n \in DOMAIN t.groups |-> FromV0(A[n])]
           D == [n \in DOMAIN t.groups |-> ClampWatermark(B[n], next)]
           E == [n \in DOMAIN t.groups |->
                    IF n \in parked THEN Unparked(t.groups[n], next)
                    ELSE Unstamped(t.groups[n])]
<1>1. t = [next_offset |-> t.next_offset, messages |-> t.messages, dedup |-> t.dedup,
           dedup_order |-> t.dedup_order, groups |-> t.groups, rate |-> t.rate,
           retain_max_messages |-> t.retain_max_messages,
           retain_max_age_ms |-> t.retain_max_age_ms]
      /\ next \in Nat
  BY DEF TopicInv, TopicType
<1>2. ASSUME NEW n \in DOMAIN t.groups
      PROVE  ClampWatermark(FromV0(A[n]), next) = E[n]
  <2>1. GroupType(t.groups[n]) /\ t.groups[n].ack_watermark <= next
    BY DEF TopicInv, GroupInv, ValidGroup
  <2>2. CASE n \in parked
    BY <1>1, <2>1, <2>2, DecodeOldGroup, SMTT(60)
  <2>3. CASE n \notin parked
    BY <1>1, <2>1, <2>3, DecodeOldGroup
  <2> QED BY <2>2, <2>3, SMTT(60)
<1>3. D = E BY <1>2, Zenon
<1>4. TopicV0(t, parked, past) = [t EXCEPT !.groups = A] BY DEF TopicV0
<1>5. DOMAIN A = DOMAIN t.groups /\ DOMAIN B = DOMAIN t.groups OBVIOUS
<1> HIDE DEF A
<1>6. TopicFromV0([t EXCEPT !.groups = A]) = [t EXCEPT !.groups = B]
  BY <1>1, <1>5, Zenon DEF TopicFromV0
<1> HIDE DEF B
<1>7. Normalize([t EXCEPT !.groups = B]) = [t EXCEPT !.groups = D]
  BY <1>1, <1>5, Zenon DEF Normalize
<1> QED BY <1>3, <1>4, <1>6, <1>7, Zenon DEF OldTopic

\* Neither kind of group breaks the group invariant.
LEMMA OldGroupInv ==
  ASSUME NEW g, NEW next \in Nat, NEW lease, GroupInv(g, next, lease)
  PROVE  GroupInv(Unparked(g, next), next, lease) /\ GroupInv(Unstamped(g), next, lease)
<1> DEFINE h == Unparked(g, next)
           k == Unstamped(g)
<1>1. /\ h.ack_watermark = next /\ h.acked_above = {} /\ h.in_flight = Empty
      /\ h.leased_offsets = Empty /\ h.poll_count = g.poll_count /\ h.last_active_ms = 0
      /\ h = [ack_watermark |-> h.ack_watermark, acked_above |-> h.acked_above,
              in_flight |-> h.in_flight, leased_offsets |-> h.leased_offsets,
              poll_count |-> h.poll_count, last_active_ms |-> h.last_active_ms]
  BY DEF Unparked
<1>2. /\ k.ack_watermark = g.ack_watermark /\ k.acked_above = g.acked_above
      /\ k.in_flight = g.in_flight /\ k.leased_offsets = g.leased_offsets
      /\ k.poll_count = g.poll_count /\ k.last_active_ms = 0
      /\ k = [ack_watermark |-> k.ack_watermark, acked_above |-> k.acked_above,
              in_flight |-> k.in_flight, leased_offsets |-> k.leased_offsets,
              poll_count |-> k.poll_count, last_active_ms |-> k.last_active_ms]
  BY DEF Unstamped
<1> HIDE DEF h, k
<1>3. GroupInv(h, next, lease)
  BY <1>1, QueueConstants DEF Empty, GroupInv, GroupType, ValidGroup
<1>4. GroupInv(k, next, lease)
  BY <1>2 DEF GroupInv, GroupType, ValidGroup
<1> QED BY <1>3, <1>4 DEF h, k

\* A topic of an old snapshot passes validate().
LEMMA OldTopicInv ==
  ASSUME NEW t, NEW lease, TopicInv(t, lease), NEW parked
  PROVE  TopicInv(OldTopic(t, parked), lease)
<1> DEFINE next == t.next_offset
           E == [n \in DOMAIN t.groups |->
                    IF n \in parked THEN Unparked(t.groups[n], next)
                    ELSE Unstamped(t.groups[n])]
<1>1. TopicType(t) /\ next \in Nat BY DEF TopicInv, TopicType
<1>2. ASSUME NEW n \in DOMAIN t.groups PROVE GroupInv(E[n], next, lease)
  <2>1. GroupInv(t.groups[n], next, lease) BY DEF TopicInv
  <2>2. CASE n \in parked
    <3>1. E[n] = Unparked(t.groups[n], next) BY <2>2
    <3>2. GroupInv(Unparked(t.groups[n], next), next, lease)
      BY <1>1, <2>1, OldGroupInv
    <3> QED BY <3>1, <3>2
  <2>3. CASE n \notin parked
    <3>1. E[n] = Unstamped(t.groups[n]) BY <2>3
    <3>2. GroupInv(Unstamped(t.groups[n]), next, lease)
      BY <1>1, <2>1, OldGroupInv
    <3> QED BY <3>1, <3>2
  <2> QED BY <2>2, <2>3
<1>3. OldTopic(t, parked) = [t EXCEPT !.groups = E] BY DEF OldTopic
<1>4. DOMAIN E = DOMAIN t.groups /\ E = [n \in DOMAIN E |-> E[n]] OBVIOUS
<1> HIDE DEF E
<1>5. TopicInv([t EXCEPT !.groups = E], lease)
  BY <1>1, <1>2, <1>4 DEF TopicInv, TopicType, ValidDedup, GroupInv
<1> QED BY <1>3, <1>5

\* The message just stored survives its own retention pass, under any limits.
LEMMA NewestIsKept ==
  ASSUME NEW s, NEW lease, TopicInv(s, lease), NEW o \in DOMAIN s.messages,
         \A p \in DOMAIN s.messages : p <= o
  PROVE  o \notin Aged(s, s.messages[o].ts_ms) \cup Excess(s, s.messages[o].ts_ms)
<1> DEFINE now  == s.messages[o].ts_ms
           rest == DOMAIN s.messages \ Aged(s, now)
<1>1. /\ DOMAIN s.messages \subseteq Nat /\ now \in Nat
      /\ s.retain_max_age_ms \in Nat /\ RetainMessages(s) \in Nat
  BY QueueConstants DEF TopicInv, TopicType, MessageType, RetainMessages
<1>2. Monus(now, now) = 0 BY <1>1 DEF Monus
<1>3. o \notin Aged(s, now)
  BY <1>1, <1>2 DEF Aged
<1>4. {p \in rest : p >= o} = {o}
  BY <1>1, <1>3
<1>5. Cardinality({p \in rest : p >= o}) = 1
  BY <1>4, FS_Singleton, Zenon
<1>6. o \notin Excess(s, now)
  BY <1>1, <1>5 DEF Excess
<1> QED BY <1>3, <1>6

\* A group at the end of its topic has nothing acked and nothing leased ahead.
LEMMA NothingAhead ==
  ASSUME NEW g, NEW o \in Nat, NEW lease, GroupInv(g, o, lease), g.ack_watermark = o
  PROVE  g.acked_above = {} /\ DOMAIN g.leased_offsets = {}
<1>1. \A x \in g.acked_above : x \in Nat /\ o < x /\ x < o
  BY DEF GroupInv, GroupType, ValidGroup
<1>2. \A l \in DOMAIN g.in_flight : g.in_flight[l].offset \in Nat /\ g.in_flight[l].offset < o
  <2>1. g.in_flight \in [DOMAIN g.in_flight -> [offset : Nat, deadline_ms : Nat]]
    BY DEF GroupInv, GroupType
  <2>2. \A l \in DOMAIN g.in_flight : g.in_flight[l].offset < o BY DEF GroupInv, ValidGroup
  <2> QED BY <2>1, <2>2
<1>3. DOMAIN g.leased_offsets = {g.in_flight[l].offset : l \in DOMAIN g.in_flight}
  BY Zenon DEF GroupInv, ValidGroup
<1>4. \A x \in DOMAIN g.leased_offsets : x >= o BY DEF GroupInv, ValidGroup
<1>5. g.acked_above = {} BY <1>1
<1>6. DOMAIN g.leased_offsets = {}
  <2>1. ASSUME NEW x \in DOMAIN g.leased_offsets PROVE FALSE
    <3>1. PICK l \in DOMAIN g.in_flight : x = g.in_flight[l].offset BY <1>3, Zenon
    <3>2. x \in Nat /\ x < o BY <1>2, <3>1, Zenon
    <3>3. x >= o BY <1>4, Zenon
    <3> QED BY <3>2, <3>3
  <2> QED BY <2>1, Zenon
<1> QED BY <1>5, <1>6

\* A group at the end of its topic is handed the next message produced.
LEMMA NextMessageReaches ==
  ASSUME NEW t, NEW lease \in Nat, TopicInv(t, lease), NEW item \in Item, item.key = NoKey,
         NEW n \in DOMAIN t.groups, t.groups[n].ack_watermark = t.next_offset
  PROVE  HasDeliverable(ProduceOne(t, item), n, item.ts_ms)
<1> DEFINE o     == t.next_offset
           s     == StoreMessage(t, item)
           purge == Aged(s, item.ts_ms) \cup Excess(s, item.ts_ms)
           kept  == [s EXCEPT !.messages = Without(s.messages, purge)]
           b     == FirstOffset(kept)
           moved == [kept EXCEPT !.groups = [m \in DOMAIN kept.groups |-> SkipTo(kept.groups[m], b)]]
           g     == t.groups[n]
           r     == ProduceOne(t, item)
<1>1. item.priority \in Nat /\ item.ts_ms \in Nat /\ item.key \in Key \cup {NoKey}
  BY RequestConstants, Zenon DEF Item
<1>2. TopicInv(s, lease) BY <1>1, StoreMessageInv
<1>3. o \in Nat /\ \A p \in DOMAIN t.messages : p \in Nat /\ p < o
  BY DEF TopicInv, TopicType
<1>4. GroupInv(g, o, lease) BY DEF TopicInv
<1>5. g.acked_above = {} /\ DOMAIN g.leased_offsets = {} BY <1>3, <1>4, NothingAhead
<1>6. /\ o \in DOMAIN s.messages /\ s.messages[o].ts_ms = item.ts_ms
      /\ \A p \in DOMAIN s.messages : p <= o
      /\ s.groups = t.groups
  BY <1>3 DEF StoreMessage, TopicInv, TopicType
<1>7. r = PurgeRetained(s, item.ts_ms)
  <2>1. NoKey \notin DOMAIN t.dedup
    BY QueueConstants DEF TopicInv, TopicType, ValidDedup
  <2>2. AppendMessage(t, item) = s BY DEF AppendMessage, RememberKey
  <2> QED BY <2>1, <2>2 DEF ProduceOne
<1>8. o \notin purge
  BY <1>2, <1>6, NewestIsKept
<1>9. r = IF purge = {} THEN s ELSE PruneDedup(moved, b)
  BY <1>7 DEF PurgeRetained
<1> HIDE DEF s, purge, r
<1>10. o \in DOMAIN r.messages /\ n \in DOMAIN r.groups /\ r.groups[n] = g
  <2>1. CASE purge = {}
    BY <1>6, <1>9, <2>1
  <2>2. CASE purge # {}
    <3> DEFINE S == DOMAIN s.messages \ purge
    <3>1. /\ kept = [s EXCEPT !.messages = Restrict(s.messages, S)]
          /\ S \in SUBSET DOMAIN s.messages /\ o \in S
      BY <1>6, <1>8 DEF Without
    <3>2. TopicInv(kept, lease) /\ DOMAIN kept.messages = S /\ kept.groups = t.groups
      <4> DEFINE k == [s EXCEPT !.messages = Restrict(s.messages, S)]
      <4>1. S \in SUBSET DOMAIN s.messages BY <3>1
      <4> HIDE DEF S
      <4>2. TopicInv(k, lease) /\ DOMAIN k.messages = S /\ k.groups = s.groups
        BY <1>2, <4>1, RestrictMessagesInv
      <4> HIDE DEF k
      <4>3. kept = k BY <3>1 DEF k
      <4> HIDE DEF kept
      <4> QED BY <1>6, <4>2, <4>3
    <3> HIDE DEF kept
    <3>3. b \in Nat /\ b <= o
      <4>1. DOMAIN kept.messages \subseteq Nat BY <3>2 DEF TopicInv, TopicType
      <4>2. b = Least(DOMAIN kept.messages) BY <3>1, <3>2, Zenon DEF FirstOffset
      <4> QED BY <3>1, <3>2, <4>1, <4>2, LeastProperty, ZenonT(60)
    <3> HIDE DEF b, S
    <3>4. SkipTo(g, b) = g BY <1>3, <3>3 DEF SkipTo
    <3>5. moved.messages = kept.messages /\ n \in DOMAIN moved.groups /\ moved.groups[n] = g
      BY <3>2, <3>4 DEF TopicInv, TopicType
    <3> HIDE DEF moved
    <3>6. r.messages = moved.messages /\ r.groups = moved.groups
      BY <1>9, <2>2 DEF PruneDedup, PopKeys
    <3> QED BY <3>1, <3>2, <3>5, <3>6
  <2> QED BY <2>1, <2>2
<1>11. o >= r.groups[n].ack_watermark /\ o \notin r.groups[n].acked_above
       /\ o \notin DOMAIN r.groups[n].leased_offsets
  <2>1. g.ack_watermark = o OBVIOUS
  <2> HIDE DEF g, o
  <2> QED BY <1>3, <1>5, <1>10, <2>1
<1>12. HasDeliverable(r, n, item.ts_ms)
  BY <1>10, <1>11, Zenon DEF HasDeliverable
<1> QED BY <1>12 DEF r

\* Every group of an old snapshot is active at the first sweep after it.
LEMMA OldGroupsStay ==
  ASSUME NEW t, NEW lease, TopicInv(t, lease), NEW parked, NEW now \in Nat
  PROVE  DOMAIN SweepIdleGroups(OldTopic(t, parked), now).groups = DOMAIN t.groups
<1> DEFINE u       == OldTopic(t, parked)
           stamped == [n \in DOMAIN u.groups |-> Stamp(u.groups[n], now)]
           active  == {n \in DOMAIN stamped : StaysActive(stamped[n], now)}
           swept   == [u EXCEPT !.groups = Restrict(stamped, active)]
<1>1. TopicInv(u, lease) BY OldTopicInv
<1>2. DOMAIN u.groups = DOMAIN t.groups /\ \A n \in DOMAIN u.groups : u.groups[n].last_active_ms = 0
  BY DEF OldTopic, Unparked, Unstamped, TopicInv, TopicType
<1> HIDE DEF u
<1>3. ASSUME NEW n \in DOMAIN u.groups PROVE StaysActive(Stamp(u.groups[n], now), now)
  <2>1. GroupType(u.groups[n]) BY <1>1 DEF TopicInv, GroupInv
  <2>2. Stamp(u.groups[n], now).last_active_ms = now
    BY <1>2, <2>1 DEF Stamp, GroupType
  <2>3. Monus(now, now) <= IdleExpire BY QueueConstants DEF Monus
  <2> QED BY <2>2, <2>3 DEF StaysActive
<1>4. active = DOMAIN stamped /\ DOMAIN stamped = DOMAIN u.groups BY <1>3
<1>5. SweepIdleGroups(u, now) = swept
  BY <1>4 DEF SweepIdleGroups
<1>6. Restrict(stamped, active) = [n \in DOMAIN stamped \cap active |-> stamped[n]]
  BY DEF Restrict
<1>7. DOMAIN Restrict(stamped, active) = DOMAIN u.groups
  <2> HIDE DEF stamped, active
  <2> QED BY <1>4, <1>6
<1>8. swept.groups = Restrict(stamped, active)
  <2> HIDE DEF stamped, active
  <2> QED BY <1>1 DEF TopicInv, TopicType
<1> HIDE DEF swept, stamped, active
<1> QED BY <1>2, <1>5, <1>7, <1>8 DEF u

-----------------------------------------------------------------------------
\* What an old snapshot decodes to.
LEMMA DecodeOld ==
  ASSUME IInv, NEW parked, NEW past \in Nat
  PROVE  LET bytes == EncodeV0(topics, next_lease_id, parked, past)
         IN  /\ DOMAIN bytes.topics = DOMAIN topics /\ bytes.next_lease_id = next_lease_id
             /\ \A t \in DOMAIN topics : Decoded(bytes)[t] = OldTopic(topics[t], parked)
<1> DEFINE bytes == EncodeV0(topics, next_lease_id, parked, past)
           V     == [t \in DOMAIN topics |-> TopicV0(topics[t], parked, past)]
<1>1. bytes.format = "v0" /\ bytes.topics = V /\ bytes.next_lease_id = next_lease_id
  BY DEF EncodeV0
<1>2. Body(bytes) = [t \in DOMAIN V |-> TopicFromV0(V[t])]
  BY <1>1 DEF Body, QueueFromV0
<1>3. Decoded(bytes) = [t \in DOMAIN V |-> Normalize(Body(bytes)[t])]
  BY <1>1 DEF Decoded
<1>4. ASSUME NEW t \in DOMAIN topics PROVE Decoded(bytes)[t] = OldTopic(topics[t], parked)
  <2>1. TopicInv(topics[t], next_lease_id) BY DEF IInv, TopicsInv
  <2>2. Decoded(bytes)[t] = Normalize(TopicFromV0(TopicV0(topics[t], parked, past)))
    BY <1>2, <1>3
  <2> QED BY <2>1, <2>2, DecodeOldTopic
<1> QED BY <1>1, <1>4

\* Old snapshots load, and their groups go on.
LEMMA OldSnapshots == IInv => OldSnapshotLoads /\ UpgradeExpiresNobody
<1> SUFFICES ASSUME IInv PROVE OldSnapshotLoads /\ UpgradeExpiresNobody OBVIOUS
<1>1. next_lease_id \in Nat /\ \A t \in DOMAIN topics : TopicInv(topics[t], next_lease_id)
  BY DEF IInv, TopicsInv
<1>2. OldSnapshotLoads
  <2> SUFFICES ASSUME NEW parked \in SUBSET Group
               PROVE  LET bytes == EncodeV0(topics, next_lease_id, parked, 2)
                          old   == Decoded(bytes)
                      IN  /\ Accepted(bytes)
                          /\ \A t \in DOMAIN topics : \A n \in DOMAIN topics[t].groups :
                                IF n \in parked
                                THEN \A item \in Item : item.key = NoKey =>
                                        HasDeliverable(ProduceOne(old[t], item), n, item.ts_ms)
                                ELSE GroupV0(old[t].groups[n]) = GroupV0(topics[t].groups[n])
    BY Zenon DEF OldSnapshotLoads
  <2> DEFINE bytes == EncodeV0(topics, next_lease_id, parked, 2)
             old   == Decoded(bytes)
  <2>1. /\ DOMAIN bytes.topics = DOMAIN topics /\ bytes.next_lease_id = next_lease_id
        /\ \A t \in DOMAIN topics : old[t] = OldTopic(topics[t], parked)
    BY DecodeOld
  <2> HIDE DEF bytes
  <2>2. \A t \in DOMAIN topics : TopicInv(old[t], next_lease_id)
    BY <1>1, <2>1, OldTopicInv
  <2>3. Accepted(bytes)
    BY <2>1, <2>2 DEF Accepted, TopicInv, ValidTopic, GroupInv
  <2>4. ASSUME NEW t \in DOMAIN topics, NEW n \in DOMAIN topics[t].groups
        PROVE  /\ n \in DOMAIN old[t].groups /\ old[t].next_offset = topics[t].next_offset
               /\ n \in parked => old[t].groups[n] =
                                     Unparked(topics[t].groups[n], topics[t].next_offset)
               /\ n \notin parked => old[t].groups[n] = Unstamped(topics[t].groups[n])
    <3>1. old[t] = OldTopic(topics[t], parked) BY <2>1
    <3> HIDE DEF old
    <3> QED BY <1>1, <3>1, OldTopicFields
  <2> HIDE DEF old
  <2>5. ASSUME NEW t \in DOMAIN topics, NEW n \in DOMAIN topics[t].groups, n \in parked,
               NEW item \in Item, item.key = NoKey
        PROVE  HasDeliverable(ProduceOne(old[t], item), n, item.ts_ms)
    <3>1. old[t].groups[n].ack_watermark = old[t].next_offset
      <4>1. old[t].groups[n] = Unparked(topics[t].groups[n], topics[t].next_offset)
        BY <2>4, <2>5
      <4> QED BY <2>4, <4>1 DEF Unparked
    <3> QED BY <1>1, <2>2, <2>4, <2>5, <3>1, NextMessageReaches, SMTT(60)
  <2>6. ASSUME NEW t \in DOMAIN topics, NEW n \in DOMAIN topics[t].groups, n \notin parked
        PROVE  GroupV0(old[t].groups[n]) = GroupV0(topics[t].groups[n])
    <3>1. old[t].groups[n] = Unstamped(topics[t].groups[n]) BY <2>4, <2>6
    <3> QED BY <3>1 DEF GroupV0, Unstamped
  <2> QED BY <2>3, <2>5, <2>6, Zenon DEF old, bytes
<1>3. UpgradeExpiresNobody
  <2> SUFFICES ASSUME NEW parked \in SUBSET Group, NEW now \in Time, NEW t \in DOMAIN topics
               PROVE  LET old == Decoded(EncodeV0(topics, next_lease_id, parked, 1))
                      IN  DOMAIN SweepIdleGroups(old[t], now).groups = DOMAIN topics[t].groups
    BY Zenon DEF UpgradeExpiresNobody
  <2>1. now \in Nat BY RequestConstants
  <2>2. Decoded(EncodeV0(topics, next_lease_id, parked, 1))[t] = OldTopic(topics[t], parked)
    BY DecodeOld
  <2> QED BY <1>1, <2>1, <2>2, OldGroupsStay
<1> QED BY <1>2, <1>3

\* A snapshot of a release before 0.8 is accepted, whatever groups it left
\* parked past the end of their topics, and the parked ones are handed the next
\* message produced.
THEOREM OldSnapshotsLoad == Spec => []OldSnapshotLoads
<1>1. IInv => OldSnapshotLoads BY OldSnapshots, Zenon
<1> QED BY InitInv, NextInv, <1>1, PTL DEF Spec

\* The first sweep after an upgrade drops none of the groups, which come out of
\* the old snapshot without a stamp.
THEOREM UpgradesExpireNobody == Spec => []UpgradeExpiresNobody
<1>1. IInv => UpgradeExpiresNobody BY OldSnapshots, Zenon
<1> QED BY InitInv, NextInv, <1>1, PTL DEF Spec
=============================================================================
