----------------------------- MODULE QueueState -----------------------------
(***************************************************************************)
(* The replicated queue's data and the functions queue.rs applies to it:   *)
(* a consumer group (GroupState), a topic (TopicState) and the helpers     *)
(* that poll, ack, nack, commit and produce_one are made of.  Everything   *)
(* here is a pure operator on one group or one topic; module Queue turns   *)
(* them into actions.                                                      *)
(*                                                                         *)
(* BTreeMaps are functions with a finite domain, BTreeSets are sets and    *)
(* the dedup VecDeque is a sequence.  A (producer_id, seq) pair is one     *)
(* element of Key, and NoKey stands for the empty producer id, which opts  *)
(* out of deduplication.                                                   *)
(***************************************************************************)
EXTENDS Integers, Sequences, FiniteSets, Functions

CONSTANTS Group,            \* consumer-group names
          Key,              \* (producer_id, seq) pairs
          NoKey,            \* the empty producer id
          DedupCapacity,    \* DEDUP_CAPACITY
          ReservedDen,      \* RESERVED_DEN
          DefaultRetain,    \* DEFAULT_RETAIN_MAX_MESSAGES
          GcThreshold,      \* GROUP_GC_THRESHOLD
          IdleExpire,       \* GROUP_IDLE_EXPIRE_MS
          MaxGroups,        \* MAX_GROUPS_PER_TOPIC
          MaxVisibility     \* MAX_VISIBILITY_MS

ASSUME QueueConstants ==
    /\ NoKey \notin Key
    /\ DedupCapacity \in Nat /\ ReservedDen \in Nat \ {0}
    /\ DefaultRetain \in Nat \ {0} /\ GcThreshold \in Nat
    /\ IdleExpire \in Nat /\ MaxGroups \in Nat /\ MaxVisibility \in Nat

\* The empty map.
Empty == [x \in {} |-> x]

\* BTreeMap::remove for a set of keys.
Without(f, S) == Restrict(f, DOMAIN f \ S)

\* u64::saturating_sub.
Monus(a, b) == IF a > b THEN a - b ELSE 0

Larger(a, b) == IF a > b THEN a ELSE b

Smaller(a, b) == IF a < b THEN a ELSE b

Least(S) == CHOOSE m \in S : \A k \in S : m <= k

(***************************************************************************)
(* GroupState                                                              *)
(***************************************************************************)
NewGroup(first, stamp) ==
    [ack_watermark |-> first, acked_above |-> {}, in_flight |-> Empty,
     leased_offsets |-> Empty, poll_count |-> 0, last_active_ms |-> stamp]

\* in_flight.remove(id) with the matching leased_offsets.remove(offset).
DropLeases(g, ids) ==
    [g EXCEPT !.in_flight = Without(@, ids),
              !.leased_offsets = Without(@, {g.in_flight[l].offset : l \in ids})]

\* `while acked_above.remove(watermark) { watermark += 1 }`: the watermark
\* stops at the least offset from it on that is not acked.
DrainAcked(g) ==
    LET w    == g.ack_watermark
        stop == Least({n \in {w} \cup {o + 1 : o \in g.acked_above} :
                          n >= w /\ n \notin g.acked_above})
    IN  [g EXCEPT !.ack_watermark = stop, !.acked_above = @ \ (w .. stop - 1)]

\* The body of ack for each lease of ids, mark_acked included.  Lease ids the
\* group does not hold are ignored.
AckLeases(g, ids) ==
    LET held  == ids \cap DOMAIN g.in_flight
        acked == {o \in {g.in_flight[l].offset : l \in held} : o >= g.ack_watermark}
    IN  IF held = {} THEN g
        ELSE DrainAcked([DropLeases(g, held) EXCEPT !.acked_above = @ \cup acked])

NackLeases(g, ids) == DropLeases(g, ids \cap DOMAIN g.in_flight)

ExpireKeepingOffsets(g, now) ==
    [g EXCEPT !.in_flight =
        Without(@, {l \in DOMAIN @ : @[l].deadline_ms <= now})]

Expire(g, now) ==
    DropLeases(g, {l \in DOMAIN g.in_flight : g.in_flight[l].deadline_ms <= now})

AdvanceWatermark(g, to) ==
    LET w     == Larger(to, g.ack_watermark)
        moved == [g EXCEPT !.ack_watermark = w,
                           !.acked_above = {o \in @ : o >= w}]
    IN  DrainAcked(DropLeases(moved,
            {l \in DOMAIN g.in_flight : g.in_flight[l].offset < w}))

(***************************************************************************)
(* TopicState                                                              *)
(***************************************************************************)
NewTopic ==
    [next_offset |-> 0, messages |-> Empty, dedup |-> Empty, dedup_order |-> <<>>,
     groups |-> Empty, rate |-> 0, retain_max_messages |-> 0, retain_max_age_ms |-> 0]

\* messages.keys().next().unwrap_or(next_offset)
FirstOffset(t) ==
    IF DOMAIN t.messages = {} THEN t.next_offset ELSE Least(DOMAIN t.messages)

\* A group that caught up with an empty topic and holds nothing.
Drained(t, g) ==
    /\ g.ack_watermark >= t.next_offset
    /\ DOMAIN g.in_flight = {}
    /\ DOMAIN g.leased_offsets = {}
    /\ g.acked_above = {}

GcIdleGroups(t) ==
    IF Cardinality(DOMAIN t.groups) <= GcThreshold \/ DOMAIN t.messages # {}
    THEN t
    ELSE [t EXCEPT !.groups =
             Restrict(@, {n \in DOMAIN @ : ~Drained(t, @[n])})]

ReclaimPastFastest(t) ==
    LET passed == {t.groups[n].ack_watermark : n \in DOMAIN t.groups}
    IN  GcIdleGroups([t EXCEPT !.messages =
            Restrict(@, {o \in DOMAIN @ : \A w \in passed : o >= w})])

\* Drop the messages every group is past, then collect idle groups.
Reclaim(t) ==
    LET boundary == Least({t.groups[n].ack_watermark : n \in DOMAIN t.groups})
    IN  GcIdleGroups(
            IF DOMAIN t.groups = {} THEN t
            ELSE [t EXCEPT !.messages =
                     Restrict(@, {o \in DOMAIN @ : o >= boundary})])

\* Stamp the unstamped groups, then drop the ones idle past the expiry that
\* hold no live lease.
Stamp(g, now) == IF g.last_active_ms = 0 THEN [g EXCEPT !.last_active_ms = now] ELSE g

StaysActive(g, now) ==
    \/ Monus(now, g.last_active_ms) <= IdleExpire
    \/ \E l \in DOMAIN g.in_flight : g.in_flight[l].deadline_ms > now

SweepIdleGroups(t, now) ==
    LET stamped == [n \in DOMAIN t.groups |-> Stamp(t.groups[n], now)]
        active  == {n \in DOMAIN stamped : StaysActive(stamped[n], now)}
        swept   == [t EXCEPT !.groups = Restrict(stamped, active)]
    IN  IF active = DOMAIN stamped THEN swept ELSE Reclaim(swept)

AdmitsGroup(t, n) ==
    n \in DOMAIN t.groups \/ Cardinality(DOMAIN t.groups) < MaxGroups

\* groups.entry(n).or_insert_with(...), when the topic admits the group.
GroupEntry(t, n, stamp) ==
    IF n \in DOMAIN t.groups THEN t
    ELSE [t EXCEPT !.groups =
             [m \in DOMAIN @ \cup {n} |->
                 IF m \in DOMAIN @ THEN @[m] ELSE NewGroup(FirstOffset(t), stamp)]]

(***************************************************************************)
(* Retention                                                               *)
(***************************************************************************)
RetainMessages(t) ==
    IF t.retain_max_messages = 0 /\ t.retain_max_age_ms = 0
    THEN DefaultRetain ELSE t.retain_max_messages

\* The prefix of the topic whose every message is older than the age limit.
Aged(t, now) ==
    {o \in DOMAIN t.messages :
        /\ t.retain_max_age_ms > 0
        /\ \A p \in DOMAIN t.messages :
              p <= o => Monus(now, t.messages[p].ts_ms) > t.retain_max_age_ms}

\* The oldest of the rest, down to the newest RetainMessages(t).
Excess(t, now) ==
    LET rest == DOMAIN t.messages \ Aged(t, now)
    IN  {o \in rest :
            /\ RetainMessages(t) > 0
            /\ Cardinality({p \in rest : p >= o}) > RetainMessages(t)}

StaleKeysAtBoundary(t, boundary) ==
    LET stale(i) == t.dedup[t.dedup_order[i]] <= boundary
    IN  CHOOSE n \in 0 .. Len(t.dedup_order) :
            /\ \A i \in 1 .. n : stale(i)
            /\ n < Len(t.dedup_order) => ~stale(n + 1)

\* How many keys at the front of dedup_order point below the boundary.
StaleKeys(t, boundary) ==
    LET stale(i) == \/ t.dedup_order[i] \notin DOMAIN t.dedup
                    \/ t.dedup[t.dedup_order[i]] < boundary
    IN  CHOOSE n \in 0 .. Len(t.dedup_order) :
            /\ \A i \in 1 .. n : stale(i)
            /\ n < Len(t.dedup_order) => ~stale(n + 1)

\* Pop n keys from the front of dedup_order, and from dedup with them.
PopKeys(t, n) ==
    [t EXCEPT !.dedup_order = SubSeq(@, n + 1, Len(@)),
              !.dedup = Without(@, {t.dedup_order[i] : i \in 1 .. n})]

PruneDedup(t, boundary) == PopKeys(t, StaleKeys(t, boundary))

LeaveBehind(g, boundary) == g

\* A group behind the boundary skips what retention dropped.
SkipTo(g, boundary) ==
    IF boundary > g.ack_watermark THEN AdvanceWatermark(g, boundary) ELSE g

PurgeRetained(t, now) ==
    LET purge == Aged(t, now) \cup Excess(t, now)
        kept  == [t EXCEPT !.messages = Without(@, purge)]
        boundary == FirstOffset(kept)
    IN  IF purge = {} THEN t
        ELSE PruneDedup([kept EXCEPT !.groups = [n \in DOMAIN @ |-> SkipTo(@[n], boundary)]], boundary)

(***************************************************************************)
(* Produce                                                                 *)
(***************************************************************************)
StoreMessage(t, item) ==
    [t EXCEPT
        !.next_offset = @ + 1,
        !.messages = [p \in DOMAIN @ \cup {t.next_offset} |->
            IF p = t.next_offset
            THEN [priority |-> item.priority, ts_ms |-> item.ts_ms, payload |-> item.key]
            ELSE @[p]]]

\* Remember which offset a key got, and evict the oldest keys over capacity.
RememberKey(t, key, offset) ==
    IF key = NoKey THEN t
    ELSE LET keyed == [t EXCEPT
                 !.dedup = [k \in DOMAIN @ \cup {key} |-> IF k = key THEN offset ELSE @[k]],
                 !.dedup_order = Append(@, key)]
         IN  PopKeys(keyed, Monus(Len(keyed.dedup_order), DedupCapacity))

AppendMessage(t, item) == RememberKey(StoreMessage(t, item), item.key, t.next_offset)

ProduceOneAgain(t, item) == PurgeRetained(AppendMessage(t, item), item.ts_ms)

\* A key still in the dedup table stores nothing; retention runs either way.
ProduceOne(t, item) ==
    PurgeRetained(IF item.key \in DOMAIN t.dedup THEN t ELSE AppendMessage(t, item),
                  item.ts_ms)

(***************************************************************************)
(* Poll                                                                    *)
(***************************************************************************)
\* The group's state as poll finds it, after expiry and the activity stamp.
\* Only the phase of poll_count modulo RESERVED_DEN is ever read, so only the
\* phase is kept.
PollEntry(t, n, now) ==
    LET e == GroupEntry(t, n, now)
        g == Expire(e.groups[n], now)
    IN  [e EXCEPT !.groups[n] =
            [g EXCEPT !.last_active_ms = Larger(g.last_active_ms, now),
                      !.poll_count = (g.poll_count + 1) % ReservedDen]]

\* What the group may be handed: retained, not acked and not leased.
Candidates(t, g) ==
    {o \in DOMAIN t.messages :
        o >= g.ack_watermark /\ o \notin g.acked_above /\ o \notin DOMAIN g.leased_offsets}

\* Delivery order: priority first, then offset.
Before(t, p, o) ==
    \/ t.messages[p].priority > t.messages[o].priority
    \/ t.messages[p].priority = t.messages[o].priority /\ p < o

ReservedNoBonus(g, max) == Smaller(max \div ReservedDen, max)

\* Slots of a poll of max messages that go to the oldest ones whatever their
\* priority: a quarter, and one more on every RESERVED_DEN-th poll.
Reserved(g, max) ==
    Smaller(max \div ReservedDen + (IF g.poll_count = 0 THEN 1 ELSE 0), max)

\* The k highest-priority candidates.
TopPriority(t, S, k) == {o \in S : Cardinality({p \in S : Before(t, p, o)}) < k}

\* The k oldest.
Oldest(S, k) == {o \in S : Cardinality({p \in S : p < o}) < k}

Chosen(t, g, max) ==
    LET S   == Candidates(t, g)
        top == TopPriority(t, S, max - Reserved(g, max))
    IN  top \cup Oldest(Oldest(S, max) \ top, max - Cardinality(top))

\* Lease ids go out in delivery order.
LeaseId(t, chosen, o, lease) == lease + Cardinality({p \in chosen : Before(t, p, o)})

GrantLeases(t, n, chosen, lease, deadline) ==
    LET g        == t.groups[n]
        granted  == {LeaseId(t, chosen, o, lease) : o \in chosen}
        Taken(l) == CHOOSE o \in chosen : LeaseId(t, chosen, o, lease) = l
    IN  [t EXCEPT !.groups[n] =
            [g EXCEPT
                !.in_flight = [l \in DOMAIN g.in_flight \cup granted |->
                    IF l \in granted THEN [offset |-> Taken(l), deadline_ms |-> deadline]
                    ELSE g.in_flight[l]],
                !.leased_offsets = [o \in DOMAIN g.leased_offsets \cup chosen |->
                    IF o \in chosen THEN deadline ELSE g.leased_offsets[o]]]]

HasDeliverableLate(t, n, now) ==
    IF n \notin DOMAIN t.groups THEN DOMAIN t.messages # {}
    ELSE LET g == t.groups[n]
         IN  \E o \in DOMAIN t.messages :
                /\ o >= g.ack_watermark /\ o \notin g.acked_above
                /\ o \in DOMAIN g.leased_offsets => g.leased_offsets[o] < now

HasDeliverable(t, n, now) ==
    IF n \notin DOMAIN t.groups THEN DOMAIN t.messages # {}
    ELSE LET g == t.groups[n]
         IN  \E o \in DOMAIN t.messages :
                /\ o >= g.ack_watermark /\ o \notin g.acked_above
                /\ o \in DOMAIN g.leased_offsets => g.leased_offsets[o] <= now

(***************************************************************************)
(* Commit                                                                  *)
(***************************************************************************)
\* commit after its sweep; now is 0 for a commit that carries no clock.
CommitGroup(t, n, offset, now) ==
    LET e == GroupEntry(t, n, now)
        g == AdvanceWatermark(e.groups[n], Smaller(offset, t.next_offset))
    IN  IF ~AdmitsGroup(t, n) THEN t
        ELSE [e EXCEPT !.groups[n] =
                 [g EXCEPT !.last_active_ms = Larger(g.last_active_ms, now)]]

(***************************************************************************)
(* validate, the gate every decoded snapshot passes                        *)
(***************************************************************************)
ValidGroup(g, next, lease) ==
    /\ g.ack_watermark <= next
    /\ \A o \in g.acked_above : g.ack_watermark < o /\ o < next
    /\ \A l \in DOMAIN g.in_flight : l < lease /\ g.in_flight[l].offset < next
    /\ \A l, m \in DOMAIN g.in_flight :
          g.in_flight[l].offset = g.in_flight[m].offset => l = m
    /\ DOMAIN g.leased_offsets = {g.in_flight[l].offset : l \in DOMAIN g.in_flight}
    /\ \A l \in DOMAIN g.in_flight :
          g.leased_offsets[g.in_flight[l].offset] = g.in_flight[l].deadline_ms
    /\ \A o \in DOMAIN g.leased_offsets : o >= g.ack_watermark

ValidDedup(t) ==
    /\ Len(t.dedup_order) <= DedupCapacity
    /\ \A i, j \in DOMAIN t.dedup_order :
          t.dedup_order[i] = t.dedup_order[j] => i = j
    /\ DOMAIN t.dedup = {t.dedup_order[i] : i \in DOMAIN t.dedup_order}

ValidTopic(t, lease) ==
    /\ \A o \in DOMAIN t.messages : o < t.next_offset
    /\ ValidDedup(t)
    /\ \A n \in DOMAIN t.groups : ValidGroup(t.groups[n], t.next_offset, lease)

(***************************************************************************)
(* Types                                                                   *)
(***************************************************************************)
GroupType(g) ==
    /\ g = [ack_watermark |-> g.ack_watermark, acked_above |-> g.acked_above,
            in_flight |-> g.in_flight, leased_offsets |-> g.leased_offsets,
            poll_count |-> g.poll_count, last_active_ms |-> g.last_active_ms]
    /\ g.ack_watermark \in Nat /\ g.acked_above \subseteq Nat
    /\ DOMAIN g.in_flight \subseteq Nat
    /\ g.in_flight \in [DOMAIN g.in_flight -> [offset : Nat, deadline_ms : Nat]]
    /\ g.leased_offsets \in [DOMAIN g.leased_offsets -> Nat]
    /\ g.poll_count \in 0 .. ReservedDen - 1
    /\ g.last_active_ms \in Nat

MessageType == [priority : Nat, ts_ms : Nat, payload : Key \cup {NoKey}]

TopicType(t) ==
    /\ t = [next_offset |-> t.next_offset, messages |-> t.messages, dedup |-> t.dedup,
            dedup_order |-> t.dedup_order, groups |-> t.groups, rate |-> t.rate,
            retain_max_messages |-> t.retain_max_messages,
            retain_max_age_ms |-> t.retain_max_age_ms]
    /\ t.next_offset \in Nat
    /\ DOMAIN t.messages \subseteq Nat
    /\ t.messages \in [DOMAIN t.messages -> MessageType]
    /\ t.dedup \in [DOMAIN t.dedup -> Nat]
    /\ t.dedup_order \in Seq(Key)
    /\ DOMAIN t.groups \subseteq Group
    /\ t.groups = [n \in DOMAIN t.groups |-> t.groups[n]]
    /\ \A n \in DOMAIN t.groups : GroupType(t.groups[n])
    /\ t.rate \in Nat /\ t.retain_max_messages \in Nat /\ t.retain_max_age_ms \in Nat
=============================================================================
