-------------------------- MODULE QueueStateProofs --------------------------
(***************************************************************************)
(* Lemmas about the operators of QueueState: what each of them makes of a  *)
(* group or a topic that satisfies GroupInv or TopicInv.  Module           *)
(* QueueProofs combines them into the invariance proof of the queue.       *)
(***************************************************************************)
EXTENDS QueueState, FiniteSetTheorems, SequenceTheorems, WellFoundedInduction, TLAPS

\* A group as every operator leaves it: what validate checks, its types, and
\* that no acked offset is leased, without which an ack could carry the
\* watermark past a lease.
GroupInv(g, next, lease) ==
    /\ GroupType(g)
    /\ ValidGroup(g, next, lease)
    /\ g.acked_above \cap DOMAIN g.leased_offsets = {}

\* in_flight and leased_offsets are two views of one table.
LeaseTable(g) ==
    /\ \A l, m \in DOMAIN g.in_flight :
          g.in_flight[l].offset = g.in_flight[m].offset => l = m
    /\ DOMAIN g.leased_offsets = {g.in_flight[l].offset : l \in DOMAIN g.in_flight}
    /\ \A l \in DOMAIN g.in_flight :
          g.leased_offsets[g.in_flight[l].offset] = g.in_flight[l].deadline_ms

\* A group in the middle of an ack or a commit, before the watermark is drained.
\* acked_above may still hold the watermark.
GroupMid(g, next, lease) ==
    /\ GroupType(g)
    /\ g.ack_watermark <= next
    /\ \A o \in g.acked_above : g.ack_watermark <= o /\ o < next
    /\ \A l \in DOMAIN g.in_flight : l < lease /\ g.in_flight[l].offset < next
    /\ LeaseTable(g)
    /\ \A o \in DOMAIN g.leased_offsets : o >= g.ack_watermark
    /\ g.acked_above \cap DOMAIN g.leased_offsets = {}

-----------------------------------------------------------------------------
\* A non-empty set of naturals has a least element.
LEMMA NatMin ==
  ASSUME NEW T, T \subseteq Nat, T # {}
  PROVE  \E m \in T : \A k \in T : m <= k
<1> DEFINE R == {ss \in Nat \X Nat : ss[1] < ss[2]}
<1>1. IsWellFoundedOn(R, Nat)
  BY NatLessThanWellFounded DEF OpToRel
<1>2. \E m \in T : \A k \in T : ~(<<k, m>> \in R)
  <2> HIDE DEF R
  <2> QED BY <1>1, WFMin, Zenon
<1>3. PICK m \in T : \A k \in T : ~(<<k, m>> \in R)
  BY <1>2
<1>4. ASSUME NEW k \in T PROVE m <= k
  <2>1. k \in Nat /\ m \in Nat OBVIOUS
  <2>2. ~(k < m) BY <1>3, <2>1, Zenon
  <2> QED BY <2>1, <2>2
<1> QED BY <1>4

\* Least picks it.
LEMMA LeastProperty ==
  ASSUME NEW T, T \subseteq Nat, T # {}
  PROVE  Least(T) \in T /\ \A k \in T : Least(T) <= k
BY NatMin, Zenon DEF Least

\* The loop of mark_acked and advance_watermark stops, at an offset that is not
\* acked and with every offset below it acked.
LEMMA DrainStops ==
  ASSUME NEW w \in Nat, NEW next \in Nat, NEW A \in SUBSET Nat, w <= next,
         \A o \in A : o < next
  PROVE  LET stop == Least({n \in {w} \cup {o + 1 : o \in A} : n >= w /\ n \notin A})
         IN  /\ stop \in Nat /\ w <= stop /\ stop <= next /\ stop \notin A
             /\ \A o \in Nat : w <= o /\ o < stop => o \in A
<1> DEFINE T    == {n \in {w} \cup {o + 1 : o \in A} : n >= w /\ n \notin A}
           Free == {n \in Nat : w <= n /\ n \notin A}
<1>1. next \in Free
  OBVIOUS
<1>2. PICK m \in Free : \A k \in Free : m <= k
  <2> HIDE DEF Free
  <2>1. Free \subseteq Nat BY DEF Free
  <2> QED BY <1>1, <2>1, NatMin, Zenon
<1>3. m \in T
  <2>1. CASE m = w BY <2>1
  <2>2. CASE m # w
    <3>1. m - 1 \in Nat /\ w <= m - 1 BY <2>2
    <3>2. m - 1 \notin Free BY <1>2, <3>1
    <3>3. m - 1 \in A BY <3>1, <3>2
    <3> QED BY <3>3
  <2> QED BY <2>1, <2>2
<1>4. T \subseteq Nat
  OBVIOUS
<1>5. Least(T) \in T /\ \A k \in T : Least(T) <= k
  <2> HIDE DEF T
  <2> QED BY <1>3, <1>4, LeastProperty, Zenon
<1>6. Least(T) = m
  <2>1. Least(T) \in Free BY <1>5, <1>4
  <2> HIDE DEF T, Free
  <2>2. Least(T) <= m /\ m <= Least(T) BY <1>2, <1>3, <1>5, <2>1
  <2>3. Least(T) \in Nat /\ m \in Nat BY <2>1 DEF Free
  <2> QED BY <2>2, <2>3
<1>7. \A o \in Nat : w <= o /\ o < m => o \in A
  BY <1>2
<1> QED BY <1>1, <1>2, <1>6, <1>7

\* Draining the watermark completes an ack or a commit.
LEMMA DrainAckedInv ==
  ASSUME NEW g, NEW next \in Nat, NEW lease \in Nat, GroupMid(g, next, lease)
  PROVE  GroupInv(DrainAcked(g), next, lease)
<1> DEFINE w    == g.ack_watermark
           A    == g.acked_above
           stop == Least({n \in {w} \cup {o + 1 : o \in A} : n >= w /\ n \notin A})
           h    == DrainAcked(g)
<1>1. /\ stop \in Nat /\ w <= stop /\ stop <= next /\ stop \notin A
      /\ \A o \in Nat : w <= o /\ o < stop => o \in A
  <2>1. w \in Nat /\ A \in SUBSET Nat /\ w <= next /\ \A o \in A : o < next
    BY DEF GroupMid, GroupType
  <2> HIDE DEF w, A
  <2> QED BY <2>1, DrainStops, Zenon
<1>2. h = [g EXCEPT !.ack_watermark = stop, !.acked_above = A \ (w .. stop - 1)]
  BY DEF DrainAcked
<1> SUFFICES GroupInv(h, next, lease)
  OBVIOUS
<1> HIDE DEF stop, h
<1>3. /\ h.ack_watermark = stop /\ h.acked_above = A \ (w .. stop - 1)
      /\ h.in_flight = g.in_flight /\ h.leased_offsets = g.leased_offsets
      /\ h.poll_count = g.poll_count /\ h.last_active_ms = g.last_active_ms
  BY <1>2 DEF GroupMid, GroupType
<1>4. GroupType(h)
  BY <1>1, <1>2, <1>3, Zenon DEF GroupMid, GroupType
<1>5. \A o \in h.acked_above : stop < o /\ o < next
  BY <1>1, <1>3 DEF GroupMid, GroupType
<1>6. \A o \in DOMAIN h.leased_offsets : o >= stop
  <2> SUFFICES ASSUME NEW o \in DOMAIN g.leased_offsets PROVE o >= stop
    BY <1>3
  <2>1. o \in Nat /\ o >= w /\ o \notin A
    BY DEF GroupMid, GroupType, LeaseTable
  <2> QED BY <1>1, <2>1
<1> QED BY <1>1, <1>3, <1>4, <1>5, <1>6 DEF GroupInv, ValidGroup, GroupMid, LeaseTable

\* What dropping leases does to each field, and that it keeps the types.
LEMMA DropLeasesFields ==
  ASSUME NEW g, GroupType(g), NEW ids \in SUBSET DOMAIN g.in_flight
  PROVE  LET h    == DropLeases(g, ids)
             gone == {g.in_flight[l].offset : l \in ids}
         IN  /\ GroupType(h)
             /\ h.ack_watermark = g.ack_watermark /\ h.acked_above = g.acked_above
             /\ h.poll_count = g.poll_count /\ h.last_active_ms = g.last_active_ms
             /\ DOMAIN h.in_flight = DOMAIN g.in_flight \ ids
             /\ \A l \in DOMAIN h.in_flight : h.in_flight[l] = g.in_flight[l]
             /\ DOMAIN h.leased_offsets = DOMAIN g.leased_offsets \ gone
             /\ \A o \in DOMAIN h.leased_offsets : h.leased_offsets[o] = g.leased_offsets[o]
<1> DEFINE gone == {g.in_flight[l].offset : l \in ids}
           I == Without(g.in_flight, ids)
           L == Without(g.leased_offsets, gone)
           h == DropLeases(g, ids)
<1>1. /\ I = [l \in DOMAIN g.in_flight \ ids |-> g.in_flight[l]]
      /\ L = [o \in DOMAIN g.leased_offsets \ gone |-> g.leased_offsets[o]]
  <2>1. DOMAIN g.in_flight \cap (DOMAIN g.in_flight \ ids) = DOMAIN g.in_flight \ ids
    OBVIOUS
  <2>2. DOMAIN g.leased_offsets \cap (DOMAIN g.leased_offsets \ gone)
          = DOMAIN g.leased_offsets \ gone
    OBVIOUS
  <2> QED BY <2>1, <2>2 DEF Without, Restrict
<1>2. h = [g EXCEPT !.in_flight = I, !.leased_offsets = L]
  BY DEF DropLeases
<1> SUFFICES /\ GroupType(h)
             /\ h.ack_watermark = g.ack_watermark /\ h.acked_above = g.acked_above
             /\ h.poll_count = g.poll_count /\ h.last_active_ms = g.last_active_ms
             /\ h.in_flight = I /\ h.leased_offsets = L
  BY <1>1, ZenonT(60)
<1> HIDE DEF h, I, L, gone
<1>3. /\ h.ack_watermark = g.ack_watermark /\ h.acked_above = g.acked_above
      /\ h.poll_count = g.poll_count /\ h.last_active_ms = g.last_active_ms
      /\ h.in_flight = I /\ h.leased_offsets = L
      /\ h = [ack_watermark |-> h.ack_watermark, acked_above |-> h.acked_above,
              in_flight |-> h.in_flight, leased_offsets |-> h.leased_offsets,
              poll_count |-> h.poll_count, last_active_ms |-> h.last_active_ms]
  BY <1>2, Zenon DEF GroupType
<1>4. /\ DOMAIN I \subseteq Nat
      /\ I \in [DOMAIN I -> [offset : Nat, deadline_ms : Nat]]
      /\ L \in [DOMAIN L -> Nat]
  BY <1>1 DEF GroupType
<1> QED BY <1>3, <1>4 DEF GroupType

\* Dropping leases keeps the two views of the table together.
LEMMA DropLeasesTable ==
  ASSUME NEW g, GroupType(g), LeaseTable(g), NEW ids \in SUBSET DOMAIN g.in_flight
  PROVE  /\ LeaseTable(DropLeases(g, ids))
         /\ \A l \in DOMAIN g.in_flight \ ids :
              g.in_flight[l].offset \notin {g.in_flight[m].offset : m \in ids}
<1> DEFINE h == DropLeases(g, ids)
           gone == {g.in_flight[l].offset : l \in ids}
<1>1. /\ DOMAIN h.in_flight = DOMAIN g.in_flight \ ids
      /\ \A l \in DOMAIN h.in_flight : h.in_flight[l] = g.in_flight[l]
      /\ DOMAIN h.leased_offsets = DOMAIN g.leased_offsets \ gone
      /\ \A o \in DOMAIN h.leased_offsets : h.leased_offsets[o] = g.leased_offsets[o]
  BY DropLeasesFields
<1>2. \A l \in DOMAIN g.in_flight \ ids : g.in_flight[l].offset \notin gone
  BY DEF LeaseTable
<1> SUFFICES LeaseTable(h) BY <1>2
<1> HIDE DEF h
<1>3. DOMAIN h.leased_offsets = {h.in_flight[l].offset : l \in DOMAIN h.in_flight}
  BY <1>1, <1>2 DEF LeaseTable
<1> QED BY <1>1, <1>2, <1>3 DEF LeaseTable

\* Nack and expiry keep the invariant.
LEMMA DropLeasesInv ==
  ASSUME NEW g, NEW next, NEW lease, GroupInv(g, next, lease),
         NEW ids \in SUBSET DOMAIN g.in_flight
  PROVE  GroupInv(DropLeases(g, ids), next, lease)
<1> DEFINE h == DropLeases(g, ids)
<1>1. LeaseTable(g) /\ GroupType(g)
  BY DEF GroupInv, ValidGroup, LeaseTable
<1>2. /\ GroupType(h)
      /\ h.ack_watermark = g.ack_watermark /\ h.acked_above = g.acked_above
      /\ DOMAIN h.in_flight \subseteq DOMAIN g.in_flight
      /\ \A l \in DOMAIN h.in_flight : h.in_flight[l] = g.in_flight[l]
      /\ DOMAIN h.leased_offsets \subseteq DOMAIN g.leased_offsets
  BY <1>1, DropLeasesFields
<1>3. LeaseTable(h)
  BY <1>1, DropLeasesTable
<1> SUFFICES GroupInv(h, next, lease) OBVIOUS
<1> HIDE DEF h
<1> QED BY <1>2, <1>3 DEF GroupInv, ValidGroup, LeaseTable

\* nack_leases keeps the group invariant.
LEMMA NackLeasesInv ==
  ASSUME NEW g, NEW next, NEW lease, GroupInv(g, next, lease), NEW ids
  PROVE  GroupInv(NackLeases(g, ids), next, lease)
BY DropLeasesInv DEF NackLeases

\* expire_inflight keeps the group invariant.
LEMMA ExpireInv ==
  ASSUME NEW g, NEW next, NEW lease, GroupInv(g, next, lease), NEW now
  PROVE  GroupInv(Expire(g, now), next, lease)
BY DropLeasesInv DEF Expire

\* An ack keeps the invariant: the offsets of the dropped leases are not leased
\* by any other, so the watermark drains up to the first lease at most.
LEMMA AckLeasesInv ==
  ASSUME NEW g, NEW next \in Nat, NEW lease \in Nat, GroupInv(g, next, lease), NEW ids
  PROVE  GroupInv(AckLeases(g, ids), next, lease)
<1> DEFINE held  == ids \cap DOMAIN g.in_flight
           offs  == {g.in_flight[l].offset : l \in held}
           acked == {o \in offs : o >= g.ack_watermark}
           d     == DropLeases(g, held)
           h     == [d EXCEPT !.acked_above = d.acked_above \cup acked]
<1>1. LeaseTable(g) /\ GroupType(g)
  BY DEF GroupInv, ValidGroup, LeaseTable
<1>2. /\ GroupType(d)
      /\ d.ack_watermark = g.ack_watermark /\ d.acked_above = g.acked_above
      /\ DOMAIN d.in_flight \subseteq DOMAIN g.in_flight
      /\ \A l \in DOMAIN d.in_flight : d.in_flight[l] = g.in_flight[l]
      /\ DOMAIN d.leased_offsets = DOMAIN g.leased_offsets \ offs
  <2>1. held \in SUBSET DOMAIN g.in_flight OBVIOUS
  <2> HIDE DEF held
  <2> QED BY <1>1, <2>1, DropLeasesFields
<1>3. LeaseTable(d)
  <2>1. held \in SUBSET DOMAIN g.in_flight OBVIOUS
  <2> HIDE DEF held
  <2> QED BY <1>1, <2>1, DropLeasesTable
<1>4. acked \subseteq Nat /\ \A o \in acked : o < next /\ o >= g.ack_watermark
  BY <1>1 DEF GroupInv, ValidGroup, GroupType
<1>5. AckLeases(g, ids) = IF held = {} THEN g ELSE DrainAcked(h)
  BY DEF AckLeases
<1>6. acked \cap DOMAIN d.leased_offsets = {}
  BY <1>2, Zenon
<1>a. h = [d EXCEPT !.acked_above = g.acked_above \cup acked]
  BY <1>2, Zenon
<1> HIDE DEF d, acked, offs, held, h
<1>7. /\ h.ack_watermark = g.ack_watermark /\ h.acked_above = g.acked_above \cup acked
      /\ h.in_flight = d.in_flight /\ h.leased_offsets = d.leased_offsets
      /\ h.poll_count = d.poll_count /\ h.last_active_ms = d.last_active_ms
  BY <1>2, <1>a DEF GroupType
<1>8. GroupType(h)
  <2>1. h = [ack_watermark |-> h.ack_watermark, acked_above |-> h.acked_above,
             in_flight |-> h.in_flight, leased_offsets |-> h.leased_offsets,
             poll_count |-> h.poll_count, last_active_ms |-> h.last_active_ms]
    BY <1>2, <1>a, Zenon DEF GroupType
  <2>2. h.acked_above \subseteq Nat
    BY <1>1, <1>4, <1>7 DEF GroupType
  <2> QED BY <1>2, <1>7, <2>1, <2>2 DEF GroupType
<1>9. GroupMid(h, next, lease)
  <2>1. LeaseTable(h) BY <1>3, <1>7 DEF LeaseTable
  <2>2. \A o \in h.acked_above : h.ack_watermark <= o /\ o < next
    BY <1>1, <1>4, <1>7 DEF GroupInv, ValidGroup, GroupType
  <2>3. h.acked_above \cap DOMAIN h.leased_offsets = {}
    BY <1>2, <1>6, <1>7 DEF GroupInv
  <2>4. \A o \in DOMAIN h.leased_offsets : o >= h.ack_watermark
    BY <1>2, <1>7 DEF GroupInv, ValidGroup
  <2>5. \A l \in DOMAIN h.in_flight : l < lease /\ h.in_flight[l].offset < next
    BY <1>2, <1>7 DEF GroupInv, ValidGroup
  <2>6. h.ack_watermark <= next
    BY <1>7 DEF GroupInv, ValidGroup
  <2> QED BY <1>8, <2>1, <2>2, <2>3, <2>4, <2>5, <2>6 DEF GroupMid
<1> QED BY <1>5, <1>9, DrainAckedInv

\* Raising the watermark, by a commit or because retention dropped what was
\* below, keeps the invariant: the leases below it go.
LEMMA AdvanceWatermarkInv ==
  ASSUME NEW g, NEW next \in Nat, NEW lease \in Nat, GroupInv(g, next, lease),
         NEW to \in Nat, to <= next
  PROVE  GroupInv(AdvanceWatermark(g, to), next, lease)
<1> DEFINE w     == Larger(to, g.ack_watermark)
           moved == [g EXCEPT !.ack_watermark = w,
                              !.acked_above = {o \in g.acked_above : o >= w}]
           below == {l \in DOMAIN g.in_flight : g.in_flight[l].offset < w}
           d     == DropLeases(moved, below)
<1>1. LeaseTable(g) /\ GroupType(g)
  BY DEF GroupInv, ValidGroup, LeaseTable
<1>2. w \in Nat /\ w >= g.ack_watermark /\ w <= next
  BY <1>1 DEF Larger, GroupInv, ValidGroup, GroupType
<1>3. AdvanceWatermark(g, to) = DrainAcked(d)
  BY DEF AdvanceWatermark
<1>a. moved = [g EXCEPT !.ack_watermark = w, !.acked_above = {o \in g.acked_above : o >= w}]
  OBVIOUS
<1> HIDE DEF w, moved
<1>4. /\ moved.ack_watermark = w /\ moved.acked_above = {o \in g.acked_above : o >= w}
      /\ moved.in_flight = g.in_flight /\ moved.leased_offsets = g.leased_offsets
      /\ moved.poll_count = g.poll_count /\ moved.last_active_ms = g.last_active_ms
      /\ moved = [ack_watermark |-> moved.ack_watermark, acked_above |-> moved.acked_above,
                  in_flight |-> moved.in_flight, leased_offsets |-> moved.leased_offsets,
                  poll_count |-> moved.poll_count, last_active_ms |-> moved.last_active_ms]
  BY <1>1, <1>a, ZenonT(60) DEF GroupType
<1>5. GroupType(moved) /\ LeaseTable(moved)
  BY <1>1, <1>2, <1>4 DEF GroupType, LeaseTable
<1>6. /\ GroupType(d) /\ LeaseTable(d)
      /\ d.ack_watermark = w /\ d.acked_above = {o \in g.acked_above : o >= w}
      /\ DOMAIN d.in_flight = DOMAIN g.in_flight \ below
      /\ \A l \in DOMAIN d.in_flight : d.in_flight[l] = g.in_flight[l]
      /\ DOMAIN d.leased_offsets \subseteq DOMAIN g.leased_offsets
  <2>1. below \in SUBSET DOMAIN moved.in_flight BY <1>4
  <2>2. /\ GroupType(d)
        /\ d.ack_watermark = moved.ack_watermark /\ d.acked_above = moved.acked_above
        /\ DOMAIN d.in_flight = DOMAIN moved.in_flight \ below
        /\ \A l \in DOMAIN d.in_flight : d.in_flight[l] = moved.in_flight[l]
        /\ DOMAIN d.leased_offsets \subseteq DOMAIN moved.leased_offsets
    <3> HIDE DEF below
    <3> QED BY <1>5, <2>1, DropLeasesFields
  <2>3. LeaseTable(d)
    <3> HIDE DEF below
    <3> QED BY <1>5, <2>1, DropLeasesTable
  <2> HIDE DEF below, d
  <2> QED BY <1>4, <2>2, <2>3
<1>7. \A o \in DOMAIN d.leased_offsets : o >= w
  <2> HIDE DEF d, below
  <2> SUFFICES ASSUME NEW l \in DOMAIN d.in_flight PROVE d.in_flight[l].offset >= w
    BY <1>6 DEF LeaseTable
  <2>1. g.in_flight[l].offset \in Nat /\ ~(g.in_flight[l].offset < w)
    BY <1>1, <1>6 DEF GroupType, below
  <2>2. d.in_flight[l].offset = g.in_flight[l].offset
    BY <1>6
  <2> QED BY <1>2, <2>1, <2>2
<1> HIDE DEF d, below
<1>8. GroupMid(d, next, lease)
  BY <1>2, <1>6, <1>7, SMTT(60) DEF GroupMid, GroupInv, ValidGroup
<1> QED BY <1>3, <1>8, DrainAckedInv

\* A new group, and a group as its topic or the lease counter moves on.
LEMMA NewGroupInv ==
  ASSUME NEW next \in Nat, NEW lease, NEW first \in Nat, first <= next, NEW stamp \in Nat
  PROVE  GroupInv(NewGroup(first, stamp), next, lease)
BY QueueConstants DEF NewGroup, Empty, GroupInv, GroupType, ValidGroup

\* Later offsets and lease ids leave a group's invariant intact.
LEMMA GroupInvMonotone ==
  ASSUME NEW g, NEW next \in Nat, NEW lease \in Nat, GroupInv(g, next, lease),
         NEW next2 \in Nat, NEW lease2 \in Nat, next <= next2, lease <= lease2
  PROVE  GroupInv(g, next2, lease2)
BY SMTT(60) DEF GroupInv, ValidGroup, GroupType

-----------------------------------------------------------------------------
\* A topic as every operator leaves it.
TopicInv(t, lease) ==
    /\ TopicType(t)
    /\ \A o \in DOMAIN t.messages : o < t.next_offset
    /\ ValidDedup(t)
    /\ \A n \in DOMAIN t.groups : GroupInv(t.groups[n], t.next_offset, lease)

\* A topic that was just created satisfies the topic invariant.
LEMMA NewTopicInv ==
  ASSUME NEW lease
  PROVE  TopicInv(NewTopic, lease)
BY QueueConstants DEF NewTopic, Empty, TopicInv, TopicType, ValidDedup

\* A topic whose lease counter moved on.
LEMMA TopicInvMonotone ==
  ASSUME NEW t, NEW lease \in Nat, TopicInv(t, lease), NEW lease2 \in Nat, lease <= lease2
  PROVE  TopicInv(t, lease2)
<1>1. t.next_offset \in Nat BY DEF TopicInv, TopicType
<1>2. \A n \in DOMAIN t.groups : GroupInv(t.groups[n], t.next_offset, lease2)
  BY <1>1, GroupInvMonotone DEF TopicInv
<1> QED BY <1>2 DEF TopicInv

\* The topic with other groups that are fine.
LEMMA SetGroupsInv ==
  ASSUME NEW t, NEW lease, NEW lease2, TopicInv(t, lease), NEW G, DOMAIN G \subseteq Group,
         G = [n \in DOMAIN G |-> G[n]],
         \A n \in DOMAIN G : GroupInv(G[n], t.next_offset, lease2)
  PROVE  LET r == [t EXCEPT !.groups = G]
         IN  TopicInv(r, lease2) /\ r.groups = G /\ r.messages = t.messages
             /\ r.next_offset = t.next_offset
<1> DEFINE r == [t EXCEPT !.groups = G]
<1>1. r = [t EXCEPT !.groups = G] OBVIOUS
<1> SUFFICES TopicInv(r, lease2) /\ r.groups = G /\ r.messages = t.messages
             /\ r.next_offset = t.next_offset
  OBVIOUS
<1> HIDE DEF r
<1>2. /\ r.next_offset = t.next_offset /\ r.messages = t.messages /\ r.dedup = t.dedup
      /\ r.dedup_order = t.dedup_order /\ r.groups = G /\ r.rate = t.rate
      /\ r.retain_max_messages = t.retain_max_messages
      /\ r.retain_max_age_ms = t.retain_max_age_ms
      /\ r = [next_offset |-> r.next_offset, messages |-> r.messages, dedup |-> r.dedup,
              dedup_order |-> r.dedup_order, groups |-> r.groups, rate |-> r.rate,
              retain_max_messages |-> r.retain_max_messages,
              retain_max_age_ms |-> r.retain_max_age_ms]
  BY <1>1 DEF TopicInv, TopicType
<1>3. \A n \in DOMAIN G : GroupType(G[n])
  BY DEF GroupInv
<1>4. TopicType(r)
  BY <1>2, <1>3 DEF TopicInv, TopicType
<1>5. ValidDedup(r)
  BY <1>2 DEF TopicInv, ValidDedup
<1> QED BY <1>2, <1>4, <1>5 DEF TopicInv

\* The topic with fewer messages.
LEMMA RestrictMessagesInv ==
  ASSUME NEW t, NEW lease, TopicInv(t, lease), NEW S \in SUBSET DOMAIN t.messages
  PROVE  LET r == [t EXCEPT !.messages = Restrict(t.messages, S)]
         IN  TopicInv(r, lease) /\ DOMAIN r.messages = S /\ r.groups = t.groups
             /\ r.next_offset = t.next_offset /\ r.dedup = t.dedup
             /\ r.dedup_order = t.dedup_order
<1> DEFINE M == Restrict(t.messages, S)
           r == [t EXCEPT !.messages = M]
<1>1. r = [t EXCEPT !.messages = M] OBVIOUS
<1>2. M = [o \in S |-> t.messages[o]]
  <2>1. S = DOMAIN t.messages \cap S OBVIOUS
  <2> QED BY <2>1 DEF Restrict
<1> SUFFICES TopicInv(r, lease) /\ DOMAIN r.messages = S /\ r.groups = t.groups
             /\ r.next_offset = t.next_offset /\ r.dedup = t.dedup
             /\ r.dedup_order = t.dedup_order
  OBVIOUS
<1> HIDE DEF r, M
<1>3. /\ r.next_offset = t.next_offset /\ r.messages = M /\ r.dedup = t.dedup
      /\ r.dedup_order = t.dedup_order /\ r.groups = t.groups /\ r.rate = t.rate
      /\ r.retain_max_messages = t.retain_max_messages
      /\ r.retain_max_age_ms = t.retain_max_age_ms
      /\ r = [next_offset |-> r.next_offset, messages |-> r.messages, dedup |-> r.dedup,
              dedup_order |-> r.dedup_order, groups |-> r.groups, rate |-> r.rate,
              retain_max_messages |-> r.retain_max_messages,
              retain_max_age_ms |-> r.retain_max_age_ms]
  BY <1>1 DEF TopicInv, TopicType
<1>4. DOMAIN M = S /\ M \in [DOMAIN M -> MessageType]
  BY <1>2 DEF TopicInv, TopicType
<1>5. TopicType(r)
  BY <1>3, <1>4 DEF TopicInv, TopicType
<1>6. ValidDedup(r)
  BY <1>3 DEF TopicInv, ValidDedup
<1> QED BY <1>3, <1>4, <1>5, <1>6 DEF TopicInv

\* The first offset a topic has, or would have, is within it.
LEMMA FirstOffsetBound ==
  ASSUME NEW t, NEW lease, TopicInv(t, lease)
  PROVE  FirstOffset(t) \in Nat /\ FirstOffset(t) <= t.next_offset
<1>1. t.next_offset \in Nat /\ DOMAIN t.messages \subseteq Nat
      /\ \A o \in DOMAIN t.messages : o < t.next_offset
  BY DEF TopicInv, TopicType
<1>2. CASE DOMAIN t.messages = {}
  BY <1>1, <1>2 DEF FirstOffset
<1>3. CASE DOMAIN t.messages # {}
  <2>1. Least(DOMAIN t.messages) \in DOMAIN t.messages BY <1>1, <1>3, LeastProperty
  <2> QED BY <1>1, <1>3, <2>1 DEF FirstOffset
<1> QED BY <1>2, <1>3

\* The topic with some of its groups.
LEMMA KeepGroupsInv ==
  ASSUME NEW t, NEW lease, TopicInv(t, lease), NEW S \in SUBSET DOMAIN t.groups
  PROVE  TopicInv([t EXCEPT !.groups = Restrict(t.groups, S)], lease)
<1> DEFINE G == Restrict(t.groups, S)
<1>1. G = [n \in S |-> t.groups[n]]
  <2>1. S = DOMAIN t.groups \cap S OBVIOUS
  <2> QED BY <2>1 DEF Restrict
<1>2. DOMAIN G \subseteq Group /\ G = [n \in DOMAIN G |-> G[n]]
      /\ \A n \in DOMAIN G : GroupInv(G[n], t.next_offset, lease)
  BY <1>1 DEF TopicInv, TopicType
<1> SUFFICES TopicInv([t EXCEPT !.groups = G], lease)
  OBVIOUS
<1> HIDE DEF G
<1> QED BY <1>2, SetGroupsInv

\* gc_idle_groups keeps the topic invariant.
LEMMA GcIdleGroupsInv ==
  ASSUME NEW t, NEW lease, TopicInv(t, lease)
  PROVE  TopicInv(GcIdleGroups(t), lease)
BY KeepGroupsInv DEF GcIdleGroups

\* reclaim_topic keeps the topic invariant.
LEMMA ReclaimInv ==
  ASSUME NEW t, NEW lease, TopicInv(t, lease)
  PROVE  TopicInv(Reclaim(t), lease)
BY RestrictMessagesInv, GcIdleGroupsInv, Zenon DEF Reclaim

\* Stamping a group that has no activity time keeps its invariant.
LEMMA StampInv ==
  ASSUME NEW g, NEW next, NEW lease, GroupInv(g, next, lease), NEW now \in Nat
  PROVE  GroupInv(Stamp(g, now), next, lease)
<1> DEFINE h == [g EXCEPT !.last_active_ms = now]
<1>1. h = [g EXCEPT !.last_active_ms = now] OBVIOUS
<1>2. Stamp(g, now) = IF g.last_active_ms = 0 THEN h ELSE g BY DEF Stamp
<1> HIDE DEF h
<1>3. /\ h.ack_watermark = g.ack_watermark /\ h.acked_above = g.acked_above
      /\ h.in_flight = g.in_flight /\ h.leased_offsets = g.leased_offsets
      /\ h.poll_count = g.poll_count /\ h.last_active_ms = now
      /\ h = [ack_watermark |-> h.ack_watermark, acked_above |-> h.acked_above,
              in_flight |-> h.in_flight, leased_offsets |-> h.leased_offsets,
              poll_count |-> h.poll_count, last_active_ms |-> h.last_active_ms]
  BY <1>1 DEF GroupInv, GroupType
<1>4. GroupInv(h, next, lease)
  BY <1>3 DEF GroupInv, GroupType, ValidGroup
<1> QED BY <1>2, <1>4

\* The sweep keeps the invariant, whichever groups it drops.
LEMMA SweepIdleGroupsInv ==
  ASSUME NEW t, NEW lease, TopicInv(t, lease), NEW now \in Nat
  PROVE  TopicInv(SweepIdleGroups(t, now), lease)
<1> DEFINE stamped == [n \in DOMAIN t.groups |-> Stamp(t.groups[n], now)]
           active  == {n \in DOMAIN stamped : StaysActive(stamped[n], now)}
           G       == Restrict(stamped, active)
           swept   == [t EXCEPT !.groups = G]
<1>1. G = [n \in active |-> Stamp(t.groups[n], now)]
  <2>1. active = DOMAIN stamped \cap active OBVIOUS
  <2>2. G = [n \in DOMAIN stamped \cap active |-> stamped[n]] BY DEF Restrict
  <2> QED BY <2>1, <2>2
<1>2. DOMAIN G \subseteq Group /\ G = [n \in DOMAIN G |-> G[n]]
  BY <1>1, Zenon DEF TopicInv, TopicType
<1>3. \A n \in DOMAIN G : GroupInv(G[n], t.next_offset, lease)
  <2> SUFFICES ASSUME NEW n \in active PROVE GroupInv(Stamp(t.groups[n], now), t.next_offset, lease)
    BY <1>1
  <2>1. GroupInv(t.groups[n], t.next_offset, lease)
    BY DEF TopicInv
  <2> QED BY <2>1, StampInv
<1>4. SweepIdleGroups(t, now) = IF active = DOMAIN stamped THEN swept ELSE Reclaim(swept)
  BY DEF SweepIdleGroups
<1>5. TopicInv(swept, lease)
  <2> SUFFICES TopicInv([t EXCEPT !.groups = G], lease) OBVIOUS
  <2> HIDE DEF G, swept
  <2> QED BY <1>2, <1>3, SetGroupsInv
<1> HIDE DEF swept
<1> QED BY <1>4, <1>5, ReclaimInv

\* One group replaced by another that is fine.
LEMMA UpdateGroupInv ==
  ASSUME NEW t, NEW lease, TopicInv(t, lease), NEW n \in DOMAIN t.groups, NEW h,
         GroupInv(h, t.next_offset, lease)
  PROVE  TopicInv([t EXCEPT !.groups[n] = h], lease)
<1> DEFINE G == [t.groups EXCEPT ![n] = h]
<1>1. [t EXCEPT !.groups[n] = h] = [t EXCEPT !.groups = G]
  OBVIOUS
<1>2. DOMAIN G \subseteq Group /\ G = [m \in DOMAIN G |-> G[m]]
      /\ \A m \in DOMAIN G : GroupInv(G[m], t.next_offset, lease)
  BY DEF TopicInv, TopicType
<1> HIDE DEF G
<1> QED BY <1>1, <1>2, SetGroupsInv

\* A group is found or made.
LEMMA GroupEntryInv ==
  ASSUME NEW t, NEW lease, TopicInv(t, lease), NEW n \in Group, NEW stamp \in Nat
  PROVE  /\ TopicInv(GroupEntry(t, n, stamp), lease)
         /\ n \in DOMAIN GroupEntry(t, n, stamp).groups
         /\ GroupEntry(t, n, stamp).next_offset = t.next_offset
         /\ GroupEntry(t, n, stamp).messages = t.messages
<1> DEFINE G == [m \in DOMAIN t.groups \cup {n} |->
                    IF m \in DOMAIN t.groups THEN t.groups[m]
                    ELSE NewGroup(FirstOffset(t), stamp)]
           r == [t EXCEPT !.groups = G]
<1>1. GroupEntry(t, n, stamp) = IF n \in DOMAIN t.groups THEN t ELSE r
  BY DEF GroupEntry
<1>2. GroupInv(NewGroup(FirstOffset(t), stamp), t.next_offset, lease)
  BY FirstOffsetBound, NewGroupInv, Zenon DEF TopicInv, TopicType
<1>3. DOMAIN G \subseteq Group /\ G = [m \in DOMAIN G |-> G[m]] /\ n \in DOMAIN G
  BY DEF TopicInv, TopicType
<1>4. \A m \in DOMAIN G : GroupInv(G[m], t.next_offset, lease)
  BY <1>2 DEF TopicInv
<1>5. TopicInv(r, lease) /\ r.groups = G /\ r.messages = t.messages
      /\ r.next_offset = t.next_offset
  <2> HIDE DEF G
  <2> QED BY <1>3, <1>4, SetGroupsInv
<1> HIDE DEF r, G
<1> QED BY <1>1, <1>3, <1>5

\* commit keeps the topic invariant.
LEMMA CommitGroupInv ==
  ASSUME NEW t, NEW lease \in Nat, TopicInv(t, lease), NEW n \in Group, NEW offset \in Nat,
         NEW now \in Nat
  PROVE  TopicInv(CommitGroup(t, n, offset, now), lease)
<1> DEFINE e == GroupEntry(t, n, now)
           a == AdvanceWatermark(e.groups[n], Smaller(offset, t.next_offset))
           h == [a EXCEPT !.last_active_ms = Larger(a.last_active_ms, now)]
<1>1. TopicInv(e, lease) /\ n \in DOMAIN e.groups /\ e.next_offset = t.next_offset
  BY GroupEntryInv
<1>2. t.next_offset \in Nat /\ Smaller(offset, t.next_offset) \in Nat
      /\ Smaller(offset, t.next_offset) <= t.next_offset
  BY DEF TopicInv, TopicType, Smaller
<1>3. CommitGroup(t, n, offset, now) = IF ~AdmitsGroup(t, n) THEN t ELSE [e EXCEPT !.groups[n] = h]
  BY DEF CommitGroup
<1> HIDE DEF e
<1>4. GroupInv(a, t.next_offset, lease)
  BY <1>1, <1>2, AdvanceWatermarkInv DEF TopicInv
<1>5. h = [a EXCEPT !.last_active_ms = Larger(a.last_active_ms, now)]
  OBVIOUS
<1> HIDE DEF a, h
<1>6. /\ h.ack_watermark = a.ack_watermark /\ h.acked_above = a.acked_above
      /\ h.in_flight = a.in_flight /\ h.leased_offsets = a.leased_offsets
      /\ h.poll_count = a.poll_count /\ h.last_active_ms = Larger(a.last_active_ms, now)
      /\ h = [ack_watermark |-> h.ack_watermark, acked_above |-> h.acked_above,
              in_flight |-> h.in_flight, leased_offsets |-> h.leased_offsets,
              poll_count |-> h.poll_count, last_active_ms |-> h.last_active_ms]
  BY <1>4, <1>5 DEF GroupInv, GroupType
<1>7. Larger(a.last_active_ms, now) \in Nat
  BY <1>4 DEF GroupInv, GroupType, Larger
<1>8. GroupInv(h, e.next_offset, lease)
  BY <1>1, <1>4, <1>6, <1>7 DEF GroupInv, GroupType, ValidGroup
<1>9. TopicInv([e EXCEPT !.groups[n] = h], lease)
  BY <1>1, <1>8, UpdateGroupInv
<1> QED BY <1>3, <1>9

-----------------------------------------------------------------------------
\* dedup and dedup_order hold the same keys, each once.
DedupTable(t) ==
    /\ \A i, j \in DOMAIN t.dedup_order : t.dedup_order[i] = t.dedup_order[j] => i = j
    /\ DOMAIN t.dedup = {t.dedup_order[i] : i \in DOMAIN t.dedup_order}

\* A topic in the middle of a produce: its dedup table may be over capacity.
TopicMid(t, lease) ==
    /\ TopicType(t)
    /\ \A o \in DOMAIN t.messages : o < t.next_offset
    /\ DedupTable(t)
    /\ \A n \in DOMAIN t.groups : GroupInv(t.groups[n], t.next_offset, lease)

\* The topic invariant is TopicMid with the dedup table within its capacity.
LEMMA TopicMidInv ==
  ASSUME NEW t, NEW lease
  PROVE  TopicInv(t, lease) <=> TopicMid(t, lease) /\ Len(t.dedup_order) <= DedupCapacity
BY DEF TopicInv, TopicMid, ValidDedup, DedupTable

\* Popping keys from the front takes the same keys from both.
LEMMA PopKeysMid ==
  ASSUME NEW t, NEW lease, TopicMid(t, lease), NEW n \in 0 .. Len(t.dedup_order)
  PROVE  /\ TopicMid(PopKeys(t, n), lease)
         /\ Len(PopKeys(t, n).dedup_order) = Len(t.dedup_order) - n
<1> DEFINE s == t.dedup_order
           O == SubSeq(s, n + 1, Len(s))
           D == Without(t.dedup, {s[i] : i \in 1 .. n})
           r == PopKeys(t, n)
<1>1. s \in Seq(Key) /\ Len(s) \in Nat /\ DOMAIN s = 1 .. Len(s) /\ n \in 0 .. Len(s)
  BY LenProperties DEF TopicMid, TopicType
<1>2. /\ O \in Seq(Key) /\ Len(O) = Len(s) - n
      /\ \A i \in 1 .. Len(s) - n : O[i] = s[n + i]
  <2> HIDE DEF s
  <2>1. \A i \in n + 1 .. Len(s) : s[i] \in Key BY <1>1
  <2>2. /\ O \in Seq(Key)
        /\ Len(O) = IF n + 1 <= Len(s) THEN Len(s) - (n + 1) + 1 ELSE 0
        /\ \A i \in 1 .. Len(s) - (n + 1) + 1 : O[i] = s[n + 1 + i - 1]
    BY <1>1, <2>1, SubSeqProperties
  <2> HIDE DEF O
  <2>3. ASSUME NEW i \in 1 .. Len(s) - n PROVE O[i] = s[n + i]
    <3>1. i \in 1 .. Len(s) - (n + 1) + 1 /\ n + 1 + i - 1 = n + i BY <1>1
    <3>2. O[i] = s[n + 1 + i - 1] BY <2>2, <3>1, SMTT(60)
    <3> QED BY <3>1, <3>2
  <2>4. Len(O) = Len(s) - n
    <3>1. \A k \in Nat : n \in 0 .. k =>
            (IF n + 1 <= k THEN k - (n + 1) + 1 ELSE 0) = k - n
      OBVIOUS
    <3> QED BY <1>1, <2>2, <3>1, Zenon
  <2> QED BY <2>2, <2>3, <2>4
<1>3. D = [k \in DOMAIN t.dedup \ {s[i] : i \in 1 .. n} |-> t.dedup[k]]
  <2> DEFINE gone == {s[i] : i \in 1 .. n}
  <2>1. DOMAIN t.dedup \cap (DOMAIN t.dedup \ gone) = DOMAIN t.dedup \ gone OBVIOUS
  <2> HIDE DEF gone
  <2>2. D = [k \in DOMAIN t.dedup \cap (DOMAIN t.dedup \ gone) |-> t.dedup[k]]
    BY DEF Without, Restrict, gone
  <2> QED BY <2>1, <2>2 DEF gone
<1>4. r = [t EXCEPT !.dedup_order = O, !.dedup = D]
  BY DEF PopKeys
<1> SUFFICES TopicMid(r, lease) /\ Len(r.dedup_order) = Len(t.dedup_order) - n
  OBVIOUS
<1>5. DOMAIN O = 1 .. Len(s) - n
  <2> HIDE DEF O, s
  <2> QED BY <1>1, <1>2, LenProperties
<1>6. {O[i] : i \in DOMAIN O} = DOMAIN D
  <2>1. DOMAIN t.dedup = {s[i] : i \in 1 .. Len(s)}
    BY <1>1 DEF TopicMid, DedupTable
  <2>2. \A i, j \in 1 .. Len(s) : s[i] = s[j] => i = j
    BY <1>1 DEF TopicMid, DedupTable
  <2> HIDE DEF O, D, s
  <2>3. ASSUME NEW i \in DOMAIN O PROVE O[i] \in DOMAIN D
    <3>1. n + i \in 1 .. Len(s) /\ O[i] = s[n + i] BY <1>1, <1>2, <1>5
    <3>2. \A j \in 1 .. n : s[j] # s[n + i] BY <1>1, <1>5, <2>2, <3>1
    <3> QED BY <1>3, <2>1, <3>1, <3>2
  <2>4. ASSUME NEW k \in DOMAIN D PROVE \E i \in DOMAIN O : O[i] = k
    <3>1. PICK j \in 1 .. Len(s) : s[j] = k BY <1>3, <2>1
    <3>2. j \notin 1 .. n BY <1>3, <3>1
    <3>3. j - n \in DOMAIN O /\ O[j - n] = s[j] BY <1>1, <1>2, <1>5, <3>1, <3>2
    <3> QED BY <3>1, <3>3
  <2> QED BY <2>3, <2>4, Zenon
<1>7. \A i, j \in DOMAIN O : O[i] = O[j] => i = j
  <2>2. \A i, j \in 1 .. Len(s) : s[i] = s[j] => i = j
    BY <1>1 DEF TopicMid, DedupTable
  <2> HIDE DEF O, s
  <2> SUFFICES ASSUME NEW i \in DOMAIN O, NEW j \in DOMAIN O, O[i] = O[j] PROVE i = j
    OBVIOUS
  <2>3. n + i \in 1 .. Len(s) /\ n + j \in 1 .. Len(s) BY <1>1, <1>5
  <2>4. s[n + i] = s[n + j] BY <1>2, <1>5, SMTT(60)
  <2>5. n + i = n + j BY <2>2, <2>3, <2>4
  <2> QED BY <1>1, <1>5, <2>5
<1>8. D \in [DOMAIN D -> Nat]
  <2>1. t.dedup \in [DOMAIN t.dedup -> Nat] BY DEF TopicMid, TopicType
  <2> HIDE DEF D, s
  <2> QED BY <1>3, <2>1
<1> HIDE DEF r, O, D
<1>9. /\ r.next_offset = t.next_offset /\ r.messages = t.messages /\ r.dedup = D
      /\ r.dedup_order = O /\ r.groups = t.groups /\ r.rate = t.rate
      /\ r.retain_max_messages = t.retain_max_messages
      /\ r.retain_max_age_ms = t.retain_max_age_ms
      /\ r = [next_offset |-> r.next_offset, messages |-> r.messages, dedup |-> r.dedup,
              dedup_order |-> r.dedup_order, groups |-> r.groups, rate |-> r.rate,
              retain_max_messages |-> r.retain_max_messages,
              retain_max_age_ms |-> r.retain_max_age_ms]
  BY <1>4, Zenon DEF TopicMid, TopicType
<1>10. TopicType(r)
  BY <1>2, <1>8, <1>9 DEF TopicMid, TopicType
<1>11. DedupTable(r)
  BY <1>6, <1>7, <1>9 DEF DedupTable
<1> QED BY <1>2, <1>9, <1>10, <1>11 DEF TopicMid

\* prune_dedup's loop stops within the queue.
LEMMA StaleKeysRange ==
  ASSUME NEW t, t.dedup_order \in Seq(Key), NEW boundary
  PROVE  StaleKeys(t, boundary) \in 0 .. Len(t.dedup_order)
<1> DEFINE stale(i) == \/ t.dedup_order[i] \notin DOMAIN t.dedup
                       \/ t.dedup[t.dedup_order[i]] < boundary
           len == Len(t.dedup_order)
           Live == {i \in 1 .. len : ~stale(i)}
           P(n) == /\ \A i \in 1 .. n : stale(i)
                   /\ n < len => ~stale(n + 1)
<1>1. len \in Nat BY LenProperties
<1>2. \E n \in 0 .. len : P(n)
  <2> HIDE DEF stale
  <2>1. CASE Live = {}
    <3>1. len \in 0 .. len /\ P(len) BY <1>1, <2>1
    <3> QED BY <3>1
  <2>2. CASE Live # {}
    <3>1. PICK m \in Live : \A k \in Live : m <= k
      <4>1. Live \subseteq Nat BY <1>1
      <4> HIDE DEF Live
      <4> QED BY <2>2, <4>1, NatMin, Zenon
    <3>2. m - 1 \in 0 .. len /\ P(m - 1)
      <4> HIDE DEF len
      <4> QED BY <1>1, <3>1
    <3> QED BY <3>2, Zenon
  <2> QED BY <2>1, <2>2
<1>3. StaleKeys(t, boundary) = CHOOSE n \in 0 .. len : P(n)
  BY DEF StaleKeys
<1> HIDE DEF P, len, Live
<1>4. StaleKeys(t, boundary) \in 0 .. len
  BY <1>2, <1>3
<1> QED BY <1>4 DEF len

\* prune_dedup keeps the topic invariant.
LEMMA PruneDedupInv ==
  ASSUME NEW t, NEW lease, TopicInv(t, lease), NEW boundary
  PROVE  TopicInv(PruneDedup(t, boundary), lease)
<1>1. TopicMid(t, lease) /\ Len(t.dedup_order) <= DedupCapacity
  BY TopicMidInv
<1>2. t.dedup_order \in Seq(Key) /\ Len(t.dedup_order) \in Nat
  BY LenProperties DEF TopicInv, TopicType
<1>3. StaleKeys(t, boundary) \in 0 .. Len(t.dedup_order)
  BY <1>2, StaleKeysRange
<1> DEFINE r == PopKeys(t, StaleKeys(t, boundary))
<1>4. TopicMid(r, lease) /\ Len(r.dedup_order) = Len(t.dedup_order) - StaleKeys(t, boundary)
  BY <1>1, <1>3, PopKeysMid
<1>5. PruneDedup(t, boundary) = r
  BY DEF PruneDedup
<1> HIDE DEF r
<1>6. Len(r.dedup_order) <= DedupCapacity
  BY <1>1, <1>2, <1>3, <1>4, QueueConstants
<1> QED BY <1>4, <1>5, <1>6, TopicMidInv

\* Retention keeps the invariant: it cuts messages, moves every group that is
\* behind along and prunes the dedup table.
LEMMA PurgeRetainedInv ==
  ASSUME NEW t, NEW lease \in Nat, TopicInv(t, lease), NEW now \in Nat
  PROVE  TopicInv(PurgeRetained(t, now), lease)
<1> DEFINE purge == Aged(t, now) \cup Excess(t, now)
           S     == DOMAIN t.messages \ purge
           kept  == [t EXCEPT !.messages = Restrict(t.messages, S)]
           b     == FirstOffset(kept)
           G     == [n \in DOMAIN t.groups |-> SkipTo(t.groups[n], b)]
           moved == [kept EXCEPT !.groups = G]
<1>1. TopicInv(kept, lease) /\ kept.groups = t.groups /\ kept.next_offset = t.next_offset
  <2>1. S \in SUBSET DOMAIN t.messages OBVIOUS
  <2> HIDE DEF S
  <2> QED BY <2>1, RestrictMessagesInv
<1>2. PurgeRetained(t, now) = IF purge = {} THEN t ELSE PruneDedup(moved, b)
  <2>1. kept.groups = t.groups BY <1>1
  <2> QED BY <2>1 DEF PurgeRetained, Without
<1> HIDE DEF purge, S, kept
<1>3. b \in Nat /\ b <= kept.next_offset
  BY <1>1, FirstOffsetBound
<1>4. kept.next_offset \in Nat /\ DOMAIN t.groups \subseteq Group
  BY <1>1 DEF TopicInv, TopicType
<1>5. \A n \in DOMAIN t.groups : GroupInv(SkipTo(t.groups[n], b), kept.next_offset, lease)
  <2> HIDE DEF b
  <2> SUFFICES ASSUME NEW n \in DOMAIN t.groups
               PROVE  GroupInv(SkipTo(t.groups[n], b), kept.next_offset, lease)
    OBVIOUS
  <2>1. GroupInv(t.groups[n], kept.next_offset, lease) BY <1>1 DEF TopicInv
  <2>2. GroupInv(AdvanceWatermark(t.groups[n], b), kept.next_offset, lease)
    BY <1>3, <1>4, <2>1, AdvanceWatermarkInv
  <2> QED BY <2>1, <2>2 DEF SkipTo
<1> HIDE DEF b
<1>6. DOMAIN G \subseteq Group /\ G = [n \in DOMAIN G |-> G[n]]
      /\ \A n \in DOMAIN G : GroupInv(G[n], kept.next_offset, lease)
  BY <1>4, <1>5
<1> HIDE DEF G
<1>7. TopicInv(moved, lease)
  BY <1>1, <1>6, SetGroupsInv
<1> HIDE DEF moved
<1> QED BY <1>2, <1>7, PruneDedupInv

\* Storing a message at the next offset keeps the topic invariant.
LEMMA StoreMessageInv ==
  ASSUME NEW t, NEW lease \in Nat, TopicInv(t, lease), NEW item,
         item.priority \in Nat, item.ts_ms \in Nat, item.key \in Key \cup {NoKey}
  PROVE  LET r == StoreMessage(t, item)
         IN  /\ TopicInv(r, lease) /\ r.next_offset = t.next_offset + 1
             /\ r.dedup = t.dedup /\ r.dedup_order = t.dedup_order
<1> DEFINE o == t.next_offset
           m == [priority |-> item.priority, ts_ms |-> item.ts_ms, payload |-> item.key]
           M == [p \in DOMAIN t.messages \cup {o} |-> IF p = o THEN m ELSE t.messages[p]]
           r == StoreMessage(t, item)
<1>1. r = [t EXCEPT !.next_offset = o + 1, !.messages = M]
  BY DEF StoreMessage
<1> SUFFICES TopicInv(r, lease) /\ r.next_offset = t.next_offset + 1
             /\ r.dedup = t.dedup /\ r.dedup_order = t.dedup_order
  OBVIOUS
<1>2. m \in MessageType BY DEF MessageType
<1>3. o \in Nat BY DEF TopicInv, TopicType
<1>4. /\ DOMAIN M \subseteq Nat /\ M \in [DOMAIN M -> MessageType]
      /\ \A p \in DOMAIN M : p < o + 1
  <2> HIDE DEF m
  <2> QED BY <1>2, <1>3 DEF TopicInv, TopicType
<1> HIDE DEF r, M
<1>5. /\ r.next_offset = o + 1 /\ r.messages = M /\ r.dedup = t.dedup
      /\ r.dedup_order = t.dedup_order /\ r.groups = t.groups /\ r.rate = t.rate
      /\ r.retain_max_messages = t.retain_max_messages
      /\ r.retain_max_age_ms = t.retain_max_age_ms
      /\ r = [next_offset |-> r.next_offset, messages |-> r.messages, dedup |-> r.dedup,
              dedup_order |-> r.dedup_order, groups |-> r.groups, rate |-> r.rate,
              retain_max_messages |-> r.retain_max_messages,
              retain_max_age_ms |-> r.retain_max_age_ms]
  BY <1>1, Zenon DEF TopicInv, TopicType
<1>6. TopicType(r)
  BY <1>3, <1>4, <1>5, SMTT(60) DEF TopicInv, TopicType
<1>7. \A n \in DOMAIN r.groups : GroupInv(r.groups[n], r.next_offset, lease)
  <2> SUFFICES ASSUME NEW n \in DOMAIN t.groups PROVE GroupInv(t.groups[n], o + 1, lease)
    BY <1>5
  <2>1. GroupInv(t.groups[n], o, lease) BY DEF TopicInv
  <2>2. o + 1 \in Nat /\ o <= o + 1 /\ lease <= lease BY <1>3
  <2> HIDE DEF o
  <2> QED BY <1>3, <2>1, <2>2, GroupInvMonotone
<1>8. ValidDedup(r)
  BY <1>5 DEF TopicInv, ValidDedup
<1> QED BY <1>4, <1>5, <1>6, <1>7, <1>8 DEF TopicInv


\* Remembering a dedup key for the message just stored keeps the topic invariant.
LEMMA RememberKeyInv ==
  ASSUME NEW t, NEW lease \in Nat, TopicInv(t, lease), NEW key \in Key \cup {NoKey},
         key \notin DOMAIN t.dedup, NEW offset \in Nat
  PROVE  TopicInv(RememberKey(t, key, offset), lease)
<1>1. CASE key = NoKey
  BY <1>1 DEF RememberKey
<1>2. CASE key # NoKey
  <2>1. key \in Key BY <1>2
  <2>2. TopicMid(t, lease) /\ Len(t.dedup_order) <= DedupCapacity
    BY TopicMidInv
  <2> DEFINE D == [k \in DOMAIN t.dedup \cup {key} |-> IF k = key THEN offset ELSE t.dedup[k]]
             s == Append(t.dedup_order, key)
             r == [t EXCEPT !.dedup = D, !.dedup_order = s]
             n == Monus(Len(r.dedup_order), DedupCapacity)
  <2>3. RememberKey(t, key, offset) = PopKeys(r, n)
    BY <1>2 DEF RememberKey
  <2>4. r = [t EXCEPT !.dedup = D, !.dedup_order = s]
    OBVIOUS
  <2>5. t.dedup_order \in Seq(Key) /\ Len(t.dedup_order) \in Nat
        /\ DOMAIN t.dedup_order = 1 .. Len(t.dedup_order)
    BY LenProperties DEF TopicInv, TopicType
  <2>6. /\ s \in Seq(Key) /\ Len(s) = Len(t.dedup_order) + 1
        /\ \A i \in 1 .. Len(t.dedup_order) : s[i] = t.dedup_order[i]
        /\ s[Len(t.dedup_order) + 1] = key
        /\ DOMAIN s = 1 .. Len(t.dedup_order) + 1
    BY <2>1, <2>5, AppendProperties, LenProperties
  <2>7. D \in [DOMAIN t.dedup \cup {key} -> Nat] /\ DOMAIN D = DOMAIN t.dedup \cup {key}
    BY DEF TopicInv, TopicType
  <2> HIDE DEF D, s, r, n
  <2>8. /\ r.next_offset = t.next_offset /\ r.messages = t.messages /\ r.dedup = D
        /\ r.dedup_order = s /\ r.groups = t.groups /\ r.rate = t.rate
        /\ r.retain_max_messages = t.retain_max_messages
        /\ r.retain_max_age_ms = t.retain_max_age_ms
        /\ r = [next_offset |-> r.next_offset, messages |-> r.messages, dedup |-> r.dedup,
                dedup_order |-> r.dedup_order, groups |-> r.groups, rate |-> r.rate,
                retain_max_messages |-> r.retain_max_messages,
                retain_max_age_ms |-> r.retain_max_age_ms]
    BY <2>4, Zenon DEF TopicInv, TopicType
  <2>9. TopicType(r)
    BY <2>6, <2>7, <2>8 DEF TopicInv, TopicType
  <2>10. DedupTable(r)
    <3>1. DedupTable(t) BY <2>2 DEF TopicMid
    <3>2. \A i, j \in DOMAIN s : s[i] = s[j] => i = j
      <4> DEFINE L == Len(t.dedup_order)
      <4>1. \A i \in 1 .. L : s[i] # key
        BY <2>5, <2>6, <3>1 DEF DedupTable
      <4>2. \A i, j \in 1 .. L : s[i] = s[j] => i = j
        BY <2>5, <2>6, <3>1, SMTT(60) DEF DedupTable
      <4>3. L \in Nat /\ DOMAIN s = 1 .. L + 1 /\ s[L + 1] = key
        BY <2>5, <2>6
      <4> HIDE DEF L
      <4>4. \A i \in 1 .. L + 1 : i \in 1 .. L \/ i = L + 1 BY <4>3
      <4> QED BY <4>1, <4>2, <4>3, <4>4
    <3>3. DOMAIN D = {s[i] : i \in DOMAIN s}
      <4> DEFINE L == Len(t.dedup_order)
      <4>1. DOMAIN t.dedup = {s[i] : i \in 1 .. L}
        BY <2>5, <2>6, <3>1, SMTT(60) DEF DedupTable
      <4>2. L \in Nat /\ DOMAIN s = 1 .. L + 1 /\ s[L + 1] = key
        BY <2>5, <2>6
      <4> HIDE DEF L
      <4>3. 1 .. L + 1 = (1 .. L) \cup {L + 1} BY <4>2
      <4> QED BY <2>7, <4>1, <4>2, <4>3
    <3> QED BY <2>8, <3>2, <3>3 DEF DedupTable
  <2>11. TopicMid(r, lease)
    BY <2>2, <2>8, <2>9, <2>10 DEF TopicMid
  <2>12. n \in 0 .. Len(r.dedup_order) /\ Len(r.dedup_order) - n <= DedupCapacity
         /\ Len(r.dedup_order) \in Nat
    <3>1. Len(r.dedup_order) \in Nat BY <2>5, <2>6, <2>8
    <3>2. n = Monus(Len(r.dedup_order), DedupCapacity) BY DEF n
    <3> QED BY <3>1, <3>2, QueueConstants DEF Monus
  <2> DEFINE p == PopKeys(r, n)
  <2>13. TopicMid(p, lease) /\ Len(p.dedup_order) = Len(r.dedup_order) - n
    BY <2>11, <2>12, PopKeysMid
  <2> HIDE DEF p
  <2>14. TopicInv(p, lease)
    BY <2>12, <2>13, TopicMidInv
  <2> QED BY <2>3, <2>14 DEF p
<1> QED BY <1>1, <1>2

\* produce_one keeps the invariant, for a new key and for a re-sent one.
LEMMA ProduceOneInv ==
  ASSUME NEW t, NEW lease \in Nat, TopicInv(t, lease), NEW item,
         item.priority \in Nat, item.ts_ms \in Nat, item.key \in Key \cup {NoKey}
  PROVE  TopicInv(ProduceOne(t, item), lease)
<1> DEFINE s == StoreMessage(t, item)
<1>1. TopicInv(s, lease) /\ s.dedup = t.dedup
  BY StoreMessageInv
<1>2. t.next_offset \in Nat BY DEF TopicInv, TopicType
<1>3. item.key \notin DOMAIN t.dedup => TopicInv(AppendMessage(t, item), lease)
  <2> HIDE DEF s
  <2> SUFFICES ASSUME item.key \notin DOMAIN t.dedup
               PROVE  TopicInv(RememberKey(s, item.key, t.next_offset), lease)
    BY DEF AppendMessage, s
  <2> QED BY <1>1, <1>2, RememberKeyInv
<1> DEFINE r == IF item.key \in DOMAIN t.dedup THEN t ELSE AppendMessage(t, item)
<1>4. TopicInv(r, lease) BY <1>3
<1>5. ProduceOne(t, item) = PurgeRetained(r, item.ts_ms) BY DEF ProduceOne
<1> HIDE DEF r
<1> QED BY <1>4, <1>5, PurgeRetainedInv


-----------------------------------------------------------------------------
\* poll finds or makes its group, expires its leases and stamps it.
LEMMA PollEntryInv ==
  ASSUME NEW t, NEW lease \in Nat, TopicInv(t, lease), NEW n \in Group, NEW now \in Nat
  PROVE  /\ TopicInv(PollEntry(t, n, now), lease)
         /\ n \in DOMAIN PollEntry(t, n, now).groups
<1> DEFINE e == GroupEntry(t, n, now)
           a == Expire(e.groups[n], now)
           h == [a EXCEPT !.last_active_ms = Larger(a.last_active_ms, now),
                          !.poll_count = (a.poll_count + 1) % ReservedDen]
           r == [e EXCEPT !.groups[n] = h]
<1>1. TopicInv(e, lease) /\ n \in DOMAIN e.groups
  BY GroupEntryInv
<1>2. PollEntry(t, n, now) = r
  BY DEF PollEntry
<1> HIDE DEF e
<1>3. e.next_offset \in Nat BY <1>1 DEF TopicInv, TopicType
<1>4. GroupInv(a, e.next_offset, lease)
  BY <1>1, <1>3, ExpireInv DEF TopicInv
<1>5. h = [a EXCEPT !.last_active_ms = Larger(a.last_active_ms, now),
                    !.poll_count = (a.poll_count + 1) % ReservedDen]
  OBVIOUS
<1> HIDE DEF a, h
<1>6. /\ h.ack_watermark = a.ack_watermark /\ h.acked_above = a.acked_above
      /\ h.in_flight = a.in_flight /\ h.leased_offsets = a.leased_offsets
      /\ h.poll_count = (a.poll_count + 1) % ReservedDen
      /\ h.last_active_ms = Larger(a.last_active_ms, now)
      /\ h = [ack_watermark |-> h.ack_watermark, acked_above |-> h.acked_above,
              in_flight |-> h.in_flight, leased_offsets |-> h.leased_offsets,
              poll_count |-> h.poll_count, last_active_ms |-> h.last_active_ms]
  BY <1>4, <1>5, Zenon DEF GroupInv, GroupType
<1>7. Larger(a.last_active_ms, now) \in Nat
  BY <1>4 DEF GroupInv, GroupType, Larger
<1>8. (a.poll_count + 1) % ReservedDen \in 0 .. ReservedDen - 1
  <2>1. a.poll_count + 1 \in Nat /\ ReservedDen \in Nat /\ ReservedDen > 0
    BY <1>4, QueueConstants DEF GroupInv, GroupType
  <2>2. \A x, d \in Nat : d > 0 => x % d \in 0 .. d - 1
    OBVIOUS
  <2> QED BY <2>1, <2>2
<1>9. GroupInv(h, e.next_offset, lease)
  BY <1>4, <1>6, <1>7, <1>8 DEF GroupInv, GroupType, ValidGroup
<1>10. TopicInv(r, lease)
  BY <1>1, <1>9, UpdateGroupInv
<1>11. n \in DOMAIN r.groups
  BY <1>1 DEF TopicInv, TopicType
<1> QED BY <1>2, <1>10, <1>11

\* What a poll may choose from is finite, and it chooses from that.
LEMMA ChosenCandidates ==
  ASSUME NEW t, NEW lease, TopicInv(t, lease), NEW g, NEW max
  PROVE  /\ Chosen(t, g, max) \subseteq Candidates(t, g)
         /\ Candidates(t, g) \subseteq DOMAIN t.messages
         /\ IsFiniteSet(Chosen(t, g, max))
<1>1. Chosen(t, g, max) \subseteq Candidates(t, g)
  BY DEF Chosen, TopPriority, Oldest
<1>2. Candidates(t, g) \subseteq DOMAIN t.messages
  BY DEF Candidates
<1>3. t.next_offset \in Nat /\ DOMAIN t.messages \subseteq Nat
      /\ \A o \in DOMAIN t.messages : o <= t.next_offset
  BY DEF TopicInv, TopicType
<1>4. IsFiniteSet(DOMAIN t.messages)
  BY <1>3, FS_BoundedSetOfNaturals, Zenon
<1> QED BY <1>1, <1>2, <1>4, FS_Subset

\* Delivery order is a strict total order, so the ids a poll hands out are
\* distinct and are the next ones of the counter.
LEMMA LeaseIdsFresh ==
  ASSUME NEW t, NEW lease \in Nat, TopicInv(t, lease),
         NEW chosen \in SUBSET DOMAIN t.messages, IsFiniteSet(chosen)
  PROVE  /\ Cardinality(chosen) \in Nat
         /\ \A o \in chosen : /\ LeaseId(t, chosen, o, lease) \in Nat
                              /\ LeaseId(t, chosen, o, lease) >= lease
                              /\ LeaseId(t, chosen, o, lease) < lease + Cardinality(chosen)
         /\ \A o, q \in chosen :
               LeaseId(t, chosen, o, lease) = LeaseId(t, chosen, q, lease) => o = q
<1> DEFINE Ahead(o) == {p \in chosen : Before(t, p, o)}
<1>1. \A o \in chosen : t.messages[o].priority \in Nat /\ o \in Nat
  BY DEF TopicInv, TopicType, MessageType
<1>2. \A o \in chosen : ~Before(t, o, o)
  BY <1>1 DEF Before
<1>3. \A p, q, o \in chosen : Before(t, p, q) /\ Before(t, q, o) => Before(t, p, o)
  BY <1>1 DEF Before
<1>4. \A o, q \in chosen : o # q => Before(t, o, q) \/ Before(t, q, o)
  BY <1>1 DEF Before
<1>5. Cardinality(chosen) \in Nat
  BY FS_CardinalityType
<1>6. ASSUME NEW o \in chosen
      PROVE  /\ IsFiniteSet(Ahead(o)) /\ Cardinality(Ahead(o)) \in Nat
             /\ Cardinality(Ahead(o)) < Cardinality(chosen)
  <2>1. Ahead(o) \in SUBSET chosen /\ Ahead(o) # chosen
    BY <1>2
  <2> HIDE DEF Ahead
  <2>2. IsFiniteSet(Ahead(o)) BY <2>1, FS_Subset
  <2>3. Cardinality(Ahead(o)) \in Nat BY <2>2, FS_CardinalityType
  <2>4. Cardinality(Ahead(o)) <= Cardinality(chosen)
        /\ Cardinality(chosen) # Cardinality(Ahead(o))
    BY <2>1, FS_Subset
  <2> QED BY <1>5, <2>2, <2>3, <2>4
<1>7. ASSUME NEW o \in chosen, NEW q \in chosen, Before(t, q, o)
      PROVE  Cardinality(Ahead(q)) < Cardinality(Ahead(o))
  <2>1. Ahead(q) \in SUBSET Ahead(o)
    BY <1>3, <1>7
  <2>2. q \in Ahead(o) /\ q \notin Ahead(q)
    BY <1>2, <1>7
  <2>3. Ahead(q) # Ahead(o) BY <2>2
  <2>4. IsFiniteSet(Ahead(o)) /\ Cardinality(Ahead(o)) \in Nat /\ Cardinality(Ahead(q)) \in Nat
    BY <1>6, Zenon
  <2> HIDE DEF Ahead
  <2>5. Cardinality(Ahead(q)) <= Cardinality(Ahead(o))
        /\ Cardinality(Ahead(o)) # Cardinality(Ahead(q))
    BY <2>1, <2>3, <2>4, FS_Subset
  <2> QED BY <2>4, <2>5
<1>8. \A o \in chosen : LeaseId(t, chosen, o, lease) = lease + Cardinality(Ahead(o))
  BY DEF LeaseId
<1> HIDE DEF Ahead
<1>9. \A o \in chosen : /\ LeaseId(t, chosen, o, lease) \in Nat
                        /\ LeaseId(t, chosen, o, lease) >= lease
                        /\ LeaseId(t, chosen, o, lease) < lease + Cardinality(chosen)
  BY <1>5, <1>6, <1>8
<1>10. ASSUME NEW o \in chosen, NEW q \in chosen, o # q
       PROVE  LeaseId(t, chosen, o, lease) # LeaseId(t, chosen, q, lease)
  <2>1. Cardinality(Ahead(q)) \in Nat /\ Cardinality(Ahead(o)) \in Nat
    BY <1>6
  <2>2. Cardinality(Ahead(q)) # Cardinality(Ahead(o))
    BY <1>4, <1>7, <1>10, <2>1
  <2> QED BY <1>8, <2>1, <2>2
<1> QED BY <1>5, <1>9, <1>10


\* The leases a poll grants are new ones on offsets nobody in the group holds.
LEMMA GrantLeasesInv ==
  ASSUME NEW t, NEW lease \in Nat, TopicInv(t, lease), NEW n \in DOMAIN t.groups,
         NEW chosen \in SUBSET Candidates(t, t.groups[n]), IsFiniteSet(chosen),
         NEW deadline \in Nat
  PROVE  /\ TopicInv(GrantLeases(t, n, chosen, lease, deadline), lease + Cardinality(chosen))
         /\ n \in DOMAIN GrantLeases(t, n, chosen, lease, deadline).groups
         /\ lease + Cardinality(chosen) \in Nat /\ lease <= lease + Cardinality(chosen)
<1> DEFINE g        == t.groups[n]
           Id(o)    == LeaseId(t, chosen, o, lease)
           granted  == {Id(o) : o \in chosen}
           Taken(l) == CHOOSE o \in chosen : Id(o) = l
           next     == t.next_offset
           top      == lease + Cardinality(chosen)
           F == [l \in DOMAIN g.in_flight \cup granted |->
                    IF l \in granted THEN [offset |-> Taken(l), deadline_ms |-> deadline]
                    ELSE g.in_flight[l]]
           L == [o \in DOMAIN g.leased_offsets \cup chosen |->
                    IF o \in chosen THEN deadline ELSE g.leased_offsets[o]]
           h == [g EXCEPT !.in_flight = F, !.leased_offsets = L]
           r == [t EXCEPT !.groups[n] = h]
<1>1. GrantLeases(t, n, chosen, lease, deadline) = r
  BY DEF GrantLeases
<1>2. GroupInv(g, next, lease) /\ next \in Nat
  BY DEF TopicInv, TopicType
<1>3. /\ chosen \subseteq DOMAIN t.messages /\ chosen \subseteq Nat
      /\ \A o \in chosen : o < next /\ o >= g.ack_watermark /\ o \notin g.acked_above
                           /\ o \notin DOMAIN g.leased_offsets
  BY DEF Candidates, TopicInv, TopicType
<1>4. /\ Cardinality(chosen) \in Nat
      /\ \A o \in chosen : Id(o) \in Nat /\ Id(o) >= lease /\ Id(o) < top
      /\ \A o, q \in chosen : Id(o) = Id(q) => o = q
  BY <1>3, LeaseIdsFresh
<1>5. top \in Nat /\ lease <= top
  BY <1>4
<1>6. h = [g EXCEPT !.in_flight = F, !.leased_offsets = L]
  OBVIOUS
<1> HIDE DEF Id, top
<1>7. \A l \in granted : Taken(l) \in chosen /\ Id(Taken(l)) = l
  OBVIOUS
<1>8. \A o \in chosen : Id(o) \in granted /\ Taken(Id(o)) = o
  BY <1>4, <1>7
<1>9. \A l \in granted : l \in Nat /\ l >= lease /\ l < top
  BY <1>4
<1> HIDE DEF Taken, granted
<1>10. \A l \in DOMAIN g.in_flight :
          l \in Nat /\ l < lease /\ l \notin granted /\ g.in_flight[l].offset \notin chosen
          /\ g.in_flight[l].offset < next
          /\ g.in_flight[l] \in [offset : Nat, deadline_ms : Nat]
          /\ g.in_flight[l].offset \in DOMAIN g.leased_offsets
  <2> HIDE DEF g, next
  <2> SUFFICES ASSUME NEW l \in DOMAIN g.in_flight
               PROVE  /\ l \in Nat /\ l < lease /\ l \notin granted
                      /\ g.in_flight[l].offset \notin chosen /\ g.in_flight[l].offset < next
                      /\ g.in_flight[l] \in [offset : Nat, deadline_ms : Nat]
                      /\ g.in_flight[l].offset \in DOMAIN g.leased_offsets
    OBVIOUS
  <2>1. l \in Nat /\ l < lease /\ g.in_flight[l].offset < next
    BY <1>2 DEF GroupInv, GroupType, ValidGroup
  <2>2. g.in_flight[l] \in [offset : Nat, deadline_ms : Nat]
    BY <1>2 DEF GroupInv, GroupType
  <2>3. g.in_flight[l].offset \in DOMAIN g.leased_offsets
    BY <1>2 DEF GroupInv, ValidGroup
  <2>4. l \notin granted
    BY <1>9, <2>1, SMTT(60)
  <2> QED BY <1>3, <2>1, <2>2, <2>3, <2>4, SMTT(60)
<1>11. /\ DOMAIN F = DOMAIN g.in_flight \cup granted
       /\ DOMAIN L = DOMAIN g.leased_offsets \cup chosen
       /\ \A l \in granted : F[l] = [offset |-> Taken(l), deadline_ms |-> deadline]
       /\ \A l \in granted : F[l].offset = Taken(l) /\ F[l].deadline_ms = deadline
       /\ \A l \in DOMAIN g.in_flight : F[l] = g.in_flight[l]
       /\ \A o \in chosen : L[o] = deadline
       /\ \A o \in DOMAIN g.leased_offsets : L[o] = g.leased_offsets[o]
  BY <1>3, <1>10, Zenon
<1>12. DOMAIN F \subseteq Nat /\ F \in [DOMAIN F -> [offset : Nat, deadline_ms : Nat]]
  <2>1. F = [l \in DOMAIN F |-> F[l]] BY SMTT(60)
  <2> HIDE DEF F, L, h, g, next, r
  <2>2. \A l \in granted : l \in Nat /\ F[l] \in [offset : Nat, deadline_ms : Nat]
    <3> SUFFICES ASSUME NEW l \in granted
                 PROVE  l \in Nat /\ F[l] \in [offset : Nat, deadline_ms : Nat]
      OBVIOUS
    <3>1. Taken(l) \in Nat BY <1>3, <1>7, Zenon
    <3>2. F[l] = [offset |-> Taken(l), deadline_ms |-> deadline] BY <1>11, Zenon
    <3> QED BY <1>9, <3>1, <3>2
  <2>3. \A l \in DOMAIN g.in_flight : l \in Nat /\ F[l] \in [offset : Nat, deadline_ms : Nat]
    BY <1>10, <1>11, Zenon
  <2>4. \A l \in DOMAIN F : l \in Nat /\ F[l] \in [offset : Nat, deadline_ms : Nat]
    BY <1>11, <2>2, <2>3, Zenon
  <2> QED BY <2>1, <2>4, SMTT(60)
<1>13. L \in [DOMAIN L -> Nat]
  BY <1>2 DEF GroupInv, GroupType
<1> HIDE DEF F, L, h
<1>14. /\ h.ack_watermark = g.ack_watermark /\ h.acked_above = g.acked_above
       /\ h.in_flight = F /\ h.leased_offsets = L
       /\ h.poll_count = g.poll_count /\ h.last_active_ms = g.last_active_ms
       /\ h = [ack_watermark |-> h.ack_watermark, acked_above |-> h.acked_above,
               in_flight |-> h.in_flight, leased_offsets |-> h.leased_offsets,
               poll_count |-> h.poll_count, last_active_ms |-> h.last_active_ms]
  BY <1>2, <1>6, ZenonT(60) DEF GroupInv, GroupType
<1> HIDE DEF g
<1>15. GroupType(h)
  BY <1>2, <1>12, <1>13, <1>14, SMTT(60) DEF GroupInv, GroupType
<1>16. \A l \in DOMAIN F : l < top /\ F[l].offset < next
  BY <1>3, <1>4, <1>5, <1>7, <1>9, <1>10, <1>11, SMTT(60)
<1>17. \A l, m \in DOMAIN F : F[l].offset = F[m].offset => l = m
  <2>1. \A l, m \in DOMAIN g.in_flight : F[l].offset = F[m].offset => l = m
    BY <1>2, <1>11 DEF GroupInv, ValidGroup
  <2>2. \A l, m \in granted : F[l].offset = F[m].offset => l = m
    BY <1>7, <1>11, SMTT(60)
  <2>3. \A l \in granted, m \in DOMAIN g.in_flight : F[l].offset # F[m].offset
    BY <1>7, <1>10, <1>11, SMTT(60)
  <2> QED BY <1>11, <2>1, <2>2, <2>3, SMTT(60)
<1>18. DOMAIN L = {F[l].offset : l \in DOMAIN F}
  <2>1. DOMAIN g.leased_offsets = {F[l].offset : l \in DOMAIN g.in_flight}
    BY <1>2, <1>11, SMTT(60) DEF GroupInv, ValidGroup
  <2>2. chosen = {F[l].offset : l \in granted}
    BY <1>7, <1>8, <1>11, SMTT(60)
  <2> QED BY <1>11, <2>1, <2>2, SMTT(60)
<1>19. \A l \in DOMAIN F : L[F[l].offset] = F[l].deadline_ms
  <2>1. \A l \in DOMAIN g.in_flight : L[F[l].offset] = F[l].deadline_ms
    BY <1>2, <1>10, <1>11, SMTT(60) DEF GroupInv, ValidGroup
  <2>2. \A l \in granted : L[F[l].offset] = F[l].deadline_ms
    BY <1>7, <1>11, SMTT(60)
  <2> QED BY <1>11, <2>1, <2>2, SMTT(60)
<1>20. \A o \in DOMAIN L : o >= g.ack_watermark /\ o \notin g.acked_above
  BY <1>2, <1>3, <1>11, SMTT(60) DEF GroupInv, ValidGroup
<1>21. GroupInv(h, next, top)
  BY <1>2, <1>14, <1>15, <1>16, <1>17, <1>18, <1>19, <1>20, SMTT(60) DEF GroupInv, ValidGroup
<1>22. TopicInv(t, top)
  BY <1>5, TopicInvMonotone
<1>23. TopicInv(r, top)
  BY <1>21, <1>22, UpdateGroupInv
<1>24. n \in DOMAIN r.groups
  BY DEF TopicInv, TopicType
<1> QED BY <1>1, <1>5, <1>23, <1>24 DEF top
=============================================================================
