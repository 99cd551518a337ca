--------------------------- MODULE QueueSnapshot ----------------------------
(***************************************************************************)
(* What a snapshot of the queue holds and how it is read back:             *)
(* encode_state and decode_state of engine/state_machine.rs, normalize and *)
(* the compat module of queue.rs.  A snapshot is a format mark and a body; *)
(* the body of a release before 0.8 has no mark and its groups carry no    *)
(* activity stamp.  Those releases did not clamp a commit to the end of    *)
(* the topic either, so a group of theirs may be parked past it.           *)
(*                                                                         *)
(* Decoding is a function, so what is stated about it is stated for every  *)
(* state the queue reaches, as the snapshot of that state.                 *)
(***************************************************************************)
EXTENDS Queue

EncodeState(q, lease) == [format |-> "v1", topics |-> q, next_lease_id |-> lease]

(***************************************************************************)
(* Releases before 0.8                                                     *)
(***************************************************************************)
GroupV0(g) ==
    [ack_watermark |-> g.ack_watermark, acked_above |-> g.acked_above,
     in_flight |-> g.in_flight, leased_offsets |-> g.leased_offsets,
     poll_count |-> g.poll_count]

\* The group after a commit far past the end, which passed every ack and lease.
ParkedV0(g, watermark) ==
    [GroupV0(g) EXCEPT !.ack_watermark = watermark, !.acked_above = {},
                       !.in_flight = Empty, !.leased_offsets = Empty]

\* The topics as such a release wrote them, with the parked groups `past`
\* offsets beyond the end.
TopicV0(t, parked, past) ==
    [t EXCEPT !.groups = [n \in DOMAIN @ |->
        IF n \in parked THEN ParkedV0(@[n], t.next_offset + past) ELSE GroupV0(@[n])]]

EncodeV0(q, lease, parked, past) ==
    [format |-> "v0", topics |-> [t \in DOMAIN q |-> TopicV0(q[t], parked, past)],
     next_lease_id |-> lease]

(***************************************************************************)
(* decode_state                                                            *)
(***************************************************************************)
\* From<GroupStateV0> for GroupState: unstamped.
FromV0(g) ==
    [ack_watermark |-> g.ack_watermark, acked_above |-> g.acked_above,
     in_flight |-> g.in_flight, leased_offsets |-> g.leased_offsets,
     poll_count |-> g.poll_count, last_active_ms |-> 0]

\* From<TopicStateV0> for TopicState.
TopicFromV0(t) == [t EXCEPT !.groups = [n \in DOMAIN @ |-> FromV0(@[n])]]

\* From<QueueV0> for Queue.
QueueFromV0(q) == [t \in DOMAIN q |-> TopicFromV0(q[t])]

Body(bytes) == IF bytes.format = "v1" THEN bytes.topics ELSE QueueFromV0(bytes.topics)

ClampWatermark(g, next) == [g EXCEPT !.ack_watermark = Smaller(@, next)]

NormalizeNothing(t) == t

\* A watermark past the end of the topic goes back to it.
Normalize(t) ==
    [t EXCEPT !.groups = [n \in DOMAIN @ |-> ClampWatermark(@[n], t.next_offset)]]

Decoded(bytes) == [t \in DOMAIN bytes.topics |-> Normalize(Body(bytes)[t])]

\* validate() of what was decoded: otherwise the node does not start, or does
\* not install what it was sent.
Accepted(bytes) ==
    \A t \in DOMAIN bytes.topics : ValidTopic(Decoded(bytes)[t], bytes.next_lease_id)

-----------------------------------------------------------------------------
\* A snapshot brings back the queue it was taken of: normalize and validate,
\* which stand between the bytes and the state, leave alone every state the
\* queue can be in.  A replica that restarts from a snapshot, or is sent one,
\* goes on from the same state as one that applied the whole log.
SnapshotRoundTrip ==
    LET bytes == EncodeState(topics, next_lease_id)
    IN  Accepted(bytes) /\ Decoded(bytes) = topics

\* A snapshot of a release before 0.8 is accepted whichever groups it left
\* parked past the end of their topic, the other groups come back with their
\* acks and leases, and a parked one is handed the next message produced, which
\* it would not have seen before.
OldSnapshotLoads ==
    \A parked \in SUBSET Group :
        LET bytes == EncodeV0(topics, next_lease_id, parked, 2)
            old   == Decoded(bytes)
        IN  /\ Accepted(bytes)
            /\ \A t \in DOMAIN topics : \A n \in DOMAIN topics[t].groups :
                  IF n \in parked
                  THEN \A item \in Item : item.key = NoKey =>
                          HasDeliverable(ProduceOne(old[t], item), n, item.ts_ms)
                  ELSE GroupV0(old[t].groups[n]) = GroupV0(topics[t].groups[n])

\* An upgrade expires nobody: the groups of an old snapshot carry no stamp, and
\* the first sweep after it counts them as active from then on, whatever the
\* clock, not as idle since the epoch.
UpgradeExpiresNobody ==
    \A parked \in SUBSET Group, now \in Time :
        LET old == Decoded(EncodeV0(topics, next_lease_id, parked, 1))
        IN  \A t \in DOMAIN topics :
                DOMAIN SweepIdleGroups(old[t], now).groups = DOMAIN topics[t].groups
=============================================================================
