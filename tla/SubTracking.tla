---------------------------- MODULE SubTracking -----------------------------
(***************************************************************************)
(* SubTracking of client.rs: what one subscription remembers of the leases *)
(* it was granted.  by_offset holds the current lease of every offset the  *)
(* client is working on and the ids the client may know it by;             *)
(* lease_to_offset finds the offset of each of those ids; acked_recently   *)
(* remembers, for a while, offsets the client has acknowledged.            *)
(*                                                                         *)
(* Everything here is a pure operator on one tracking record k.            *)
(***************************************************************************)
EXTENDS Integers, Sequences, FiniteSets, Functions

CONSTANTS MaxRefreshes,   \* SUBSCRIBE_MAX_LEASE_REFRESHES
          MaxAliases      \* SUBSCRIBE_MAX_LEASE_ALIASES

ASSUME TrackingConstants ==
    /\ MaxRefreshes \in Nat /\ MaxAliases \in Nat
    /\ MaxAliases >= MaxRefreshes + 2

NoTracks == [x \in {} |-> x]
NoTracking ==
    [by_offset |-> NoTracks, lease_to_offset |-> NoTracks, acked_recently |-> NoTracks]

Drop(f, S) == Restrict(f, DOMAIN f \ S)
Put(f, x, y) == [z \in DOMAIN f \cup {x} |-> IF z = x THEN y ELSE f[z]]
Aliases(k, o) == {k.by_offset[o].leases[i] : i \in DOMAIN k.by_offset[o].leases}

\* Remove the offsets of S with every id they are known by.
Forget(k, S) ==
    [k EXCEPT !.by_offset = Drop(@, S),
              !.lease_to_offset = Drop(@, UNION {Aliases(k, o) : o \in S})]

(***************************************************************************)
(* deliver: a poll returned offset o under a new lease                     *)
(***************************************************************************)
AlreadyAcked(k, o, now) ==
    o \in DOMAIN k.acked_recently /\ k.acked_recently[o] > now

Refreshed(k, o, now) ==
    /\ ~AlreadyAcked(k, o, now)
    /\ o \in DOMAIN k.by_offset
    /\ k.by_offset[o].refreshes < MaxRefreshes

\* An alias list that outgrows the limit loses its oldest entry, in both maps.
EvictedNone(leases) == {}

Evicted(leases) == IF Len(leases) > MaxAliases THEN {Head(leases)} ELSE {}

Untracked(k, o, lease, deadline) ==
    LET f == Forget(k, {o} \cap DOMAIN k.by_offset)
    IN  [by_offset       |-> Put(f.by_offset, o, [lease_id |-> lease, deadline_ms |-> deadline,
                                                  refreshes |-> 0, leases |-> <<lease>>]),
         lease_to_offset |-> Put(f.lease_to_offset, lease, o),
         acked_recently  |-> Drop(f.acked_recently, {o})]

DeliverAfresh(k, o, lease, deadline, now) ==
    IF AlreadyAcked(k, o, now) THEN k ELSE Untracked(k, o, lease, deadline)

Deliver(k, o, lease, deadline, now) ==
    LET known  == IF o \in DOMAIN k.by_offset THEN k.by_offset[o].leases ELSE <<>>
        leases == Append(known, lease)
        track  == [lease_id |-> lease, deadline_ms |-> deadline,
                   refreshes |-> IF Refreshed(k, o, now) THEN k.by_offset[o].refreshes + 1 ELSE 0,
                   leases |-> IF Len(leases) > MaxAliases THEN Tail(leases) ELSE leases]
    IN  IF AlreadyAcked(k, o, now) THEN k
        ELSE [by_offset       |-> Put(k.by_offset, o, track),
              lease_to_offset |-> Put(Drop(k.lease_to_offset, Evicted(leases)), lease, o),
              acked_recently  |-> Drop(k.acked_recently, {o})]

(***************************************************************************)
(* resolve: the client acks or nacks by any id it knows the offset by      *)
(***************************************************************************)
Known(k, lease) == lease \in DOMAIN k.lease_to_offset

\* resolve(..).unwrap_or(lease): the lease the ack goes out for.
Resolved(k, lease) ==
    IF Known(k, lease) THEN k.by_offset[k.lease_to_offset[lease]].lease_id ELSE lease

\* A nack leaves no trace; an ack is remembered until the given time.
ResolveNack(k, lease) == IF Known(k, lease) THEN Forget(k, {k.lease_to_offset[lease]}) ELSE k

ResolveAck(k, lease, until) ==
    IF Known(k, lease)
    THEN [ResolveNack(k, lease) EXCEPT !.acked_recently = Put(@, k.lease_to_offset[lease], until)]
    ELSE k

(***************************************************************************)
(* drain_leases and live_count                                             *)
(***************************************************************************)
DrainLeases(k) == {k.by_offset[o].lease_id : o \in DOMAIN k.by_offset}

\* live_count first drops acks past their time and offsets whose deadline is
\* a whole grace ago.
PruneAtDeadline(k, now, grace) ==
    [Forget(k, {o \in DOMAIN k.by_offset : k.by_offset[o].deadline_ms <= now}) EXCEPT
        !.acked_recently = Drop(@, {o \in DOMAIN @ : @[o] <= now})]

Prune(k, now, grace) ==
    [Forget(k, {o \in DOMAIN k.by_offset : k.by_offset[o].deadline_ms + grace <= now}) EXCEPT
        !.acked_recently = Drop(@, {o \in DOMAIN @ : @[o] <= now})]

LiveCountEarly(k, now) ==
    Cardinality({o \in DOMAIN k.by_offset : k.by_offset[o].deadline_ms > now + 1})

LiveCount(k, now) ==
    Cardinality({o \in DOMAIN k.by_offset : k.by_offset[o].deadline_ms > now})

(***************************************************************************)
(* debug_check_invariants, and its converse: no id outlives its offset     *)
(***************************************************************************)
Consistent(k) ==
    /\ \A l \in DOMAIN k.lease_to_offset :
          /\ k.lease_to_offset[l] \in DOMAIN k.by_offset
          /\ l \in Aliases(k, k.lease_to_offset[l])
    /\ \A o \in DOMAIN k.by_offset :
          /\ Len(k.by_offset[o].leases) <= MaxAliases
          /\ k.by_offset[o].lease_id \in Aliases(k, o)
          /\ \A l \in Aliases(k, o) : Known(k, l) /\ k.lease_to_offset[l] = o
    /\ DOMAIN k.acked_recently \cap DOMAIN k.by_offset = {}
=============================================================================
