# A TLA+ model of hermesmq

hermesmq is a replicated message queue: topics of messages with priorities and
dedup keys, consumer groups that lease, acknowledge and commit, replicated by
openraft over a redb store on every node. This directory holds its formal model: TLA+
modules, the TLC configurations that check them, and TLAPS proofs.

Paths such as `queue.rs` are relative to `src/crates/hermesmq-core/src/`.

## The system and its parts

| part | code | state | operations | what is hard about it |
|---|---|---|---|---|
| queue state machine | `queue.rs` | topics: messages, dedup table, groups (watermark, acked set, leases) | one per `AppRequest` | long sequences of legal requests, clocks that go back with a new leader, limits and retention at their boundaries |
| log store and flusher | `engine/log_store.rs`, `storage.rs` | database, `pending`, job channel | append, truncate, purge, read, flush | a writer, a flusher thread and readers interleave; writes fail; crashes |
| snapshots | `engine/state_machine.rs` | snapshot record, last applied | apply, build, install | building runs beside installing |
| startup recovery | `engine/mod.rs` | what is on disk | `recover_consistency` | crashes in the middle of it, partial disk loss |
| push subscription | `client.rs` `handle_subscribe`, `SubTracking` | tracked leases, the session's batch, the reader's job | poll, deliver, write, ack, nack, disconnect | two tasks share the tracking; leases expire while acks travel; failover |
| client requests | `client.rs` | the batcher's channel, batches being written, notifiers, polls | produce, poll, one per other request kind | batches in flight at once, unknown outcomes, wake-ups, limits checked before the write |
| rate limiter | `client.rs` | a token bucket per topic | take, refund, forget | tokens taken for polls that get less, or fail |
| client connections | `client.rs` `handle_client` | the pipeline of pending responses | read, spawn, write, hand over | handlers that finish in any order, panic, or outlive the client |
| peer transport | `engine/network.rs`, `frame.rs` | a stream per peer | call, authenticate, serve | an RPC cancelled half way, streams lost without notice |
| HTTP, daemon, protobuf | `http.rs`, `hermesmqd`, `hermesmq-proto` | none between calls | read, format | nothing a model checker reaches |

A client request reaches the leader's `client.rs` over a pipelined connection, becomes an `AppRequest` in
the Raft log (log store; peer transport to the other nodes), is applied to the queue (state machine) on every node,
and is in time covered by a snapshot (snapshots, recovery).

## Modules

| module | models |
|---|---|
| `QueueState` | the pure functions of `queue.rs` on one group and one topic |
| `Queue` | `Queue::apply`: one action per request; its properties |
| `QueueContract` | what a queue promises its readers, abstractly |
| `QueueSnapshot` | what a snapshot of the queue holds, and decoding it, old formats included |
| `QueueStateProofs`, `QueueProofs` | the invariance proof of the queue |
| `SnapshotProofs` | the proof that every snapshot decodes |
| `LogStore` | writer, flusher thread, reader and crash over one node's log |
| `RaftLog` | the ordered map openraft expects of a log store |
| `Recovery` | snapshots, purge marker, committed pointer, crash, restart |
| `SubTracking` | the pure functions of `SubTracking` |
| `Subscription` | one push subscription over the actions of `Queue` |
| `RateLimiter` | the token buckets, as functions |
| `Client` | produces and their batcher, long polls, the rate limiter and the other requests, over the actions of `Queue` |
| `ClientPort` | one client connection: reader loop, handlers, writer |
| `PeerTransport` | the RPC calls of several peers to one node |
| `PeerTransportProofs` | the proof that responses and tokens are not mixed up |
| `MCQueue`, `MCSubscription`, `MCClient` | symmetry sets, sessions and clients for TLC |

**Queue.** BTreeMaps are functions with finite domains, the dedup `VecDeque` a
sequence, a `(producer_id, seq)` pair one model value. A message's payload is
its key, so that duplicates can be told apart. The variables are the two fields
of `Queue`. Each action is one request applied whole, sweep, reclaim, retention
and pruning included, with a timestamp from any clock: nothing assumes time goes
forward between requests. Two abstractions are exact: loops that remove a prefix
are written as the prefix they remove, and `poll_count` is kept modulo
`RESERVED_DEN`, the only way it is read. Requests that are rejected change
nothing and are left out.

**QueueSnapshot.** `encode_state` and `decode_state` as functions on the state
of `Queue`: a format mark, the body, `normalize`, `validate`. Releases before 0.8
wrote groups without an activity stamp and could leave a group parked past the end of
its topic; `EncodeV0` writes such a snapshot of any state, with any set of groups
parked.

**LogStore.** The writer (openraft's storage task), the flusher and a reader
each take one step per lock, channel operation or transaction. A failed write
poisons the database until it is reopened, as redb does. openraft's side is
external: it appends at the end, truncates what is there, and stops at the first
error it is told of.

**Recovery.** The same node seen from its disk: one action per transaction, a
crash between any two. Entries are only indices, since `LogStore` covers their
content. `forced` is the committed pointer that an `Eventual` write may fall back
to. `Start` is openraft's start-up, written from how `engine/mod.rs` and the
restart tests describe it: it re-applies the committed entries past the snapshot,
and looks up log ids from the front of the log on (`KeyEntries`: entry 0, or the
one after the purge marker, and any it probes behind); an entry it cannot find
aborts the start.

**Subscription.** Composes `Queue` and `SubTracking` with the session loop, the
reader task, the ack batcher, the client, a rival consumer and lost leadership.
Its clock does not go back: a session lives on one leader. Where the topic has a
rate limit, the bucket is shared with every other consumer, so a turn may find any
number of tokens in it (`Grants`). What may happen to a session is a record chosen in the initial state (`Setups`), so that one run
covers several kinds of session.

**Client.** The handlers of one node take one step per await: a produce checks,
queues its job and is answered; the batcher collects jobs, waits for a permit and
writes; a batch is applied by `ProduceBatch` of `Queue`, its answers zipped to
its jobs and its topics notified in a later step; a poll looks, parks on the
notifier it got *before* it looked, takes tokens, polls, refunds. Raft's answer
and the application of a request are separate steps, and a node that loses its
leadership leaves requests whose fate it does not know. Retries go to the same
node or to the next leader. The crowds tried are records too (`MCClient`).

**ClientPort.** The reader loop, the spawned handlers and the writer task with
the bounded channel between them. A response is its place in the order; a
handler ends at any time, with a response or by a panic. `Accept` chooses
whether there was a permit.

**PeerTransport.** Callers with the right token, a wrong one or none, each with
the stream it keeps between calls, and the serving task of each stream. A stream
carries frames in order, may be closed at either end, or be lost so that neither
end is told; what counts of a frame cut short is that its header arrived (`Cut`).
openraft may drop a call's future at every await.

## Runs

Passing runs:

| run | properties | shows |
|---|---|---|
| `queue_leases` | `SnapshotRoundTrip` `OldSnapshotLoads` `ReservedSlotServesOldest` `ImplementsContract` | leases, acks, commits and expiry in any order lead only to states that `validate` accepts and that come back from their snapshots, also from one in the old format; the reserved slot serves the oldest; the queue refines `QueueContract`, so what a group is done with stays done |
| `queue_topics` | `WatermarksRetained` `DedupWindow` `WithinLimits` `GateAgreesWithPoll` | retention cuts prefixes, carries watermarks along and forgets only the keys it or the window's capacity may; topic and group limits hold; the long-poll gate agrees with the poll |
| `log_store` | `AckedDurable` `ReadIsSound` `ImplementsRaftLog` `BarrierReleased` `PendingSettles` | what is acknowledged is on disk across failures and crashes; database plus pending is one ordered map until a write fails, and the disk alone is one without a hole; what the two-step read may return; nobody waits for the flusher for ever |
| `recovery_crash` | `AckedSurvives` `SnapshotCoversPurge` `AppliedRebuildable` `ComesBack` | crashes around snapshots built or installed, and partial loss of the log: what was acknowledged or applied can be rebuilt, and the node comes back, but for the loss named below |
| `subscribe` | `TrackingConsistent` `WindowRespected` `LeasesAccountedFor` `LateAckResolves` `AtMostOnce` `RepushedOnlyWhenStale` `AckCompletes` `ReleasedOnDisconnect` | the tracking agrees with the queue, with a rival, a rate limit and lost leadership, in both ack modes; no live lease is forgotten; the prefetch window; auto mode pushes nothing twice; a copy is pushed again only after its last refresh or when its lease is a visibility timeout late; acks complete, also those that come too late for their lease, until `ACK_GRACE_MS` is over; leases come back |
| `peer_transport` | `OwnResponse` `AuthBeforeRpc` `PermitReturned` `HandshakeEnds` | a call never returns another call's response; no RPC runs before its token; handshakes end, also on lost streams; permits come back from a peer that closed its end or leaves a frame unfinished |
| `client_port` | `InRequestOrder` `PipelineBounded` `SubscribeDrains` `AllAnswered` `GivenUp` | responses in request order whatever handlers do; no more than `PIPELINE_DEPTH + 2` run at once; a subscription starts on a drained connection; everything is answered, and dead connections are given up |
| `client_requests` | `AnsweredIsStored` `RetryStoredOnce` `NoLostWakeup` `TokensAccounted` `ProduceAnswered` `PollServed` | each job of a batch is told its own offset, in batches over two topics with a repeated message too; retries, also over a failover, are stored once, as long as the dedup window holds their key; no parked poll misses a message; rate limits pace delivery, and only a poll that fails loses its tokens |

Runs that end in a counterexample, where the text and the code disagree:

| run | property | what happens |
|---|---|---|
| `read_is_one_map` | `ReadIsComplete` | a flush between the reader's two steps hides an entry that was in the log throughout |
| `snapshot_overwritten` | `SnapshotCoversPurge` | a snapshot copied before and written after an installed one replaces it on disk |
| `repush_without_refresh` | `RefreshedBeforeRepush` | the poll that would refresh a lease comes a visibility timeout late, for want of tokens, and the session has forgotten the message by then; it is pushed to the same connection again |
| `pipeline_as_documented` | `PipelineAsDocumented` | more handlers run at once than the pipeline is deep: also the one the writer awaits and the one whose receiver the reader has yet to queue |

`snapshot_overwritten` depends on the model of openraft: that a snapshot may
arrive while one is being built (`Overlap`), and that it purges up to the
snapshot it knows of. `recovery_crash` has `Overlap` off, and shows that this is
the only way: without it `SnapshotCoversPurge` holds. It also shows that a crash
between the two transactions of the orphan repair is harmless as long as it
holds: the marker left behind is not past the snapshot, so `Start` finds what it
replays. The loss of part of the log excuses `AckedSurvives` and, in one case,
`ComesBack`: a log that lost its front but still meets the snapshot is taken for
whole by `recover_consistency`, while openraft misses the entry after the purge
marker and does not start (`FrontLost`). That case, too, is a claim about
openraft's start-up.

`repush_without_refresh` uses a sole consumer under a rate limit. A rival that
takes the expired lease, messages that are handed out before it, or a session
that is slow, delay the refresh in the same way; `RepushedOnlyWhenStale` in
`subscribe` shows that it takes a delay of a visibility timeout.

Other things the models made plain, which no run states as a property:

- a produce leaves idle groups in place: `sweep_idle_groups` runs in poll and in
  commit only, as its comment says. The README says that the sweep runs on any
  produce, too;
- the leases of a connection that dies are nacked at once when the session ends
  (`ReleasedOnDisconnect`), which is more than the README's "expire normally";
- a peer stream lost while the server waits for the next frame's header keeps its
  permit: only the body of a frame has a deadline there (`PermitReturned` is about
  those, and about ends that are closed), and the peer port sets no keepalive;
- a handler that panics ends the writer, and the connection then stays open and
  silent until the client sends another frame (the exception in `AllAnswered`);
- when the last places for topics were taken between the check of a produce and
  the write of its batch, the whole batch is refused and all its produces, also
  those to topics that exist, are answered `internal`; the README says such a
  request is answered `rejected`;
- a topic that is deleted and made again gets a new notifier: polls parked on
  the old one are served by their 200 ms timer (the exception in `NoLostWakeup`,
  and the reason `PollServed` needs the timer);
- `normalize` puts a parked group where a clamped commit would have left it only
  if nothing was produced between that commit and the snapshot;
- a poll that fails keeps the tokens it took (`TokensAccounted` counts them).

### Bounds

The instances are small but chosen so that each boundary is crossed: more
messages than the retention limit, more keys than the dedup capacity, a batch
over two topics with room for one and with room for both, two groups with room for one, lease durations
shorter and longer than the step between clock values, a visibility cap below
one of the requested values. `ReservedDen` is 2 rather than 4 so that the
reserved slot comes up within three polls; `Subscription` sets it to 1, because
its messages all have one priority. `GcThreshold` is 0 in `QueueTopics`, so that
`gc_idle_groups` acts: with the compiled-in values (1024 groups, limit 1000)
only a state from an older version reaches it. Two log values, two
indices and two queued jobs are enough for a truncation to be re-appended over,
and for a batch to be cut between two jobs.
In `Subscription` a session's record bounds what the client sends (`frames`),
the leases (`leases`) and the clock (`until`). A lease lasts one tick there, so
that three ticks let it expire, be taken by the rival and come back to a session
that has forgotten it; the slow sole consumer has one more, and leases to spare.
`MaxRefreshes` is 1 and `MaxAliases` 3 instead of 2
and 8; what matters is that `MaxAliases` is at least `MaxRefreshes + 2`, which is
assumed by name and holds of the compiled-in values.

`PeerTransport` has three callers, one of each kind, two streams and one permit,
so that a caller finds the node full, and two calls, so that a cancelled one
precedes another; for more of each there is a proof. `ClientPort` has a pipeline
of one and five frames: a token, one frame in each place a handler can be in, and
one more. `Client` has two jobs to a batch, two batches in flight, a channel of
one and at most three producers or pollers in each crowd; a failover, a retry, a
deletion and the clock's advance each happen in some crowd, not all in one.

Deadlock is checked for the queue, the log store and the peer transport, which
can always take another step. `Recovery`, `Subscription`, `Client` and
`ClientPort` may stop: their bounded events run out, and a session ends.

### Fairness

`LogStore`: weak fairness of the flusher thread, of the writer's continuation
after an await, and of the reader: threads and tasks that can run do. `Recovery`:
weak fairness of the recovery steps, which are one synchronous function.
`Subscription`: weak fairness of the session loop and of the reader task, and
`RaftAnswers`: a Raft write that is waited for returns or fails. A failing
heartbeat is outside the loop's fairness, so no session ends by it alone.
`Client`: weak fairness of the batcher and the produce handlers, of each poll
handler with its timer, and `RaftAnswers` again. `ClientPort`: weak fairness of
the reader after a read and of the writer; every handler ends; a client that is
gone is noticed, by the TCP keepalive `serve_clients_authenticated` sets.
`PeerTransport`: weak fairness of each caller's steps and of each serving task,
with the timeouts of `exchange_token` and `read_frame_deadline` among them; no
cancellation, loss or restart has to happen. Nothing is assumed of clients, of
time, or of openraft beyond that.

## Proofs

`QueueProofs` proves, for every set of topics, groups, keys, priorities, clock
values and request parameters and all limits:

- `TypeCorrect`: `Spec => []TypeOK`;
- `SnapshotsValidate`: `Spec => []Validate`, so no reachable state is refused by
  the decoder that a restarting node passes its snapshot through;
- `AckedStaysReleased`: `Spec => []AckedNotLeased`.

`SnapshotProofs` proves, for the same constants:

- `SnapshotsRestore`: `Spec => []SnapshotRoundTrip`;
- `OldSnapshotsLoad`: `Spec => []OldSnapshotLoads`;
- `UpgradesExpireNobody`: `Spec => []UpgradeExpiresNobody`.

`PeerTransportProofs` proves, for any peers, tokens, streams, permits and calls:

- `ResponsesMatch`: `Spec => []OwnResponse`;
- `TokenFirst`: `Spec => []AuthBeforeRpc`.

`TypeOK`, `Validate`, `AckedNotLeased` and `UpgradeExpiresNobody` are proved and
in no run of their own. `SnapshotRoundTrip` implies `Validate` in each state,
since `decode_state` validates.

The assumptions are `QueueConstants` and `RequestConstants` (limits are natural
numbers, `RESERVED_DEN` and the default retention are positive, and the empty
producer id is not a key) and `PeerConstants` (the sets are what their names say,
and nobody has both a right and a wrong token).

`Validate` is not inductive. An ack adds offsets to `acked_above` and drains the
watermark over the acked run; from `Validate` alone an acked offset could be
leased, and the watermark could pass a lease. The invariant `IInv` adds that no
acked offset is leased, and the types. The argument goes bottom up: in
`QueueStateProofs` each operator on a group preserves `GroupInv`, each operator
on a topic preserves `TopicInv` (with `TopicMid` for the moment when the dedup
table is over its capacity), and lease ids handed out by a poll are fresh and
distinct; `QueueProofs` has one case per request. A batch is a recursive
function, unfolded by induction over its items.

The snapshot theorems rest on the same `IInv`. A watermark never passes the end
of its topic, so `normalize` changes nothing of a snapshot in the present format.
For an old one the groups are taken one by one: one that is not parked comes
back as it was but for its stamp, a parked one with its watermark at the end of
the topic and nothing else, and both satisfy `GroupInv`, whence `validate`. That
a parked group is then handed the next message needs that retention keeps the
newest message, that storing it does not drop the group, and that the group has
no lease on it.

`OwnResponse` is not inductive either: it says nothing of what is still under
way. `PeerTransportProofs!IInv` adds, for every stream, that at most one frame is
under way on it and that the right token comes only from an owner that has it;
and for every caller, that the stream it keeps is quiet and that the one its call
uses is quiet before the request is written, and afterwards carries that request,
what was cut off it, or its response, and nothing else. Steps of the serving
task, of the network and of a restart are shown to be steps that keep these
(`Evolves`); steps of a caller touch only streams it owns or nobody holds
(`CallerStep`).

Only model-checked: all properties of `LogStore`, `Recovery`, `Subscription`,
`Client` and `ClientPort`; the queue's retention, dedup, limit and
fairness-of-choice properties; both refinements. Liveness is beyond the prover.

## Not modelled

- HTTP endpoint, daemon, generated protocol code, shared type declarations: no
  state of their own that changes, or only formatting.
- The stats and bootstrap requests: they read, or hand a call to openraft and
  return its answer.
- openraft and redb are external: they are modelled from how the code uses them.
- Names, payloads and frames within their length limits: what is over them is
  rejected without effect.
- The vote, one key that is written at once.
- Two replicas that load an old snapshot at different log positions may stamp
  its groups at different times and so expire them apart. A property of this
  needs two copies of the queue; it is in the list of hazards without one.

The model has one node's storage at a time. That a majority of such nodes
elects leaders and commits safely is openraft's claim; what is checked here is
what openraft relies on.

## What could be added

A composition of `Queue` and `Recovery` (a restarted node's queue is the one its
log prefix determines), two replicas side by side over an upgrade, and proofs of
`SubTracking`'s consistency, of `AckedDurable`, of
`SnapshotCoversPurge` without concurrent builds and installs, and of the queue's
retention and dedup invariants.
