---------------------------- MODULE Subscription ----------------------------
(***************************************************************************)
(* handle_subscribe of client.rs: one push subscription on a leader, over  *)
(* the queue of module Queue and the bookkeeping of module SubTracking.    *)
(*                                                                         *)
(* Four parties interleave.  The session loop polls the queue through Raft *)
(* and pushes what it gets.  The reader task takes the client's acks and   *)
(* nacks; it shares the tracking with the session under a lock, and hands  *)
(* its jobs to the ack batcher.  The batcher writes them to Raft: up to    *)
(* ACK_WRITE_PIPELINE batches at once, so in any order.  The client may    *)
(* ack or nack, once or again, anything it was ever pushed, and vanish.    *)
(* A second consumer of the same group may poll, and the node may lose its *)
(* leadership.                                                             *)
(*                                                                         *)
(* The clock is the leader's and does not go back within a session; time   *)
(* may pass between any two steps, or, when Prompt, only while the session *)
(* and the batcher have nothing to do.  Of the heartbeats only the one     *)
(* that fails is an action.  The bucket of a rate limit is shared with all *)
(* consumers of the topic, so a turn may find any number of tokens in it.  *)
(***************************************************************************)
EXTENDS Queue, SubTracking

CONSTANTS StreamTopic, StreamGroup,  \* what the client subscribed to
          Messages,     \* bound: messages in the topic
          AckGrace,     \* ACK_GRACE_MS
          Setups        \* the sessions tried, and what may happen to each

ASSUME SubscriptionConstants ==
    /\ StreamTopic \in Topic /\ StreamGroup \in Group
    /\ Messages \in Nat /\ AckGrace \in Nat
    /\ Setups \subseteq [prefetch : Nat \ {0}, lease : Nat \ {0}, auto : BOOLEAN, nacks : BOOLEAN,
                         limited : BOOLEAN, rival : BOOLEAN, failover : BOOLEAN,
                         prompt : BOOLEAN, frames : Nat, leases : Nat, until : Nat]

VARIABLES now,        \* now_ms of the leader
          leader,     \* whether this node still leads
          conn,       \* the connection: "open", or "gone"
          tracking,   \* the shared SubTracking
          session,    \* the session loop: its setup, where it is, its poll and the items left
          reader,     \* the reader task: where it is and the job it is sending
          frames,     \* acks and nacks the client has sent
          acks,       \* jobs sent to the ack batcher
          mine,       \* lease ids the queue granted to this session
          pushed,     \* the ones written to the client
          copies,     \* what the client works on: by offset, the last pushed lease,
                      \* the refreshes since, and the deadline the last of them set
          confirmed,  \* offsets the client has acked by a lease the session knew, and
                      \* until when the session remembers it
          stranded    \* leases nobody is left to release

local == <<now, leader, conn, frames, tracking, session, reader, acks, mine, pushed, copies, confirmed, stranded>>
allvars == <<vars, local>>

stream == topics[StreamTopic]
group == IF StreamGroup \in DOMAIN stream.groups THEN stream.groups[StreamGroup]
         ELSE NewGroup(FirstOffset(stream), 0)

Prefetch == session.setup.prefetch     \* prefetch of the subscription
Lease == session.setup.lease           \* its visibility timeout
Auto == session.setup.auto             \* whether its ack_mode is "auto"
ClientNacks == session.setup.nacks     \* whether the client nacks
Limited == session.setup.limited       \* whether the topic has a rate limit
Rival == session.setup.rival           \* whether a second consumer polls the group
Failover == session.setup.failover     \* whether the node may lose its leadership
Prompt == session.setup.prompt         \* whether the session keeps up with the clock
MaxFrames == session.setup.frames      \* bound: acks and nacks the client sends
Leases == session.setup.leases         \* bound: leases granted
MaxNow == session.setup.until          \* bound: the clock

AckJob(l, nack) == [lease |-> l, nack |-> nack]

InitialBatch ==
    [i \in 1 .. Messages |-> [topic |-> StreamTopic, priority |-> 0, key |-> NoKey, ts_ms |-> 1]]

SubInit ==
    /\ topics = StoreAll(Empty, InitialBatch)
    /\ next_lease_id = 0
    /\ now = 1 /\ leader = TRUE /\ conn = "open" /\ frames = 0
    /\ tracking = NoTracking
    /\ \E setup \in Setups :
          session = [setup |-> setup, pc |-> "top", max |-> 0, ts |-> 0, items |-> <<>>]
    /\ reader = [pc |-> "read", jobs |-> {}]
    /\ acks = {} /\ mine = {} /\ pushed = {} /\ copies = NoTracks /\ confirmed = NoTracks /\ stranded = {}

-----------------------------------------------------------------------------
(***************************************************************************)
(* The session loop                                                        *)
(***************************************************************************)
\* The select at the end of a turn returns when a slot is freed, the topic is
\* notified or 200 ms are over: at any time.
AtTop == session.pc \in {"top", "wait"}

LeaveLoopDeposed ==
    /\ AtTop /\ ~leader
    /\ session' = [session EXCEPT !.pc = "exit"]
    /\ UNCHANGED <<vars, now, leader, conn, frames, tracking, reader, acks, mine, pushed, copies, confirmed, stranded>>

\* The reader has ended, or the node does not lead.
LeaveLoop ==
    /\ AtTop
    /\ reader.pc = "ended" \/ ~leader
    /\ session' = [session EXCEPT !.pc = "exit"]
    /\ UNCHANGED <<vars, now, leader, conn, frames, tracking, reader, acks, mine, pushed, copies, confirmed, stranded>>

\* A heartbeat cannot be written, or times out on a slow client.
HeartbeatFails ==
    /\ AtTop /\ reader.pc # "ended" /\ leader
    /\ session' = [session EXCEPT !.pc = "exit"]
    /\ UNCHANGED <<vars, now, leader, conn, frames, tracking, reader, acks, mine, pushed, copies, confirmed, stranded>>

\* What limiter.take may grant: part of what is wanted, or nothing.
Grants(want) == IF Limited THEN 0 .. want ELSE {want}

\* One turn: count what is live, and poll for the rest of the window if there
\* is something to deliver, as far as the rate limit grants it.
Turn ==
    LET pruned == Prune(tracking, now, Lease)
        cur    == LiveCount(pruned, now)
        due    == /\ cur < Prefetch /\ HasDeliverable(stream, StreamGroup, now)
                  /\ next_lease_id + Prefetch <= Leases
    IN  /\ AtTop /\ reader.pc # "ended" /\ leader
        /\ tracking' = pruned
        /\ \E grant \in IF due THEN Grants(Prefetch - cur) ELSE {0} :
              session' = IF grant > 0 THEN [session EXCEPT !.pc = "polling", !.max = grant, !.ts = now]
                         ELSE [session EXCEPT !.pc = "wait"]
        /\ UNCHANGED <<vars, now, leader, conn, frames, reader, acks, mine, pushed, copies, confirmed, stranded>>

\* What the poll will hand out, in delivery order: nothing, if the topic has
\* no room for the group.
Polled ==
    LET swept  == Swept(StreamTopic, session.ts)
        chosen == IF AdmitsGroup(swept, StreamGroup)
                  THEN PollChoice(StreamTopic, StreamGroup, session.max, session.ts) ELSE {}
        Id(o)  == LeaseId(swept, chosen, o, next_lease_id)
    IN  [i \in 1 .. Cardinality(chosen) |->
            CHOOSE d \in {[offset |-> o, lease |-> Id(o)] : o \in chosen} :
                d.lease = next_lease_id + i - 1]

LeasesOf(items) == {items[i].lease : i \in DOMAIN items}

ApplyPoll ==
    IF Auto THEN PollAuto(StreamTopic, StreamGroup, session.max, Lease, session.ts)
    ELSE Poll(StreamTopic, StreamGroup, session.max, Lease, session.ts)

PollAnswered ==
    /\ session.pc = "polling" /\ leader
    /\ ApplyPoll
    /\ session' = IF Polled = <<>> THEN [session EXCEPT !.pc = "wait", !.max = 0, !.ts = 0]
                  ELSE [session EXCEPT !.pc = "deliver", !.max = 0, !.ts = 0, !.items = Polled]
    /\ mine' = mine \cup LeasesOf(Polled)
    /\ UNCHANGED <<now, leader, conn, frames, tracking, reader, acks, pushed, copies, confirmed, stranded>>

\* client_write fails: the poll is lost, or applied by the next leader with
\* nobody to take what it grants.
PollLost ==
    /\ session.pc = "polling" /\ ~leader
    /\ session' = [session EXCEPT !.pc = "exit"]
    /\ UNCHANGED <<vars, now, leader, conn, frames, tracking, reader, acks, mine, pushed, copies, confirmed, stranded>>

PollUnanswered ==
    /\ session.pc = "polling" /\ ~leader
    /\ ApplyPoll
    /\ session' = [session EXCEPT !.pc = "exit"]
    /\ mine' = mine \cup LeasesOf(Polled)
    /\ stranded' = stranded \cup LeasesOf(Polled)
    /\ UNCHANGED <<now, leader, conn, frames, tracking, reader, acks, pushed, copies, confirmed>>

DeliverItemDropped ==
    LET d      == Head(session.items)
        rest   == [session EXCEPT !.items = Tail(@)]
        acked  == ~Auto /\ AlreadyAcked(tracking, d.offset, now)
        silent == ~Auto /\ Refreshed(tracking, d.offset, now)
    IN  /\ session.pc = "deliver" /\ session.items # <<>>
        /\ tracking' = IF Auto THEN tracking
                       ELSE Deliver(tracking, d.offset, d.lease, now + Lease, now)
        /\ session' = IF acked \/ silent THEN rest ELSE [session EXCEPT !.pc = "write"]
        /\ copies' = IF silent /\ d.offset \in DOMAIN copies
                     THEN [copies EXCEPT ![d.offset].refreshes = @ + 1, ![d.offset].until = now + Lease]
                     ELSE copies
        /\ UNCHANGED <<vars, now, leader, conn, frames, reader, acks, mine, pushed, confirmed, stranded>>

\* deliver decides under the lock: push, keep as a refreshed lease, or ack again.
DeliverItem ==
    LET d      == Head(session.items)
        rest   == [session EXCEPT !.items = Tail(@)]
        acked  == ~Auto /\ AlreadyAcked(tracking, d.offset, now)
        silent == ~Auto /\ Refreshed(tracking, d.offset, now)
    IN  /\ session.pc = "deliver" /\ session.items # <<>>
        /\ tracking' = IF Auto THEN tracking
                       ELSE Deliver(tracking, d.offset, d.lease, now + Lease, now)
        /\ acks' = IF acked THEN acks \cup {AckJob(d.lease, FALSE)} ELSE acks
        /\ session' = IF acked \/ silent THEN rest ELSE [session EXCEPT !.pc = "write"]
        /\ copies' = IF silent /\ d.offset \in DOMAIN copies
                     THEN [copies EXCEPT ![d.offset].refreshes = @ + 1, ![d.offset].until = now + Lease]
                     ELSE copies
        /\ UNCHANGED <<vars, now, leader, conn, frames, reader, mine, pushed, confirmed, stranded>>

\* The client may have acked an earlier copy while this one was being written.
TrackedUntil(o) ==
    IF o \in DOMAIN tracking.by_offset THEN tracking.by_offset[o].deadline_ms ELSE 0

WriteItem ==
    LET d == Head(session.items)
    IN  /\ session.pc = "write"
        /\ session' = [session EXCEPT !.pc = "deliver", !.items = Tail(@)]
        /\ pushed' = pushed \cup {d.lease}
        /\ copies' = Put(copies, d.offset, [lease |-> d.lease, refreshes |-> 0,
                                           until |-> TrackedUntil(d.offset)])
        /\ UNCHANGED <<vars, now, leader, conn, frames, tracking, reader, acks, mine, confirmed, stranded>>

\* The client is gone or too slow: what is left of the batch was never tracked.
WriteFails ==
    /\ session.pc = "write"
    /\ session' = [session EXCEPT !.pc = "exit", !.items = IF Auto THEN <<>> ELSE Tail(@)]
    /\ UNCHANGED <<vars, now, leader, conn, frames, tracking, reader, acks, mine, pushed, copies, confirmed, stranded>>

BatchDone ==
    /\ session.pc = "deliver" /\ session.items = <<>>
    /\ session' = [session EXCEPT !.pc = "top"]
    /\ UNCHANGED <<vars, now, leader, conn, frames, tracking, reader, acks, mine, pushed, copies, confirmed, stranded>>

\* Abort the reader, and nack what was never delivered and what is tracked.
ExitKeepingLeases ==
    /\ session.pc = "exit"
    /\ acks' = acks \cup {AckJob(l, TRUE) : l \in LeasesOf(session.items)}
    /\ tracking' = NoTracking
    /\ session' = [session EXCEPT !.pc = "closed", !.items = <<>>]
    /\ UNCHANGED <<vars, now, leader, conn, frames, reader, mine, pushed, copies, confirmed, stranded>>

Exit ==
    LET undelivered == LeasesOf(session.items) \cup DrainLeases(tracking)
    IN  /\ session.pc = "exit"
        /\ acks' = acks \cup {AckJob(l, TRUE) : l \in undelivered}
        /\ tracking' = NoTracking
        /\ session' = [session EXCEPT !.pc = "closed", !.items = <<>>]
        /\ UNCHANGED <<vars, now, leader, conn, frames, reader, mine, pushed, copies, confirmed, stranded>>

(***************************************************************************)
(* The reader task                                                         *)
(***************************************************************************)
\* An Ack or Nack frame: resolve under the lock, then send the job.  The two
\* are apart: send waits while the batcher's channel is full.
ReadFrame(l, nack) ==
    LET known == Known(tracking, l)
        o     == tracking.lease_to_offset[l]
    IN  /\ reader.pc = "read" /\ ~Auto /\ frames < MaxFrames
        /\ frames' = frames + 1
        /\ tracking' = IF nack THEN ResolveNack(tracking, l)
                       ELSE ResolveAck(tracking, l, now + AckGrace)
        /\ reader' = [pc |-> "send", jobs |-> {AckJob(Resolved(tracking, l), nack)}]
        /\ copies' = IF known THEN Drop(copies, {o}) ELSE copies
        /\ confirmed' = IF known /\ ~nack THEN Put(confirmed, o, now + AckGrace) ELSE confirmed
        /\ UNCHANGED <<vars, now, leader, conn, session, acks, mine, pushed, stranded>>

SendJob ==
    /\ reader.pc = "send"
    /\ acks' = acks \cup reader.jobs
    /\ reader' = [pc |-> "read", jobs |-> {}]
    /\ UNCHANGED <<vars, now, leader, conn, frames, tracking, session, mine, pushed, copies, confirmed, stranded>>

ReaderEnds ==
    /\ reader.pc = "read" /\ conn = "gone"
    /\ reader' = [reader EXCEPT !.pc = "ended"]
    /\ UNCHANGED <<vars, now, leader, conn, frames, tracking, session, acks, mine, pushed, copies, confirmed, stranded>>

\* reader.abort() takes effect where the task waits: a job it is sending is lost.
ReaderAborted ==
    /\ session.pc = "closed" /\ reader.pc # "ended"
    /\ reader' = [pc |-> "ended", jobs |-> {}]
    /\ stranded' = stranded \cup {j.lease : j \in reader.jobs}
    /\ UNCHANGED <<vars, now, leader, conn, frames, tracking, session, acks, mine, pushed, copies, confirmed>>

(***************************************************************************)
(* The ack batcher, the other consumer, and the world                      *)
(***************************************************************************)
WriteAck(job) ==
    /\ job \in acks /\ leader
    /\ IF job.nack THEN NackMany(StreamTopic, StreamGroup, {job.lease})
       ELSE AckMany(StreamTopic, StreamGroup, {job.lease})
    /\ acks' = acks \ {job}
    /\ UNCHANGED <<now, leader, conn, frames, tracking, session, reader, mine, pushed, copies, confirmed, stranded>>

\* No reply is asked for, so a failed write is never retried.
AckLost(job) ==
    /\ job \in acks /\ ~leader
    /\ acks' = acks \ {job}
    /\ stranded' = stranded \cup {job.lease}
    /\ UNCHANGED <<vars, now, leader, conn, frames, tracking, session, reader, mine, pushed, copies, confirmed>>

RivalPolls ==
    /\ Rival /\ leader /\ next_lease_id < Leases
    /\ Poll(StreamTopic, StreamGroup, 1, Lease, now)
    /\ UNCHANGED local

StepDown ==
    /\ Failover /\ leader
    /\ leader' = FALSE
    /\ UNCHANGED <<vars, now, conn, frames, tracking, session, reader, acks, mine, pushed, copies, confirmed, stranded>>

Disconnect ==
    /\ conn = "open"
    /\ conn' = "gone"
    /\ UNCHANGED <<vars, now, leader, frames, tracking, session, reader, acks, mine, pushed, copies, confirmed, stranded>>

KeptUp ==
    /\ session.pc \in {"wait", "closed"}
    /\ reader.pc # "send" /\ acks = {}

Tick ==
    /\ now < MaxNow
    /\ Prompt => KeptUp
    /\ now' = now + 1
    /\ session' = IF session.pc = "wait" THEN [session EXCEPT !.pc = "top"] ELSE session
    /\ UNCHANGED <<vars, leader, conn, frames, tracking, reader, acks, mine, pushed, copies, confirmed, stranded>>

PollStep == PollAnswered \/ PollLost \/ PollUnanswered

LoopStep ==
    \/ LeaveLoop \/ Turn \/ DeliverItem \/ WriteItem \/ WriteFails \/ BatchDone \/ Exit

ReaderStep == SendJob \/ ReaderEnds \/ ReaderAborted

BatcherStep == \E job \in acks : WriteAck(job) \/ AckLost(job)

SubNext ==
    \/ LoopStep
    \/ HeartbeatFails
    \/ PollStep
    \/ \E l \in pushed, nack \in {FALSE, ClientNacks} : ReadFrame(l, nack)
    \/ ReaderStep
    \/ BatcherStep
    \/ RivalPolls
    \/ StepDown
    \/ Disconnect
    \/ Tick

SubSpec == SubInit /\ [][SubNext]_allvars

\* A poll or an ack that waits for Raft is answered or fails.
RaftAnswers == []<>(session.pc # "polling") /\ []<>(acks = {})

\* The runtime keeps running the two tasks and Raft answers; nothing makes the
\* client act, a heartbeat fail or time pass.
FairSubSpec ==
    SubSpec /\ WF_allvars(LoopStep) /\ WF_allvars(ReaderStep) /\ RaftAnswers
-----------------------------------------------------------------------------
Offsets == 0 .. Messages - 1
Held == {l \in DOMAIN group.in_flight : l \in mine /\ group.in_flight[l].deadline_ms > now}

\* The maps of the tracking agree, whatever the session and the reader do to
\* them in turn: debug_check_invariants, and no id is left behind to leak.  And
\* they agree with the queue: the lease an ack resolves to is the one the queue
\* holds for that offset, unless a newer one has yet to be delivered or went
\* unanswered.
TrackingConsistent ==
    /\ Consistent(tracking)
    /\ \A l \in Held \ (LeasesOf(session.items) \cup stranded) :
          LET o == group.in_flight[l].offset
          IN  o \in DOMAIN tracking.by_offset => tracking.by_offset[o].lease_id = l

\* The queue never holds more unexpired leases for work the client has, or is
\* about to get, than its prefetch, although the window is counted by the
\* session's own deadlines, before the poll, and filled after it.
WindowRespected ==
    Cardinality(Held \cap (DrainLeases(tracking) \cup LeasesOf(session.items))) <= Prefetch

\* Every unexpired lease the queue holds for this session is in somebody's
\* hands: tracked, about to be delivered or nacked, or on its way to the
\* batcher.  As long as the node leads, at most one escapes: the one the reader
\* was sending when it was aborted.
LeasesAccountedFor ==
    /\ Held \subseteq DrainLeases(tracking) \cup LeasesOf(session.items)
                      \cup {j.lease : j \in acks \cup reader.jobs} \cup stranded
    /\ leader => Cardinality(stranded) <= 1

\* README: a late ack for the original lease still counts.  The id of the copy
\* the client works on resolves for as long as its offset is tracked, however
\* often the lease was refreshed.
LateAckResolves ==
    \A o \in DOMAIN copies \cap DOMAIN tracking.by_offset :
        \/ Known(tracking, copies[o].lease) /\ tracking.lease_to_offset[copies[o].lease] = o
        \/ session.pc \in {"write", "exit"}

\* README: while the connection is alive, a message is not pushed to it again
\* before its lease was refreshed MaxRefreshes times.
RefreshedBeforeRepush ==
    session.pc = "write" =>
        LET o == Head(session.items).offset
        IN  o \in DOMAIN copies => copies[o].refreshes >= MaxRefreshes

\* What there is to that promise.  The session pushes a message the client
\* works on again, before it has refreshed the lease MaxRefreshes times, only if
\* for a whole visibility timeout after the lease ran out no poll brought the
\* message back: because another consumer had it, the rate limit let no poll
\* through, other messages went first, or the session was slow.  The slack lets
\* a re-grant that comes late be a refresh.
RepushedOnlyWhenStale ==
    session.pc = "write" =>
        LET o == Head(session.items).offset
        IN  o \in DOMAIN copies =>
                copies[o].refreshes >= MaxRefreshes \/ copies[o].until + Lease <= now

\* README: ack_mode auto is at-most-once.  No message is pushed twice.
AtMostOnce == Auto /\ session.pc = "write" => Head(session.items).offset \notin DOMAIN copies

Done(o) == o < group.ack_watermark \/ o \in group.acked_above

\* Nobody and nothing keeps the session from being granted a message again at
\* once when its lease has run out.
Unhindered == ~Rival /\ ~Limited /\ Messages <= Prefetch

\* What the client acks is completed, however slow the reader, the batcher and
\* the polls are, also if the lease expired and was granted again while the ack
\* was on its way: the session then acks the new lease.  It does so for
\* ACK_GRACE_MS.  An ack that has not got through by then may come too late for
\* the lease it names, and the message is pushed again.
AckCompletes ==
    \A o \in Offsets :
        Unhindered /\ o \in DOMAIN confirmed
            ~> \/ Done(o) \/ session.pc = "closed"
               \/ o \in DOMAIN confirmed /\ confirmed[o] <= now

\* When the client goes, the session ends and the queue gets its leases back,
\* but for what is stranded.
ReleasedOnDisconnect == conn = "gone" ~> (session.pc = "closed" /\ Held \subseteq stranded)
=============================================================================
