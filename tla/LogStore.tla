------------------------------ MODULE LogStore ------------------------------
(***************************************************************************)
(* engine/log_store.rs over storage.rs: the Raft log of one node.  append  *)
(* puts entries in the in-memory pending map and hands them to the flusher *)
(* thread; truncate and purge first wait for the flusher behind a barrier; *)
(* log readers merge the database with pending in two separate steps.      *)
(*                                                                         *)
(* Three processes interleave: the writer (openraft issues append,         *)
(* truncate and purge one after another), the flusher thread, and a reader *)
(* (a replication stream or the apply loop holds a clone of the store).    *)
(* Crash and restart may come between any two steps; the database keeps    *)
(* what a transaction committed with Durability::Immediate.                *)
(*                                                                         *)
(* openraft is external: it appends at the end of the log, truncates what  *)
(* is there, purges up to what a snapshot covers (beyond the end, when the *)
(* snapshot came from the leader) and stops at the first storage error it  *)
(* is told of.  redb refuses every write after a failed one until it is    *)
(* reopened.                                                               *)
(***************************************************************************)
EXTENDS Integers, Sequences, FiniteSets, Functions

CONSTANTS Value,         \* log entries, told apart by the term that wrote them
          MaxIndex,      \* bound: the highest log index
          MaxAppend,     \* bound: entries in one append
          FlushMax,      \* FLUSH_MAX_ENTRIES
          MaxJobs,       \* bound: jobs in the flusher's channel
          WritesFail,    \* whether a database write may fail
          ReaderRuns     \* whether a log reader runs alongside

ASSUME LogStoreConstants ==
    /\ MaxIndex \in Nat /\ MaxAppend \in Nat \ {0} /\ FlushMax \in Nat \ {0}
    /\ MaxJobs \in Nat \ {0} /\ WritesFail \in BOOLEAN /\ ReaderRuns \in BOOLEAN

VARIABLES db,        \* LOG: the entries on disk
          purged,    \* KEY_PURGED: the last purged index
          health,    \* whether a write failed since the database was opened, and
                     \* whether openraft was told
          pending,   \* Shared::pending
          jobs,      \* the flusher's channel
          flusher,   \* the flusher thread: where it is and its batch
          writer,    \* openraft's storage task: where it is and its operation
          reader,    \* a log reader: where it is and what it has merged
          acked      \* the entries whose LogFlushed callback reported success

vars == <<db, purged, health, pending, jobs, flusher, writer, reader, acked>>

None == -1
Nothing == [i \in {} |-> i]
Index == 0 .. MaxIndex

\* BTreeMap::extend: the entries of g win.
Merge(f, g) == [i \in DOMAIN f \cup DOMAIN g |-> IF i \in DOMAIN g THEN g[i] ELSE f[i]]

Top(S) == CHOOSE m \in S : \A k \in S : k <= m

\* BTreeMap::range, or read_log: the entries from lo to hi.
Slice(f, lo, hi) == Restrict(f, DOMAIN f \cap (lo .. hi))

\* The merge of the database and pending, from the first unpurged index on.
View == Slice(Merge(db, pending), purged + 1, MaxIndex)

LastIndex == Top(DOMAIN View \cup {purged})

IdleFlusher == [pc |-> "idle", batch |-> Nothing, barrier |-> FALSE, ok |-> TRUE]
IdleWriter  == [pc |-> "idle", op |-> "none", index |-> None]
IdleReader  == [pc |-> "idle", hi |-> None, start |-> Nothing, merged |-> Nothing,
                flushed |-> {}]

AppendJob(entries) == [entries |-> entries, barrier |-> FALSE]
Barrier == [entries |-> Nothing, barrier |-> TRUE]

Init ==
    /\ db = Nothing /\ purged = None /\ health = "fine"
    /\ pending = Nothing /\ jobs = <<>>
    /\ flusher = IdleFlusher /\ writer = IdleWriter /\ reader = IdleReader
    /\ acked = Nothing

-----------------------------------------------------------------------------
(***************************************************************************)
(* The writer                                                              *)
(***************************************************************************)
Ready == writer.pc = "idle" /\ health # "reported" /\ Len(jobs) < MaxJobs

AppendLog(entries) ==
    /\ Ready
    /\ pending' = Merge(pending, entries)
    /\ jobs' = Append(jobs, AppendJob(entries))
    /\ UNCHANGED <<db, purged, health, flusher, writer, reader, acked>>

\* truncate and purge queue a barrier and wait for it.
AwaitBarrier(op, index) ==
    /\ Ready
    /\ jobs' = Append(jobs, Barrier)
    /\ writer' = [pc |-> "wait", op |-> op, index |-> index]
    /\ UNCHANGED <<db, purged, health, pending, flusher, reader>>

Truncate(index) ==
    /\ AwaitBarrier("truncate", index)
    /\ acked' = Slice(acked, 0, index - 1)

Purge(index) ==
    /\ AwaitBarrier("purge", index)
    /\ UNCHANGED acked

\* pending.split_off, keeping the entries below a truncation or above a purge.
SplitPending ==
    /\ writer.pc = "split"
    /\ pending' = IF writer.op = "truncate" THEN Slice(pending, 0, writer.index - 1)
                  ELSE Slice(pending, writer.index + 1, MaxIndex)
    /\ writer' = [writer EXCEPT !.pc = IF writer.op = "truncate" THEN "cut" ELSE "mark"]
    /\ UNCHANGED <<db, purged, health, jobs, flusher, reader, acked>>

TruncateLogFrom ==
    /\ writer.pc = "cut" /\ writer.op = "truncate" /\ health = "fine"
    /\ db' = Slice(db, 0, writer.index - 1)
    /\ writer' = IdleWriter
    /\ UNCHANGED <<purged, health, pending, jobs, flusher, reader, acked>>

\* mark_purged records the index first, and deletes in a second transaction.
MarkPurged ==
    /\ writer.pc = "mark"
    /\ IF purged >= writer.index
       THEN writer' = IdleWriter /\ UNCHANGED purged
       ELSE /\ health = "fine"
            /\ purged' = writer.index
            /\ writer' = [writer EXCEPT !.pc = "cut"]
    /\ UNCHANGED <<db, health, pending, jobs, flusher, reader, acked>>

PurgeLogUpto ==
    /\ writer.pc = "cut" /\ writer.op = "purge" /\ health = "fine"
    /\ db' = Slice(db, writer.index + 1, MaxIndex)
    /\ writer' = IdleWriter
    /\ UNCHANGED <<purged, health, pending, jobs, flusher, reader, acked>>

\* A failed transaction of truncate or purge is openraft's to report.
WriterFails ==
    /\ WritesFail \/ health # "fine"
    /\ \/ writer.pc = "cut"
       \/ writer.pc = "mark" /\ purged < writer.index
    /\ health' = "reported"
    /\ writer' = IdleWriter
    /\ UNCHANGED <<db, purged, pending, jobs, flusher, reader, acked>>

(***************************************************************************)
(* The flusher thread                                                      *)
(***************************************************************************)
\* How many jobs one round takes: up to a barrier, FLUSH_MAX_ENTRIES entries
\* or the end of the channel.
Taken ==
    LET size[n \in 0 .. Len(jobs)] ==
            IF n = 0 THEN 0 ELSE size[n - 1] + Cardinality(DOMAIN jobs[n].entries)
    IN  CHOOSE n \in 1 .. Len(jobs) :
            /\ jobs[n].barrier \/ size[n] >= FlushMax \/ n = Len(jobs)
            /\ \A k \in 1 .. n - 1 : ~jobs[k].barrier /\ size[k] < FlushMax

\* The entries of the first n jobs, a later one replacing an earlier one.
Batched(n) ==
    LET batch[k \in 0 .. n] ==
            IF k = 0 THEN Nothing ELSE Merge(batch[k - 1], jobs[k].entries)
    IN  batch[n]

TakeJobs ==
    /\ flusher.pc = "idle" /\ jobs # <<>>
    /\ flusher' = [pc |-> "write", batch |-> Batched(Taken), barrier |-> jobs[Taken].barrier,
                   ok |-> TRUE]
    /\ jobs' = SubSeq(jobs, Taken + 1, Len(jobs))
    /\ UNCHANGED <<db, purged, health, pending, writer, reader, acked>>

\* append_log, one transaction; an empty batch writes nothing.
AppendBatch ==
    /\ flusher.pc = "write"
    /\ flusher.batch = Nothing \/ health = "fine"
    /\ db' = Merge(db, flusher.batch)
    /\ flusher' = [flusher EXCEPT !.pc = "remove"]
    /\ UNCHANGED <<purged, health, pending, jobs, writer, reader, acked>>

AppendBatchFails ==
    /\ flusher.pc = "write" /\ flusher.batch # Nothing
    /\ WritesFail \/ health # "fine"
    /\ health' = IF health = "fine" THEN "failed" ELSE health
    /\ flusher' = [flusher EXCEPT !.pc = "notify", !.ok = FALSE]
    /\ UNCHANGED <<db, purged, pending, jobs, writer, reader, acked>>

RemoveAllPending ==
    /\ flusher.pc = "remove"
    /\ pending' = Nothing
    /\ flusher' = [flusher EXCEPT !.pc = "notify"]
    /\ UNCHANGED <<db, purged, health, jobs, writer, reader, acked>>

RemovePending ==
    /\ flusher.pc = "remove"
    /\ pending' = Restrict(pending, DOMAIN pending \ DOMAIN flusher.batch)
    /\ flusher' = [flusher EXCEPT !.pc = "notify"]
    /\ UNCHANGED <<db, purged, health, jobs, writer, reader, acked>>

\* What the callbacks report.  An entry the writer is already truncating is not
\* openraft's any more when its callback comes.
Reported ==
    Slice(flusher.batch, 0, IF writer.op = "truncate" THEN writer.index - 1 ELSE MaxIndex)

\* Run the callbacks, then release the barrier.
NotifyAlways ==
    /\ flusher.pc = "notify"
    /\ acked' = Merge(acked, Reported)
    /\ health' = IF flusher.ok THEN health ELSE "reported"
    /\ writer' = IF flusher.barrier THEN [writer EXCEPT !.pc = "split"] ELSE writer
    /\ flusher' = IdleFlusher
    /\ UNCHANGED <<db, purged, pending, jobs, reader>>

NotifySwallowing ==
    /\ flusher.pc = "notify"
    /\ acked' = IF flusher.ok THEN Merge(acked, Reported) ELSE acked
    /\ writer' = IF flusher.barrier THEN [writer EXCEPT !.pc = "split"] ELSE writer
    /\ flusher' = IdleFlusher
    /\ UNCHANGED <<db, purged, health, pending, jobs, reader>>

NotifyOrReturn ==
    /\ flusher.pc = "notify"
    /\ acked' = IF flusher.ok THEN Merge(acked, Reported) ELSE acked
    /\ health' = IF flusher.ok THEN health ELSE "reported"
    /\ writer' = IF flusher.barrier /\ flusher.ok THEN [writer EXCEPT !.pc = "split"] ELSE writer
    /\ flusher' = IdleFlusher
    /\ UNCHANGED <<db, purged, pending, jobs, reader>>

Notify ==
    /\ flusher.pc = "notify"
    /\ acked' = IF flusher.ok THEN Merge(acked, Reported) ELSE acked
    /\ health' = IF flusher.ok THEN health ELSE "reported"
    /\ writer' = IF flusher.barrier THEN [writer EXCEPT !.pc = "split"] ELSE writer
    /\ flusher' = IdleFlusher
    /\ UNCHANGED <<db, purged, pending, jobs, reader>>

(***************************************************************************)
(* A log reader: try_get_log_entries over what the log holds               *)
(***************************************************************************)
ReadLogFromStart ==
    /\ ReaderRuns /\ reader.pc = "idle" /\ DOMAIN View # {}
    /\ reader' = [pc |-> "merge", hi |-> LastIndex, start |-> View,
                  merged |-> Slice(db, 0, LastIndex),
                  flushed |-> DOMAIN acked \cap DOMAIN View]
    /\ UNCHANGED <<db, purged, health, pending, jobs, flusher, writer, acked>>

ReadLog ==
    /\ ReaderRuns /\ reader.pc = "idle" /\ DOMAIN View # {}
    /\ reader' = [pc |-> "merge", hi |-> LastIndex, start |-> View,
                  merged |-> Slice(db, purged + 1, LastIndex),
                  flushed |-> DOMAIN acked \cap DOMAIN View]
    /\ UNCHANGED <<db, purged, health, pending, jobs, flusher, writer, acked>>

MergePending ==
    /\ reader.pc = "merge"
    /\ reader' = [IdleReader EXCEPT !.pc = "done",
                      !.merged = Merge(reader.merged, Slice(pending, 0, reader.hi))]
    /\ UNCHANGED <<db, purged, health, pending, jobs, flusher, writer, acked>>

ReadReturns ==
    /\ reader.pc = "done"
    /\ reader' = IdleReader
    /\ UNCHANGED <<db, purged, health, pending, jobs, flusher, writer, acked>>

\* A crash and a restart: the database is reopened, memory is gone.
Crash ==
    /\ health' = "fine" /\ pending' = Nothing /\ jobs' = <<>>
    /\ flusher' = IdleFlusher /\ writer' = IdleWriter /\ reader' = IdleReader
    /\ UNCHANGED <<db, purged, acked>>

FlusherStep == TakeJobs \/ AppendBatch \/ AppendBatchFails \/ RemovePending \/ Notify

WriterStep == SplitPending \/ TruncateLogFrom \/ MarkPurged \/ PurgeLogUpto \/ WriterFails

ReaderStep == MergePending \/ ReadReturns

NewEntries ==
    UNION {[LastIndex + 1 .. hi -> Value] : hi \in {h \in Index : /\ h > LastIndex
                                                                  /\ h <= LastIndex + MaxAppend}}

Next ==
    \/ \E entries \in NewEntries : AppendLog(entries)
    \/ \E index \in DOMAIN View : Truncate(index)
    \/ \E index \in {i \in Index : i >= purged} : Purge(index)
    \/ WriterStep
    \/ FlusherStep
    \/ ReadLog
    \/ ReaderStep
    \/ Crash

Spec == Init /\ [][Next]_vars

\* The flusher thread always runs on; an await returns once it can.
FairSpec == Spec /\ WF_vars(FlusherStep) /\ WF_vars(WriterStep) /\ WF_vars(ReaderStep)
-----------------------------------------------------------------------------
\* An entry openraft was told is flushed is on disk, at every instant a crash
\* may come: the leader may have counted it towards a quorum.
AckedDurable ==
    \A i \in DOMAIN acked : i > purged => i \in DOMAIN db /\ db[i] = acked[i]

\* A read never returns an entry that was in the log neither when it began nor
\* when it ended, whatever truncation or flush it overlaps, and it returns every
\* entry that was flushed when it began and is still in the log when it ends.
ReadIsSound ==
    [][reader.pc = "merge" /\ reader'.pc = "done" =>
          /\ \A i \in DOMAIN reader'.merged :
                \/ i \in DOMAIN reader.start /\ reader.start[i] = reader'.merged[i]
                \/ i \in DOMAIN View /\ View[i] = reader'.merged[i]
          /\ reader.flushed \cap DOMAIN acked \cap DOMAIN View \subseteq DOMAIN reader'.merged]_vars

\* What fuzz_targets/store_model.rs says of the merge: whether or not a flush
\* is in flight, it looks like one ordered map.  A read returns every entry
\* that was in the log when it began and still is when it ends.
ReadIsComplete ==
    [][reader.pc = "merge" /\ reader'.pc = "done" =>
          \A i \in DOMAIN reader.start \cap DOMAIN View :
              reader.start[i] = View[i] => i \in DOMAIN reader'.merged]_vars

\* A truncate or a purge that waits for the flusher is always released.
BarrierReleased == writer.pc = "wait" ~> writer.pc # "wait"

\* An entry does not stay in memory for ever: it is flushed, given up, or
\* openraft learns that the disk failed.
PendingSettles ==
    \A i \in Index : i \in DOMAIN pending ~> (i \notin DOMAIN pending \/ health = "reported")

\* The store is the ordered map openraft expects, from each append to each
\* crash.  Once a write fails only what was acknowledged must stay, until the
\* restart, which finds it in a log without a hole.
Contract == INSTANCE RaftLog WITH log <- View, safe <- {i \in DOMAIN acked : i > purged},
                                 broken <- health # "fine"
ImplementsRaftLog == Contract!Spec
=============================================================================
