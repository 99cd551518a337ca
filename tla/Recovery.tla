------------------------------ MODULE Recovery ------------------------------
(***************************************************************************)
(* What one node keeps on disk, and how it comes back: the snapshot record *)
(* of engine/state_machine.rs, the purge marker and the committed pointer  *)
(* of engine/log_store.rs, and recover_consistency of engine/mod.rs, which *)
(* runs before openraft reads any of it.                                   *)
(*                                                                         *)
(* Every write is one redb transaction, and the node may crash between any *)
(* two of them, in the middle of a recovery too.  save_committed uses      *)
(* Durability::Eventual, so a crash may bring back the pointer of the last *)
(* immediate commit.  openraft is external: it appends, flushes, saves the *)
(* committed pointer before it applies, builds snapshots in a task of      *)
(* their own, installs a leader's snapshot when one is sent, purges the    *)
(* log up to its snapshot, and on start re-applies the committed log and   *)
(* looks up the log ids it keeps in memory.                                *)
(*                                                                         *)
(* Entries are indices: LogStore covers what they hold and how they are    *)
(* flushed.                                                                *)
(***************************************************************************)
EXTENDS Integers, FiniteSets

CONSTANTS MaxIndex,     \* bound: the highest log index
          MaxCrashes,   \* bound: crashes
          MaxBuilds,    \* bound: snapshots this node builds
          MaxInstalls,  \* bound: snapshots a leader sends
          MaxLosses,    \* bound: times the disk loses part of the log
          Overlap       \* whether a snapshot may arrive while one is being built

ASSUME RecoveryConstants ==
    /\ MaxIndex \in Nat /\ MaxCrashes \in Nat /\ MaxBuilds \in Nat
    /\ MaxInstalls \in Nat /\ MaxLosses \in Nat /\ Overlap \in BOOLEAN

VARIABLES log,         \* LOG: the indices on disk
          purged,      \* KEY_PURGED
          snapshot,    \* KEY_SNAPSHOT: the last index it covers
          committed,   \* KEY_COMMITTED
          forced,      \* the committed pointer a crash may bring back
          pc,          \* where the node is, from recovery to running
          last,        \* openraft's last log index, flushed or not
          applied,     \* last_applied of the state machine
          known,       \* the last index of the snapshot openraft knows of
          building,    \* the index a snapshot under construction covers
          installing,  \* the index of a snapshot persisted but not swapped in
          purging,     \* the index of a purge marked but not carried out
          acked,       \* the highest index openraft was told is flushed
          spent        \* how often each bounded event has happened

disk == <<log, purged, snapshot, committed, forced>>
memory == <<last, applied, known, building, installing, purging>>
vars == <<disk, pc, memory, acked, spent>>

None == -1
Index == 0 .. MaxIndex

Top(S) == CHOOSE m \in S : \A k \in S : k <= m
Bottom(S) == CHOOSE m \in S : \A k \in S : m <= k

\* Any transaction with Durability::Immediate makes the ones before it durable.
Force == forced' = committed

Init ==
    /\ log = {} /\ purged = None /\ snapshot = None
    /\ committed = None /\ forced = None
    /\ pc = "up"
    /\ last = None /\ applied = None /\ known = None
    /\ building = None /\ installing = None /\ purging = None
    /\ acked = None
    /\ spent = [crash |-> 0, build |-> 0, install |-> 0, loss |-> 0]

Spend(event, bound) ==
    /\ spent[event] < bound
    /\ spent' = [spent EXCEPT ![event] = @ + 1]

PersistSnapshot(s) == snapshot' = s /\ Force

-----------------------------------------------------------------------------
(***************************************************************************)
(* Running                                                                 *)
(***************************************************************************)
\* The end of the log as the disk has it.
Flushed == Top(log \cup {purged, None})

\* openraft appends again only once the log is purged up to an installed
\* snapshot that is ahead of it.
LogMeetsSnapshot == Flushed >= known /\ installing = None

AppendEntry ==
    /\ pc = "up" /\ LogMeetsSnapshot /\ last < MaxIndex
    /\ last' = last + 1
    /\ UNCHANGED <<disk, pc, applied, known, building, installing, purging, acked, spent>>

\* The flusher writes what is pending and reports it.
FlushEntries ==
    /\ pc = "up" /\ LogMeetsSnapshot /\ Flushed < last
    /\ log' = log \cup (Flushed + 1 .. last)
    /\ acked' = last
    /\ Force
    /\ UNCHANGED <<purged, snapshot, committed, pc, memory, spent>>

\* The pointer is saved before the entries are applied; it may be ahead of what
\* this node has flushed, once a quorum of others has.
SaveCommitted(c) ==
    /\ pc = "up" /\ installing = None /\ c > committed /\ c > applied /\ c <= last
    /\ committed' = c
    /\ UNCHANGED <<log, purged, snapshot, forced, pc, memory, acked, spent>>

Apply ==
    /\ pc = "up" /\ installing = None /\ applied < committed
    /\ applied' = committed
    /\ UNCHANGED <<disk, pc, last, known, building, installing, purging, acked, spent>>

\* build_snapshot copies the state under the lock, and writes the record later,
\* while entries are applied and snapshots are installed.
CopyState ==
    /\ pc = "up" /\ building = None /\ applied > known
    /\ Overlap \/ installing = None
    /\ Spend("build", MaxBuilds)
    /\ building' = applied
    /\ UNCHANGED <<disk, pc, last, applied, known, installing, purging, acked>>

ForgetToPersist ==
    /\ pc = "up" /\ building # None
    /\ known' = Top({known, building})
    /\ building' = None
    /\ UNCHANGED <<disk, pc, last, applied, installing, purging, acked, spent>>

PersistBuilt ==
    /\ pc = "up" /\ building # None
    /\ PersistSnapshot(building)
    /\ known' = Top({known, building})
    /\ building' = None
    /\ UNCHANGED <<log, purged, committed, pc, last, applied, installing, purging, acked, spent>>

\* install_snapshot writes the record, then swaps the state.
PersistInstalled(s) ==
    /\ pc = "up" /\ installing = None /\ purging = None /\ Flushed = last
    /\ s > committed /\ s > applied
    /\ Overlap \/ building = None
    /\ Spend("install", MaxInstalls)
    /\ PersistSnapshot(s)
    /\ installing' = s
    /\ UNCHANGED <<log, purged, committed, pc, last, applied, known, building, purging, acked>>

SwapState ==
    /\ pc = "up" /\ installing # None
    /\ applied' = installing
    /\ known' = installing
    /\ last' = Top({last, installing})
    /\ installing' = None
    /\ UNCHANGED <<disk, pc, building, purging, acked, spent>>

\* purge: the marker in one transaction, the entries in the next.
MarkPurged ==
    /\ pc = "up" /\ installing = None /\ purging = None /\ known > purged
    /\ Flushed = last \/ Flushed < known
    /\ purged' = known
    /\ purging' = known
    /\ Force
    /\ UNCHANGED <<log, snapshot, committed, pc, last, applied, known, building, installing, acked, spent>>

PurgeOneMore ==
    /\ pc = "up" /\ purging # None
    /\ log' = {i \in log : i > purging + 1}
    /\ purging' = None
    /\ Force
    /\ UNCHANGED <<purged, snapshot, committed, pc, last, applied, known, building, installing, acked, spent>>

PurgeLogUpto ==
    /\ pc = "up" /\ purging # None
    /\ log' = {i \in log : i > purging}
    /\ purging' = None
    /\ Force
    /\ UNCHANGED <<purged, snapshot, committed, pc, last, applied, known, building, installing, acked, spent>>

(***************************************************************************)
(* Crash, damage and recovery                                              *)
(***************************************************************************)
Crash ==
    /\ Spend("crash", MaxCrashes)
    /\ committed' \in {committed, forced}
    /\ forced' = committed'
    /\ pc' = "recover"
    /\ last' = None /\ applied' = None /\ known' = None
    /\ building' = None /\ installing' = None /\ purging' = None
    /\ UNCHANGED <<log, purged, snapshot, acked>>

\* A partial disk loss takes one end of the log.
LoseEntries(kept) ==
    /\ pc = "recover"
    /\ Spend("loss", MaxLosses)
    /\ log' = log \cap kept
    /\ UNCHANGED <<purged, snapshot, committed, forced, pc, memory, acked>>

\* The log starts past the entry replay must begin with.
OrphanedPrefix == log # {} /\ Bottom(log) > snapshot + 1

\* recover_consistency drops an orphaned log, then the purge marker.
RecoverAnyLog ==
    /\ pc = "recover"
    /\ pc' = "pointer"
    /\ UNCHANGED <<disk, memory, acked, spent>>

RecoverLog ==
    /\ pc = "recover"
    /\ IF OrphanedPrefix
       THEN log' = {} /\ Force /\ pc' = "marker"
       ELSE UNCHANGED <<log, forced>> /\ pc' = "pointer"
    /\ UNCHANGED <<purged, snapshot, committed, memory, acked, spent>>

DeleteMarker ==
    /\ pc = "marker"
    /\ purged' = None
    /\ Force
    /\ pc' = "pointer"
    /\ UNCHANGED <<log, snapshot, committed, memory, acked, spent>>

\* A pointer past everything the node can serve goes too.
RefusePointer ==
    /\ pc = "pointer" /\ committed <= Top(log \cup {snapshot})
    /\ pc' = "start"
    /\ UNCHANGED <<disk, memory, acked, spent>>

RecoverPointer ==
    /\ pc = "pointer"
    /\ IF committed > Top(log \cup {snapshot})
       THEN committed' = None /\ forced' = None ELSE UNCHANGED <<committed, forced>>
    /\ pc' = "start"
    /\ UNCHANGED <<log, purged, snapshot, memory, acked, spent>>

\* read_committed: only a pointer the log reaches.
ReadCommitted == IF log # {} /\ committed <= Top(log) THEN committed ELSE None

\* get_log_state: the last entry, or the marker if there is none.
LastLogId == IF log # {} THEN Top(log) ELSE purged

\* The entries openraft asks for when it loads the ids of the log that ends at
\* l: the first one, unless the purge marker stands for it, and whichever ones a
\* search for the changes of leader comes by.
KeyEntries(l) ==
    LET front == IF purged = None THEN {0} ELSE {}
    IN  {front \cup probed : probed \in SUBSET (Top({purged, 0}) + 1 .. l - 1)}

\* openraft starts from the snapshot, re-applies the committed log, purges a log
\* that ends behind what is applied, and loads the ids of one that does not.  It
\* aborts if an entry is missing.
Start ==
    LET replay == snapshot + 1 .. ReadCommitted
        a      == Top({snapshot, ReadCommitted})
        behind == LastLogId < a
    IN  /\ pc = "start"
        /\ \E keys \in IF behind \/ LastLogId = None THEN {{}} ELSE KeyEntries(LastLogId) :
              IF replay \cup keys \subseteq log
              THEN /\ pc' = "up" /\ applied' = a /\ known' = snapshot
                   /\ last' = Top({LastLogId, a})
                   /\ IF behind THEN purged' = a /\ log' = {i \in log : i > a} /\ Force
                      ELSE UNCHANGED <<purged, log, forced>>
              ELSE /\ pc' = "aborted"
                   /\ UNCHANGED <<applied, known, last, purged, log, forced>>
        /\ UNCHANGED <<snapshot, committed, building, installing, purging, acked, spent>>

RecoveryStep == RecoverLog \/ DeleteMarker \/ RecoverPointer \/ Start

Next ==
    \/ AppendEntry
    \/ FlushEntries
    \/ \E c \in Index : SaveCommitted(c)
    \/ Apply
    \/ CopyState
    \/ PersistBuilt
    \/ \E s \in Index : PersistInstalled(s)
    \/ SwapState
    \/ MarkPurged
    \/ PurgeLogUpto
    \/ Crash
    \/ \E i \in log : LoseEntries(0 .. i - 1) \/ LoseEntries(i + 1 .. MaxIndex)
    \/ RecoveryStep

Spec == Init /\ [][Next]_vars

\* build_raft runs recovery to its end unless the node crashes again.
FairSpec == Spec /\ WF_vars(RecoveryStep)
-----------------------------------------------------------------------------
\* Nothing this node acknowledged is lost by a crash: it is in the log or under
\* the snapshot, so a quorum that counted this node still holds it.  Only the
\* disk itself can lose it.
AckedSurvives ==
    spent.loss = 0 => \A i \in 0 .. acked : i \in log \/ i <= snapshot

\* state_machine.rs: with a snapshot at index S, a replayable log starts at
\* S + 1.  The log is never purged past the snapshot on disk.
SnapshotCoversPurge == purged <= snapshot

\* What a running node has applied is what a restart can rebuild: it is covered
\* by the snapshot on disk, or every entry up to it is still in the log or in
\* memory on its way there.
AppliedRebuildable ==
    pc = "up" => \A i \in snapshot + 1 .. applied : i \in log \/ (Flushed < i /\ i <= last)

\* The disk lost the front of the log, but nothing that is re-applied: the log
\* is not orphaned, and openraft looks for entries before its first one.
FrontLost == log # {} /\ Bottom(log) > purged + 1 /\ ~OrphanedPrefix

\* A node that crashed comes back, unless it crashes again: openraft finds every
\* entry it re-applies or looks up on start, and never gives up with "Failed to
\* get log entries".  This holds whatever the disk lost of the end of the log,
\* and if it lost so much of the front that the rest is orphaned; a front that
\* is lost up to the snapshot is not repaired, and is the exception.
ComesBack == pc = "recover" ~> (pc = "up" \/ FrontLost)
=============================================================================
