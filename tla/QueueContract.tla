--------------------------- MODULE QueueContract ----------------------------
(***************************************************************************)
(* What the queue promises its clients, without saying how.                *)
(*                                                                         *)
(* A topic keeps a run of offsets.  Each consumer group is a reader that   *)
(* is done with some offsets and has been lent others under leases.  A     *)
(* reader is done with an offset because it acked it, because it committed *)
(* past it, or because retention dropped it; never otherwise.  Nothing is  *)
(* undone, except for a reader idle enough to be forgotten, which starts   *)
(* over.  A reader is only ever lent an offset that is kept, that it is    *)
(* not done with and that it does not hold already.  A kept offset goes    *)
(* away only when the topic publishes (retention) or when every reader is  *)
(* done with it.                                                           *)
(***************************************************************************)
EXTENDS Integers, FiniteSets

CONSTANTS Topic, Group, Time

VARIABLES log,      \* the topics that exist: [next, kept, readers]
          issued    \* leases handed out so far

NewLog == [next |-> 0, kept |-> {}, readers |-> [n \in {} |-> n]]

LogOf(t) == IF t \in DOMAIN log THEN log[t] ELSE NewLog

\* The offsets a topic no longer has.
Gone(s) == (0 .. s.next - 1) \ s.kept

Offsets(leases) == {l.offset : l \in leases}

\* The reader is done with S as well, and its leases on S are void.
DoneWith(reader, S) ==
    [done |-> reader.done \cup S, lent |-> {l \in reader.lent : l.offset \notin S}]

Live(reader, now) == {l \in reader.lent : l.until > now}

\* What is kept is the newest part of what there was.
CutsPrefix(s, r) ==
    /\ r.kept \subseteq s.kept \cup s.next .. r.next - 1
    /\ \A o \in (s.kept \cup s.next .. r.next - 1) \ r.kept : \A p \in r.kept : o < p

\* Without a publish, only what every reader is done with is dropped.
DropsConsumed(s, r) ==
    /\ r.next = s.next /\ CutsPrefix(s, r)
    /\ r.kept # s.kept => DOMAIN r.readers # {}
    /\ \A o \in s.kept \ r.kept : \A n \in DOMAIN r.readers : o \in r.readers[n].done

\* Readers other than n are as they were or, when no lease of theirs outlives
\* now, forgotten.
OthersKept(s, r, n, now) ==
    /\ DOMAIN r.readers \subseteq DOMAIN s.readers \cup {n}
    /\ \A m \in DOMAIN s.readers \ {n} :
          IF m \in DOMAIN r.readers THEN r.readers[m] = s.readers[m]
          ELSE Live(s.readers[m], now) = {}

\* The reader n goes on from: its own or, when it is unknown or was forgotten, a
\* new one that starts at the first offset there is.
StartsFrom(s, r, n, now, reader) ==
    \/ n \in DOMAIN s.readers /\ reader = s.readers[n]
    \/ /\ n \in DOMAIN s.readers => Live(s.readers[n], now) = {}
       /\ Gone(s) \subseteq reader.done /\ reader.done \subseteq Gone(r)
       /\ reader.lent = {}

\* The readers n can go on from in a step from s to r.
Starts(s, r, n, now) ==
    {reader \in (IF n \in DOMAIN s.readers THEN {s.readers[n]} ELSE {})
                \cup {[done |-> 0 .. first - 1, lent |-> {}] : first \in 0 .. s.next} :
        StartsFrom(s, r, n, now, reader)}

-----------------------------------------------------------------------------
\* Messages are published, or recognised as duplicates; retention may drop the
\* oldest, and every reader then counts what is gone as done.
Publish(s, r) ==
    /\ r.next >= s.next /\ CutsPrefix(s, r)
    /\ r.readers = [n \in DOMAIN s.readers |-> DoneWith(s.readers[n], Gone(r))]

\* n's dead leases end and it is lent offsets it may have.
Lend(s, r, n, now) ==
    LET lent == {l \in r.readers[n].lent : l.id >= issued}
    IN  /\ n \in DOMAIN r.readers
        /\ OthersKept(s, r, n, now) /\ DropsConsumed(s, r)
        /\ \E reader \in Starts(s, r, n, now) :
              /\ r.readers[n] = [done |-> reader.done, lent |-> Live(reader, now) \cup lent]
              /\ Offsets(lent) \subseteq r.kept \ (reader.done \cup Offsets(Live(reader, now)))
        /\ Cardinality(Offsets(lent)) = Cardinality(lent)
        /\ issued' = issued + Cardinality(lent)

\* The same for a reader that is done with what it is lent at once.
Deliver(s, r, n, now) ==
    /\ n \in DOMAIN r.readers
    /\ OthersKept(s, r, n, now) /\ DropsConsumed(s, r)
    /\ \E reader \in Starts(s, r, n, now) :
          LET given == r.readers[n].done \ reader.done
          IN  /\ r.readers[n] = [done |-> reader.done \cup given, lent |-> Live(reader, now)]
              /\ given \subseteq s.kept \ Offsets(Live(reader, now))
              /\ issued' = issued + Cardinality(given)

\* Readers are forgotten, for a reader there was no room for.
Refuse(s, r, n, now) ==
    /\ n \notin DOMAIN r.readers
    /\ OthersKept(s, r, n, now) /\ DropsConsumed(s, r)
    /\ issued' = issued

\* n is done with what it holds under ids.
Settle(s, r, n, ids) ==
    /\ DropsConsumed(s, r)
    /\ r.readers = [s.readers EXCEPT ![n] =
           DoneWith(@, Offsets({l \in @.lent : l.id \in ids}))]
    /\ issued' = issued

\* n gives back what it holds under ids.
Return(s, r, n, ids) ==
    /\ r = [s EXCEPT !.readers[n].lent = {l \in @ : l.id \notin ids}]
    /\ issued' = issued

\* n is done with everything below an offset the topic has reached.
Skip(s, r, n, now) ==
    /\ n \in DOMAIN r.readers
    /\ OthersKept(s, r, n, now) /\ DropsConsumed(s, r)
    /\ \E reader \in Starts(s, r, n, now), o \in 0 .. s.next :
          r.readers[n] = DoneWith(reader, 0 .. o - 1)
    /\ issued' = issued

-----------------------------------------------------------------------------
Init == log = [t \in {} |-> t] /\ issued = 0

\* In these, s is a topic before the step and r after it, bound by quantifiers
\* over singletons so that TLC evaluates a mapped state once.
PublishSome ==
    /\ issued' = issued
    /\ DOMAIN log \subseteq DOMAIN log' /\ DOMAIN log' \subseteq Topic
    /\ \A t \in DOMAIN log' :
          \E s \in {LogOf(t)}, r \in {log'[t]} : r = s \/ Publish(s, r)

Close(t) ==
    /\ issued' = issued
    /\ log' = [u \in DOMAIN log \ {t} |-> log[u]]

\* Readers of t borrow, settle, return or skip.
Read(t) ==
    /\ t \in DOMAIN log /\ DOMAIN log' = DOMAIN log
    /\ \A u \in DOMAIN log \ {t} : log'[u] = log[u]
    /\ \E s \in {log[t]}, r \in {log'[t]}, n \in Group :
          \/ \E now \in Time : \/ Lend(s, r, n, now)
                               \/ Deliver(s, r, n, now)
                               \/ Refuse(s, r, n, now)
                               \/ Skip(s, r, n, now)
          \/ /\ n \in DOMAIN s.readers
             /\ \E ids \in SUBSET {l.id : l \in s.readers[n].lent} :
                   Settle(s, r, n, ids) \/ Return(s, r, n, ids)

Next == PublishSome \/ \E t \in Topic : Close(t) \/ Read(t)

Spec == Init /\ [][Next]_<<log, issued>>
=============================================================================
