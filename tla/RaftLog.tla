------------------------------ MODULE RaftLog -------------------------------
(***************************************************************************)
(* What openraft needs of a log store: one ordered map of entries, from    *)
(* just after the last purged index on without a hole, that is appended to *)
(* at its end, cut from either end, and that after a crash still holds     *)
(* every entry whose flush was acknowledged.                               *)
(***************************************************************************)
EXTENDS Integers

CONSTANTS Value,      \* log entries, told apart by the term that wrote them
          MaxIndex    \* bound: the highest log index

VARIABLES log,        \* the entries, by index
          purged,     \* the last purged index, -1 for none
          safe,       \* the indices whose flush was acknowledged
          broken      \* whether a write failed since the store was opened

Keep(S) == [i \in DOMAIN log \cap S |-> log[i]]

\* The index after the last entry.
NextIndex == CHOOSE n \in purged + 1 .. MaxIndex + 1 : DOMAIN log = purged + 1 .. n - 1

Init ==
    /\ log = [i \in {} |-> i]
    /\ purged = -1
    /\ safe = {} /\ broken = FALSE

Append ==
    \E last \in NextIndex .. MaxIndex : \E new \in [NextIndex .. last -> Value] :
        /\ log' = [i \in DOMAIN log \cup DOMAIN new |-> IF i \in DOMAIN new THEN new[i] ELSE log[i]]
        /\ UNCHANGED <<purged, safe, broken>>

Acknowledge ==
    /\ \E S \in SUBSET DOMAIN log : safe' = safe \cup S
    /\ UNCHANGED <<log, purged, broken>>

Truncate ==
    \E i \in DOMAIN log :
        /\ safe' = safe \ (i .. MaxIndex)
        /\ log' = Keep(0 .. i - 1)
        /\ UNCHANGED <<purged, broken>>

\* A truncation is asked for: from here on its entries may be lost.
GiveUp ==
    /\ \E i \in DOMAIN log : safe' = safe \ (i .. MaxIndex)
    /\ UNCHANGED <<log, purged, broken>>

Purge ==
    \E upto \in purged + 1 .. MaxIndex :
        /\ log' = Keep(upto + 1 .. MaxIndex)
        /\ purged' = upto
        /\ safe' = safe \ (0 .. upto)
        /\ UNCHANGED broken

\* Once a write has failed only what was acknowledged is sure, until the store
\* is opened again.
Break ==
    /\ broken' = TRUE
    /\ safe' \subseteq safe
    /\ \A i \in safe' : i \in DOMAIN log' /\ log'[i] = log[i]
    /\ UNCHANGED purged

\* A crash and a restart: a prefix of the log that has what is safe is left.
Crash ==
    \E n \in purged + 1 .. MaxIndex + 1 :
        /\ safe \subseteq 0 .. n - 1 /\ purged + 1 .. n - 1 \subseteq DOMAIN log
        /\ log' = Keep(0 .. n - 1)
        /\ broken' = FALSE
        /\ UNCHANGED <<purged, safe>>

Serve == Append \/ Acknowledge \/ Truncate \/ GiveUp \/ Purge

Next == (~broken /\ Serve) \/ Break \/ Crash

Spec == Init /\ [][Next]_<<log, purged, safe, broken>>
=============================================================================
