------------------------------ MODULE MCQueue -------------------------------
EXTENDS QueueSnapshot, TLC

\* Groups, keys and topics are interchangeable.

Symmetry == Permutations(Group) \cup Permutations(Key) \cup Permutations(Topic)
=============================================================================
