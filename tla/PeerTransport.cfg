SPECIFICATION FairSpec
CONSTANTS
    Peer = {p1, p2, p3}
    Guarded = TRUE
    Trusted = {p1}
    Mistaken = {p2}
    Partitioned = {p1}
    Stream = {s1, s2}
    Kind = {"AppendEntries"}
    MaxPeerConns = 1
    MaxCalls = 2
INVARIANTS OwnResponse AuthBeforeRpc
PROPERTIES PermitReturned HandshakeEnds
