SPECIFICATION FairSpec
CONSTANTS
    Value = {a, b}
    MaxIndex = 1
    MaxAppend = 2
    FlushMax = 2
    MaxJobs = 2
    WritesFail = TRUE
    ReaderRuns = TRUE
INVARIANTS AckedDurable
PROPERTIES ReadIsSound ImplementsRaftLog BarrierReleased PendingSettles
