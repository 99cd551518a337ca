SPECIFICATION Spec
CONSTANTS
    Value = {a}
    MaxIndex = 1
    MaxAppend = 1
    FlushMax = 2
    MaxJobs = 2
    WritesFail = FALSE
    ReaderRuns = TRUE
PROPERTIES ReadIsComplete
