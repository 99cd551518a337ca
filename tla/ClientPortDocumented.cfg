SPECIFICATION Spec
CONSTANTS
    Guarded = TRUE
    PipelineDepth = 2
    MaxFrames = 5
CHECK_DEADLOCK FALSE
INVARIANTS PipelineAsDocumented
