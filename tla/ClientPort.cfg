SPECIFICATION FairSpec
CONSTANTS
    Guarded = TRUE
    PipelineDepth = 1
    MaxFrames = 5
CHECK_DEADLOCK FALSE
INVARIANTS InRequestOrder PipelineBounded SubscribeDrains
PROPERTIES AllAnswered GivenUp
