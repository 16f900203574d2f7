SPECIFICATION ThreadSpec
CONSTANTS
    NULL = NULL
    N = 2
    EmptyShard = 1
    Inbound = 1
    Outbound = 1
    MaxSubmits = 3
    MaxStops = 2
INVARIANTS PipelineExact ContentsKept
PROPERTIES StopReturns ResultsEchoed SubmitReturns
