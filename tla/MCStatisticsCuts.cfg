SPECIFICATION ProgSpec
CONSTANTS
    NULL = NULL
    Particle = {1, 2, 3, 4, 5, 6, 7, 8}
    Frame <- MCFrame
    MaxTracks = 4
    LookUpInc = 3
    Jobs <- CutJobs
    Files <- CutFiles
    IntMax = 7
    Inputs <- MCInputs
    ScriptCalls <- MCScriptCalls
    FeedBound = 7
    Priors <- MCPriors
INVARIANTS
    CutsMade
CHECK_DEADLOCK FALSE
