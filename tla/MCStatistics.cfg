SPECIFICATION ProgSpec
CONSTANTS
    NULL = NULL
    Particle = {1, 2, 3, 4, 5, 6, 7, 8}
    Frame <- MCFrame
    MaxTracks = 4
    LookUpInc = 3
    Jobs <- MCJobs
    Files <- MCFiles
    IntMax = 7
    Inputs <- MCInputs
    ScriptCalls <- MCScriptCalls
    FeedBound = 8
    Priors <- MCPriors
INVARIANTS
    NeighborhoodsRight
    CountsRight
    TracksAsWritten
    DisplacementsRight
    DriftRemoved
    FedRight
    ResultsFiled
CHECK_DEADLOCK FALSE
