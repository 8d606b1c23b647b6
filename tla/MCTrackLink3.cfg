SPECIFICATION LinkSpec
CONSTANTS
    a0 = a0
    b0 = b0
    c0 = c0
    a1 = a1
    b1 = b1
    c1 = c1
    a2 = a2
    NULL = NULL
    Particle <- ThreeFrames
    Frame <- ThreeFrameOf
    MaxTracks = 5
    NFrames = 3
    MaxDispSq = 3
    MaxNetSize = 2
    DistVals = {0, 2, 3}
INVARIANTS
    EveryParticleTracked
    NoCandidateLeft
    OutputReadable
PROPERTIES
    LinkEnds
    ImplementsOptimalTracking
CHECK_DEADLOCK FALSE
