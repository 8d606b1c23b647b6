SPECIFICATION LinkSpec
CONSTANTS
    a0 = a0
    b0 = b0
    c0 = c0
    a1 = a1
    b1 = b1
    c1 = c1
    a2 = a2
    NULL = NULL
    Particle <- TwoFrames
    Frame <- TwoFrameOf
    MaxTracks = 6
    NFrames = 2
    MaxDispSq = 3
    MaxNetSize = 2
    DistVals = {2, 3}
INVARIANTS
    SubnetClosed
CHECK_DEADLOCK FALSE
