SPECIFICATION Spec
CONSTANTS
    a0 = a0
    a1 = a1
    b1 = b1
    a2 = a2
    NULL = NULL
    Particle <- MCParticle
    Frame <- MCFrame
    MaxTracks = 3
INVARIANTS
    ChainInv
    CountAgrees
    LengthIsWalk
    ExtractedInOrder
