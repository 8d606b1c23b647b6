SPECIFICATION HdfSpec
CONSTANTS
    Images <- MCImages
    NoAvg = 0
    Key = {k1, k2, k3}
    MaxRuns <- MCMaxRuns
    IntMax = 7
SYMMETRY SymmetricKeys
INVARIANTS
    FramesTimed
    SavedFramesWhole
    TracksReadTrue
    NothingOutside
    MetaSurvives
    RecordedParams
CHECK_DEADLOCK FALSE
