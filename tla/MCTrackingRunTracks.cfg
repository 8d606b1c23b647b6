SPECIFICATION RunSpec
CONSTANTS
    tracking = tracking
    Handler = {r1, r2}
    File = {fileA, fileB}
    Func = {tracking}
    Listed = {tracking}
    Insertable = {tracking}
    Tracking = tracking
    NOFUNCTION = NOFUNCTION
    NONE = NONE
    Reopeners = {}
    MaxKey = 2
INVARIANTS
    TracksUnderCompKey
CHECK_DEADLOCK FALSE
