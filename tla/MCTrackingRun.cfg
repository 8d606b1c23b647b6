SPECIFICATION RunSpec
CONSTANTS
    tracking = tracking
    Handler = {r1, r2, r3}
    File = {fileA, fileB}
    Func = {tracking}
    Listed = {tracking}
    Insertable = {tracking}
    Tracking = tracking
    NOFUNCTION = NOFUNCTION
    NONE = NONE
    Reopeners = {}
    MaxKey = 3
INVARIANTS
    RecordedIsWritten
    PartsOfOneRun
    OneAtWork
CHECK_DEADLOCK FALSE
