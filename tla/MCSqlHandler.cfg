SPECIFICATION SqlSpec
CONSTANTS
    tracking = tracking
    iden = iden
    msd_sweep = msd_sweep
    h1 = h1
    h2 = h2
    Handler = {h1, h2}
    Func = {tracking, iden, msd_sweep}
    Listed = {tracking, iden}
    Insertable = {tracking}
    NOFUNCTION = NOFUNCTION
    NONE = NONE
    Reopeners = {h2}
    MaxKey = 3
INVARIANTS
    ClaimHoldsLock
    ClaimFresh
    MetaMatchesComp
    LockHasConnection
