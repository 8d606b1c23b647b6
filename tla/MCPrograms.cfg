SPECIFICATION ProgSpec
CONSTANTS
    Handler = {r1, r2}
    Dir = {dataset}
    Program = {"gofr", "gofr_by_plane", "phi6", "msd_sweep", "vanHove_sweep",
               "vanHove", "gofr3D", "link3D", "Iden", "Iden_avg"}
    Func = {"iden", "gofr", "gofr_by_plane", "phi6", "msd", "vanHove"}
    Listed = {"iden", "gofr", "gofr_by_plane", "phi6", "msd", "vanHove"}
    Insertable = {"gofr", "gofr_by_plane", "phi6", "msd", "vanHove"}
    NOFUNCTION = "none"
    NONE = NONE
    Reopeners = {}
    MaxKey = 3
    MaxTurns = 2
INVARIANTS
    RecordedIsWhole
    ZeroMeansRecorded
    NothingUnbound
    OneFilePerIden
PROPERTIES
    LockGivenBack
CHECK_DEADLOCK FALSE
