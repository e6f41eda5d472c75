CONSTANTS
    c1 = c1
    c2 = c2
    Senders <- MCSenders
    Configs <- MCConfigs
    MaxBatch = 2
    BatchLimit = 2
    Nobody = Nobody
    Open = Open
    j1 = j1
    j2 = j2
    Jobs <- MCJobs
    Providers = {p1, p2, pd}
    Placeholders = {p2}
    DefaultProvider = pd
    MaxConcurrent = 1
    RetryAttempts = 2
    MaxChanges = 1
    Unset = Unset
    Callers = {r1, r2}
    MaxAttempts = 2
    FailureThreshold = 3
    SuccessThreshold = 2
    CacheTTL = 2
    PrefetchTimeout = 2
    ContextAge = 2
    MaxTicks = 7
    Accounts = {ac1}
    PoolKeys = {}
    MaxReads = 2
    BroughtAges = {1}
    NoData = NoData
    Worlds <- MCWorlds
    Supply = 4
    FeeConfig <- MCFeeConfig
    LegacyFees <- MCLegacyFees
    InitialCurve <- MCInitialCurve
    BroughtFees <- MCBroughtFees
    Amounts = {2, 8}
    CurveBuys <- MCCurveBuys
    MaxMoves = 2
    Users = {u1, u2, u3}
    MaxSize = 2
    MaxMade = 4
    Part = 2
    Rate = 1
    Burst = 2
    MaxClock = 5
    Keys = {k1, k2, k3}
    Askers = {a1, a2}
    CacheSize = 2
    CacheLife = 2
    Computing = 1
    MaxTime = 4
    MaxNonce = 4
    Lanes = {"DEFAULT", "JITO"}
    Tips = {0, 1}
SPECIFICATION MCSpec
INVARIANTS
    SuccessCoversBatch
    OneConnection
    DispatchTellsTruth
    BreakerTellsTruth
    HandedOutIsRecent
    LookupTellsTruth
    PoolsHold
    TablesHold
PROPERTIES
    RefusalIsFinal
SYMMETRY MCSymmetry
CHECK_DEADLOCK FALSE
