CONSTANTS
    pool = pool
    array = array
    confirmedA = confirmedA
    confirmedB = confirmedB
    w1 = w1
    w2 = w2
    trader = trader
    Account <- MCAccount
    InitialRequired <- MCInitialRequired
    Fork <- MCFork
    InitialFork = confirmedA
    Worker <- MCWorker
    Holder <- MCHolder
    MaxGeneration = 3
    BufferSize = 2
    MaxReconnects = 1
    OneShot = TRUE
    MaxTasks = 2
    MaxLinks = 3
    MaxMessages = 3
    MaxBreaks = 2
SYMMETRY WorkersAlike
SPECIFICATION MCSpec
INVARIANTS
    ReadyOnFreshEvidence
    UsableGuardSeesSameWorld
    HandleKeepsItsWord
PROPERTY OnceRefusedAlwaysRefused
CHECK_DEADLOCK FALSE
