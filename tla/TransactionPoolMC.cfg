CONSTANTS
    t1 = t1
    t2 = t2
    Tx <- MCTx
    Priority = {0, 1}
    MaxSize = 2
    BatchSize = 1
    MaxAttempts = 3
SPECIFICATION FairSpec
INVARIANTS
    OneSenderAtATime
    WaitingCanBeHandedOut
PROPERTIES
    BestFirst
    EverySubmissionEnds
