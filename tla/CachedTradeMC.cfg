CONSTANTS
    pool = pool
    vault = vault
    Key <- MCKey
    Slot = {1}
    Context = {1}
    Data = {alive, closed}
    Empty = closed
    NoAccount = NoAccount
    Trader = {trader}
    Free = Free
    Candidates <- MCCandidates
    MaxAge = 0
    NotObserved = NotObserved
    Fork = {confirmedA}
    InitialFork = confirmedA
    InitialRequired = {pool}
    Worker = {w1}
    MaxGeneration = 2
SPECIFICATION Spec
INVARIANTS
    NothingOnDeadSnapshot
