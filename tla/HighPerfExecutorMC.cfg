CONSTANTS
    relay = relay
    other = other
    default = default
    Call = {c1}
    Client <- MCClient
    NoReceipt = NoReceipt
    MaxRetries = 2
    jito = jito
    temporal = temporal
    first = first
    DefaultLane = DefaultLane
    Rpc = Rpc
    Tip = {tip1}
    NoTip = NoTip
    NoNonce = NoNonce
    Unhashed = {unhashed}
    Recent = Recent
    MaxNonce = 1
    pool = pool
    vault = vault
    confirmed = confirmed
    worker = worker
    trader = trader
    Slot = {1}
    Context = {2}
    Data = {alive, closed}
    Empty = closed
    NoAccount = NoAccount
    Free = Free
    MaxAge = 0
    NotObserved = NotObserved
    MaxGeneration = 1
SPECIFICATION MCFairSpec
INVARIANTS
    CallsAccounted
    NotSentAgain
    FailureLeavesNothing
PROPERTIES
    EveryCallEnds
    EveryTradeEnds
CHECK_DEADLOCK FALSE
