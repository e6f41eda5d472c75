CONSTANTS
    pool = pool
    vault = vault
    program = program
    live = live
    closed = closed
    feed1 = feed1
    feed2 = feed2
    trader = trader
    Key <- MCKey
    Owner = {program}
    Data = {live, closed}
    Empty = closed
    Slot = {1, 2}
    WriteVersion = {0, 1}
    Writer <- MCWriter
    Reader = {trader}
    NoThread = NoThread
    NoAccount = NoAccount
    MaxItems = 3
SYMMETRY FeedsAlike
SPECIFICATION Spec
INVARIANTS
    NewestCommitted
    NoTornSnapshot
PROPERTY ImplementsStore
