CONSTANTS
    jito = jito
    temporal = temporal
    first = first
    retry = retry
    Attempt <- MCAttempt
    Mev <- MCMev
    DefaultLane = DefaultLane
    Rpc = Rpc
    Tip = {tip1}
    NoTip = NoTip
    NoNonce = NoNonce
    Unhashed = {}
    Recent = Recent
    MaxNonce = 1
SYMMETRY RelaysAndCallsAlike
SPECIFICATION Spec
INVARIANTS
    NonceTakesEffectOnce
    ReportIsReal
CHECK_DEADLOCK FALSE
