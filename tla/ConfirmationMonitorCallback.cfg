CONSTANTS
    poll_loop = poll_loop
    check_now = check_now
    Signature = {s1}
    Check = {poll_loop}
    Wait = {w1}
    Free = Free
    Untracked = Untracked
    CallbackUntracks = TRUE
SPECIFICATION FairSpec
PROPERTY EveryWaitReturns
CHECK_DEADLOCK FALSE
