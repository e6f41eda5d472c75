CONSTANTS
    poll_loop = poll_loop
    check_now = check_now
    Signature = {s1}
    Check <- MCCheck
    Wait = {w1}
    Free = Free
    Untracked = Untracked
    CallbackUntracks = FALSE
SPECIFICATION FairSpec
INVARIANTS
    SuccessIsReal
PROPERTIES
    LateAnswersForgotten
    EveryWaitReturns
