----------------------- MODULE SubscriptionReadinessMC -----------------------
(***************************************************************************)
(* Small instances of what keeps a subscription: SubscriptionReadiness with *)
(* one account known from the start and one discovered later, two forks and *)
(* two concurrent validations, and the WebSocketHandle of a signature.      *)
(* They share no state; a behaviour is of one of them, `part`.              *)
(***************************************************************************)
EXTENDS SubscriptionReadiness, WebSocketHandle
LOCAL INSTANCE TLC

CONSTANTS pool, array, confirmedA, confirmedB, w1, w2, trader

VARIABLE part

MCAccount         == {pool, array}
MCInitialRequired == {pool}
MCFork            == {confirmedA, confirmedB}
MCWorker          == {w1, w2}
MCHolder          == {trader}
WorkersAlike      == Permutations(MCWorker)

mcVars == <<part, vars, handleVars>>

MCInit == part \in {"readiness", "handle"} /\ Init /\ HandleInit

InReadiness(A) == part = "readiness" /\ A /\ UNCHANGED <<part, handleVars>>
InHandle(A) == part = "handle" /\ A /\ UNCHANGED <<part, vars>>

MCNext ==
    \/ InReadiness(Interrupt)
    \/ \E f \in Fork : InReadiness(BeginRecovery(f))
    \/ \E keys \in SUBSET Account : InReadiness(RequireAccounts(keys))
    \/ \E w \in Worker, f \in Fork : InReadiness(BeginValidation(w, f))
    \/ \E w \in Worker, keys \in SUBSET Account : InReadiness(MarkValidated(w, keys))
    \/ \E w \in Worker : InReadiness(MarkRejected(w))
    \/ \E h \in Holder : InReadiness(GuardCapture(h))
    \/ \E h \in Holder : InReadiness(GuardCheck(h))
    \/ \E h \in Holder : InReadiness(GuardRefused(h))
    \/ InHandle(ConnectBegins) \/ InHandle(Connected) \/ InHandle(ConnectFails)
    \/ InHandle(Pause) \/ InHandle(Resume)
    \/ \E c \in Readers : InHandle(WsConnected(c))
    \/ \E c \in Tasks : InHandle(ReaderStarts(c))
    \/ \E c \in Tasks, final \in BOOLEAN : InHandle(Notified(c, final))
    \/ \E c \in Tasks : InHandle(Breaks(c))
    \/ \E c \in Tasks : InHandle(ReaderLosesIt(c))
    \/ \E c \in Tasks : InHandle(HandleError(c))
    \/ \E c \in Tasks : InHandle(CallbackReturns(c))
    \/ \E c \in Tasks : InHandle(Reopens(c))
    \/ \E c \in Tasks : InHandle(Reopened(c))
    \/ \E c \in Tasks : InHandle(ReopenFails(c))
    \/ \E c \in Tasks : InHandle(Joined(c))
    \/ \E c \in Tasks : InHandle(Takes(c))
    \/ \E c \in Tasks : InHandle(Delivers(c))
    \/ \E c \in Tasks : InHandle(Returns(c))
    \/ \E c \in Tasks : InHandle(RunnerEnds(c))
    \/ \E c \in Tasks : InHandle(CallbackStops(c))
    \/ \E c \in Tasks : InHandle(ReaderStops(c))
    \/ InHandle(Stop) \/ InHandle(StopCloses) \/ InHandle(StopEnds)

MCSpec == MCInit /\ [][MCNext]_mcVars
=============================================================================
