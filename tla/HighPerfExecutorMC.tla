-------------------------- MODULE HighPerfExecutorMC --------------------------
(***************************************************************************)
(* Small instances of the three ways to carry out a trade, for the questions *)
(* whether they end: HighPerfExecutor with two relays and the Default        *)
(* client, TradeSubmission with two relays, the Default lane and one call,   *)
(* and CachedTrade with one trader.  They share no state; a behaviour is of  *)
(* one of them, `part`.                                                      *)
(***************************************************************************)
EXTENDS HighPerfExecutor

CONSTANTS relay, other, default, jito, temporal, first,
          DefaultLane, Rpc, Tip, NoTip, NoNonce, Unhashed, Recent, MaxNonce,
          pool, vault, confirmed, worker, trader,
          Slot, Context, Data, Empty, NoAccount, Free, MaxAge, NotObserved, MaxGeneration

VARIABLES part, call, sends, nonce, chain,
          fork, generation, state, required, validated, work, guards,
          continuity, epoch, evidence, accounts, conflicted, cacheLock, trade

MCClient == {relay, other, default}
Attempt == {first}
Mev == {jito, temporal}

Submission == INSTANCE TradeSubmission WITH lanes <- sends

MCKey == {pool, vault}
MCTrader == {trader}
Trading == INSTANCE CachedTrade
    WITH Key <- MCKey, Trader <- MCTrader, Candidates <- <<{pool, vault}, {pool}>>,
         Fork <- {confirmed}, InitialFork <- confirmed, InitialRequired <- MCKey,
         Worker <- {worker}

executorVars == <<calls, lanes, receipts, counted, closed>>
submissionVars == <<call, sends, nonce, chain>>
tradingVars == <<fork, generation, state, required, validated, work, guards,
                 continuity, epoch, evidence, accounts, conflicted, cacheLock, trade>>
mcVars == <<part, executorVars, submissionVars, tradingVars>>

MCInit ==
    /\ part \in {"executor", "submission", "trading"}
    /\ Init
    /\ Submission!Init
    /\ Trading!Init

InExecutor(A) == part = "executor" /\ A /\ UNCHANGED <<part, submissionVars, tradingVars>>
InSubmission(A) ==
    part = "submission" /\ A /\ UNCHANGED <<part, executorVars, tradingVars>>
InTrading(A) == part = "trading" /\ A /\ UNCHANGED <<part, executorVars, submissionVars>>

MCNext ==
    \/ \E c \in Call, parallel, wait \in BOOLEAN : InExecutor(Execute(c, parallel, wait))
    \/ \E c \in Call : InExecutor(CallStep(c))
    \/ \E c \in Call : InExecutor(TimesOut(c))
    \/ \E c \in Call, k \in Client : InExecutor(LaneStep(c, k))
    \/ InExecutor(Close)
    \/ \E a \in Attempt, n \in Submission!Given :
           \E with_tip, wait, wait_all \in BOOLEAN :
               InSubmission(Submission!Begin(a, n, with_tip, wait, wait_all))
    \/ \E a \in Attempt : InSubmission(Submission!Proceed(a))
    \/ \E a \in Attempt, l \in Submission!Lane : InSubmission(Submission!LaneAnswers(a, l))
    \/ \E tx \in Submission!Sent, ok \in BOOLEAN : InSubmission(Submission!Land(tx, ok))
    \/ InTrading(Trading!Feed)
    \/ InTrading(Trading!Stream)
    \/ \E t \in MCTrader : InTrading(Trading!TakeSnapshot(t))
    \/ \E t \in MCTrader : InTrading(Trading!Begin(t))
    \/ \E t \in MCTrader : InTrading(Trading!Progress(t))
    \/ \E t \in MCTrader : InTrading(Trading!Return(t))

(* The fairness of the FairSpec of HighPerfExecutor, TradeSubmission and CachedTrade. *)
MCFairSpec ==
    /\ MCInit /\ [][MCNext]_mcVars
    /\ \A c \in Call : WF_mcVars(InExecutor(CallStep(c)))
    /\ \A c \in Call, k \in Client : WF_mcVars(InExecutor(LaneStep(c, k)))
    /\ \A a \in Attempt : WF_mcVars(InSubmission(Submission!Proceed(a)))
    /\ \A a \in Attempt, l \in Submission!Lane :
           WF_mcVars(InSubmission(Submission!LaneAnswers(a, l)))
    /\ \A t \in MCTrader : WF_mcVars(InTrading(Trading!Progress(t)))

(* A call of the executor or of the TradingClient returns, and so does every
   lane and every send it leaves behind. *)
EveryCallEnds == CallsAndLanesEnd /\ Submission!CallsAndSendsEnd

(* A cached trade that has begun is handed to the transport or raises. *)
EveryTradeEnds == Trading!EveryTradeEnds
=============================================================================
