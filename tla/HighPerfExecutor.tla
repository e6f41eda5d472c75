--------------------------- MODULE HighPerfExecutor ---------------------------
(***************************************************************************)
(* TradeExecutor of src/src/trading/high_perf_executor.py: one serialized   *)
(* transaction sent through every client at once, or through one after the  *)
(* other with retries, under one deadline.  Every lane sends the same bytes *)
(* and may be acknowledged, whatever becomes of it then.                    *)
(*                                                                          *)
(* A step is what the event loop runs between two awaits: a lane finishes   *)
(* in one and the call notices in a later one, and the deadline or a        *)
(* close() fits between them.  The rate limiter and the answers of the      *)
(* providers come after any time or fail.  The order in which a sequential  *)
(* call takes its clients is left open.  Operators introduced as a faulty   *)
(* variant are used by nothing: each is a mistake the properties catch.     *)
(***************************************************************************)
EXTENDS Naturals, Sequences, FiniteSets

CONSTANTS
    Call,        \* calls of execute()
    Client,      \* the configured clients
    NoReceipt,   \* signature == ""
    MaxRetries   \* ExecuteOptions.max_retries

ASSUME ExecutorConstants ==
    /\ IsFiniteSet(Client)
    /\ Client # {}
    /\ NoReceipt \notin Client
    /\ MaxRetries \in Nat \ {0}

VARIABLES
    calls,       \* calls[c]: the state of execute()
    lanes,       \* lanes[c][k]: _submit_to_client() of call c on client k
    receipts,    \* receipts[c]: clients whose signature the call has, in order
    counted,     \* counted[c]: how often the metrics counted c
    closed       \* close() was called (history)

vars == <<calls, lanes, receipts, counted, closed>>

NoResult == [signature |-> NoReceipt, success |-> FALSE]
NewCall == [pc |-> "idle", parallel |-> TRUE, wait |-> FALSE, retry |-> 0,
            seen |-> {}, result |-> NoResult]

Init ==
    /\ calls = [c \in Call |-> NewCall]
    /\ lanes = [c \in Call |-> [k \in Client |-> "none"]]
    /\ receipts = [c \in Call |-> <<>>]
    /\ counted = [c \in Call |-> 0]
    /\ closed = FALSE

Active == {"sending", "polling"}
Finished == {"succeeded", "unconfirmed", "failed", "cancelled"}

ActiveLanes(c) == {k \in Client : lanes[c][k] \in Active}
Cancelled(c) == [lanes EXCEPT ![c] = [k \in Client |-> IF lanes[c][k] \in Active
                                                       THEN "cancelled" ELSE lanes[c][k]]]

-----------------------------------------------------------------------------
(* The lanes. *)

LaneGoes(c, k, from, to) ==
    /\ lanes[c][k] = from
    /\ lanes' = [lanes EXCEPT ![c][k] = to]

(* Faulty variant: the receipt is noted with the confirmation. *)
AcknowledgeUnnoted(c, k) ==
    /\ LaneGoes(c, k, "sending", IF calls[c].wait THEN "polling" ELSE "succeeded")
    /\ receipts' = IF calls[c].wait THEN receipts ELSE [receipts EXCEPT ![c] = Append(@, k)]
    /\ UNCHANGED <<calls, counted, closed>>

Acknowledge(c, k) ==
    /\ LaneGoes(c, k, "sending", IF calls[c].wait THEN "polling" ELSE "succeeded")
    /\ receipts' = [receipts EXCEPT ![c] = Append(@, k)]
    /\ UNCHANGED <<calls, counted, closed>>

(* The provider refuses, the connection breaks, the deadline passes. *)
SendFails(c, k) ==
    LaneGoes(c, k, "sending", "failed") /\ UNCHANGED <<calls, receipts, counted, closed>>

PollSucceeds(c, k) ==
    LaneGoes(c, k, "polling", "succeeded") /\ UNCHANGED <<calls, receipts, counted, closed>>

(* It failed on chain, does not show up, or the deadline passes. *)
PollFails(c, k) ==
    LaneGoes(c, k, "polling", "unconfirmed") /\ UNCHANGED <<calls, receipts, counted, closed>>

LaneStep(c, k) == Acknowledge(c, k) \/ SendFails(c, k) \/ PollSucceeds(c, k) \/ PollFails(c, k)

-----------------------------------------------------------------------------
(* The call. *)

Return(c, signature, success) ==
    /\ calls' = [calls EXCEPT ![c].pc = "returned",
                              ![c].result = [signature |-> signature, success |-> success]]
    /\ counted' = [counted EXCEPT ![c] = @ + 1]
    /\ UNCHANGED <<receipts, closed>>

Execute(c, parallel, wait) ==
    /\ calls[c].pc = "idle"
    /\ calls' = [calls EXCEPT ![c] = [NewCall EXCEPT !.pc = "limited", !.parallel = parallel,
                                                     !.wait = wait]]
    /\ UNCHANGED <<lanes, receipts, counted, closed>>

(* The rate limiter lets the call through. *)
Admit(c) ==
    /\ calls[c].pc = "limited"
    /\ calls' = [calls EXCEPT ![c].pc = "running"]
    /\ lanes' = IF calls[c].parallel
                THEN [lanes EXCEPT ![c] = [k \in Client |-> "sending"]] ELSE lanes
    /\ UNCHANGED <<receipts, counted, closed>>

RunsParallel(c) == calls[c].pc = "running" /\ calls[c].parallel
RunsSequential(c) == calls[c].pc = "running" /\ ~ calls[c].parallel

(* as_completed(): the first success ends the call and leaves the other lanes
   alone. *)
ObserveSuccess(c, k) ==
    /\ RunsParallel(c)
    /\ k \notin calls[c].seen
    /\ lanes[c][k] = "succeeded"
    /\ Return(c, k, TRUE)
    /\ UNCHANGED lanes

ObserveFailure(c, k) ==
    /\ RunsParallel(c)
    /\ k \notin calls[c].seen
    /\ lanes[c][k] \in {"unconfirmed", "failed"}
    /\ calls' = [calls EXCEPT ![c].seen = @ \cup {k}]
    /\ UNCHANGED <<lanes, receipts, counted, closed>>

(* A lane that close() cancelled cancels the call, and the call its lanes. *)
ObserveCancelled(c, k) ==
    /\ RunsParallel(c)
    /\ k \notin calls[c].seen
    /\ lanes[c][k] = "cancelled"
    /\ calls' = [calls EXCEPT ![c].pc = "raised"]
    /\ lanes' = Cancelled(c)
    /\ UNCHANGED <<receipts, counted, closed>>

Unconfirmed(c) == {k \in Client : lanes[c][k] = "unconfirmed"}

(* No lane succeeded: a signature that was acknowledged is returned. *)
AllObserved(c, k) ==
    /\ RunsParallel(c)
    /\ calls[c].seen = Client
    /\ k \in IF Unconfirmed(c) = {} THEN {NoReceipt} ELSE Unconfirmed(c)
    /\ Return(c, k, FALSE)
    /\ UNCHANGED lanes

(* The sequential call: one client after the other ... *)
Try(c, k) ==
    /\ RunsSequential(c)
    /\ \A j \in Client : j \notin calls[c].seen => lanes[c][j] = "none"
    /\ k \notin calls[c].seen
    /\ lanes' = [lanes EXCEPT ![c][k] = "sending"]
    /\ UNCHANGED <<calls, receipts, counted, closed>>

(* Faulty variant: the next client is tried unless this one succeeded. *)
TryNextUnlessDone(c, k) ==
    /\ RunsSequential(c)
    /\ k \notin calls[c].seen
    /\ lanes[c][k] \in {"failed", "unconfirmed"}
    /\ calls' = [calls EXCEPT ![c].seen = @ \cup {k}]
    /\ UNCHANGED <<lanes, receipts, counted, closed>>

(* ... until one acknowledges: it is not sent again, confirmed or not. *)
TryNext(c, k) ==
    /\ RunsSequential(c)
    /\ k \notin calls[c].seen
    /\ lanes[c][k] = "failed"
    /\ calls' = [calls EXCEPT ![c].seen = @ \cup {k}]
    /\ UNCHANGED <<lanes, receipts, counted, closed>>

SequentialEnds(c, k) ==
    /\ RunsSequential(c)
    /\ k \notin calls[c].seen
    /\ lanes[c][k] \in {"succeeded", "unconfirmed"}
    /\ Return(c, k, lanes[c][k] = "succeeded")
    /\ UNCHANGED lanes

(* Faulty variant: retries are not counted. *)
NextRetryForever(c) ==
    /\ RunsSequential(c)
    /\ calls[c].seen = Client
    /\ calls' = [calls EXCEPT ![c].seen = {}]
    /\ lanes' = [lanes EXCEPT ![c] = [k \in Client |-> "none"]]
    /\ UNCHANGED <<receipts, counted, closed>>

NextRetry(c) ==
    /\ RunsSequential(c)
    /\ calls[c].seen = Client
    /\ calls[c].retry + 1 < MaxRetries
    /\ calls' = [calls EXCEPT ![c].seen = {}, ![c].retry = @ + 1]
    /\ lanes' = [lanes EXCEPT ![c] = [k \in Client |-> "none"]]
    /\ UNCHANGED <<receipts, counted, closed>>

RetriesExhausted(c) ==
    /\ RunsSequential(c)
    /\ calls[c].seen = Client
    /\ calls[c].retry + 1 = MaxRetries
    /\ Return(c, NoReceipt, FALSE)
    /\ UNCHANGED lanes

FirstReceipt(c) == IF receipts[c] = <<>> THEN NoReceipt ELSE Head(receipts[c])

(* Faulty variant: the lanes are left running. *)
TimesOutAlone(c) ==
    /\ calls[c].pc \in {"limited", "running"}
    /\ Return(c, FirstReceipt(c), FALSE)
    /\ UNCHANGED lanes

(* The deadline: the lanes are cancelled, the first receipt is the answer. *)
TimesOut(c) ==
    /\ calls[c].pc \in {"limited", "running"}
    /\ Return(c, FirstReceipt(c), FALSE)
    /\ lanes' = Cancelled(c)

(* close() cancels the lanes that are tasks, those of parallel calls. *)
Close ==
    /\ ~ closed
    /\ closed' = TRUE
    /\ lanes' = [c \in Call |-> IF calls[c].parallel THEN Cancelled(c)[c] ELSE lanes[c]]
    /\ UNCHANGED <<calls, receipts, counted>>

CallStep(c) ==
    \/ Admit(c)
    \/ \E k \in Client :
          \/ ObserveSuccess(c, k) \/ ObserveFailure(c, k) \/ ObserveCancelled(c, k)
          \/ Try(c, k) \/ TryNext(c, k) \/ SequentialEnds(c, k)
    \/ \E k \in Client \cup {NoReceipt} : AllObserved(c, k)
    \/ NextRetry(c)
    \/ RetriesExhausted(c)

Next ==
    \/ \E c \in Call :
          \/ \E parallel, wait \in BOOLEAN : Execute(c, parallel, wait)
          \/ CallStep(c)
          \/ TimesOut(c)
          \/ \E k \in Client : LaneStep(c, k)
    \/ Close

Spec == Init /\ [][Next]_vars

(* The event loop runs what is ready, and the lanes have a deadline.  That of
   the call itself is not needed. *)
FairSpec ==
    /\ Spec
    /\ \A c \in Call : WF_vars(CallStep(c))
    /\ \A c \in Call, k \in Client : WF_vars(LaneStep(c, k))

-----------------------------------------------------------------------------
(* The state is well formed; a sequential call has one lane at a time and no
   more retries than allowed. *)
TypeOK ==
    /\ calls \in [Call -> [pc : {"idle", "limited", "running", "returned", "raised"},
                           parallel : BOOLEAN, wait : BOOLEAN, retry : 0..(MaxRetries - 1),
                           seen : SUBSET Client,
                           result : [signature : Client \cup {NoReceipt}, success : BOOLEAN]]]
    /\ lanes \in [Call -> [Client -> {"none"} \cup Active \cup Finished]]
    /\ receipts \in [Call -> Seq(Client)]
    /\ counted \in [Call -> Nat]
    /\ \A c \in Call : ~ calls[c].parallel => Cardinality(ActiveLanes(c)) <= 1

(* A signature a provider gave out before the call returned is not lost: the
   call returns one, also when it fails or its deadline passes, because the
   transaction may land. *)
ReceiptNotLost ==
    \A c \in Call :
        /\ calls[c].pc = "returned" /\ ~ calls[c].parallel =>
              \A k \in Client : lanes[c][k] \in {"succeeded", "unconfirmed"} =>
                  calls[c].result.signature = k
        /\ calls[c].pc = "running" /\ calls[c].parallel =>
              \A k \in Client : lanes[c][k] \in {"polling", "succeeded", "unconfirmed"} =>
                  FirstReceipt(c) # NoReceipt
        /\ calls[c].pc = "returned" /\ calls[c].result.signature = NoReceipt => receipts[c] = <<>>

(* A sequential call does not send again what a provider has acknowledged,
   neither through another client nor in a retry. *)
NotSentAgain ==
    \A c \in Call :
        ~ calls[c].parallel /\ receipts[c] # <<>> =>
            /\ Len(receipts[c]) = 1
            /\ \A k \in Client : lanes[c][k] # "sending"

(* The metrics count a call once when it returns, whichever of its lanes, its
   deadline and its retries come together. *)
CountedOnce ==
    \A c \in Call : counted[c] = IF calls[c].pc = "returned" THEN 1 ELSE 0

(* What a call did is what it reports and what the metrics have. *)
CallsAccounted == ReceiptNotLost /\ CountedOnce

(* A call that returned without success, or raised, has nothing under way:
   only a success leaves lanes behind. *)
FailureLeavesNothing ==
    \A c \in Call :
        calls[c].pc \in {"returned", "raised"} /\ ~ calls[c].result.success => ActiveLanes(c) = {}

(* Calls and the lanes they leave behind end without the call's own deadline. *)
CallsAndLanesEnd ==
    \A c \in Call :
        /\ calls[c].pc = "limited" ~> calls[c].pc \in {"returned", "raised"}
        /\ calls[c].pc = "limited" ~> [](ActiveLanes(c) = {})
=============================================================================
