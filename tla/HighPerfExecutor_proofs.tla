----------------------- MODULE HighPerfExecutor_proofs -----------------------
(***************************************************************************)
(* Proofs about TradeExecutor.execute() for any calls, clients and retries: *)
(* a receipt is not lost, a sequential call does not send again what was    *)
(* acknowledged, a failure leaves nothing under way, and a call is counted  *)
(* once.                                                                    *)
(*                                                                          *)
(* A call, its lanes and its receipts are only ever changed together, so    *)
(* the invariant is about the three of one call: Fits says, for each place  *)
(* a call can be in, which lanes it may have and what they owe to the       *)
(* receipts.                                                                *)
(***************************************************************************)
EXTENDS HighPerfExecutor, FiniteSetTheorems, TLAPS

CallRecord ==
    [pc : {"idle", "limited", "running", "returned", "raised"},
     parallel : BOOLEAN, wait : BOOLEAN, retry : 0..(MaxRetries - 1),
     seen : SUBSET Client,
     result : [signature : Client \cup {NoReceipt}, success : BOOLEAN]]

LaneStates == {"none"} \cup Active \cup Finished

(* Where a lane is once a provider has acknowledged the transaction. *)
Acked == {"polling", "succeeded", "unconfirmed"}

Waiting(r, L, R) ==
    r.pc \in {"idle", "limited"} =>
        r.seen = {} /\ R = <<>> /\ \A k \in Client : L[k] = "none"

ReceiptNoted(L, R) == \A k \in Client : L[k] \in Acked => R # <<>>

(* What as_completed() has shown did not succeed; what is acknowledged can
   still be found among the lanes. *)
InParallel(r, L, R) ==
    r.pc = "running" /\ r.parallel =>
        /\ \A k \in r.seen : L[k] \in {"unconfirmed", "failed"}
        /\ R # <<>> => \E k \in Client : L[k] \in Acked \cup {"cancelled"}

(* The clients tried before have failed, at most one is being tried, and the
   one receipt there can be is its own. *)
OneByOne(r, L, R) ==
    r.pc = "running" /\ ~ r.parallel =>
        /\ \A k \in r.seen : L[k] = "failed"
        /\ \A j, k \in Client \ r.seen : L[j] # "none" /\ L[k] # "none" => j = k
        /\ R # <<>> => \E k \in Client \ r.seen : L[k] \in Acked /\ R = <<k>>

Over(r, L, R) ==
    r.pc \in {"returned", "raised"} =>
        /\ r.pc = "raised" => r.parallel
        /\ ~ r.parallel \/ r.pc = "raised" \/ ~ r.result.success =>
               \A k \in Client : L[k] \notin Active
        /\ r.pc = "returned" /\ r.result.success => r.result.signature # NoReceipt
        /\ r.pc = "returned" /\ r.result.signature = NoReceipt => R = <<>>
        /\ ~ r.parallel =>
               /\ R # <<>> => Len(R) = 1
               /\ \A k \in Client : L[k] \in {"succeeded", "unconfirmed"} =>
                      r.result.signature = k

Fits(r, L, R) ==
    /\ Waiting(r, L, R)
    /\ ReceiptNoted(L, R)
    /\ InParallel(r, L, R)
    /\ OneByOne(r, L, R)
    /\ Over(r, L, R)

Typed ==
    /\ calls \in [Call -> CallRecord]
    /\ lanes \in [Call -> [Client -> LaneStates]]
    /\ receipts \in [Call -> Seq(Client)]
    /\ counted \in [Call -> Nat]

IInv ==
    /\ Typed
    /\ CountedOnce
    /\ \A c \in Call : Fits(calls[c], lanes[c], receipts[c])

-----------------------------------------------------------------------------
LEMMA NewCallIs ==
  /\ NewCall \in CallRecord /\ NewCall.pc = "idle" /\ NewCall.parallel /\ NewCall.seen = {}
<1>1. 0 \in 0..(MaxRetries - 1)
  BY ExecutorConstants
<1>2. QED
  BY <1>1 DEF NewCall, NoResult, CallRecord

LEMMA InitIInv == Init => IInv
<1>1. SUFFICES ASSUME Init PROVE IInv
  OBVIOUS
<1> USE <1>1 DEF Init
<1>2. Typed
  BY NewCallIs DEF Typed, LaneStates
<1>3. CountedOnce
  BY NewCallIs DEF CountedOnce
<1>4. \A c \in Call : Fits(calls[c], lanes[c], receipts[c])
  BY NewCallIs DEF Fits, Waiting, ReceiptNoted, InParallel, OneByOne, Over, Acked
<1>5. QED
  BY <1>2, <1>3, <1>4 DEF IInv

(* A step of one call, its lanes and its receipts. *)
LEMMA StepKeeps ==
  ASSUME NEW c \in Call, IInv,
         NEW r \in CallRecord, NEW L \in [Client -> LaneStates], NEW R \in Seq(Client),
         NEW n, n = IF r.pc = "returned" THEN 1 ELSE 0,
         calls' = [calls EXCEPT ![c] = r],
         lanes' = [lanes EXCEPT ![c] = L],
         receipts' = [receipts EXCEPT ![c] = R],
         counted' = [counted EXCEPT ![c] = n],
         Fits(r, L, R)
  PROVE  IInv'
<1> USE DEF IInv, Typed
<1>1. /\ calls' \in [Call -> CallRecord] /\ calls'[c] = r
      /\ \A d \in Call \ {c} : calls'[d] = calls[d]
  OBVIOUS
<1>2. /\ lanes' \in [Call -> [Client -> LaneStates]] /\ lanes'[c] = L
      /\ \A d \in Call \ {c} : lanes'[d] = lanes[d]
  OBVIOUS
<1>3. /\ receipts' \in [Call -> Seq(Client)] /\ receipts'[c] = R
      /\ \A d \in Call \ {c} : receipts'[d] = receipts[d]
  OBVIOUS
<1>4. /\ counted' \in [Call -> Nat] /\ counted'[c] = n
      /\ \A d \in Call \ {c} : counted'[d] = counted[d]
  OBVIOUS
<1>5. CountedOnce'
  BY <1>1, <1>4 DEF CountedOnce
<1>6. ASSUME NEW d \in Call PROVE Fits(calls'[d], lanes'[d], receipts'[d])
  BY <1>1, <1>2, <1>3
<1>7. QED
  BY <1>1, <1>2, <1>3, <1>4, <1>5, <1>6

(* A step of one lane. *)
LEMMA LaneGoesKeeps ==
  ASSUME NEW c \in Call, NEW k \in Client, IInv,
         NEW from, NEW to \in LaneStates, LaneGoes(c, k, from, to),
         NEW R \in Seq(Client), receipts' = [receipts EXCEPT ![c] = R],
         UNCHANGED <<calls, counted>>,
         NEW L, L = [lanes[c] EXCEPT ![k] = to], Fits(calls[c], L, R)
  PROVE  IInv'
<1>1. calls[c] \in CallRecord /\ L \in [Client -> LaneStates]
  BY DEF IInv, Typed
<1>2. /\ calls' = [calls EXCEPT ![c] = calls[c]] /\ lanes' = [lanes EXCEPT ![c] = L]
      /\ counted' = [counted EXCEPT ![c] = counted[c]]
  BY DEF IInv, Typed, LaneGoes
<1>3. counted[c] = IF calls[c].pc = "returned" THEN 1 ELSE 0
  BY DEF IInv, CountedOnce
<1>4. QED
  BY <1>1, <1>2, <1>3, StepKeeps

-----------------------------------------------------------------------------
(* The lanes. *)

(* A provider acknowledges: of a sequential call it is the first to do so. *)
LEMMA AcknowledgedFits ==
  ASSUME NEW r \in CallRecord, NEW L \in [Client -> LaneStates], NEW R \in Seq(Client),
         NEW k \in Client, Fits(r, L, R), L[k] = "sending",
         NEW to \in {"polling", "succeeded"},
         NEW M, M = [L EXCEPT ![k] = to], NEW S, S = Append(R, k)
  PROVE  Fits(r, M, S)
<1>1. M[k] = to /\ \A j \in Client \ {k} : M[j] = L[j]
  OBVIOUS
<1>2. S # <<>> /\ (R = <<>> => S = <<k>>)
  <2>1. Len(S) = Len(R) + 1 /\ S \in Seq(Client) /\ Len(R) \in Nat
    OBVIOUS
  <2>2. S # <<>>
    BY <2>1
  <2>3. R = <<>> => S = <<k>>
    OBVIOUS
  <2>4. QED
    BY <2>2, <2>3
<1>3. Waiting(r, M, S)
  BY DEF Fits, Waiting
<1>4. ReceiptNoted(M, S)
  BY <1>2 DEF ReceiptNoted
<1>5. InParallel(r, M, S)
  <2>1. SUFFICES ASSUME r.pc = "running", r.parallel
        PROVE  /\ \A j \in r.seen : M[j] \in {"unconfirmed", "failed"}
               /\ \E j \in Client : M[j] \in Acked \cup {"cancelled"}
    BY DEF InParallel
  <2>2. \A j \in r.seen : L[j] \in {"unconfirmed", "failed"} /\ j \in Client
    BY <2>1 DEF Fits, InParallel, CallRecord
  <2>3. M[k] \in Acked
    BY <1>1 DEF Acked
  <2>4. QED
    BY <1>1, <2>2, <2>3
<1>6. OneByOne(r, M, S)
  <2>1. SUFFICES ASSUME r.pc = "running", ~ r.parallel
        PROVE  /\ \A j \in r.seen : M[j] = "failed"
               /\ \A i, j \in Client \ r.seen : M[i] # "none" /\ M[j] # "none" => i = j
               /\ \E j \in Client \ r.seen : M[j] \in Acked /\ S = <<j>>
    BY DEF OneByOne
  <2>2. /\ \A j \in r.seen : L[j] = "failed" /\ j \in Client
        /\ \A i, j \in Client \ r.seen : L[i] # "none" /\ L[j] # "none" => i = j
        /\ R # <<>> => \E j \in Client \ r.seen : L[j] \in Acked
    BY <2>1 DEF Fits, OneByOne, CallRecord
  <2>3. k \notin r.seen
    BY <2>2
  <2>4. R = <<>>
    BY <2>2, <2>3 DEF Acked
  <2>5. M[k] \in Acked
    BY <1>1 DEF Acked
  <2>6. QED
    BY <1>1, <1>2, <2>2, <2>3, <2>4, <2>5
<1>7. Over(r, M, S)
  <2>1. r.pc \in {"returned", "raised"} =>
            /\ r.parallel /\ r.pc = "returned" /\ r.result.success
            /\ r.result.signature # NoReceipt
    BY DEF Fits, Over, Active
  <2>2. QED
    BY <2>1 DEF Over
<1>8. QED
  BY <1>3, <1>4, <1>5, <1>6, <1>7 DEF Fits

(* A lane ends. *)
LEMMA EndedFits ==
  ASSUME NEW r \in CallRecord, NEW L \in [Client -> LaneStates], NEW R \in Seq(Client),
         NEW k \in Client, Fits(r, L, R), NEW to,
         \/ L[k] = "sending" /\ to = "failed"
         \/ L[k] = "polling" /\ to \in {"succeeded", "unconfirmed"},
         NEW M, M = [L EXCEPT ![k] = to]
  PROVE  Fits(r, M, R)
<1>1. M[k] = to /\ \A j \in Client \ {k} : M[j] = L[j]
  OBVIOUS
<1>2. (M[k] \in Acked <=> L[k] \in Acked) /\ L[k] \notin {"none", "failed", "unconfirmed", "cancelled"}
  BY <1>1 DEF Acked
<1>3. Waiting(r, M, R)
  BY <1>2 DEF Fits, Waiting
<1>4. ReceiptNoted(M, R)
  BY <1>1, <1>2 DEF Fits, ReceiptNoted
<1>5. InParallel(r, M, R)
  <2>1. SUFFICES ASSUME r.pc = "running", r.parallel
        PROVE  /\ \A j \in r.seen : M[j] \in {"unconfirmed", "failed"}
               /\ R # <<>> => \E j \in Client : M[j] \in Acked \cup {"cancelled"}
    BY DEF InParallel
  <2>2. /\ \A j \in r.seen : L[j] \in {"unconfirmed", "failed"} /\ j \in Client
        /\ R # <<>> => \E j \in Client : L[j] \in Acked \cup {"cancelled"}
    BY <2>1 DEF Fits, InParallel, CallRecord
  <2>3. QED
    BY <1>1, <1>2, <2>2
<1>6. OneByOne(r, M, R)
  <2>1. SUFFICES ASSUME r.pc = "running", ~ r.parallel
        PROVE  /\ \A j \in r.seen : M[j] = "failed"
               /\ \A i, j \in Client \ r.seen : M[i] # "none" /\ M[j] # "none" => i = j
               /\ R # <<>> => \E j \in Client \ r.seen : M[j] \in Acked /\ R = <<j>>
    BY DEF OneByOne
  <2>2. /\ \A j \in r.seen : L[j] = "failed" /\ j \in Client
        /\ \A i, j \in Client \ r.seen : L[i] # "none" /\ L[j] # "none" => i = j
        /\ R # <<>> => \E j \in Client \ r.seen : L[j] \in Acked /\ R = <<j>>
    BY <2>1 DEF Fits, OneByOne, CallRecord
  <2>3. k \notin r.seen
    BY <1>2, <2>2
  <2>4. QED
    BY <1>1, <1>2, <2>2, <2>3
<1>7. Over(r, M, R)
  <2>1. r.pc \in {"returned", "raised"} =>
            /\ r.parallel /\ r.pc = "returned" /\ r.result.success
            /\ r.result.signature # NoReceipt
    BY DEF Fits, Over, Active
  <2>2. QED
    BY <2>1 DEF Over
<1>8. QED
  BY <1>3, <1>4, <1>5, <1>6, <1>7 DEF Fits

LEMMA LaneStepKeeps ==
  ASSUME NEW c \in Call, NEW k \in Client, IInv, LaneStep(c, k)
  PROVE  IInv'
<1>1. /\ calls[c] \in CallRecord /\ lanes[c] \in [Client -> LaneStates]
      /\ receipts[c] \in Seq(Client) /\ Fits(calls[c], lanes[c], receipts[c])
  BY DEF IInv, Typed
<1>2. CASE Acknowledge(c, k)
  <2> DEFINE to == IF calls[c].wait THEN "polling" ELSE "succeeded"
             R == Append(receipts[c], k)
             L == [lanes[c] EXCEPT ![k] = to]
  <2>1. to \in {"polling", "succeeded"} /\ to \in LaneStates
    BY DEF LaneStates, Active, Finished
  <2>2. R \in Seq(Client) /\ receipts' = [receipts EXCEPT ![c] = R]
    BY <1>1, <1>2 DEF Acknowledge
  <2>3. LaneGoes(c, k, "sending", to) /\ UNCHANGED <<calls, counted>>
    BY <1>2 DEF Acknowledge
  <2>4. lanes[c][k] = "sending"
    BY <2>3 DEF LaneGoes
  <2> HIDE DEF to
  <2>5. Fits(calls[c], L, R)
    BY <1>1, <2>1, <2>4, AcknowledgedFits
  <2> HIDE DEF R
  <2>6. QED
    BY <2>1, <2>2, <2>3, <2>5, LaneGoesKeeps
<1>3. CASE SendFails(c, k) \/ PollSucceeds(c, k) \/ PollFails(c, k)
  <2>1. PICK from \in {"sending", "polling"}, to \in {"failed", "succeeded", "unconfirmed"} :
            /\ LaneGoes(c, k, from, to) /\ UNCHANGED <<calls, receipts, counted>>
            /\ \/ from = "sending" /\ to = "failed"
               \/ from = "polling" /\ to \in {"succeeded", "unconfirmed"}
    BY <1>3 DEF SendFails, PollSucceeds, PollFails
  <2>2. to \in LaneStates /\ receipts' = [receipts EXCEPT ![c] = receipts[c]]
    BY <2>1 DEF LaneStates, Finished, IInv, Typed
  <2> DEFINE L == [lanes[c] EXCEPT ![k] = to]
  <2>3. lanes[c][k] = from
    BY <2>1 DEF LaneGoes
  <2>4. Fits(calls[c], L, receipts[c])
    BY <1>1, <2>1, <2>3, EndedFits
  <2>5. QED
    BY <1>1, <2>1, <2>2, <2>4, LaneGoesKeeps
<1>4. QED
  BY <1>2, <1>3 DEF LaneStep

-----------------------------------------------------------------------------
(* The call. *)

LEMMA CallIs ==
  ASSUME NEW c \in Call, IInv
  PROVE  /\ calls[c] \in CallRecord /\ lanes[c] \in [Client -> LaneStates]
         /\ receipts[c] \in Seq(Client) /\ Fits(calls[c], lanes[c], receipts[c])
         /\ lanes = [lanes EXCEPT ![c] = lanes[c]]
         /\ receipts = [receipts EXCEPT ![c] = receipts[c]]
         /\ counted[c] = IF calls[c].pc = "returned" THEN 1 ELSE 0
         /\ counted = [counted EXCEPT ![c] = counted[c]]
  BY DEF IInv, Typed, CountedOnce

(* The lanes of a call once its tasks are cancelled. *)
Cancel(L) == [k \in Client |-> IF L[k] \in Active THEN "cancelled" ELSE L[k]]

LEMMA CancelIs ==
  ASSUME NEW L \in [Client -> LaneStates]
  PROVE  /\ Cancel(L) \in [Client -> LaneStates]
         /\ \A k \in Client :
               /\ Cancel(L)[k] \notin Active
               /\ L[k] \notin Active => Cancel(L)[k] = L[k]
               /\ L[k] \in Active => Cancel(L)[k] = "cancelled"
  BY DEF Cancel, LaneStates, Active, Finished

LEMMA CancelledIs ==
  ASSUME NEW c \in Call, IInv
  PROVE  Cancelled(c) = [lanes EXCEPT ![c] = Cancel(lanes[c])]
  BY DEF Cancelled, Cancel

LEMMA ReturnKeeps ==
  ASSUME NEW c \in Call, IInv, calls[c].pc # "returned",
         NEW signature \in Client \cup {NoReceipt}, NEW success \in BOOLEAN,
         Return(c, signature, success),
         NEW L \in [Client -> LaneStates], lanes' = [lanes EXCEPT ![c] = L],
         ReceiptNoted(L, receipts[c]),
         ~ calls[c].parallel \/ ~ success => \A k \in Client : L[k] \notin Active,
         success => signature # NoReceipt,
         signature = NoReceipt => receipts[c] = <<>>,
         ~ calls[c].parallel =>
             /\ receipts[c] # <<>> => Len(receipts[c]) = 1
             /\ \A k \in Client : L[k] \in {"succeeded", "unconfirmed"} => signature = k
  PROVE  IInv'
<1> DEFINE result == [signature |-> signature, success |-> success]
           r == [calls[c] EXCEPT !.pc = "returned", !.result = result]
<1>1. calls[c] \in CallRecord /\ receipts[c] \in Seq(Client) /\ counted[c] = 0
  BY CallIs
<1>2. /\ result \in [signature : Client \cup {NoReceipt}, success : BOOLEAN]
      /\ result.signature = signature /\ result.success = success
  OBVIOUS
<1>3. /\ calls' = [calls EXCEPT ![c] = r]
      /\ receipts' = [receipts EXCEPT ![c] = receipts[c]]
      /\ counted' = [counted EXCEPT ![c] = 1]
  <2>1. calls' = [calls EXCEPT ![c] = r]
    BY DEF Return, IInv, Typed
  <2>2. receipts' = [receipts EXCEPT ![c] = receipts[c]]
    BY CallIs DEF Return
  <2>3. counted' = [counted EXCEPT ![c] = 1]
    BY <1>1 DEF Return
  <2>4. QED
    BY <2>1, <2>2, <2>3
<1> HIDE DEF result
<1>4. /\ r \in CallRecord /\ r.pc = "returned" /\ r.result = result
      /\ r.parallel = calls[c].parallel
  BY <1>1, <1>2 DEF CallRecord
<1> HIDE DEF r
<1>5. Fits(r, L, receipts[c])
  BY <1>2, <1>4 DEF Fits, Waiting, InParallel, OneByOne, Over
<1>6. QED
  BY <1>1, <1>3, <1>4, <1>5, StepKeeps

(* A step of the call that does not end it. *)
LEMMA GoOnKeeps ==
  ASSUME NEW c \in Call, IInv, calls[c].pc # "returned",
         NEW r \in CallRecord, r.pc # "returned", calls' = [calls EXCEPT ![c] = r],
         NEW L \in [Client -> LaneStates], lanes' = [lanes EXCEPT ![c] = L],
         UNCHANGED <<receipts, counted>>,
         Fits(r, L, receipts[c])
  PROVE  IInv'
<1>1. receipts[c] \in Seq(Client) /\ counted[c] = 0
  BY CallIs
<1>2. receipts' = [receipts EXCEPT ![c] = receipts[c]]
      /\ counted' = [counted EXCEPT ![c] = 0]
  BY <1>1, CallIs
<1>3. QED
  BY <1>1, <1>2, StepKeeps

LEMMA ExecuteKeeps ==
  ASSUME NEW c \in Call, IInv, NEW parallel \in BOOLEAN, NEW wait \in BOOLEAN,
         Execute(c, parallel, wait)
  PROVE  IInv'
<1> DEFINE r == [NewCall EXCEPT !.pc = "limited", !.parallel = parallel, !.wait = wait]
<1>1. r \in CallRecord /\ r.pc = "limited" /\ r.seen = {}
  BY NewCallIs DEF CallRecord
<1>2. /\ calls[c].pc = "idle" /\ calls' = [calls EXCEPT ![c] = r]
      /\ UNCHANGED <<lanes, receipts, counted>>
  BY DEF Execute
<1> HIDE DEF r
<1>3. Fits(r, lanes[c], receipts[c])
  BY <1>1, <1>2, CallIs DEF Fits, Waiting, ReceiptNoted, InParallel, OneByOne, Over
<1>4. lanes[c] \in [Client -> LaneStates] /\ lanes' = [lanes EXCEPT ![c] = lanes[c]]
  BY <1>2, CallIs
<1>5. QED
  BY <1>1, <1>2, <1>3, <1>4, GoOnKeeps

LEMMA AdmitKeeps ==
  ASSUME NEW c \in Call, IInv, Admit(c)
  PROVE  IInv'
<1> DEFINE r == [calls[c] EXCEPT !.pc = "running"]
           all == [k \in Client |-> "sending"]
           L == IF calls[c].parallel THEN all ELSE lanes[c]
<1>1. /\ calls[c] \in CallRecord /\ calls[c].pc = "limited" /\ calls[c].seen = {}
      /\ receipts[c] = <<>> /\ \A k \in Client : lanes[c][k] = "none"
  BY CallIs DEF Admit, Fits, Waiting
<1>2. /\ r \in CallRecord /\ r.pc = "running" /\ r.seen = {}
      /\ r.parallel = calls[c].parallel
  BY <1>1 DEF CallRecord
<1>3. L \in [Client -> LaneStates] /\ \A k \in Client : L[k] \in {"none", "sending"}
      /\ (~ r.parallel => L[k] = "none")
  BY <1>1, <1>2, CallIs DEF LaneStates, Active
<1>4. /\ calls' = [calls EXCEPT ![c] = r] /\ lanes' = [lanes EXCEPT ![c] = L]
      /\ UNCHANGED <<receipts, counted>>
  BY CallIs DEF Admit, IInv, Typed
<1> HIDE DEF r, L
<1>5. Fits(r, L, receipts[c])
  BY <1>1, <1>2, <1>3 DEF Fits, Waiting, ReceiptNoted, InParallel, OneByOne, Over, Acked
<1>6. QED
  BY <1>1, <1>2, <1>3, <1>4, <1>5, GoOnKeeps

LEMMA OneIsOne == \A k : Len(<<k>>) = 1
  OBVIOUS

(* as_completed(). *)
LEMMA ParallelKeeps ==
  ASSUME NEW c \in Call, IInv,
         \/ \E k \in Client :
               ObserveSuccess(c, k) \/ ObserveFailure(c, k) \/ ObserveCancelled(c, k)
         \/ \E k \in Client \cup {NoReceipt} : AllObserved(c, k)
  PROVE  IInv'
<1>1. /\ calls[c] \in CallRecord /\ lanes[c] \in [Client -> LaneStates]
      /\ lanes = [lanes EXCEPT ![c] = lanes[c]]
      /\ Fits(calls[c], lanes[c], receipts[c])
  BY CallIs
<1>2. calls[c].pc = "running" /\ calls[c].parallel /\ calls[c].seen \subseteq Client
  BY <1>1 DEF ObserveSuccess, ObserveFailure, ObserveCancelled, AllObserved, RunsParallel,
     CallRecord
<1>3. /\ \A k \in calls[c].seen : lanes[c][k] \in {"unconfirmed", "failed"}
      /\ receipts[c] # <<>> => \E k \in Client : lanes[c][k] \in Acked \cup {"cancelled"}
      /\ ReceiptNoted(lanes[c], receipts[c])
  BY <1>1, <1>2 DEF Fits, InParallel
<1>4. ASSUME NEW k \in Client, ObserveSuccess(c, k) PROVE IInv'
  <2>1. Return(c, k, TRUE) /\ k # NoReceipt /\ lanes' = [lanes EXCEPT ![c] = lanes[c]]
    BY <1>1, <1>4, ExecutorConstants DEF ObserveSuccess
  <2>2. /\ TRUE \in BOOLEAN /\ k \in Client \cup {NoReceipt}
        /\ ~ calls[c].parallel \/ ~ TRUE => \A j \in Client : lanes[c][j] \notin Active
        /\ calls[c].pc # "returned"
    BY <1>2
  <2>3. QED
    BY <1>1, <1>2, <1>3, <2>1, <2>2, ReturnKeeps
<1>5. ASSUME NEW k \in Client, ObserveFailure(c, k) PROVE IInv'
  <2> DEFINE seen == calls[c].seen \cup {k}
             r == [calls[c] EXCEPT !.seen = seen]
  <2>1. seen \in SUBSET Client /\ \A j \in seen : lanes[c][j] \in {"unconfirmed", "failed"}
    BY <1>2, <1>3, <1>5 DEF ObserveFailure
  <2>2. calls' = [calls EXCEPT ![c] = r] /\ UNCHANGED <<lanes, receipts, counted>>
    BY <1>5 DEF ObserveFailure, IInv, Typed
  <2> HIDE DEF seen
  <2>3. /\ r \in CallRecord /\ r.pc = calls[c].pc /\ r.parallel = calls[c].parallel
        /\ r.seen = seen
    BY <1>1, <2>1 DEF CallRecord
  <2> HIDE DEF r
  <2>4. Fits(r, lanes[c], receipts[c])
    BY <1>2, <1>3, <2>1, <2>3 DEF Fits, Waiting, InParallel, OneByOne, Over
  <2>5. QED
    BY <1>1, <1>2, <2>2, <2>3, <2>4, GoOnKeeps
<1>6. ASSUME NEW k \in Client, ObserveCancelled(c, k) PROVE IInv'
  <2> DEFINE r == [calls[c] EXCEPT !.pc = "raised"]
             L == Cancel(lanes[c])
  <2>1. r \in CallRecord /\ r.pc = "raised" /\ r.parallel = calls[c].parallel
    BY <1>1 DEF CallRecord
  <2>2. /\ calls' = [calls EXCEPT ![c] = r] /\ lanes' = [lanes EXCEPT ![c] = L]
        /\ UNCHANGED <<receipts, counted>>
    BY <1>6, CancelledIs DEF ObserveCancelled, IInv, Typed
  <2>3. /\ L \in [Client -> LaneStates] /\ \A j \in Client : L[j] \notin Active
        /\ \A j \in Client : L[j] = lanes[c][j] \/ L[j] = "cancelled"
    BY <1>1, CancelIs
  <2> HIDE DEF r, L
  <2>4. ReceiptNoted(L, receipts[c])
    BY <1>3, <2>3 DEF ReceiptNoted, Acked
  <2>5. Fits(r, L, receipts[c])
    BY <1>2, <2>1, <2>3, <2>4 DEF Fits, Waiting, InParallel, OneByOne, Over
  <2>6. QED
    BY <1>2, <2>1, <2>2, <2>3, <2>5, GoOnKeeps
<1>7. ASSUME NEW k \in Client \cup {NoReceipt}, AllObserved(c, k) PROVE IInv'
  <2>1. /\ Return(c, k, FALSE) /\ lanes' = [lanes EXCEPT ![c] = lanes[c]]
        /\ calls[c].seen = Client
        /\ k \in IF Unconfirmed(c) = {} THEN {NoReceipt} ELSE Unconfirmed(c)
    BY <1>1, <1>7 DEF AllObserved
  <2>2. \A j \in Client : lanes[c][j] \in {"unconfirmed", "failed"}
    BY <1>3, <2>1
  <2>3. \A j \in Client : lanes[c][j] \notin Active
    BY <2>2 DEF Active
  <2>4. ASSUME k = NoReceipt PROVE receipts[c] = <<>>
    <3>1. Unconfirmed(c) = {}
      BY <2>1, <2>4, ExecutorConstants DEF Unconfirmed
    <3>2. \A j \in Client : lanes[c][j] = "failed"
      BY <2>2, <3>1 DEF Unconfirmed
    <3>3. QED
      BY <1>3, <3>2 DEF Acked
  <2>5. QED
    BY <1>1, <1>2, <1>3, <2>1, <2>3, <2>4, ReturnKeeps
<1>8. QED
  BY <1>4, <1>5, <1>6, <1>7

(* One client after the other. *)
LEMMA SequentialKeeps ==
  ASSUME NEW c \in Call, IInv,
         \/ \E k \in Client : Try(c, k) \/ TryNext(c, k) \/ SequentialEnds(c, k)
         \/ NextRetry(c) \/ RetriesExhausted(c)
  PROVE  IInv'
<1>1. /\ calls[c] \in CallRecord /\ lanes[c] \in [Client -> LaneStates]
      /\ lanes = [lanes EXCEPT ![c] = lanes[c]]
      /\ Fits(calls[c], lanes[c], receipts[c])
  BY CallIs
<1>2. calls[c].pc = "running" /\ ~ calls[c].parallel /\ calls[c].seen \subseteq Client
  BY <1>1 DEF Try, TryNext, SequentialEnds, NextRetry, RetriesExhausted, RunsSequential,
     CallRecord
<1>3. /\ \A k \in calls[c].seen : lanes[c][k] = "failed"
      /\ \A j, k \in Client \ calls[c].seen :
            lanes[c][j] # "none" /\ lanes[c][k] # "none" => j = k
      /\ receipts[c] # <<>> =>
            \E k \in Client \ calls[c].seen : lanes[c][k] \in Acked /\ receipts[c] = <<k>>
      /\ ReceiptNoted(lanes[c], receipts[c])
  BY <1>1, <1>2 DEF Fits, OneByOne
<1>4. ASSUME NEW k \in Client, Try(c, k) PROVE IInv'
  <2> DEFINE L == [lanes[c] EXCEPT ![k] = "sending"]
  <2>1. /\ k \notin calls[c].seen
        /\ \A j \in Client \ calls[c].seen : lanes[c][j] = "none"
    BY <1>4 DEF Try
  <2>2. receipts[c] = <<>>
    BY <1>3, <2>1 DEF Acked
  <2>3. /\ L \in [Client -> LaneStates] /\ L[k] = "sending"
        /\ \A j \in Client \ {k} : L[j] = lanes[c][j]
    BY <1>1 DEF LaneStates, Active
  <2>4. /\ lanes' = [lanes EXCEPT ![c] = L] /\ calls' = [calls EXCEPT ![c] = calls[c]]
        /\ UNCHANGED <<receipts, counted>>
    BY <1>4 DEF Try, IInv, Typed
  <2> HIDE DEF L
  <2>5. ReceiptNoted(L, receipts[c])
    BY <1>3, <2>3 DEF ReceiptNoted, Acked
  <2>6. Fits(calls[c], L, receipts[c])
    BY <1>2, <1>3, <2>1, <2>2, <2>3, <2>5 DEF Fits, Waiting, InParallel, OneByOne, Over
  <2>7. QED
    BY <1>1, <1>2, <2>3, <2>4, <2>6, GoOnKeeps
<1>5. ASSUME NEW k \in Client, TryNext(c, k) PROVE IInv'
  <2> DEFINE seen == calls[c].seen \cup {k}
             r == [calls[c] EXCEPT !.seen = seen]
  <2>1. seen \in SUBSET Client /\ \A j \in seen : lanes[c][j] = "failed"
    BY <1>2, <1>3, <1>5 DEF TryNext
  <2>2. receipts[c] # <<>> =>
            \E j \in Client \ seen : lanes[c][j] \in Acked /\ receipts[c] = <<j>>
    BY <1>3, <2>1 DEF Acked
  <2>3. \A i, j \in Client \ seen : lanes[c][i] # "none" /\ lanes[c][j] # "none" => i = j
    BY <1>3
  <2>4. calls' = [calls EXCEPT ![c] = r] /\ UNCHANGED <<lanes, receipts, counted>>
    BY <1>5 DEF TryNext, IInv, Typed
  <2> HIDE DEF seen
  <2>5. /\ r \in CallRecord /\ r.pc = calls[c].pc /\ r.parallel = calls[c].parallel
        /\ r.seen = seen
    BY <1>1, <2>1 DEF CallRecord
  <2> HIDE DEF r
  <2>6. Fits(r, lanes[c], receipts[c])
    BY <1>2, <1>3, <2>1, <2>2, <2>3, <2>5 DEF Fits, Waiting, InParallel, OneByOne, Over
  <2>7. QED
    BY <1>1, <1>2, <2>4, <2>5, <2>6, GoOnKeeps
<1>6. ASSUME NEW k \in Client, SequentialEnds(c, k) PROVE IInv'
  <2> DEFINE success == lanes[c][k] = "succeeded"
  <2>1. /\ k \notin calls[c].seen /\ lanes[c][k] \in {"succeeded", "unconfirmed"}
        /\ Return(c, k, success) /\ lanes' = [lanes EXCEPT ![c] = lanes[c]]
    BY <1>1, <1>6 DEF SequentialEnds
  <2>2. \A j \in Client \ {k} : lanes[c][j] \in {"none", "failed"}
    BY <1>3, <2>1
  <2>3. \A j \in Client : lanes[c][j] \notin Active
    BY <2>1, <2>2 DEF Active
  <2>4. k # NoReceipt /\ k \in Client \cup {NoReceipt}
    BY ExecutorConstants
  <2>5. receipts[c] # <<>> => Len(receipts[c]) = 1
    BY <1>3, OneIsOne
  <2>6. \A j \in Client : lanes[c][j] \in {"succeeded", "unconfirmed"} => k = j
    BY <2>2
  <2>7. success \in BOOLEAN
    OBVIOUS
  <2> HIDE DEF success
  <2>8. QED
    BY <1>1, <1>2, <1>3, <2>1, <2>3, <2>4, <2>5, <2>6, <2>7, ReturnKeeps
<1>7. ASSUME calls[c].seen = Client PROVE receipts[c] = <<>>
  BY <1>3, <1>7
<1>8. CASE NextRetry(c)
  <2> DEFINE retry == calls[c].retry + 1
             r == [calls[c] EXCEPT !.seen = {}, !.retry = retry]
             L == [k \in Client |-> "none"]
  <2>1. retry \in 0..(MaxRetries - 1)
    BY <1>1, <1>8, ExecutorConstants DEF NextRetry, CallRecord
  <2>2. /\ calls' = [calls EXCEPT ![c] = r] /\ lanes' = [lanes EXCEPT ![c] = L]
        /\ UNCHANGED <<receipts, counted>>
    BY <1>8 DEF NextRetry, IInv, Typed
  <2> HIDE DEF retry
  <2>3. /\ r \in CallRecord /\ r.pc = calls[c].pc /\ r.parallel = calls[c].parallel
        /\ r.seen = {}
    BY <1>1, <2>1 DEF CallRecord
  <2>4. L \in [Client -> LaneStates] /\ \A k \in Client : L[k] = "none"
    BY DEF LaneStates
  <2> HIDE DEF r, L
  <2>5. receipts[c] = <<>>
    BY <1>7, <1>8 DEF NextRetry
  <2>6. Fits(r, L, receipts[c])
    BY <1>2, <2>3, <2>4, <2>5 DEF Fits, Waiting, ReceiptNoted, InParallel, OneByOne, Over,
       Acked
  <2>7. QED
    BY <1>2, <2>2, <2>3, <2>4, <2>6, GoOnKeeps
<1>9. CASE RetriesExhausted(c)
  <2>1. /\ Return(c, NoReceipt, FALSE) /\ lanes' = [lanes EXCEPT ![c] = lanes[c]]
        /\ calls[c].seen = Client /\ receipts[c] = <<>>
    BY <1>1, <1>7, <1>9 DEF RetriesExhausted
  <2>2. \A j \in Client : lanes[c][j] = "failed" /\ lanes[c][j] \notin Active
    BY <1>3, <2>1 DEF Active
  <2>3. QED
    BY <1>1, <1>2, <1>3, <2>1, <2>2, ReturnKeeps
<1>10. QED
  BY <1>4, <1>5, <1>6, <1>8, <1>9

(* The deadline, between any two steps of the call and its lanes. *)
LEMMA TimesOutKeeps ==
  ASSUME NEW c \in Call, IInv, TimesOut(c)
  PROVE  IInv'
<1> DEFINE L == Cancel(lanes[c])
           R == receipts[c]
<1>1. /\ calls[c] \in CallRecord /\ lanes[c] \in [Client -> LaneStates]
      /\ R \in Seq(Client) /\ Fits(calls[c], lanes[c], R)
      /\ calls[c].pc \in {"limited", "running"}
  BY CallIs DEF TimesOut
<1>2. Return(c, FirstReceipt(c), FALSE) /\ lanes' = [lanes EXCEPT ![c] = L]
  BY CancelledIs DEF TimesOut
<1>3. /\ L \in [Client -> LaneStates] /\ \A k \in Client : L[k] \notin Active
      /\ \A k \in Client : L[k] = lanes[c][k] \/ L[k] = "cancelled"
  BY <1>1, CancelIs
<1>4. FirstReceipt(c) \in Client \cup {NoReceipt} /\ (FirstReceipt(c) = NoReceipt => R = <<>>)
  BY <1>1, ExecutorConstants DEF FirstReceipt
<1> HIDE DEF L
<1>5. ReceiptNoted(L, R)
  BY <1>1, <1>3 DEF Fits, ReceiptNoted, Acked
<1>6. ASSUME ~ calls[c].parallel
      PROVE  /\ R # <<>> => Len(R) = 1
             /\ \A k \in Client : L[k] \in {"succeeded", "unconfirmed"} => FirstReceipt(c) = k
  <2>1. CASE calls[c].pc = "limited"
    BY <1>1, <1>3, <2>1 DEF Fits, Waiting
  <2>2. CASE calls[c].pc = "running"
    <3>1. /\ \A k \in calls[c].seen : lanes[c][k] = "failed"
          /\ \A j, k \in Client \ calls[c].seen :
                lanes[c][j] # "none" /\ lanes[c][k] # "none" => j = k
          /\ R # <<>> =>
                \E k \in Client \ calls[c].seen : lanes[c][k] \in Acked /\ R = <<k>>
      BY <1>1, <1>6, <2>2 DEF Fits, OneByOne
    <3>2. R # <<>> => Len(R) = 1
      BY <3>1, OneIsOne
    <3>3. ASSUME NEW k \in Client, L[k] \in {"succeeded", "unconfirmed"}
          PROVE  FirstReceipt(c) = k
      <4>1. lanes[c][k] \in Acked /\ k \notin calls[c].seen /\ R # <<>>
        BY <1>1, <1>3, <3>1, <3>3 DEF Acked, Fits, ReceiptNoted
      <4>2. PICK j \in Client \ calls[c].seen : lanes[c][j] \in Acked /\ R = <<j>>
        BY <3>1, <4>1
      <4>3. j = k
        BY <3>1, <4>1, <4>2 DEF Acked
      <4>4. QED
        BY <4>1, <4>2, <4>3 DEF FirstReceipt
    <3>4. QED
      BY <3>2, <3>3
  <2>3. QED
    BY <1>1, <2>1, <2>2
<1>7. calls[c].pc # "returned" /\ FALSE \in BOOLEAN
  BY <1>1
<1>8. QED
  BY <1>2, <1>3, <1>4, <1>5, <1>6, <1>7, ReturnKeeps

(* close(), between any two steps as well. *)
LEMMA CloseKeeps ==
  ASSUME IInv, Close
  PROVE  IInv'
<1>1. UNCHANGED <<calls, receipts, counted>>
  BY DEF Close
<1>2. ASSUME NEW c \in Call
      PROVE  /\ lanes'[c] = IF calls[c].parallel THEN Cancel(lanes[c]) ELSE lanes[c]
             /\ lanes'[c] \in [Client -> LaneStates]
  <2>1. Cancelled(c)[c] = Cancel(lanes[c])
    BY CancelledIs DEF IInv, Typed
  <2>2. lanes'[c] = IF calls[c].parallel THEN Cancel(lanes[c]) ELSE lanes[c]
    BY <2>1 DEF Close
  <2>3. QED
    BY <2>2, CallIs, CancelIs
<1>3. lanes' \in [Call -> [Client -> LaneStates]]
  <2>1. lanes' = [c \in Call |-> lanes'[c]]
    BY DEF Close
  <2>2. QED
    BY <1>2, <2>1
<1>4. ASSUME NEW c \in Call PROVE Fits(calls[c], lanes'[c], receipts[c])
  <2> DEFINE r == calls[c]
             L == lanes[c]
             M == lanes'[c]
             R == receipts[c]
  <2>1. L \in [Client -> LaneStates] /\ Fits(r, L, R) /\ r \in CallRecord
    BY CallIs
  <2>2. CASE ~ r.parallel
    BY <1>2, <2>1, <2>2
  <2>3. CASE r.parallel
    <3>1. \A k \in Client :
            /\ M[k] \notin Active
            /\ L[k] \notin Active => M[k] = L[k]
            /\ L[k] \in Active => M[k] = "cancelled"
      BY <1>2, <2>1, <2>3, CancelIs
    <3>2. \A k \in Client :
            /\ M[k] \in Acked => L[k] \in Acked
            /\ L[k] \in Acked \cup {"cancelled"} => M[k] \in Acked \cup {"cancelled"}
            /\ L[k] \in {"none", "failed", "unconfirmed"} => M[k] = L[k]
      BY <3>1 DEF Acked, Active
    <3> HIDE DEF r, L, M, R
    <3>3. Waiting(r, M, R)
      BY <2>1, <3>2 DEF Fits, Waiting
    <3>4. ReceiptNoted(M, R)
      BY <2>1, <3>2 DEF Fits, ReceiptNoted
    <3>5. r.seen \subseteq Client
      BY <2>1 DEF CallRecord
    <3>6. InParallel(r, M, R)
      BY <2>1, <3>2, <3>5 DEF Fits, InParallel
    <3>7. OneByOne(r, M, R)
      BY <2>3 DEF OneByOne
    <3>8. Over(r, M, R)
      BY <2>1, <2>3, <3>1 DEF Fits, Over
    <3>9. Fits(r, M, R)
      BY <3>3, <3>4, <3>6, <3>7, <3>8 DEF Fits
    <3>10. QED
      BY <3>9 DEF r, M, R
  <2>4. QED
    BY <2>2, <2>3
<1>5. CountedOnce'
  BY <1>1 DEF IInv, CountedOnce
<1>6. QED
  BY <1>1, <1>3, <1>4, <1>5 DEF IInv, Typed

LEMMA NextKeeps == IInv /\ [Next]_vars => IInv'
<1>1. SUFFICES ASSUME IInv, [Next]_vars PROVE IInv'
  OBVIOUS
<1>2. ASSUME NEW c \in Call, NEW parallel \in BOOLEAN, NEW wait \in BOOLEAN,
             Execute(c, parallel, wait)
      PROVE  IInv'
  BY <1>1, <1>2, ExecuteKeeps
<1>3. ASSUME NEW c \in Call, CallStep(c) PROVE IInv'
  BY <1>1, <1>3, AdmitKeeps, ParallelKeeps, SequentialKeeps DEF CallStep
<1>4. ASSUME NEW c \in Call, TimesOut(c) PROVE IInv'
  BY <1>1, <1>4, TimesOutKeeps
<1>5. ASSUME NEW c \in Call, NEW k \in Client, LaneStep(c, k) PROVE IInv'
  BY <1>1, <1>5, LaneStepKeeps
<1>6. CASE Close
  BY <1>1, <1>6, CloseKeeps
<1>7. CASE UNCHANGED vars
  BY <1>1, <1>7 DEF IInv, Typed, CountedOnce, vars
<1>8. QED
  BY <1>1, <1>2, <1>3, <1>4, <1>5, <1>6, <1>7 DEF Next

-----------------------------------------------------------------------------
(* The invariant holds of every reachable state of execute(), its lanes and
   close(), for any calls, clients and number of retries. *)
THEOREM Inductive == Spec => []IInv
<1>1. QED
  BY InitIInv, NextKeeps, PTL DEF Spec

(* Every reachable state is typed, and a sequential call has at most one client
   under way. *)
THEOREM TypeCorrect == Spec => []TypeOK
<1>1. IInv => TypeOK
  <2>1. SUFFICES ASSUME IInv PROVE TypeOK
    OBVIOUS
  <2>2. ASSUME NEW c \in Call, ~ calls[c].parallel PROVE Cardinality(ActiveLanes(c)) <= 1
    <3>1. /\ calls[c] \in CallRecord /\ Fits(calls[c], lanes[c], receipts[c])
      BY <2>1, CallIs
    <3>2. \A j, k \in ActiveLanes(c) : j = k
      <4>1. CASE calls[c].pc = "running"
        <5>1. \A k \in calls[c].seen : lanes[c][k] \notin Active
          BY <2>2, <3>1, <4>1 DEF Fits, OneByOne, Active
        <5>2. QED
          BY <2>2, <3>1, <4>1, <5>1 DEF Fits, OneByOne, ActiveLanes, Active
      <4>2. CASE calls[c].pc # "running"
        BY <2>2, <3>1, <4>2 DEF Fits, Waiting, Over, ActiveLanes, Active, CallRecord
      <4>3. QED
        BY <4>1, <4>2
    <3>3. CASE ActiveLanes(c) = {}
      BY <3>3, FS_EmptySet
    <3>4. CASE ActiveLanes(c) # {}
      <4>1. PICK k \in ActiveLanes(c) : TRUE
        BY <3>4
      <4>2. ActiveLanes(c) = {k}
        BY <3>2, <4>1
      <4>3. QED
        BY <4>2, FS_Singleton
    <3>5. QED
      BY <3>3, <3>4
  <2>3. QED
    BY <2>1, <2>2 DEF IInv, Typed, TypeOK, CallRecord, LaneStates
<1>2. QED
  BY <1>1, Inductive, PTL

(* A signature a provider gave out before the call returned is returned, also
   by a failure or a timeout, and the metrics count the call once. *)
THEOREM CallsAreAccounted == Spec => []CallsAccounted
<1>1. IInv => CallsAccounted
  <2>1. SUFFICES ASSUME IInv, NEW c \in Call
        PROVE  /\ calls[c].pc = "returned" /\ ~ calls[c].parallel =>
                     \A k \in Client : lanes[c][k] \in {"succeeded", "unconfirmed"} =>
                         calls[c].result.signature = k
               /\ calls[c].pc = "running" /\ calls[c].parallel =>
                     \A k \in Client : lanes[c][k] \in {"polling", "succeeded", "unconfirmed"} =>
                         FirstReceipt(c) # NoReceipt
               /\ calls[c].pc = "returned" /\ calls[c].result.signature = NoReceipt =>
                     receipts[c] = <<>>
    BY DEF IInv, CallsAccounted, ReceiptNotLost
  <2>2. Fits(calls[c], lanes[c], receipts[c]) /\ receipts[c] \in Seq(Client)
    BY <2>1, CallIs
  <2>3. receipts[c] # <<>> => FirstReceipt(c) # NoReceipt
    <3>1. receipts[c] # <<>> => Head(receipts[c]) \in Client
      BY <2>2
    <3>2. QED
      BY <3>1, ExecutorConstants DEF FirstReceipt
  <2>4. QED
    BY <2>2, <2>3 DEF Fits, ReceiptNoted, Over, Acked
<1>2. QED
  BY <1>1, Inductive, PTL

(* _execute_sequential() does not send again what a provider acknowledged,
   neither through another client nor in a retry. *)
THEOREM SequentialSendsOnce == Spec => []NotSentAgain
<1>1. IInv => NotSentAgain
  <2>1. SUFFICES ASSUME IInv, NEW c \in Call, ~ calls[c].parallel, receipts[c] # <<>>
        PROVE  /\ Len(receipts[c]) = 1
               /\ \A k \in Client : lanes[c][k] # "sending"
    BY DEF NotSentAgain
  <2>2. Fits(calls[c], lanes[c], receipts[c]) /\ calls[c] \in CallRecord
    BY <2>1, CallIs
  <2>3. CASE calls[c].pc = "running"
    <3>1. PICK k \in Client \ calls[c].seen : lanes[c][k] \in Acked /\ receipts[c] = <<k>>
      BY <2>1, <2>2, <2>3 DEF Fits, OneByOne
    <3>2. \A j \in Client : lanes[c][j] # "sending"
      BY <2>1, <2>2, <2>3, <3>1 DEF Fits, OneByOne, Acked
    <3>3. QED
      BY <3>1, <3>2, OneIsOne
  <2>4. CASE calls[c].pc # "running"
    BY <2>1, <2>2, <2>4 DEF Fits, Waiting, Over, Active, CallRecord
  <2>5. QED
    BY <2>3, <2>4
<1>2. QED
  BY <1>1, Inductive, PTL

(* execute() that returned without success, or raised, has no lane under way:
   only a success leaves lanes behind. *)
THEOREM FailureIsQuiet == Spec => []FailureLeavesNothing
<1>1. IInv => FailureLeavesNothing
  <2>1. SUFFICES ASSUME IInv, NEW c \in Call, calls[c].pc \in {"returned", "raised"},
                        ~ calls[c].result.success
        PROVE  ActiveLanes(c) = {}
    BY DEF FailureLeavesNothing
  <2>2. Over(calls[c], lanes[c], receipts[c])
    BY <2>1, CallIs DEF Fits
  <2>3. QED
    BY <2>1, <2>2 DEF Over, ActiveLanes
<1>2. QED
  BY <1>1, Inductive, PTL

===============================================================================
