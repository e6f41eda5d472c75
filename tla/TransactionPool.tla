--------------------------- MODULE TransactionPool ---------------------------
(***************************************************************************)
(* TransactionPool of src/src/trading/core/transaction_pool.py: a priority  *)
(* heap of transactions with a time to live, handed out in batches, retried *)
(* when a send fails, cancelled by their owners.                            *)
(*                                                                          *)
(* Every method runs under the pool's lock without an await: it is one      *)
(* step.  The heap holds references, so a transaction may be in it while    *)
(* its status says otherwise, and is sorted out when it is popped.  The     *)
(* consumer of the batches is external: it sends what it was handed and     *)
(* reports each send once.  Statistics are left out.  Operators introduced  *)
(* as a faulty variant are used by nothing: each is a mistake the           *)
(* properties catch.                                                        *)
(***************************************************************************)
EXTENDS Naturals, FiniteSets

CONSTANTS
    Tx,           \* transactions that may be submitted
    Priority,     \* priority levels
    MaxSize,      \* PoolConfig.max_size
    BatchSize,    \* PoolConfig.batch_size
    MaxAttempts   \* PendingTransaction.max_attempts

ASSUME PoolConstants ==
    /\ IsFiniteSet(Tx)
    /\ Priority \subseteq Nat
    /\ {MaxSize, BatchSize, MaxAttempts} \subseteq Nat \ {0}

VARIABLES
    pool,         \* pool[t]: the PendingTransaction of t
    overdue,      \* transactions whose time to live has passed
    hand,         \* hand[t]: what the consumer is doing with t
    handed,       \* handed[t]: how often t was handed out (history)
    cancelled     \* transactions cancelled while nobody held them (history)

vars == <<pool, overdue, hand, handed, cancelled>>

Absent == [status |-> "ABSENT", priority |-> 0, created_at |-> 0, attempts |-> 0, entries |-> 0]

Init ==
    /\ pool = [t \in Tx |-> Absent]
    /\ overdue = {}
    /\ hand = [t \in Tx |-> "none"]
    /\ handed = [t \in Tx |-> 0]
    /\ cancelled = {}

Present == {t \in Tx : pool[t].status # "ABSENT"}
InHeap == {t \in Tx : pool[t].entries > 0}

(* Faulty variant: a smaller number is taken for the higher priority. *)
AheadByNumber(t, u) == pool[t].priority < pool[u].priority

(* PendingTransaction.__lt__ *)
Ahead(t, u) ==
    \/ pool[t].priority > pool[u].priority
    \/ pool[t].priority = pool[u].priority /\ pool[t].created_at < pool[u].created_at

-----------------------------------------------------------------------------
(* A full pool refuses, and changes nothing. *)
Submit(t, priority) ==
    /\ t \notin Present
    /\ Cardinality(Present) < MaxSize
    /\ pool' = [pool EXCEPT ![t] =
                  [status |-> "QUEUED", priority |-> priority, attempts |-> 0, entries |-> 1,
                   created_at |-> Cardinality(Present)]]
    /\ UNCHANGED <<overdue, hand, handed, cancelled>>

(* A transaction that was handed out is cancelled in the pool only: who holds
   it is not told, and when its send fails it is queued again. *)
Cancel(t) ==
    /\ pool[t].status \in {"QUEUED", "PROCESSING"}
    /\ pool' = [pool EXCEPT ![t].status = "DROPPED"]
    /\ cancelled' = IF hand[t] = "none" THEN cancelled \cup {t} ELSE cancelled
    /\ UNCHANGED <<overdue, hand, handed>>

Fit(t) == t \in InHeap /\ pool[t].status = "QUEUED" /\ t \notin overdue

(* What the pops of one get_batch() collect: as many as fit, the best first. *)
IsBatch(batch) ==
    /\ \A t \in batch : Fit(t)
    /\ \A t \in batch, u \in Tx : Fit(u) /\ Ahead(u, t) => u \in batch
    /\ Cardinality(batch) <= BatchSize
    /\ Cardinality(batch) < BatchSize => \A t \in Tx : Fit(t) => t \in batch

(* The pops stop with the batch's last transaction, or with the heap. *)
Popped(batch) ==
    IF Cardinality(batch) = BatchSize
    THEN {t \in InHeap : t \in batch \/ \E b \in batch : Ahead(t, b)}
    ELSE InHeap

(* Faulty variant: the transaction does not leave the queue. *)
PopQueued(t, batch) ==
    IF t \in overdue THEN [pool[t] EXCEPT !.status = "EXPIRED", !.entries = 0]
    ELSE [pool[t] EXCEPT !.entries = IF t \in batch THEN 1 ELSE 0]

Pop(t, batch) ==
    IF t \in batch THEN [pool[t] EXCEPT !.status = "PROCESSING", !.entries = 0]
    ELSE IF t \in overdue THEN [pool[t] EXCEPT !.status = "EXPIRED", !.entries = 0]
    ELSE [pool[t] EXCEPT !.entries = 0]

TakeBatch(batch) ==
    /\ InHeap # {}
    /\ IsBatch(batch)
    /\ pool' = [t \in Tx |-> IF t \in Popped(batch) THEN Pop(t, batch) ELSE pool[t]]
    /\ hand' = [t \in Tx |-> IF t \in batch THEN "held" ELSE hand[t]]
    /\ handed' = [t \in Tx |-> IF t \in batch THEN handed[t] + 1 ELSE handed[t]]
    /\ UNCHANGED <<overdue, cancelled>>

GetBatch == \E batch \in SUBSET Tx : TakeBatch(batch)

MarkSubmitted(t) ==
    /\ hand[t] = "held"
    /\ pool' = [pool EXCEPT ![t].status = "SUBMITTED"]
    /\ hand' = [hand EXCEPT ![t] = "sent"]
    /\ UNCHANGED <<overdue, handed, cancelled>>

MarkConfirmed(t) ==
    /\ hand[t] = "sent"
    /\ pool' = [pool EXCEPT ![t].status = "CONFIRMED"]
    /\ hand' = [hand EXCEPT ![t] = "none"]
    /\ UNCHANGED <<overdue, handed, cancelled>>

(* Faulty variant: the status goes back and the transaction does not. *)
RetryNotPushed(t) ==
    [pool[t] EXCEPT !.status = "QUEUED", !.attempts = @ + 1]

Retry(t) == [pool[t] EXCEPT !.status = "QUEUED", !.attempts = @ + 1, !.entries = @ + 1]

MayRetry(t) == pool[t].attempts + 1 < MaxAttempts

(* Of whatever status the transaction is by now. *)
MarkFailed(t) ==
    /\ hand[t] \in {"held", "sent"}
    /\ pool' = [pool EXCEPT ![t] =
                  IF MayRetry(t) THEN Retry(t)
                  ELSE [pool[t] EXCEPT !.status = "FAILED", !.attempts = @ + 1]]
    /\ hand' = [hand EXCEPT ![t] = "none"]
    /\ UNCHANGED <<overdue, handed, cancelled>>

(* Expired transactions stay in the pool, and in the heap. *)
Cleanup ==
    /\ \E t \in overdue : pool[t].status = "QUEUED"
    /\ pool' = [t \in Tx |->
                  IF t \in overdue /\ pool[t].status = "QUEUED"
                  THEN [pool[t] EXCEPT !.status = "EXPIRED"] ELSE pool[t]]
    /\ UNCHANGED <<overdue, hand, handed, cancelled>>

(* Time passes. *)
TimeToLiveEnds(t) ==
    /\ t \in Present
    /\ overdue' = overdue \cup {t}
    /\ UNCHANGED <<pool, hand, handed, cancelled>>

Report(t) == MarkSubmitted(t) \/ MarkConfirmed(t) \/ MarkFailed(t)

Next ==
    \/ \E t \in Tx :
          \/ \E priority \in Priority : Submit(t, priority)
          \/ Cancel(t)
          \/ MarkSubmitted(t)
          \/ MarkConfirmed(t)
          \/ MarkFailed(t)
          \/ TimeToLiveEnds(t)
    \/ GetBatch
    \/ Cleanup

Spec == Init /\ [][Next]_vars

(* The batch loop polls the heap and every send is reported. *)
FairSpec == Spec /\ WF_vars(GetBatch) /\ \A t \in Tx : WF_vars(Report(t))

-----------------------------------------------------------------------------
Status == {"ABSENT", "QUEUED", "PROCESSING", "SUBMITTED", "CONFIRMED", "FAILED", "EXPIRED", "DROPPED"}

TypeOK ==
    /\ pool \in [Tx -> [status : Status, priority : Nat, created_at : Nat, attempts : Nat,
                        entries : Nat]]
    /\ overdue \subseteq Present
    /\ hand \in [Tx -> {"none", "held", "sent"}]
    /\ handed \in [Tx -> Nat]
    /\ cancelled \subseteq Present

(* A transaction somebody is sending is not also waiting to be handed out:
   get_batch() never gives it to two senders. *)
OneSenderAtATime ==
    \A t \in Tx : hand[t] # "none" => pool[t].entries = 0 /\ pool[t].status # "QUEUED"

(* What waits is in the heap, once: no retry and no batch that stops early
   leaves a queued transaction that no get_batch() can reach. *)
WaitingCanBeHandedOut == \A t \in Tx : pool[t].status = "QUEUED" => pool[t].entries = 1

(* No transaction is handed out more than max_attempts times, however its
   attempts fail and whoever cancels it between them. *)
AttemptsBounded == \A t \in Tx : handed[t] <= MaxAttempts

(* A transaction that was cancelled while it waited is sent no more, though its
   entry stays in the heap and is popped, expires or is cleaned up later. *)
CancelledWaitingIsFinal ==
    \A t \in cancelled : pool[t].status \in {"DROPPED", "EXPIRED"} /\ hand[t] = "none"

(* get_batch() takes no transaction that is past its time to live, and leaves
   none waiting that is ahead of one it took. *)
BestFirst ==
    [][ \A t \in Tx : handed'[t] # handed[t] =>
          /\ t \notin overdue
          /\ \A u \in Tx : pool[u].status = "QUEUED" /\ u \notin overdue /\ handed'[u] = handed[u] =>
                ~ (\/ pool[u].priority > pool[t].priority
                   \/ pool[u].priority = pool[t].priority /\ pool[u].created_at < pool[t].created_at)
      ]_vars

(* Every transaction the pool took comes to an end: it is confirmed, has used
   up its attempts, expired or was cancelled. *)
EverySubmissionEnds ==
    \A t \in Tx : pool[t].status = "QUEUED" ~>
        pool[t].status \in {"CONFIRMED", "FAILED", "EXPIRED", "DROPPED"} /\ hand[t] = "none"

=============================================================================
