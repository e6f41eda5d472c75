---------------------------- MODULE Trades_proofs ----------------------------
(***************************************************************************)
(* Proofs about what a trade is made of.  In turn: TransactionPool, for any *)
(* number of transactions, priorities, batch sizes and attempts; SwapMath   *)
(* and Quotes, for all reserves, fees and amounts; TradePlan, for any set   *)
(* of requests, wallets and rates; CreatorFees, for any rates and number of *)
(* writes.  They share no state.                                            *)
(***************************************************************************)
EXTENDS TransactionPool, Quotes, TradePlan, CreatorFees, FiniteSetTheorems,
        WellFoundedInduction, SequenceTheorems, TLAPS

(* What the attempts left are worth: a queued transaction was handed out only
   for its failed attempts and has one left, one in hand is at most one ahead. *)
Budget ==
    \A t \in Tx :
        /\ handed[t] <= MaxAttempts
        /\ pool[t].status = "QUEUED" => handed[t] <= pool[t].attempts /\ pool[t].attempts < MaxAttempts
        /\ hand[t] # "none" => handed[t] <= pool[t].attempts + 1
        /\ pool[t].status = "ABSENT" => hand[t] = "none" /\ handed[t] = 0

IInv == TypeOK /\ OneSenderAtATime /\ WaitingCanBeHandedOut /\ CancelledWaitingIsFinal /\ Budget

Transaction == [status : Status, priority : Nat, created_at : Nat, attempts : Nat, entries : Nat]

(* A transaction that enters or leaves the heap, or has failed, is still one. *)
LEMMA Updated ==
    ASSUME NEW tx \in Transaction, NEW n \in Nat
    PROVE  [tx EXCEPT !.entries = n] \in Transaction /\ [tx EXCEPT !.attempts = n] \in Transaction
BY DEF Transaction

(* Nothing is submitted, in hand or counted at first. *)
LEMMA InitIInv == Init => IInv
BY PoolConstants DEF Init, IInv, TypeOK, OneSenderAtATime, WaitingCanBeHandedOut, Budget, Absent,
                     CancelledWaitingIsFinal, Status, Present

(* The number of transactions present, which submit() compares with max_size. *)
LEMMA PresentCounted == Cardinality(Present) \in Nat
<1>1. Present \subseteq Tx
  BY DEF Present
<1>2. IsFiniteSet(Present)
  BY <1>1, PoolConstants, FS_Subset
<1> QED
  BY <1>2, FS_CardinalityType

(* A method that only touches one transaction, and leaves it in the pool, keeps
   the others, and what is overdue or cancelled is still in the pool. *)
LEMMA OneTouched ==
    ASSUME IInv, NEW t \in Tx, NEW tx \in Transaction, tx.status # "ABSENT",
           pool' = [pool EXCEPT ![t] = tx],
           hand' \in [Tx -> {"none", "held", "sent"}], handed' \in [Tx -> Nat],
           overdue' = overdue, cancelled' \in SUBSET (cancelled \cup {t}),
           \A u \in Tx \ {t} : hand'[u] = hand[u] /\ handed'[u] = handed[u],
           hand'[t] # "none" => tx.entries = 0 /\ tx.status # "QUEUED",
           tx.status = "QUEUED" => tx.entries = 1,
           t \in cancelled' => tx.status \in {"DROPPED", "EXPIRED"} /\ hand'[t] = "none",
           handed'[t] <= MaxAttempts,
           tx.status = "QUEUED" => handed'[t] <= tx.attempts /\ tx.attempts < MaxAttempts,
           hand'[t] # "none" => handed'[t] <= tx.attempts + 1
    PROVE  IInv'
<1> USE DEF IInv
<1>1. /\ pool \in [Tx -> Transaction]
      /\ pool' \in [Tx -> Transaction]
      /\ pool'[t] = tx
      /\ \A u \in Tx \ {t} : pool'[u] = pool[u]
  BY DEF TypeOK, Transaction
<1>2. Present' = Present \cup {t}
  BY <1>1 DEF Present
<1>3. TypeOK'
  BY <1>1, <1>2 DEF TypeOK, Transaction
<1>4. OneSenderAtATime'
  BY <1>1 DEF OneSenderAtATime
<1>5. WaitingCanBeHandedOut'
  BY <1>1 DEF WaitingCanBeHandedOut
<1>6. CancelledWaitingIsFinal'
  <2>1. ASSUME NEW u \in cancelled', u # t
        PROVE  pool'[u].status \in {"DROPPED", "EXPIRED"} /\ hand'[u] = "none"
    BY <1>1, <2>1 DEF CancelledWaitingIsFinal, TypeOK, Present
  <2>2. t \in cancelled' => pool'[t].status \in {"DROPPED", "EXPIRED"} /\ hand'[t] = "none"
    BY <1>1
  <2> QED
    BY <2>1, <2>2 DEF CancelledWaitingIsFinal
<1>7. Budget'
  <2> SUFFICES ASSUME NEW u \in Tx
      PROVE /\ handed'[u] <= MaxAttempts
            /\ pool'[u].status = "QUEUED" => handed'[u] <= pool'[u].attempts
                                             /\ pool'[u].attempts < MaxAttempts
            /\ hand'[u] # "none" => handed'[u] <= pool'[u].attempts + 1
            /\ pool'[u].status = "ABSENT" => hand'[u] = "none" /\ handed'[u] = 0
    BY DEF Budget
  <2>1. CASE u = t
    BY <2>1, <1>1
  <2>2. CASE u # t
    BY <2>2, <1>1 DEF Budget
  <2> QED
    BY <2>1, <2>2
<1> QED
  BY <1>3, <1>4, <1>5, <1>6, <1>7

(* submit(): a new transaction has all its attempts. *)
LEMMA SubmitKeeps ==
    ASSUME IInv, NEW t \in Tx, NEW priority \in Priority, Submit(t, priority)
    PROVE  IInv'
<1> DEFINE tx == [status |-> "QUEUED", priority |-> priority, attempts |-> 0, entries |-> 1,
                  created_at |-> Cardinality(Present)]
<1>1. tx \in Transaction
  BY PresentCounted, PoolConstants DEF Transaction, Status
<1>2. hand[t] = "none" /\ handed[t] = 0
  BY DEF IInv, Budget, Submit, Present
<1>3. tx.status = "QUEUED" /\ tx.entries = 1 /\ tx.attempts = 0
  OBVIOUS
<1>4. pool' = [pool EXCEPT ![t] = tx]
  BY DEF Submit
<1>5. tx.status # "ABSENT" /\ handed[t] <= MaxAttempts /\ handed[t] <= tx.attempts /\ tx.attempts < MaxAttempts
  BY <1>2, <1>3, PoolConstants
<1>6. /\ hand'[t] = "none" /\ handed'[t] = 0
      /\ hand' \in [Tx -> {"none", "held", "sent"}] /\ handed' \in [Tx -> Nat]
      /\ overdue' = overdue /\ cancelled' \in SUBSET (cancelled \cup {t}) /\ t \notin cancelled'
      /\ \A u \in Tx \ {t} : hand'[u] = hand[u] /\ handed'[u] = handed[u]
  BY <1>2 DEF Submit, IInv, TypeOK
<1> HIDE DEF tx
<1> QED
  BY <1>1, <1>2, <1>3, <1>4, <1>5, <1>6, OneTouched

(* cancel(): what is dropped is not queued, in whoever's hand it is. *)
LEMMA CancelKeeps ==
    ASSUME IInv, NEW t \in Tx, Cancel(t)
    PROVE  IInv'
<1> DEFINE tx == [pool[t] EXCEPT !.status = "DROPPED"]
<1>1. pool[t] \in Transaction /\ tx \in Transaction
  BY DEF IInv, TypeOK, Transaction, Status
<1>2. pool' = [pool EXCEPT ![t] = tx]
  BY DEF Cancel
<1>3. /\ tx.status = "DROPPED"
      /\ tx.entries = pool[t].entries
      /\ tx.attempts = pool[t].attempts
  BY <1>1 DEF Transaction
<1>4. /\ hand[t] # "none" => tx.entries = 0
      /\ handed[t] \in Nat /\ handed[t] <= MaxAttempts
      /\ hand[t] # "none" => handed[t] <= tx.attempts + 1
  BY <1>3 DEF IInv, TypeOK, OneSenderAtATime, Budget
<1>5. /\ hand' = hand /\ handed' = handed /\ overdue' = overdue
      /\ hand \in [Tx -> {"none", "held", "sent"}] /\ handed \in [Tx -> Nat]
      /\ cancelled' \in SUBSET (cancelled \cup {t})
      /\ t \in cancelled' => hand[t] = "none"
  BY DEF Cancel, IInv, TypeOK, CancelledWaitingIsFinal
<1> HIDE DEF tx
<1> QED
  BY <1>1, <1>2, <1>3, <1>4, <1>5, OneTouched

(* mark_submitted() and mark_confirmed(): the transaction is not queued. *)
LEMMA MarkKeeps ==
    ASSUME IInv, NEW t \in Tx, MarkSubmitted(t) \/ MarkConfirmed(t)
    PROVE  IInv'
<1> DEFINE status == IF MarkSubmitted(t) THEN "SUBMITTED" ELSE "CONFIRMED"
           tx == [pool[t] EXCEPT !.status = status]
<1>1. pool[t] \in Transaction /\ tx \in Transaction
  BY DEF IInv, TypeOK, Transaction, Status
<1>2. pool' = [pool EXCEPT ![t] = tx]
  BY DEF MarkSubmitted, MarkConfirmed
<1>3. /\ tx.status = status
      /\ tx.entries = pool[t].entries
      /\ tx.attempts = pool[t].attempts
  BY <1>1 DEF Transaction
<1>4. hand[t] # "none" /\ tx.entries = 0 /\ t \notin cancelled'
  BY <1>3 DEF MarkSubmitted, MarkConfirmed, IInv, OneSenderAtATime, CancelledWaitingIsFinal
<1>5. handed[t] \in Nat /\ handed[t] <= MaxAttempts /\ handed[t] <= tx.attempts + 1
  BY <1>3, <1>4 DEF IInv, TypeOK, Budget
<1>6. /\ hand' \in [Tx -> {"none", "held", "sent"}] /\ handed' \in [Tx -> Nat]
      /\ overdue' = overdue /\ cancelled' \in SUBSET (cancelled \cup {t})
      /\ handed' = handed /\ \A u \in Tx \ {t} : hand'[u] = hand[u]
  BY DEF MarkSubmitted, MarkConfirmed, IInv, TypeOK
<1>7. tx.status \in {"SUBMITTED", "CONFIRMED"}
  BY <1>3
<1> HIDE DEF tx
<1> QED
  BY <1>1, <1>2, <1>4, <1>5, <1>6, <1>7, OneTouched

(* mark_failed(): a retry is counted before it is queued. *)
LEMMA MarkFailedKeeps ==
    ASSUME IInv, NEW t \in Tx, MarkFailed(t)
    PROVE  IInv'
<1> DEFINE tx == IF MayRetry(t) THEN Retry(t)
                 ELSE [pool[t] EXCEPT !.status = "FAILED", !.attempts = @ + 1]
<1>1. /\ pool[t] \in Transaction
      /\ pool[t].attempts \in Nat
      /\ pool[t].entries = 0
      /\ handed[t] \in Nat /\ handed[t] <= MaxAttempts
      /\ handed[t] <= pool[t].attempts + 1
  BY DEF MarkFailed, IInv, TypeOK, Transaction, OneSenderAtATime, Budget
<1>2. tx \in Transaction
  <2>1. pool[t].attempts + 1 \in Nat /\ pool[t].entries + 1 = 1
    BY <1>1
  <2>2. CASE MayRetry(t)
    <3>1. Retry(t) = [[[pool[t] EXCEPT !.status = "QUEUED"] EXCEPT !.attempts = pool[t].attempts + 1]
                         EXCEPT !.entries = 1]
      BY <2>1 DEF Retry
    <3>2. [pool[t] EXCEPT !.status = "QUEUED"] \in Transaction
      BY <1>1 DEF Transaction, Status
    <3>3. [[pool[t] EXCEPT !.status = "QUEUED"] EXCEPT !.attempts = pool[t].attempts + 1] \in Transaction
      BY <2>1, <3>2, Updated
    <3>4. Retry(t) \in Transaction
      BY <3>1, <3>3, Updated
    <3> QED
      BY <2>2, <3>4
  <2>3. CASE ~ MayRetry(t)
    BY <1>1, <2>1, <2>3 DEF Transaction, Status
  <2> QED
    BY <2>2, <2>3
<1>3. /\ tx.attempts = pool[t].attempts + 1
      /\ tx.status \in {"QUEUED", "FAILED"}
      /\ tx.status = "QUEUED" => MayRetry(t) /\ tx.entries = 1
  BY <1>1 DEF Transaction, Retry
<1>4. tx.status = "QUEUED" => tx.attempts < MaxAttempts
  BY <1>3 DEF MayRetry
<1>5. pool' = [pool EXCEPT ![t] = tx]
  BY DEF MarkFailed
<1>6. /\ hand'[t] = "none" /\ handed'[t] = handed[t]
      /\ hand' \in [Tx -> {"none", "held", "sent"}] /\ handed' \in [Tx -> Nat]
      /\ overdue' = overdue /\ cancelled' \in SUBSET (cancelled \cup {t}) /\ t \notin cancelled'
      /\ \A u \in Tx \ {t} : hand'[u] = hand[u] /\ handed'[u] = handed[u]
  BY DEF MarkFailed, IInv, TypeOK, CancelledWaitingIsFinal
<1> HIDE DEF tx
<1> QED
  BY <1>1, <1>2, <1>3, <1>4, <1>5, <1>6, OneTouched

(* What get_batch() does to one transaction. *)
LEMMA Popping ==
    ASSUME IInv, NEW batch \in SUBSET Tx, TakeBatch(batch), NEW t \in Tx
    PROVE  /\ pool'[t] \in Transaction
           /\ pool'[t].attempts = pool[t].attempts
           /\ pool'[t].status = "ABSENT" <=> pool[t].status = "ABSENT"
           /\ pool[t].entries = 0 => pool'[t] = pool[t] /\ t \notin batch
           /\ t \in batch => pool[t].status = "QUEUED" /\ pool'[t].status = "PROCESSING"
                              /\ pool'[t].entries = 0
           /\ pool'[t].status = "QUEUED" => pool'[t] = pool[t] /\ t \notin batch
           /\ pool[t].status \in {"DROPPED", "EXPIRED"} =>
                 pool'[t].status \in {"DROPPED", "EXPIRED"} /\ t \notin batch
<1>1. pool[t] \in Transaction
  BY DEF IInv, TypeOK, Transaction
<1>2. t \in batch => Fit(t) /\ t \in Popped(batch) /\ t \in InHeap
  BY DEF TakeBatch, IsBatch, Fit, Popped
<1>3. t \in Popped(batch) => t \in InHeap
  BY DEF Popped
<1>4. t \in Popped(batch) /\ Fit(t) => t \in batch
  <2>1. IsFiniteSet(batch) /\ Cardinality(batch) \in Nat /\ BatchSize \in Nat
    BY PoolConstants, FS_Subset, FS_CardinalityType
  <2>2. CASE Cardinality(batch) = BatchSize
    BY <2>2 DEF Popped, TakeBatch, IsBatch
  <2>3. CASE Cardinality(batch) # BatchSize
    BY <2>1, <2>3 DEF TakeBatch, IsBatch
  <2> QED
    BY <2>2, <2>3
<1>5. pool'[t] = IF t \in Popped(batch) THEN Pop(t, batch) ELSE pool[t]
  BY DEF TakeBatch
<1>6. CASE t \notin Popped(batch)
  BY <1>1, <1>2, <1>5, <1>6
<1>7. CASE t \in batch
  <2>1. pool'[t] = [pool[t] EXCEPT !.status = "PROCESSING", !.entries = 0]
    BY <1>2, <1>5, <1>7 DEF Pop
  <2>2. /\ pool'[t].status = "PROCESSING"
        /\ pool'[t].entries = 0
        /\ pool'[t].attempts = pool[t].attempts
    BY <1>1, <2>1 DEF Transaction
  <2>3. pool'[t] \in Transaction
    <3> DEFINE tx == [pool[t] EXCEPT !.status = "PROCESSING"]
    <3>1. tx \in Transaction
      BY <1>1 DEF Transaction, Status
    <3>2. pool'[t] = [tx EXCEPT !.entries = 0]
      BY <2>1
    <3> HIDE DEF tx
    <3>3. [tx EXCEPT !.entries = 0] \in Transaction
      BY <3>1, Updated
    <3> QED
      BY <3>2, <3>3
  <2>4. pool[t].status = "QUEUED" /\ pool[t].entries # 0
    BY <1>1, <1>2, <1>7 DEF Fit, InHeap, Transaction
  <2> QED
    BY <1>7, <2>2, <2>3, <2>4
<1>8. CASE t \in Popped(batch) /\ t \notin batch
  <2>1. t \in overdue => pool[t].status # "ABSENT"
    BY DEF IInv, TypeOK, Present
  <2>2. t \notin overdue => pool[t].status # "QUEUED"
    BY <1>3, <1>4, <1>8 DEF Fit
  <2>3. pool[t].entries # 0
    BY <1>1, <1>3, <1>8 DEF InHeap, Transaction
  <2>4. CASE t \in overdue
    <3>1. pool'[t] = [pool[t] EXCEPT !.status = "EXPIRED", !.entries = 0]
      BY <1>5, <1>8, <2>4 DEF Pop
    <3>2. /\ pool'[t].status = "EXPIRED"
          /\ pool'[t].attempts = pool[t].attempts
      BY <1>1, <3>1 DEF Transaction
    <3> DEFINE tx == [pool[t] EXCEPT !.status = "EXPIRED"]
    <3>3. tx \in Transaction
      BY <1>1 DEF Transaction, Status
    <3>4. pool'[t] = [tx EXCEPT !.entries = 0]
      BY <3>1
    <3> HIDE DEF tx
    <3>5. pool'[t] \in Transaction
      BY <3>3, <3>4, Updated, 0 \in Nat, Zenon
    <3> QED
      BY <1>8, <2>1, <2>3, <2>4, <3>2, <3>5
  <2>5. CASE t \notin overdue
    <3>1. pool'[t] = [pool[t] EXCEPT !.entries = 0]
      BY <1>5, <1>8, <2>5 DEF Pop
    <3>2. /\ pool'[t].status = pool[t].status
          /\ pool'[t].attempts = pool[t].attempts
          /\ pool'[t] \in Transaction
      BY <1>1, <3>1 DEF Transaction
    <3> QED
      BY <1>8, <2>2, <2>3, <2>5, <3>2
  <2> QED
    BY <2>4, <2>5
<1> QED
  BY <1>6, <1>7, <1>8

(* get_batch(): who gets a transaction is the only one to have it. *)
LEMMA TakeBatchKeeps ==
    ASSUME IInv, NEW batch \in SUBSET Tx, TakeBatch(batch)
    PROVE  IInv'
<1>1. pool' \in [Tx -> Transaction]
  <2>1. pool' = [t \in Tx |-> pool'[t]]
    BY DEF TakeBatch
  <2> QED
    BY <2>1, Popping
<1>2. hand' \in [Tx -> {"none", "held", "sent"}] /\ handed' \in [Tx -> Nat]
  BY DEF TakeBatch, IInv, TypeOK
<1>3. Present' = Present
  BY Popping DEF Present
<1>4. TypeOK'
  BY <1>1, <1>2, <1>3 DEF TakeBatch, IInv, TypeOK, Transaction
<1>5. OneSenderAtATime'
  BY Popping DEF TakeBatch, IInv, OneSenderAtATime
<1>6. WaitingCanBeHandedOut'
  BY Popping DEF IInv, WaitingCanBeHandedOut
<1>7. Budget'
  <2> SUFFICES ASSUME NEW t \in Tx
      PROVE /\ handed'[t] <= MaxAttempts
            /\ pool'[t].status = "QUEUED" => handed'[t] <= pool'[t].attempts
                                             /\ pool'[t].attempts < MaxAttempts
            /\ hand'[t] # "none" => handed'[t] <= pool'[t].attempts + 1
            /\ pool'[t].status = "ABSENT" => hand'[t] = "none" /\ handed'[t] = 0
    BY DEF Budget
  <2>1. handed[t] \in Nat /\ pool[t].attempts \in Nat /\ MaxAttempts \in Nat
    BY PoolConstants DEF IInv, TypeOK
  <2>2. CASE t \in batch
    <3>1. handed'[t] = handed[t] + 1
      BY <2>2 DEF TakeBatch
    <3> QED
      BY <2>1, <2>2, <3>1, Popping DEF IInv, Budget
  <2>3. CASE t \notin batch
    BY <2>3, Popping DEF TakeBatch, IInv, Budget
  <2> QED
    BY <2>2, <2>3
<1>8. CancelledWaitingIsFinal'
  BY Popping DEF TakeBatch, IInv, TypeOK, CancelledWaitingIsFinal, Present
<1> QED
  BY <1>4, <1>5, <1>6, <1>7, <1>8 DEF IInv

(* _cleanup_expired() and time: nothing becomes queued. *)
LEMMA CleanupKeeps ==
    ASSUME IInv, Cleanup
    PROVE  IInv'
<1>1. \A t \in Tx :
         /\ pool[t] \in Transaction /\ pool'[t] \in Transaction
         /\ pool'[t].attempts = pool[t].attempts /\ pool'[t].entries = pool[t].entries
         /\ pool'[t].status = "ABSENT" <=> pool[t].status = "ABSENT"
         /\ pool'[t].status = "QUEUED" => pool[t].status = "QUEUED"
         /\ pool[t].status \in {"DROPPED", "EXPIRED"} => pool'[t].status = pool[t].status
  BY DEF Cleanup, IInv, TypeOK, Transaction, Status
<1>2. pool' = [t \in Tx |-> pool'[t]]
  BY DEF Cleanup
<1>3. Present' = Present
  BY <1>1 DEF Present
<1>4. TypeOK'
  BY <1>1, <1>2, <1>3 DEF Cleanup, IInv, TypeOK, Transaction
<1>5. OneSenderAtATime' /\ WaitingCanBeHandedOut'
  BY <1>1 DEF Cleanup, IInv, OneSenderAtATime, WaitingCanBeHandedOut
<1>6. Budget'
  BY <1>1 DEF Cleanup, IInv, Budget
<1>7. CancelledWaitingIsFinal'
  BY <1>1 DEF Cleanup, IInv, TypeOK, CancelledWaitingIsFinal, Present
<1> QED
  BY <1>4, <1>5, <1>6, <1>7 DEF IInv

LEMMA StutterKeeps == IInv /\ UNCHANGED vars => IInv'
BY DEF IInv, vars, TypeOK, OneSenderAtATime, WaitingCanBeHandedOut, CancelledWaitingIsFinal, Budget,
       Present

LEMMA TimeKeeps ==
    ASSUME IInv, NEW t \in Tx, TimeToLiveEnds(t)
    PROVE  IInv'
BY DEF IInv, TimeToLiveEnds, TypeOK, OneSenderAtATime, WaitingCanBeHandedOut,
       CancelledWaitingIsFinal, Budget, Present

LEMMA NextKeeps == IInv /\ [Next]_vars => IInv'
BY SubmitKeeps, CancelKeeps, MarkKeeps, MarkFailedKeeps, TimeKeeps, TakeBatchKeeps, CleanupKeeps,
   StutterKeeps DEF Next, GetBatch

(* The invariant the theorems below are read off. *)
THEOREM Inductive == Spec => []IInv
BY InitIInv, NextKeeps, PTL DEF Spec

(* The pool's state keeps its types; what is overdue or was cancelled is in the
   pool. *)
THEOREM TypeCorrect == Spec => []TypeOK
<1>1. IInv => TypeOK
  BY DEF IInv
<1> QED
  BY <1>1, Inductive, PTL

(* get_batch() gives a transaction to nobody while somebody has it, whatever is
   cancelled, failed and retried meanwhile. *)
THEOREM OneSender == Spec => []OneSenderAtATime
<1>1. IInv => OneSenderAtATime
  BY DEF IInv
<1> QED
  BY <1>1, Inductive, PTL

(* A queued transaction is in the heap, once: get_batch() pops no fit
   transaction it does not hand out. *)
THEOREM NothingStranded == Spec => []WaitingCanBeHandedOut
<1>1. IInv => WaitingCanBeHandedOut
  BY DEF IInv
<1> QED
  BY <1>1, Inductive, PTL

(* mark_failed() and get_batch() together hand a transaction out at most
   max_attempts times. *)
THEOREM BoundedAttempts == Spec => []AttemptsBounded
<1>1. IInv => AttemptsBounded
  BY DEF IInv, Budget, AttemptsBounded
<1> QED
  BY <1>1, Inductive, PTL

(* cancel() of a waiting transaction is final: no later pop, expiry or cleanup
   gives it to a sender. *)
THEOREM WaitingCancelled == Spec => []CancelledWaitingIsFinal
<1>1. IInv => CancelledWaitingIsFinal
  BY DEF IInv
<1> QED
  BY <1>1, Inductive, PTL

(* One step of the pool that hands out t hands out a batch with t in it. *)
LEMMA HandedByBatch ==
    ASSUME IInv, Next, NEW t \in Tx, handed'[t] # handed[t]
    PROVE  \E batch \in SUBSET Tx : TakeBatch(batch) /\ t \in batch
<1>1. GetBatch
  BY DEF Next, Submit, Cancel, MarkSubmitted, MarkConfirmed, MarkFailed, TimeToLiveEnds, Cleanup
<1>2. PICK batch \in SUBSET Tx : TakeBatch(batch)
  BY <1>1 DEF GetBatch
<1>3. t \in batch
  BY <1>2 DEF TakeBatch
<1> QED
  BY <1>2, <1>3

(* get_batch() takes nothing overdue and leaves nothing fit behind that is
   ahead of what it takes. *)
THEOREM BatchesBestFirst == Spec => BestFirst
<1> DEFINE Best(t) ==
        /\ t \notin overdue
        /\ \A u \in Tx : pool[u].status = "QUEUED" /\ u \notin overdue /\ handed'[u] = handed[u] =>
              ~ (\/ pool[u].priority > pool[t].priority
                 \/ pool[u].priority = pool[t].priority /\ pool[u].created_at < pool[t].created_at)
<1>1. ASSUME IInv, Next, NEW t \in Tx, handed'[t] # handed[t]
      PROVE  Best(t)
  <2>1. PICK batch \in SUBSET Tx : TakeBatch(batch) /\ t \in batch
    BY <1>1, HandedByBatch
  <2>2. t \notin overdue
    BY <2>1 DEF TakeBatch, IsBatch, Fit
  <2>3. ASSUME NEW u \in Tx, pool[u].status = "QUEUED", u \notin overdue, handed'[u] = handed[u]
        PROVE  ~ Ahead(u, t)
    <3>1. Fit(u)
      BY <1>1, <2>3 DEF IInv, WaitingCanBeHandedOut, Fit, InHeap
    <3>2. handed[u] \in Nat
      BY <1>1 DEF IInv, TypeOK
    <3>3. u \notin batch
      BY <2>1, <2>3, <3>2 DEF TakeBatch
    <3> QED
      BY <2>1, <3>1, <3>3 DEF TakeBatch, IsBatch
  <2> QED
    BY <2>2, <2>3 DEF Ahead
<1>2. IInv /\ [Next]_vars => [\A t \in Tx : handed'[t] # handed[t] => Best(t)]_vars
  BY <1>1
<1> HIDE DEF Best
<1>3. Spec => [][\A t \in Tx : handed'[t] # handed[t] => Best(t)]_vars
  BY <1>2, Inductive, PTL DEF Spec
<1> QED
  BY <1>3 DEF BestFirst, Best

-----------------------------------------------------------------------------
(* SwapMath and Quotes. *)

(* A swap that adds dx to a reserve x and takes dy out of a reserve y lowers their
   product in no case. *)
PaysFor(dx, dy, x, y) == dx \in Nat /\ dy \in Int /\ dy <= y /\ (x + dx) * (y - dy) >= x * y

(* Division rounds down, by less than one. *)
LEMMA QuotientBounds ==
  ASSUME NEW n \in Nat, NEW d \in Nat \ {0}
  PROVE  n \div d \in Nat /\ (n \div d) * d <= n /\ n < (n \div d) * d + d
  BY Z3

(* ceil_div rounds up, by less than one. *)
LEMMA CeilDivBounds ==
  ASSUME NEW n \in Nat, NEW d \in Nat \ {0}
  PROVE  CeilDiv(n, d) \in Nat /\ CeilDiv(n, d) * d >= n /\ CeilDiv(n, d) * d < n + d
  BY Z3 DEF CeilDiv

(* What fits into n whole is in the quotient. *)
LEMMA QuotientLeast ==
  ASSUME NEW n \in Nat, NEW d \in Nat \ {0}, NEW k \in Nat, k * d <= n
  PROVE  k <= n \div d
  BY Z3
(* What is enough for n is at least the quotient rounded up. *)
LEMMA CeilDivLeast ==
  ASSUME NEW n \in Nat, NEW d \in Nat \ {0}, NEW k \in Nat, n <= k * d
  PROVE  CeilDiv(n, d) <= k
  BY Z3 DEF CeilDiv

(* Products keep an order. *)
LEMMA ProductsOrdered ==
  ASSUME NEW a \in Int, NEW b \in Int, NEW c \in Nat, a <= b
  PROVE  a * c <= b * c
  BY SMT
LEMMA ProductsOrdered2 ==
  ASSUME NEW a \in Nat, NEW b \in Nat, NEW c \in Nat, NEW d \in Nat, a <= b, c <= d
  PROVE  a * c <= b * d
  BY SMT

(* What compute_swap and its likes pay for n is paid for. *)
LEMMA ProductOutPays ==
  ASSUME NEW n \in Nat, NEW x \in Nat, NEW y \in Nat
  PROVE  ProductOut(n, x, y) \in Nat /\ PaysFor(n, ProductOut(n, x, y), x, y)
<1> DEFINE out == (n * y) \div (x + n)
<1>1. CASE x + n = 0
  BY <1>1 DEF ProductOut, PaysFor
<1>2. CASE x + n # 0
  <2>0. n * y \in Nat /\ x + n \in Nat \ {0}
    BY <1>2, SMT
  <2>1. out \in Nat /\ out * (x + n) <= n * y
    BY <2>0, QuotientBounds
  <2>2. ProductOut(n, x, y) = out
    BY <1>2 DEF ProductOut
  <2> HIDE DEF out
  <2>3. (x + n) * (y - out) >= x * y
    BY <2>1, SMT
  <2>4. out <= y
    BY <2>1, <1>2, SMT
  <2>5. QED
    BY <2>1, <2>2, <2>3, <2>4 DEF PaysFor
<1>3. QED
  BY <1>1, <1>2

(* What is asked for an exact output, rounded up, pays for it. *)
LEMMA AskedPays ==
  ASSUME NEW out \in Nat, NEW x \in Nat, NEW y \in Nat, out < y
  PROVE  CeilDiv(x * out, y - out) \in Nat /\ PaysFor(CeilDiv(x * out, y - out), out, x, y)
<1> DEFINE n == CeilDiv(x * out, y - out)
<1>0. x * out \in Nat /\ y - out \in Nat \ {0}
  BY SMT
<1>1. n \in Nat /\ n * (y - out) >= x * out
  BY <1>0, CeilDivBounds
<1> HIDE DEF n
<1>2. (x + n) * (y - out) >= x * y
  BY <1>1, SMT
<1>3. QED
  BY <1>1, <1>2 DEF PaysFor, n

(* Paying more, or taking less, pays as well: fees on top, caps below. *)
LEMMA PaysForLess ==
  ASSUME NEW dx, NEW dy, NEW x \in Nat, NEW y \in Nat, PaysFor(dx, dy, x, y),
         NEW more \in Nat, NEW less \in Int, dx <= more, less <= dy
  PROVE  PaysFor(more, less, x, y)
<1>1. x + dx \in Nat /\ y - dy \in Nat /\ x + more \in Nat /\ y - less \in Nat 
      /\ x + dx <= x + more /\ y - dy <= y - less
  BY DEF PaysFor
<1>2. (x + dx) * (y - dy) <= (x + more) * (y - less)
  BY <1>1, ProductsOrdered2
<1>3. QED
  BY <1>1, <1>2, SMT DEF PaysFor

(* The fields of a quote that the properties are about. *)
LEMMA QuoteFields ==
  ASSUME NEW paid, NEW got, NEW bound, NEW x, NEW y, NEW dx, NEW dy
  PROVE  LET q == Quote(paid, got, bound, x, y, dx, dy)
         IN q.paid = paid /\ q.got = got /\ q.dx = dx /\ q.dy = dy
  BY DEF Quote

(* A share of 10000, rounded up. *)
LEMMA BpsRoundedUp ==
  ASSUME NEW a \in Nat
  PROVE  /\ CeilDiv(a, 10000) \in Nat
         /\ 10000 * CeilDiv(a, 10000) >= a /\ 10000 * CeilDiv(a, 10000) <= a + 9999
  BY Z3 DEF CeilDiv

(* compute_fee is the rate rounded up by less than a unit. *)
LEMMA FeeBounds ==
  ASSUME NEW n \in Nat, NEW bps \in Nat
  PROVE  10000 * FeeOf(n, bps) >= n * bps /\ 10000 * FeeOf(n, bps) <= n * bps + 9999
<1>1. n * bps \in Nat
  BY SMT
<1>2. QED
  BY <1>1, BpsRoundedUp DEF FeeOf

(* A fee is no negative amount. *)
LEMMA FeeIsNat ==
  ASSUME NEW n \in Nat, NEW bps \in Nat
  PROVE  FeeOf(n, bps) \in Nat
<1>1. n * bps \in Nat
  BY SMT
<1>2. QED
  BY <1>1, BpsRoundedUp DEF FeeOf

(* PumpSwap charges three. *)
LEMMA ThreeFees ==
  ASSUME NEW n \in Nat, NEW lp \in Nat, NEW fee \in Nat, NEW creator \in Nat
  PROVE  FeeOf(n, lp) + FeeOf(n, fee) + FeeOf(n, creator) \in Nat
  BY FeeIsNat

(* A larger amount pays no smaller fee. *)
LEMMA FeesGrow ==
  ASSUME NEW n \in Nat, NEW k \in Nat, NEW bps \in Nat, n <= k
  PROVE  FeeOf(n, bps) <= FeeOf(k, bps)
<1>1. n * bps \in Nat /\ k * bps \in Nat /\ n * bps <= k * bps
  BY ProductsOrdered, SMT
<1>2. QED
  BY <1>1, Z3 DEF FeeOf, CeilDiv

(* A rate below 100 % takes no more than the amount. *)
LEMMA FeeWithin ==
  ASSUME NEW n \in Nat, NEW bps \in Nat, ~ (bps >= 10000)
  PROVE  FeeOf(n, bps) <= n
<1>1. n * bps \in Nat /\ n * bps <= n * 10000
  BY SMT
<1>2. QED
  BY <1>1, CeilDivLeast DEF FeeOf

(* buy_token_amount_from_sol_amount: capped by what is left of the curve. *)
LEMMA PumpFunBuyPays ==
  ASSUME NEW m \in PumpFunCurves, NEW n \in Nat, PumpFunBuy(m, n) # NoQuote
  PROVE  LET q == PumpFunBuy(m, n) IN PaysFor(q.dx, q.dy, m.y, m.x) /\ q.dy <= m.real
<1> DEFINE net == Most(0, (n * 10000) \div (10000 + m.fee) - 1)
           all == ProductOut(net, m.y, m.x)
           out == Least(all, m.real)
<1>0. m.x \in Nat /\ m.y \in Nat /\ m.real \in Nat /\ m.fee \in Nat
  BY DEF PumpFunCurves
<1>1. PumpFunBuy(m, n) = Quote(n, out, SlippageSell(out, m.slip), m.y, m.x, net, out)
  BY DEF PumpFunBuy
<1>2. net \in Nat
  BY <1>0, QuotientBounds DEF Most
<1> HIDE DEF net
<1>3. all \in Nat /\ PaysFor(net, all, m.y, m.x)
  BY <1>0, <1>2, ProductOutPays
<1>4. out \in Nat /\ out <= all /\ out <= m.real
  BY <1>0, <1>3 DEF Least
<1> HIDE DEF all, out
<1>5. PaysFor(net, out, m.y, m.x)
  BY <1>0, <1>2, <1>3, <1>4, PaysForLess
<1>6. QED
  BY <1>1, <1>4, <1>5, QuoteFields

(* get_sell_sol_amount_from_token_amount: the fee stays with the seller's side. *)
LEMMA PumpFunSellPays ==
  ASSUME NEW m \in PumpFunCurves, NEW n \in Nat, PumpFunSell(m, n) # NoQuote
  PROVE  LET q == PumpFunSell(m, n) IN PaysFor(q.dx, q.dy, m.x, m.y)
<1> DEFINE gross == ProductOut(n, m.x, m.y)
           out   == Most(0, gross - FeeOf(gross, m.fee))
<1>0. m.x \in Nat /\ m.y \in Nat
  BY DEF PumpFunCurves
<1>1. PumpFunSell(m, n) = Quote(n, out, SlippageSell(out, m.slip), m.x, m.y, n, gross)
  BY DEF PumpFunSell
<1>2. PaysFor(n, gross, m.x, m.y)
  BY <1>0, ProductOutPays
<1>3. QED
  BY <1>1, <1>2, QuoteFields

(* get_buy_price keeps one token more than the product asks for. *)
LEMMA CurvePricePays ==
  ASSUME NEW m \in CurveAccounts, NEW n \in Nat, CurvePrice(m, n) # NoQuote
  PROVE  LET q == CurvePrice(m, n) IN PaysFor(q.dx, q.dy, m.y, m.x) /\ q.dy <= m.real
<1> DEFINE kept == (m.x * m.y) \div (m.y + n) + 1
           out  == Least(m.x - kept, m.real)
<1>0. m.x \in Nat /\ m.y \in Nat /\ m.real \in Nat
  BY DEF CurveAccounts
<1>1. /\ CurvePrice(m, n) = Quote(n, out, out, m.y, m.x, n, out)
      /\ n # 0 /\ ~ (kept > m.x)
  BY DEF CurvePrice
<1>2. m.x * m.y \in Nat /\ m.y + n \in Nat \ {0}
  BY <1>0, <1>1, SMT
<1>3. kept \in Nat /\ m.x * m.y <= kept * (m.y + n)
  BY <1>2, QuotientBounds, SMT
<1>4. out \in Nat /\ out <= m.real /\ out <= m.x - kept
  BY <1>0, <1>1, <1>3 DEF Least
<1> HIDE DEF kept, out
<1>5. kept * (m.y + n) <= (m.x - out) * (m.y + n)
  BY <1>0, <1>3, <1>4, ProductsOrdered
<1>6. PaysFor(n, out, m.y, m.x)
  BY <1>0, <1>3, <1>4, <1>5, SMT DEF PaysFor
<1>7. QED
  BY <1>1, <1>4, <1>6, QuoteFields

(* get_sell_price rounds the gross amount down. *)
LEMMA CurveSellPricePays ==
  ASSUME NEW m \in CurveAccounts, NEW n \in Nat, CurveSellPrice(m, n) # NoQuote
  PROVE  LET q == CurveSellPrice(m, n) IN PaysFor(q.dx, q.dy, m.x, m.y)
<1> DEFINE gross == (n * m.y) \div (m.x + n)
           out   == gross - (gross * m.fee) \div 10000
<1>0. m.x \in Nat /\ m.y \in Nat
  BY DEF CurveAccounts
<1>1. CurveSellPrice(m, n) = Quote(n, out, out, m.x, m.y, n, gross) /\ n # 0
  BY DEF CurveSellPrice
<1>2. gross = ProductOut(n, m.x, m.y)
  BY <1>0, <1>1 DEF ProductOut
<1>3. PaysFor(n, gross, m.x, m.y)
  BY <1>0, <1>2, ProductOutPays
<1>4. QED
  BY <1>1, <1>3, QuoteFields

(* The price of some tokens of a curve, rounded down and one added. *)
LEMMA CurveCostPays ==
  ASSUME NEW tokens \in Nat, NEW x \in Nat, NEW y \in Nat, tokens < x
  PROVE  LET value == (tokens * y) \div (x - tokens) + 1
         IN value \in Nat /\ PaysFor(value, tokens, y, x)
<1> DEFINE value == (tokens * y) \div (x - tokens) + 1
<1>1. tokens * y \in Nat /\ x - tokens \in Nat \ {0}
  BY SMT
<1>2. value \in Nat /\ tokens * y <= value * (x - tokens)
  BY <1>1, QuotientBounds, SMT
<1> HIDE DEF value
<1>3. PaysFor(value, tokens, y, x)
  BY <1>2, SMT DEF PaysFor
<1>4. QED
  BY <1>2, <1>3 DEF value

(* get_buy_out_price asks for at least the tokens it is asked about. *)
LEMMA CurveBuyOutPays ==
  ASSUME NEW m \in CurveAccounts, NEW n \in Nat, CurveBuyOut(m, n) # NoQuote
  PROVE  LET q == CurveBuyOut(m, n) IN PaysFor(q.dx, q.dy, m.y, m.x) /\ q.dy = n
<1> DEFINE tokens == Most(n, m.y - m.start)
           value  == (tokens * m.y) \div (m.x - tokens) + 1
           paid   == (value + (value * m.fee) \div 10000) % (U64Max + 1)
<1>0. m.x \in Nat /\ m.y \in Nat /\ m.start \in Nat
  BY DEF CurveAccounts
<1>1. CurveBuyOut(m, n) = Quote(paid, n, n, m.y, m.x, value, n) /\ ~ (tokens >= m.x)
  BY DEF CurveBuyOut
<1>2. tokens \in Nat /\ tokens >= n /\ tokens < m.x
  BY <1>0, <1>1 DEF Most
<1> HIDE DEF tokens
<1>3. value \in Nat /\ PaysFor(value, tokens, m.y, m.x)
  BY <1>0, <1>2, CurveCostPays
<1> HIDE DEF value
<1>4. PaysFor(value, n, m.y, m.x)
  BY <1>0, <1>2, <1>3, PaysForLess
<1>5. QED
  BY <1>1, <1>4, QuoteFields

(* The three fees together grow with the amount. *)
LEMMA ThreeFeesGrow ==
  ASSUME NEW n \in Nat, NEW k \in Nat, NEW lp \in Nat, NEW fee \in Nat, NEW creator \in Nat, n <= k
  PROVE  FeeOf(n, lp) + FeeOf(n, fee) + FeeOf(n, creator) <= FeeOf(k, lp) + FeeOf(k, fee) + FeeOf(k, creator)
<1>1. /\ FeeOf(n, lp) \in Nat /\ FeeOf(n, fee) \in Nat /\ FeeOf(n, creator) \in Nat
      /\ FeeOf(k, lp) \in Nat /\ FeeOf(k, fee) \in Nat /\ FeeOf(k, creator) \in Nat
  BY FeeIsNat
<1>2. FeeOf(n, lp) <= FeeOf(k, lp)
  BY FeesGrow
<1>3. FeeOf(n, fee) <= FeeOf(k, fee)
  BY FeesGrow
<1>4. FeeOf(n, creator) <= FeeOf(k, creator)
  BY FeesGrow
<1>5. QED
  BY <1>1, <1>2, <1>3, <1>4

(* What is known of a PumpSwap pool, and of one that can be swapped in. *)
LEMMA PumpSwapAmounts ==
  ASSUME NEW m \in PumpSwapPools
  PROVE  /\ m.x \in Nat /\ m.y \in Nat /\ m.virtual \in Int
         /\ m.lp \in Nat /\ m.fee \in Nat /\ m.creator \in Nat
         /\ ~ Depleted(m) => EffectiveQuote(m) \in Nat \ {0} /\ m.x > 0 /\ m.y > 0
<1>1. m.x \in Nat /\ m.y \in Nat /\ m.virtual \in Int
      /\ m.lp \in Nat /\ m.fee \in Nat /\ m.creator \in Nat
  BY DEF PumpSwapPools
<1>2. QED
  BY <1>1, WidthIsNat DEF Depleted, EffectiveQuote

(* PumpSwap's fees on an amount. *)
LEMMA PumpSwapFeesAreNat ==
  ASSUME NEW m \in PumpSwapPools, NEW n \in Nat
  PROVE  PumpSwapFees(n, m) \in Nat /\ FeeOf(n, m.lp) \in Nat
  BY PumpSwapAmounts, ThreeFees, FeeIsNat, Zenon DEF PumpSwapFees

(* PumpSwap's fees grow with the amount. *)
LEMMA PumpSwapFeesGrow ==
  ASSUME NEW m \in PumpSwapPools, NEW n \in Nat, NEW k \in Nat, n <= k
  PROVE  PumpSwapFees(n, m) <= PumpSwapFees(k, m)
  BY PumpSwapAmounts, ThreeFeesGrow, Zenon DEF PumpSwapFees

(* buy_base_input_internal_with_fees: the liquidity fee comes on top. *)
LEMMA PumpSwapBuyBasePays ==
  ASSUME NEW m \in PumpSwapPools, NEW n \in Nat, PumpSwapBuyBase(m, n) # NoQuote
  PROVE  LET q == PumpSwapBuyBase(m, n) IN PaysFor(q.dx, q.dy, EffectiveQuote(m), m.x)
<1> DEFINE eq    == EffectiveQuote(m)
           raw   == CeilDiv(eq * n, m.x - n)
           total == raw + PumpSwapFees(raw, m)
           paid  == raw + FeeOf(raw, m.lp)
<1>1. /\ PumpSwapBuyBase(m, n) = Quote(total, n, SlippageBuy(total, m.slip), eq, m.x, paid, n)
      /\ ~ Depleted(m) /\ n < m.x
  BY PumpSwapAmounts DEF PumpSwapBuyBase
<1>2. m.x \in Nat /\ eq \in Nat /\ m.lp \in Nat
  BY <1>1, PumpSwapAmounts
<1> HIDE DEF eq
<1>3. raw \in Nat /\ PaysFor(raw, n, eq, m.x)
  BY <1>1, <1>2, AskedPays
<1> HIDE DEF raw
<1>4. paid \in Nat /\ raw <= paid
  <2>1. FeeOf(raw, m.lp) \in Nat
    BY <1>3, PumpSwapFeesAreNat
  <2>2. QED
    BY <1>3, <2>1
<1> HIDE DEF paid
<1>5. PaysFor(paid, n, eq, m.x)
  BY <1>2, <1>3, <1>4, PaysForLess
<1>6. QED
  BY <1>1, <1>5, QuoteFields DEF eq

(* buy_quote_input_internal_with_fees: after the correction the net amount and
   the three fees on it are within the budget. *)
LEMMA PumpSwapBudgetLeavesFees ==
  ASSUME NEW m \in PumpSwapPools, NEW n \in Nat
  PROVE  LET first == (n * 10000) \div (10000 + m.lp + m.fee + m.creator)
             net   == first - Most(0, first + PumpSwapFees(first, m) - n)
         IN /\ net \in Int /\ net <= first /\ first \in Nat
            /\ net > 0 => net + PumpSwapFees(net, m) <= n
<1> DEFINE first == (n * 10000) \div (10000 + m.lp + m.fee + m.creator)
           net   == first - Most(0, first + PumpSwapFees(first, m) - n)
<1>0. m.lp \in Nat /\ m.fee \in Nat /\ m.creator \in Nat
  BY PumpSwapAmounts
<1>1. first \in Nat
  <2>1. n * 10000 \in Nat /\ 10000 + m.lp + m.fee + m.creator \in Nat \ {0}
    BY <1>0
  <2>2. QED
    BY <2>1, QuotientBounds
<1> HIDE DEF first
<1>2. PumpSwapFees(first, m) \in Nat
  BY <1>1, PumpSwapFeesAreNat
<1>3. net \in Int /\ net <= first /\ (net = first \/ net = n - PumpSwapFees(first, m)) /\ (net = first => first + PumpSwapFees(first, m) <= n)
  BY <1>1, <1>2 DEF Most
<1> HIDE DEF net
<1>4. net > 0 => PumpSwapFees(net, m) \in Nat /\ PumpSwapFees(net, m) <= PumpSwapFees(first, m)
  BY <1>1, <1>3, PumpSwapFeesAreNat, PumpSwapFeesGrow
<1>5. net > 0 => net + PumpSwapFees(net, m) <= n
  BY <1>1, <1>2, <1>3, <1>4
<1>6. QED
  BY <1>1, <1>3, <1>5 DEF net, first

(* One unit of the net amount is kept back for the rounding. *)
LEMMA PumpSwapBuyQuotePays ==
  ASSUME NEW m \in PumpSwapPools, NEW n \in Nat, PumpSwapBuyQuote(m, n) # NoQuote
  PROVE  LET q == PumpSwapBuyQuote(m, n) IN PaysFor(q.dx, q.dy, EffectiveQuote(m), m.x)
<1> DEFINE eq    == EffectiveQuote(m)
           first == (n * 10000) \div (10000 + m.lp + m.fee + m.creator)
           net   == first - Most(0, first + PumpSwapFees(first, m) - n)
           out   == ProductOut(net - 1, eq, m.x)
           paid  == net + FeeOf(net, m.lp)
<1>1. /\ PumpSwapBuyQuote(m, n) = Quote(n, out, PumpSwapMinimum(out, m.slip), eq, m.x, paid, out)
      /\ ~ Depleted(m) /\ ~ (net <= 0)
  BY DEF PumpSwapBuyQuote
<1>2. net \in Int
  BY PumpSwapBudgetLeavesFees
<1> HIDE DEF net, first
<1>3. net - 1 \in Nat /\ net \in Nat
  BY <1>1, <1>2
<1>4. m.x \in Nat /\ eq \in Nat
  BY <1>1, PumpSwapAmounts
<1> HIDE DEF eq
<1>5. out \in Nat /\ PaysFor(net - 1, out, eq, m.x)
  BY <1>3, <1>4, ProductOutPays
<1> HIDE DEF out
<1>6. paid \in Nat /\ net - 1 <= paid
  <2>1. FeeOf(net, m.lp) \in Nat
    BY <1>3, PumpSwapFeesAreNat
  <2>2. QED
    BY <1>3, <2>1
<1> HIDE DEF paid
<1>7. PaysFor(paid, out, eq, m.x)
  BY <1>4, <1>5, <1>6, PaysForLess
<1>8. QED
  BY <1>1, <1>7, QuoteFields DEF eq

(* sell_base_input_internal_with_fees: the quote vault gives no more than it has. *)
LEMMA PumpSwapSellBasePays ==
  ASSUME NEW m \in PumpSwapPools, NEW n \in Nat, PumpSwapSellBase(m, n) # NoQuote
  PROVE  LET q == PumpSwapSellBase(m, n) IN PaysFor(q.dx, q.dy, m.x, EffectiveQuote(m)) /\ q.dy <= m.y
<1> DEFINE eq   == EffectiveQuote(m)
           raw  == ProductOut(n, m.x, eq)
           fees == PumpSwapFees(raw, m)
           sent == raw - FeeOf(raw, m.lp)
<1>1. /\ PumpSwapSellBase(m, n)
           = Quote(n, raw - fees, PumpSwapMinimum(raw - fees, m.slip), m.x, eq, n, sent)
      /\ ~ Depleted(m) /\ ~ (sent > m.y)
  BY DEF PumpSwapSellBase
<1>2. m.x \in Nat /\ m.y \in Nat /\ eq \in Nat
  BY <1>1, PumpSwapAmounts
<1> HIDE DEF eq
<1>3. raw \in Nat /\ PaysFor(n, raw, m.x, eq)
  BY <1>2, ProductOutPays
<1> HIDE DEF raw
<1>4. sent \in Int /\ sent <= raw /\ sent <= m.y
  <2>1. FeeOf(raw, m.lp) \in Nat
    BY <1>3, PumpSwapFeesAreNat
  <2>2. QED
    BY <1>1, <1>2, <1>3, <2>1
<1> HIDE DEF sent, fees
<1>5. PaysFor(n, sent, m.x, eq)
  BY <1>2, <1>3, <1>4, PaysForLess
<1>6. QED
  BY <1>1, <1>4, <1>5, QuoteFields DEF eq

(* sell_quote_input_internal_with_fees: the base to sell is rounded up. *)
LEMMA PumpSwapSellQuotePays ==
  ASSUME NEW m \in PumpSwapPools, NEW n \in Nat, PumpSwapSellQuote(m, n) # NoQuote
  PROVE  LET q == PumpSwapSellQuote(m, n) IN PaysFor(q.dx, q.dy, m.x, EffectiveQuote(m)) /\ q.dy <= m.y
<1> DEFINE eq   == EffectiveQuote(m)
           kept == 10000 - (m.lp + m.fee + m.creator)
           raw  == CeilDiv(n * 10000, kept)
           sent == raw - FeeOf(raw, m.lp)
           base == CeilDiv(m.x * raw, eq - raw)
<1>1. /\ PumpSwapSellQuote(m, n)
           = Quote(base, n, PumpSwapMinimum(n, m.slip), m.x, eq, base, sent)
      /\ ~ Depleted(m) /\ ~ (sent > m.y) /\ ~ (raw >= eq) /\ ~ (kept <= 0)
  BY DEF PumpSwapSellQuote
<1>2. m.x \in Nat /\ m.y \in Nat /\ eq \in Nat
  BY <1>1, PumpSwapAmounts
<1> HIDE DEF eq
<1>3. raw \in Nat
  <2>1. n * 10000 \in Nat /\ kept \in Nat \ {0}
    BY <1>1, PumpSwapAmounts
  <2> HIDE DEF kept
  <2>2. QED
    BY <2>1, CeilDivBounds
<1> HIDE DEF raw
<1>4. base \in Nat /\ PaysFor(base, raw, m.x, eq)
  <2>1. raw < eq
    BY <1>1, <1>2, <1>3
  <2>2. QED
    BY <1>2, <1>3, <2>1, AskedPays
<1> HIDE DEF base
<1>5. sent \in Int /\ sent <= raw /\ sent <= m.y
  <2>1. FeeOf(raw, m.lp) \in Nat
    BY <1>3, PumpSwapFeesAreNat
  <2>2. QED
    BY <1>1, <1>2, <1>3, <2>1
<1> HIDE DEF sent
<1>6. PaysFor(base, sent, m.x, eq)
  BY <1>2, <1>4, <1>5, PaysForLess
<1>7. QED
  BY <1>1, <1>5, <1>6, QuoteFields DEF eq

(* What is known of a pool of the other venues. *)
LEMMA PlainPoolFields ==
  ASSUME NEW m \in PlainPools
  PROVE  m.x \in Nat /\ m.y \in Nat /\ m.fee \in Nat
  BY DEF PlainPools

(* Bonk's fees take no more than the amount. *)
LEMMA BonkNetIsNat ==
  ASSUME NEW n \in Nat
  PROVE  BonkNet(n) \in Nat
  BY Z3 DEF BonkNet

(* A quarter of a percent, rounded up, takes no more than the amount. *)
LEMMA AfterFeeIsNat ==
  ASSUME NEW n \in Nat
  PROVE  AfterFee(n) \in Nat
  BY Z3 DEF AfterFee, FeeOf, CeilDiv

(* Bonk, both ways. *)
LEMMA BonkPays ==
  ASSUME NEW m \in PlainPools, NEW n \in Nat
  PROVE  /\ PaysFor(BonkBuy(m, n).dx, BonkBuy(m, n).dy, m.y, m.x)
         /\ PaysFor(BonkSell(m, n).dx, BonkSell(m, n).dy, m.x, m.y)
<1>1. PaysFor(BonkNet(n), ProductOut(BonkNet(n), m.y, m.x), m.y, m.x)
  BY PlainPoolFields, BonkNetIsNat, ProductOutPays
<1>2. PaysFor(n, ProductOut(n, m.x, m.y), m.x, m.y)
  BY PlainPoolFields, ProductOutPays
<1>3. BonkBuy(m, n).dx = BonkNet(n) /\ BonkBuy(m, n).dy = ProductOut(BonkNet(n), m.y, m.x)
  BY DEF BonkBuy, Quote
<1>4. BonkSell(m, n).dx = n /\ BonkSell(m, n).dy = ProductOut(n, m.x, m.y)
  BY DEF BonkSell, Quote
<1>5. QED
  BY <1>1, <1>2, <1>3, <1>4

(* An exact input after its fee. *)
LEMMA FeeOutPays ==
  ASSUME NEW m \in PlainPools, NEW n \in Nat, FeeOut(m, n) # NoQuote
  PROVE  PaysFor(FeeOut(m, n).dx, FeeOut(m, n).dy, m.x, m.y)
<1>1. PaysFor(AfterFee(n), ProductOut(AfterFee(n), m.x, m.y), m.x, m.y)
  BY PlainPoolFields, AfterFeeIsNat, ProductOutPays
<1>2. FeeOut(m, n).dx = AfterFee(n) /\ FeeOut(m, n).dy = ProductOut(AfterFee(n), m.x, m.y)
  BY DEF FeeOut, Quote
<1>3. QED
  BY <1>1, <1>2

(* The input for an exact output, before its fee. *)
LEMMA FeeInPays ==
  ASSUME NEW m \in PlainPools, NEW n \in Nat, FeeIn(m, n) # NoQuote
  PROVE  PaysFor(FeeIn(m, n).dx, FeeIn(m, n).dy, m.x, m.y)
<1> DEFINE net == CeilDiv(m.x * n, m.y - n)
<1>1. FeeIn(m, n).dx = net /\ FeeIn(m, n).dy = n /\ ~ (n >= m.y)
  BY DEF FeeIn, Quote
<1>2. n < m.y
  BY <1>1, PlainPoolFields
<1>3. PaysFor(net, n, m.x, m.y)
  BY <1>2, PlainPoolFields, AskedPays
<1>4. QED
  BY <1>1, <1>3

(* The AMM with its own fee. *)
LEMMA AmmV4SwapPays ==
  ASSUME NEW m \in PlainPools, NEW n \in Nat, AmmV4Swap(m, n) # NoQuote
  PROVE  PaysFor(AmmV4Swap(m, n).dx, AmmV4Swap(m, n).dy, m.x, m.y)
<1> DEFINE bps == m.fee
           net == n - FeeOf(n, bps)
<1>1. AmmV4Swap(m, n).dx = net /\ AmmV4Swap(m, n).dy = ProductOut(net, m.x, m.y) /\ ~ (bps >= 10000)
  BY DEF AmmV4Swap, Quote
<1>2. bps \in Nat
  BY PlainPoolFields
<1> HIDE DEF bps
<1>3. FeeOf(n, bps) \in Nat /\ FeeOf(n, bps) <= n
  <2>1. ~ (bps >= 10000)
    BY <1>1
  <2>2. FeeOf(n, bps) \in Nat
    BY <1>2, FeeIsNat
  <2>3. FeeOf(n, bps) <= n
    BY <1>2, <2>1, FeeWithin
  <2>4. QED
    BY <2>2, <2>3
<1>4. net \in Nat
  BY <1>3
<1>5. PaysFor(net, ProductOut(net, m.x, m.y), m.x, m.y)
  BY <1>4, PlainPoolFields, ProductOutPays
<1>6. QED
  BY <1>1, <1>5

(* The CPMM as its builder and as its calculator compute it. *)
LEMMA CpmmPays ==
  ASSUME NEW m \in PlainPools, NEW n \in Nat
  PROVE  /\ PaysFor(CpmmSwap(m, n).dx, CpmmSwap(m, n).dy, m.x, m.y)
         /\ CpmmComputeSwap(m, n) # NoQuote
              => PaysFor(CpmmComputeSwap(m, n).dx, CpmmComputeSwap(m, n).dy, m.x, m.y)
<1> DEFINE net == (n * 9975) \div 10000
<1>1. net \in Nat
  BY Z3
<1>2. CpmmSwap(m, n).dx = net /\ CpmmSwap(m, n).dy = ProductOut(net, m.x, m.y)
  BY DEF CpmmSwap, Quote
<1> HIDE DEF net
<1>3. PaysFor(net, ProductOut(net, m.x, m.y), m.x, m.y)
  BY <1>1, PlainPoolFields, ProductOutPays
<1>4. PaysFor(AfterFee(n), ProductOut(AfterFee(n), m.x, m.y), m.x, m.y)
  BY PlainPoolFields, AfterFeeIsNat, ProductOutPays
<1>5. CpmmComputeSwap(m, n) # NoQuote
        => /\ CpmmComputeSwap(m, n).dx = AfterFee(n)
           /\ CpmmComputeSwap(m, n).dy = ProductOut(AfterFee(n), m.x, m.y)
  BY DEF CpmmComputeSwap, Quote
<1>6. QED
  BY <1>2, <1>3, <1>4, <1>5

(* The estimates without a fee. *)
LEMMA PlainSwapPays ==
  ASSUME NEW m \in PlainPools, NEW n \in Nat, PlainSwap(m, n) # NoQuote
  PROVE  PaysFor(PlainSwap(m, n).dx, PlainSwap(m, n).dy, m.x, m.y)
<1>1. PaysFor(n, ProductOut(n, m.x, m.y), m.x, m.y)
  BY PlainPoolFields, ProductOutPays
<1>2. PlainSwap(m, n).dx = n /\ PlainSwap(m, n).dy = ProductOut(n, m.x, m.y)
  BY DEF PlainSwap, Quote
<1>3. QED
  BY <1>1, <1>2

(* The markets a trader may meet, and the type of the one met. *)
Met == SwapMarkets \union V3Curves
MarketTypeOK == market \in Met \union {NoMarket}

(* What PoolNeverLoses says of a market m that becomes w. *)
KeepsWorth(m, w) ==
  /\ Product(w) >= Product(m) /\ w.x >= 0 /\ w.y >= 0
  /\ m.venue \in {"pumpfun", "curve"} => w.real >= 0

(* A market is told by its venue. *)
LEMMA ByVenue ==
  ASSUME NEW m \in Met \union {NoMarket}
  PROVE  /\ m.venue = "pumpfun" => m \in PumpFunCurves
         /\ m.venue = "curve" => m \in CurveAccounts
         /\ m.venue = "pumpswap" => m \in PumpSwapPools
         /\ m.venue \in {"bonk", "amm v4", "cpmm", "damm v2"} => m \in PlainPools
         /\ m.venue = "v3" => m \in V3Curves
         /\ m.venue = "none" => m = NoMarket
<1>1. \/ m \in PumpFunCurves \/ m \in CurveAccounts \/ m \in PumpSwapPools
      \/ m \in PlainPools \/ m \in V3Curves \/ m = NoMarket
  BY DEF Met, SwapMarkets
<1>2. m \in PumpFunCurves => m.venue = "pumpfun"
  BY DEF PumpFunCurves
<1>3. m \in CurveAccounts => m.venue = "curve"
  BY DEF CurveAccounts
<1>4. m \in PumpSwapPools => m.venue = "pumpswap"
  BY DEF PumpSwapPools
<1>5. m \in PlainPools => m.venue \in {"bonk", "amm v4", "cpmm", "damm v2"}
  BY DEF PlainPools
<1>6. m \in V3Curves => m.venue = "v3"
  BY DEF V3Curves
<1>7. m = NoMarket => m.venue = "none"
  BY DEF NoMarket
<1>8. QED
  BY <1>1, <1>2, <1>3, <1>4, <1>5, <1>6, <1>7

(* New reserves make no other kind of market. *)
LEMMA Rewritten ==
  ASSUME NEW x \in Nat, NEW y \in Nat
  PROVE  /\ \A m \in PumpFunCurves, r \in Nat : [m EXCEPT !.x = x, !.y = y, !.real = r] \in PumpFunCurves
         /\ \A m \in CurveAccounts, r \in Nat : [m EXCEPT !.x = x, !.y = y, !.real = r] \in CurveAccounts
         /\ \A m \in PumpSwapPools, r \in Int : [m EXCEPT !.x = x, !.y = y, !.real = r] \in PumpSwapPools
         /\ \A m \in PlainPools, r \in Int : [m EXCEPT !.x = x, !.y = y, !.real = r] \in PlainPools
<1>1. \A m \in PumpFunCurves, r \in Nat : [m EXCEPT !.x = x, !.y = y, !.real = r] \in PumpFunCurves
  BY DEF PumpFunCurves
<1>2. \A m \in CurveAccounts, r \in Nat : [m EXCEPT !.x = x, !.y = y, !.real = r] \in CurveAccounts
  BY DEF CurveAccounts
<1>3. \A m \in PumpSwapPools, r \in Int : [m EXCEPT !.x = x, !.y = y, !.real = r] \in PumpSwapPools
  BY DEF PumpSwapPools
<1>4. \A m \in PlainPools, r \in Int : [m EXCEPT !.x = x, !.y = y, !.real = r] \in PlainPools
  BY DEF PlainPools
<1>5. QED
  BY <1>1, <1>2, <1>3, <1>4

(* A swap that is paid for leaves the market worth as much: a curve bought from, *)
LEMMA CurveBuysKeepWorth ==
  ASSUME NEW m, m \in PumpFunCurves \/ m \in CurveAccounts, NEW dx, NEW dy,
         PaysFor(dx, dy, m.y, m.x), dy <= m.real
  PROVE  LET w == [m EXCEPT !.x = @ - dy, !.y = @ + dx, !.real = @ - dy]
         IN w \in Met /\ KeepsWorth(m, w)
<1> DEFINE x == m.x - dy
           y == m.y + dx
           r == m.real - dy
           w == [m EXCEPT !.x = x, !.y = y, !.real = r]
<1>1. m.x \in Nat /\ m.y \in Nat /\ m.real \in Nat /\ m.venue # "pumpswap"
  BY DEF PumpFunCurves, CurveAccounts
<1>2. x \in Nat /\ y \in Nat /\ r \in Nat /\ y * x >= m.y * m.x
  BY <1>1 DEF PaysFor
<1>3. w.x = x /\ w.y = y /\ w.real = r /\ w.venue = m.venue
  BY DEF PumpFunCurves, CurveAccounts
<1> HIDE DEF x, y, r
<1>4. w \in PumpFunCurves \/ w \in CurveAccounts
  BY <1>2, Rewritten
<1> HIDE DEF w
<1>5. x * y >= m.x * m.y
  BY <1>1, <1>2, SMT
<1>6. Product(w) = x * y /\ Product(m) = m.x * m.y
  BY <1>1, <1>3 DEF Product
<1>7. w \in Met /\ KeepsWorth(m, w)
  BY <1>2, <1>3, <1>4, <1>5, <1>6 DEF Met, SwapMarkets, KeepsWorth
<1>8. QED
  BY <1>7 DEF w, x, y, r

(* a curve sold to, *)
LEMMA CurveSalesKeepWorth ==
  ASSUME NEW m, m \in PumpFunCurves \/ m \in CurveAccounts, NEW dx, NEW dy,
         PaysFor(dx, dy, m.x, m.y)
  PROVE  LET w == [m EXCEPT !.x = @ + dx, !.y = @ - dy, !.real = @ + dx]
         IN w \in Met /\ KeepsWorth(m, w)
<1> DEFINE x == m.x + dx
           y == m.y - dy
           r == m.real + dx
           w == [m EXCEPT !.x = x, !.y = y, !.real = r]
<1>1. m.x \in Nat /\ m.y \in Nat /\ m.real \in Nat /\ m.venue # "pumpswap"
  BY DEF PumpFunCurves, CurveAccounts
<1>2. x \in Nat /\ y \in Nat /\ r \in Nat /\ x * y >= m.x * m.y
  BY <1>1 DEF PaysFor
<1>3. w.x = x /\ w.y = y /\ w.real = r /\ w.venue = m.venue
  BY DEF PumpFunCurves, CurveAccounts
<1> HIDE DEF x, y, r
<1>4. w \in PumpFunCurves \/ w \in CurveAccounts
  BY <1>2, Rewritten
<1> HIDE DEF w
<1>6. Product(w) = x * y /\ Product(m) = m.x * m.y
  BY <1>1, <1>3 DEF Product
<1>7. w \in Met /\ KeepsWorth(m, w)
  BY <1>2, <1>3, <1>4, <1>6 DEF Met, SwapMarkets, KeepsWorth
<1>8. QED
  BY <1>7 DEF w, x, y, r

(* a pool whose x is bought, *)
LEMMA PoolBuysKeepWorth ==
  ASSUME NEW m \in PlainPools, NEW dx, NEW dy, PaysFor(dx, dy, m.y, m.x)
  PROVE  LET w == [m EXCEPT !.x = @ - dy, !.y = @ + dx, !.real = @ - dy]
         IN w \in Met /\ KeepsWorth(m, w)
<1> DEFINE x == m.x - dy
           y == m.y + dx
           r == m.real - dy
           w == [m EXCEPT !.x = x, !.y = y, !.real = r]
<1>1. m.x \in Nat /\ m.y \in Nat /\ m.real \in Int /\ m.venue \notin {"pumpswap", "pumpfun", "curve"}
  BY DEF PlainPools
<1>2. x \in Nat /\ y \in Nat /\ r \in Int /\ y * x >= m.y * m.x
  BY <1>1 DEF PaysFor
<1>3. w.x = x /\ w.y = y /\ w.venue = m.venue
  BY DEF PlainPools
<1> HIDE DEF x, y, r
<1>4. w \in PlainPools
  BY <1>2, Rewritten
<1> HIDE DEF w
<1>5. x * y >= m.x * m.y
  BY <1>1, <1>2, SMT
<1>6. Product(w) = x * y /\ Product(m) = m.x * m.y
  BY <1>1, <1>3 DEF Product
<1>7. w \in Met /\ KeepsWorth(m, w)
  BY <1>1, <1>2, <1>3, <1>4, <1>5, <1>6 DEF Met, SwapMarkets, KeepsWorth
<1>8. QED
  BY <1>7 DEF w, x, y, r

(* a pool whose x is sold, *)
LEMMA PoolSalesKeepWorth ==
  ASSUME NEW m \in PlainPools, NEW dx, NEW dy, PaysFor(dx, dy, m.x, m.y)
  PROVE  LET w == [m EXCEPT !.x = @ + dx, !.y = @ - dy, !.real = @ + dx]
         IN w \in Met /\ KeepsWorth(m, w)
<1> DEFINE x == m.x + dx
           y == m.y - dy
           r == m.real + dx
           w == [m EXCEPT !.x = x, !.y = y, !.real = r]
<1>1. m.x \in Nat /\ m.y \in Nat /\ m.real \in Int /\ m.venue \notin {"pumpswap", "pumpfun", "curve"}
  BY DEF PlainPools
<1>2. x \in Nat /\ y \in Nat /\ r \in Int /\ x * y >= m.x * m.y
  BY <1>1 DEF PaysFor
<1>3. w.x = x /\ w.y = y /\ w.venue = m.venue
  BY DEF PlainPools
<1> HIDE DEF x, y, r
<1>4. w \in PlainPools
  BY <1>2, Rewritten
<1> HIDE DEF w
<1>6. Product(w) = x * y /\ Product(m) = m.x * m.y
  BY <1>1, <1>3 DEF Product
<1>7. w \in Met /\ KeepsWorth(m, w)
  BY <1>1, <1>2, <1>3, <1>4, <1>6 DEF Met, SwapMarkets, KeepsWorth
<1>8. QED
  BY <1>7 DEF w, x, y, r

(* PumpSwap, whose quote side counts its virtual quote: base bought, *)
LEMMA PumpSwapBuysKeepWorth ==
  ASSUME NEW m \in PumpSwapPools, ~ Depleted(m), NEW dx, NEW dy, PaysFor(dx, dy, EffectiveQuote(m), m.x)
  PROVE  LET w == [m EXCEPT !.x = @ - dy, !.y = @ + dx, !.real = @ - dy]
         IN w \in Met /\ KeepsWorth(m, w)
<1> DEFINE x == m.x - dy
           y == m.y + dx
           r == m.real - dy
           w == [m EXCEPT !.x = x, !.y = y, !.real = r]
           eq == m.y + m.virtual
<1>1. m.x \in Nat /\ m.y \in Nat /\ m.real \in Int /\ m.virtual \in Int /\ m.venue = "pumpswap"
  BY DEF PumpSwapPools
<1>2. eq \in Nat /\ PaysFor(dx, dy, eq, m.x)
  BY PumpSwapAmounts DEF EffectiveQuote
<1>3. x \in Nat /\ y \in Nat /\ r \in Int /\ y + m.virtual = eq + dx /\ (eq + dx) * x >= eq * m.x /\ dx \in Nat
  BY <1>1, <1>2 DEF PaysFor
<1>4. w.x = x /\ w.y = y /\ w.virtual = m.virtual /\ w.venue = m.venue
  BY DEF PumpSwapPools
<1> HIDE DEF x, y, r
<1>5. w \in PumpSwapPools
  BY <1>3, Rewritten
<1> HIDE DEF w
<1>6. Product(w) = x * (eq + dx) /\ Product(m) = m.x * eq
  BY <1>1, <1>3, <1>4 DEF Product, EffectiveQuote
<1> HIDE DEF eq
<1>7. x * (eq + dx) >= m.x * eq
  BY <1>1, <1>2, <1>3, SMT
<1>8. w \in Met /\ KeepsWorth(m, w)
  BY <1>1, <1>3, <1>4, <1>5, <1>6, <1>7 DEF Met, SwapMarkets, KeepsWorth
<1>9. QED
  BY <1>8 DEF w, x, y, r

(* and base sold. *)
LEMMA PumpSwapSalesKeepWorth ==
  ASSUME NEW m \in PumpSwapPools, ~ Depleted(m), NEW dx, NEW dy, PaysFor(dx, dy, m.x, EffectiveQuote(m)),
         dy <= m.y
  PROVE  LET w == [m EXCEPT !.x = @ + dx, !.y = @ - dy, !.real = @ + dx]
         IN w \in Met /\ KeepsWorth(m, w)
<1> DEFINE x == m.x + dx
           y == m.y - dy
           r == m.real + dx
           w == [m EXCEPT !.x = x, !.y = y, !.real = r]
           eq == m.y + m.virtual
<1>1. m.x \in Nat /\ m.y \in Nat /\ m.real \in Int /\ m.virtual \in Int /\ m.venue = "pumpswap"
  BY DEF PumpSwapPools
<1>2. eq \in Nat /\ PaysFor(dx, dy, m.x, eq)
  BY PumpSwapAmounts DEF EffectiveQuote
<1>3. x \in Nat /\ y \in Nat /\ r \in Int /\ y + m.virtual = eq - dy /\ x * (eq - dy) >= m.x * eq
  BY <1>1, <1>2 DEF PaysFor
<1>4. w.x = x /\ w.y = y /\ w.virtual = m.virtual /\ w.venue = m.venue
  BY DEF PumpSwapPools
<1> HIDE DEF x, y, r
<1>5. w \in PumpSwapPools
  BY <1>3, Rewritten
<1> HIDE DEF w
<1>6. Product(w) = x * (eq - dy) /\ Product(m) = m.x * eq
  BY <1>1, <1>3, <1>4 DEF Product, EffectiveQuote
<1> HIDE DEF eq
<1>8. w \in Met /\ KeepsWorth(m, w)
  BY <1>1, <1>3, <1>4, <1>5, <1>6 DEF Met, SwapMarkets, KeepsWorth
<1>9. QED
  BY <1>8 DEF w, x, y, r

(* The amounts asked about. *)
LEMMA AmountsAreNat == \A n \in Amounts : n \in Nat /\ n <= U64Max
  BY QuotesAssumption, WidthIsNat

(* The same of the swaps as the actions make them. *)
LEMMA CurveBought ==
  ASSUME market \in PumpFunCurves \/ market \in CurveAccounts, NEW how, NEW n, NEW STATE q,
         BuysX(how, n, q), PaysFor(q.dx, q.dy, market.y, market.x),
         q.dy <= market.real
  PROVE  market' \in Met /\ KeepsWorth(market, market')
<1>1. market' = [market EXCEPT !.x = @ - q.dy, !.y = @ + q.dx, !.real = @ - q.dy]
  BY DEF BuysX
<1>2. QED
  BY <1>1, CurveBuysKeepWorth, Zenon

LEMMA CurveSold ==
  ASSUME market \in PumpFunCurves \/ market \in CurveAccounts, NEW how, NEW n, NEW STATE q,
         SellsX(how, n, q), PaysFor(q.dx, q.dy, market.x, market.y)
  PROVE  market' \in Met /\ KeepsWorth(market, market')
<1>1. market' = [market EXCEPT !.x = @ + q.dx, !.y = @ - q.dy, !.real = @ + q.dx]
  BY DEF SellsX
<1>2. QED
  BY <1>1, CurveSalesKeepWorth, Zenon

LEMMA PoolBought ==
  ASSUME market \in PlainPools, NEW how, NEW n, NEW STATE q,
         BuysX(how, n, q), PaysFor(q.dx, q.dy, market.y, market.x)
  PROVE  market' \in Met /\ KeepsWorth(market, market')
<1>1. market' = [market EXCEPT !.x = @ - q.dy, !.y = @ + q.dx, !.real = @ - q.dy]
  BY DEF BuysX
<1>2. QED
  BY <1>1, PoolBuysKeepWorth, Zenon

LEMMA PoolSold ==
  ASSUME market \in PlainPools, NEW how, NEW n, NEW STATE q,
         SellsX(how, n, q), PaysFor(q.dx, q.dy, market.x, market.y)
  PROVE  market' \in Met /\ KeepsWorth(market, market')
<1>1. market' = [market EXCEPT !.x = @ + q.dx, !.y = @ - q.dy, !.real = @ + q.dx]
  BY DEF SellsX
<1>2. QED
  BY <1>1, PoolSalesKeepWorth, Zenon

LEMMA PumpSwapBought ==
  ASSUME market \in PumpSwapPools, ~ Depleted(market), NEW how, NEW n, NEW STATE q,
         BuysX(how, n, q),
         PaysFor(q.dx, q.dy, EffectiveQuote(market), market.x)
  PROVE  market' \in Met /\ KeepsWorth(market, market')
<1>1. market' = [market EXCEPT !.x = @ - q.dy, !.y = @ + q.dx, !.real = @ - q.dy]
  BY DEF BuysX
<1>2. QED
  BY <1>1, PumpSwapBuysKeepWorth, Zenon

LEMMA PumpSwapSold ==
  ASSUME market \in PumpSwapPools, ~ Depleted(market), NEW how, NEW n, NEW STATE q,
         SellsX(how, n, q),
         PaysFor(q.dx, q.dy, market.x, EffectiveQuote(market)), q.dy <= market.y
  PROVE  market' \in Met /\ KeepsWorth(market, market')
<1>1. market' = [market EXCEPT !.x = @ + q.dx, !.y = @ - q.dy, !.real = @ + q.dx]
  BY DEF SellsX
<1>2. QED
  BY <1>1, PumpSwapSalesKeepWorth, Zenon

(* The venues that share a rate. *)
LEMMA VenueRates ==
  ASSUME NEW m, NEW n
  PROVE  /\ BonkAmountOut(m, n) = FeeOut(m, n) /\ BonkAmountIn(m, n) = FeeIn(m, n)
         /\ AmmV4AmountOut(m, n) = FeeOut(m, n) /\ AmmV4AmountIn(m, n) = FeeIn(m, n)
         /\ CpmmAmountOut(m, n) = FeeOut(m, n) /\ CpmmAmountIn(m, n) = FeeIn(m, n)
         /\ AmmV4PlainSwap(m, n) = PlainSwap(m, n) /\ CpmmPlainSwap(m, n) = PlainSwap(m, n)
         /\ DammV2Swap(m, n) = PlainSwap(m, n)
  BY DEF BonkAmountOut, BonkAmountIn, AmmV4AmountOut, AmmV4AmountIn, CpmmAmountOut, CpmmAmountIn,
         AmmV4PlainSwap, CpmmPlainSwap, DammV2Swap

(* PumpSwap quotes nothing for a pool without reserves. *)
LEMMA PumpSwapQuotesUndepleted ==
  ASSUME NEW m, NEW n
  PROVE  /\ PumpSwapBuyBase(m, n) # NoQuote => ~ Depleted(m)
         /\ PumpSwapBuyQuote(m, n) # NoQuote => ~ Depleted(m)
         /\ PumpSwapSellBase(m, n) # NoQuote => ~ Depleted(m)
         /\ PumpSwapSellQuote(m, n) # NoQuote => ~ Depleted(m)
  BY DEF PumpSwapBuyBase, PumpSwapBuyQuote, PumpSwapSellBase, PumpSwapSellQuote

(* One lemma per venue: whatever is asked, the swap made is paid for. *)
LEMMA PumpFunSwapsKeepWorth ==
  ASSUME MarketTypeOK, OnPumpFun
  PROVE  market' \in Met /\ KeepsWorth(market, market')
<1>1. PICK n \in Amounts :
        /\ market.venue = "pumpfun"
        /\ \/ BuysX("curve buy", n, PumpFunBuy(market, n))
           \/ SellsX("curve sell", n, PumpFunSell(market, n))
  BY DEF OnPumpFun
<1>2. market \in PumpFunCurves /\ n \in Nat
  BY <1>1, ByVenue, AmountsAreNat DEF MarketTypeOK
<1>3. CASE BuysX("curve buy", n, PumpFunBuy(market, n))
  <2>1. PumpFunBuy(market, n) # NoQuote
    BY <1>3 DEF BuysX, Answered
  <2>2. QED
    BY <1>2, <1>3, <2>1, PumpFunBuyPays, CurveBought
<1>4. CASE SellsX("curve sell", n, PumpFunSell(market, n))
  <2>1. PumpFunSell(market, n) # NoQuote
    BY <1>4 DEF SellsX, Answered
  <2>2. QED
    BY <1>2, <1>4, <2>1, PumpFunSellPays, CurveSold
<1>5. QED
  BY <1>1, <1>3, <1>4

LEMMA CurveSwapsKeepWorth ==
  ASSUME MarketTypeOK, OnCurveAccount
  PROVE  market' \in Met /\ KeepsWorth(market, market')
<1>1. PICK n \in Amounts :
        /\ market.venue = "curve"
        /\ \/ BuysX("price", n, CurvePrice(market, n))
           \/ n <= market.real /\ BuysX("buy out", n, CurveBuyOut(market, n))
           \/ SellsX("sell price", n, CurveSellPrice(market, n))
  BY DEF OnCurveAccount
<1>2. market \in CurveAccounts /\ n \in Nat
  BY <1>1, ByVenue, AmountsAreNat DEF MarketTypeOK
<1>3. CASE BuysX("price", n, CurvePrice(market, n))
  <2>1. CurvePrice(market, n) # NoQuote
    BY <1>3 DEF BuysX, Answered
  <2>2. QED
    BY <1>2, <1>3, <2>1, CurvePricePays, CurveBought
<1>4. CASE n <= market.real /\ BuysX("buy out", n, CurveBuyOut(market, n))
  <2>1. CurveBuyOut(market, n) # NoQuote
    BY <1>4 DEF BuysX, Answered
  <2>2. QED
    BY <1>2, <1>4, <2>1, CurveBuyOutPays, CurveBought
<1>5. CASE SellsX("sell price", n, CurveSellPrice(market, n))
  <2>1. CurveSellPrice(market, n) # NoQuote
    BY <1>5 DEF SellsX, Answered
  <2>2. QED
    BY <1>2, <1>5, <2>1, CurveSellPricePays, CurveSold
<1>6. QED
  BY <1>1, <1>3, <1>4, <1>5

LEMMA PumpSwapSwapsKeepWorth ==
  ASSUME MarketTypeOK, OnPumpSwap
  PROVE  market' \in Met /\ KeepsWorth(market, market')
<1>1. PICK n \in Amounts :
        /\ market.venue = "pumpswap"
        /\ \/ BuysX("base", n, PumpSwapBuyBase(market, n))
           \/ BuysX("budget", n, PumpSwapBuyQuote(market, n))
           \/ SellsX("sell base", n, PumpSwapSellBase(market, n))
           \/ SellsX("proceeds", n, PumpSwapSellQuote(market, n))
  BY DEF OnPumpSwap
<1>2. market \in PumpSwapPools /\ n \in Nat
  BY <1>1, ByVenue, AmountsAreNat DEF MarketTypeOK
<1>3. CASE BuysX("base", n, PumpSwapBuyBase(market, n))
  <2>1. PumpSwapBuyBase(market, n) # NoQuote
    BY <1>3 DEF BuysX, Answered
  <2>2. QED
    BY <1>2, <1>3, <2>1, PumpSwapQuotesUndepleted, PumpSwapBuyBasePays, PumpSwapBought
<1>4. CASE BuysX("budget", n, PumpSwapBuyQuote(market, n))
  <2>1. PumpSwapBuyQuote(market, n) # NoQuote
    BY <1>4 DEF BuysX, Answered
  <2>2. QED
    BY <1>2, <1>4, <2>1, PumpSwapQuotesUndepleted, PumpSwapBuyQuotePays, PumpSwapBought
<1>5. CASE SellsX("sell base", n, PumpSwapSellBase(market, n))
  <2>1. PumpSwapSellBase(market, n) # NoQuote
    BY <1>5 DEF SellsX, Answered
  <2>2. QED
    BY <1>2, <1>5, <2>1, PumpSwapQuotesUndepleted, PumpSwapSellBasePays, PumpSwapSold
<1>6. CASE SellsX("proceeds", n, PumpSwapSellQuote(market, n))
  <2>1. PumpSwapSellQuote(market, n) # NoQuote
    BY <1>6 DEF SellsX, Answered
  <2>2. QED
    BY <1>2, <1>6, <2>1, PumpSwapQuotesUndepleted, PumpSwapSellQuotePays, PumpSwapSold
<1>7. QED
  BY <1>1, <1>3, <1>4, <1>5, <1>6

LEMMA BonkSwapsKeepWorth ==
  ASSUME MarketTypeOK, OnBonk
  PROVE  market' \in Met /\ KeepsWorth(market, market')
<1>1. PICK n \in Amounts :
        /\ market.venue = "bonk"
        /\ \/ BuysX("buy", n, BonkBuy(market, n))
           \/ SellsX("sell", n, BonkSell(market, n))
           \/ SellsX("out", n, BonkAmountOut(market, n))
           \/ SellsX("in", n, BonkAmountIn(market, n))
  BY DEF OnBonk
<1>2. market \in PlainPools /\ n \in Nat
  BY <1>1, ByVenue, AmountsAreNat DEF MarketTypeOK
<1>3. CASE BuysX("buy", n, BonkBuy(market, n))
  <2>1. BonkBuy(market, n) # NoQuote
    BY <1>3 DEF BuysX, Answered
  <2>2. QED
    BY <1>2, <1>3, <2>1, BonkPays, PoolBought
<1>4. CASE SellsX("sell", n, BonkSell(market, n))
  <2>1. BonkSell(market, n) # NoQuote
    BY <1>4 DEF SellsX, Answered
  <2>2. QED
    BY <1>2, <1>4, <2>1, BonkPays, PoolSold
<1>5. CASE SellsX("out", n, BonkAmountOut(market, n))
  <2>1. BonkAmountOut(market, n) # NoQuote
    BY <1>5 DEF SellsX, Answered
  <2>2. QED
    BY <1>2, <1>5, <2>1, VenueRates, FeeOutPays, PoolSold
<1>6. CASE SellsX("in", n, BonkAmountIn(market, n))
  <2>1. BonkAmountIn(market, n) # NoQuote
    BY <1>6 DEF SellsX, Answered
  <2>2. QED
    BY <1>2, <1>6, <2>1, VenueRates, FeeInPays, PoolSold
<1>7. QED
  BY <1>1, <1>3, <1>4, <1>5, <1>6

LEMMA AmmV4SwapsKeepWorth ==
  ASSUME MarketTypeOK, OnAmmV4
  PROVE  market' \in Met /\ KeepsWorth(market, market')
<1>1. PICK n \in Amounts :
        /\ market.venue = "amm v4"
        /\ \/ SellsX("swap", n, AmmV4Swap(market, n))
           \/ SellsX("plain", n, AmmV4PlainSwap(market, n))
           \/ SellsX("out", n, AmmV4AmountOut(market, n))
           \/ SellsX("in", n, AmmV4AmountIn(market, n))
  BY DEF OnAmmV4
<1>2. market \in PlainPools /\ n \in Nat
  BY <1>1, ByVenue, AmountsAreNat DEF MarketTypeOK
<1>3. CASE SellsX("swap", n, AmmV4Swap(market, n))
  <2>1. AmmV4Swap(market, n) # NoQuote
    BY <1>3 DEF SellsX, Answered
  <2>2. QED
    BY <1>2, <1>3, <2>1, AmmV4SwapPays, PoolSold
<1>4. CASE SellsX("plain", n, AmmV4PlainSwap(market, n))
  <2>1. AmmV4PlainSwap(market, n) # NoQuote
    BY <1>4 DEF SellsX, Answered
  <2>2. QED
    BY <1>2, <1>4, <2>1, VenueRates, PlainSwapPays, PoolSold
<1>5. CASE SellsX("out", n, AmmV4AmountOut(market, n))
  <2>1. AmmV4AmountOut(market, n) # NoQuote
    BY <1>5 DEF SellsX, Answered
  <2>2. QED
    BY <1>2, <1>5, <2>1, VenueRates, FeeOutPays, PoolSold
<1>6. CASE SellsX("in", n, AmmV4AmountIn(market, n))
  <2>1. AmmV4AmountIn(market, n) # NoQuote
    BY <1>6 DEF SellsX, Answered
  <2>2. QED
    BY <1>2, <1>6, <2>1, VenueRates, FeeInPays, PoolSold
<1>7. QED
  BY <1>1, <1>3, <1>4, <1>5, <1>6

LEMMA CpmmSwapsKeepWorth ==
  ASSUME MarketTypeOK, OnCpmm
  PROVE  market' \in Met /\ KeepsWorth(market, market')
<1>1. PICK n \in Amounts :
        /\ market.venue = "cpmm"
        /\ \/ SellsX("swap", n, CpmmSwap(market, n))
           \/ SellsX("compute", n, CpmmComputeSwap(market, n))
           \/ SellsX("plain", n, CpmmPlainSwap(market, n))
           \/ SellsX("out", n, CpmmAmountOut(market, n))
           \/ SellsX("in", n, CpmmAmountIn(market, n))
  BY DEF OnCpmm
<1>2. market \in PlainPools /\ n \in Nat
  BY <1>1, ByVenue, AmountsAreNat DEF MarketTypeOK
<1>3. CASE SellsX("swap", n, CpmmSwap(market, n))
  <2>1. CpmmSwap(market, n) # NoQuote
    BY <1>3 DEF SellsX, Answered
  <2>2. QED
    BY <1>2, <1>3, <2>1, CpmmPays, PoolSold
<1>4. CASE SellsX("compute", n, CpmmComputeSwap(market, n))
  <2>1. CpmmComputeSwap(market, n) # NoQuote
    BY <1>4 DEF SellsX, Answered
  <2>2. QED
    BY <1>2, <1>4, <2>1, CpmmPays, PoolSold
<1>5. CASE SellsX("plain", n, CpmmPlainSwap(market, n))
  <2>1. CpmmPlainSwap(market, n) # NoQuote
    BY <1>5 DEF SellsX, Answered
  <2>2. QED
    BY <1>2, <1>5, <2>1, VenueRates, PlainSwapPays, PoolSold
<1>6. CASE SellsX("out", n, CpmmAmountOut(market, n))
  <2>1. CpmmAmountOut(market, n) # NoQuote
    BY <1>6 DEF SellsX, Answered
  <2>2. QED
    BY <1>2, <1>6, <2>1, VenueRates, FeeOutPays, PoolSold
<1>7. CASE SellsX("in", n, CpmmAmountIn(market, n))
  <2>1. CpmmAmountIn(market, n) # NoQuote
    BY <1>7 DEF SellsX, Answered
  <2>2. QED
    BY <1>2, <1>7, <2>1, VenueRates, FeeInPays, PoolSold
<1>8. QED
  BY <1>1, <1>3, <1>4, <1>5, <1>6, <1>7

LEMMA DammV2SwapsKeepWorth ==
  ASSUME MarketTypeOK, OnDammV2
  PROVE  market' \in Met /\ KeepsWorth(market, market')
<1>1. PICK n \in Amounts : market.venue = "damm v2" /\ SellsX("plain", n, DammV2Swap(market, n))
  BY DEF OnDammV2
<1>2. market \in PlainPools /\ n \in Nat
  BY <1>1, ByVenue, AmountsAreNat DEF MarketTypeOK
<1>3. DammV2Swap(market, n) # NoQuote
  BY <1>1 DEF SellsX, Answered
<1>4. QED
  BY <1>1, <1>2, <1>3, VenueRates, PlainSwapPays, PoolSold

(* Every step keeps the type of the market, and every swap its worth. *)
LEMMA SwapsKeepWorth ==
  ASSUME MarketTypeOK, [QuotesNext]_quoteVars
  PROVE  /\ MarketTypeOK'
         /\ market'.venue = market.venue /\ market # NoMarket /\ market' # market
              => KeepsWorth(market, market')
<1>1. CASE Meet
  BY <1>1, QuotesAssumption DEF Meet, MarketTypeOK, Met
<1>2. CASE Leave
  <2>1. market # NoMarket /\ market' = NoMarket
    BY <1>2 DEF Leave
  <2>2. market'.venue = "none"
    BY <2>1 DEF NoMarket
  <2>3. market.venue # "none"
    BY <2>1, ByVenue DEF MarketTypeOK
  <2>4. QED
    BY <2>1, <2>2, <2>3 DEF MarketTypeOK
<1>3. CASE OnPumpV3
  BY <1>3 DEF OnPumpV3, OnV3, MarketTypeOK
<1>4. CASE OnPumpFun
  BY <1>4, PumpFunSwapsKeepWorth DEF MarketTypeOK
<1>5. CASE OnCurveAccount
  BY <1>5, CurveSwapsKeepWorth DEF MarketTypeOK
<1>6. CASE OnPumpSwap
  BY <1>6, PumpSwapSwapsKeepWorth DEF MarketTypeOK
<1>7. CASE OnBonk
  BY <1>7, BonkSwapsKeepWorth DEF MarketTypeOK
<1>8. CASE OnAmmV4
  BY <1>8, AmmV4SwapsKeepWorth DEF MarketTypeOK
<1>9. CASE OnCpmm
  BY <1>9, CpmmSwapsKeepWorth DEF MarketTypeOK
<1>10. CASE OnDammV2
  BY <1>10, DammV2SwapsKeepWorth DEF MarketTypeOK
<1>11. CASE UNCHANGED quoteVars
  BY <1>11 DEF quoteVars, MarketTypeOK
<1>12. QED
  BY <1>1, <1>2, <1>3, <1>4, <1>5, <1>6, <1>7, <1>8, <1>9, <1>10, <1>11 DEF QuotesNext

(* No sequence of swaps at quoted amounts, of whatever size, lowers the product of
   a market's reserves or takes more than there is: every rounding of calc/ and of the
   builders is the venue's, at every fee and for all reserves. *)
THEOREM QuotesCostThePoolNothing == QuotesSpec => PoolNeverLoses
<1>1. QuotesInit => MarketTypeOK
  BY DEF QuotesInit, MarketTypeOK
<1>2. MarketTypeOK /\ [QuotesNext]_quoteVars => MarketTypeOK'
  BY SwapsKeepWorth
<1>3. MarketTypeOK /\ [QuotesNext]_quoteVars =>
        [market'.venue = market.venue /\ market # NoMarket =>
           /\ Product(market') >= Product(market)
           /\ market.venue # "v3" => market'.x >= 0 /\ market'.y >= 0
           /\ market.venue \in {"pumpfun", "curve"} => market'.real >= 0]_market
  BY SwapsKeepWorth DEF KeepsWorth
<1>4. QED
  BY <1>1, <1>2, <1>3, PTL DEF QuotesSpec, PoolNeverLoses

(* The price of what an amount bought, or of less of it, is within that amount:
   asking back never costs more. *)
LEMMA CostWithin ==
  ASSUME NEW n \in Nat, NEW out \in Int, NEW x \in Nat, NEW y \in Nat, PaysFor(n, out, y, x),
         NEW less \in Nat, less <= out, less < x
  PROVE  (less * y) \div (x - less) <= n /\ CeilDiv(y * less, x - less) <= n
<1>1. PaysFor(n, less, y, x)
  BY PaysForLess
<1>2. less * y \in Nat /\ y * less \in Nat /\ x - less \in Nat \ {0} /\ less * y = y * less
  BY SMT
<1>3. less * y <= n * (x - less)
  BY <1>1, SMT DEF PaysFor
<1>4. CeilDiv(y * less, x - less) <= n
  BY <1>2, <1>3, CeilDivLeast
<1>5. (less * y) \div (x - less) <= n
  <2> DEFINE a == less * y
             d == x - less
  <2>1. a \in Nat /\ d \in Nat \ {0} /\ a <= n * d
    BY <1>2, <1>3
  <2> HIDE DEF a, d
  <2>2. a \div d <= n
    BY <2>1, Z3
  <2>3. QED
    BY <2>2 DEF a, d
<1>6. QED
  BY <1>4, <1>5

(* With something in both reserves no amount buys the last unit. *)
LEMMA PaidForLeavesSome ==
  ASSUME NEW n \in Nat, NEW out \in Nat, NEW x \in Nat \ {0}, NEW y \in Nat \ {0}, PaysFor(n, out, y, x)
  PROVE  out < x
<1>1. out <= x /\ (y + n) * (x - out) >= y * x
  BY DEF PaysFor
<1>2. y * x > 0
  BY SMT
<1>3. out # x
  BY <1>1, <1>2, SMT
<1>4. QED
  BY <1>1, <1>3

(* PumpSwap's budget buys the base it is quoted: asking for that base costs no more. *)
LEMMA BudgetBuysBase ==
  ASSUME NEW m \in PumpSwapPools, NEW n \in Nat, n <= U64Max, PumpSwapBuyQuote(m, n) # NoQuote,
         PumpSwapBuyQuote(m, n).got > 0
  PROVE  LET q == PumpSwapBuyBase(m, PumpSwapBuyQuote(m, n).got) IN q # NoQuote /\ q.paid <= n
<1> DEFINE eq    == EffectiveQuote(m)
           first == (n * 10000) \div (10000 + m.lp + m.fee + m.creator)
           net   == first - Most(0, first + PumpSwapFees(first, m) - n)
           out   == ProductOut(net - 1, eq, m.x)
           raw   == CeilDiv(eq * out, m.x - out)
           total == raw + PumpSwapFees(raw, m)
<1>1. /\ PumpSwapBuyQuote(m, n).got = out
      /\ ~ Depleted(m) /\ ~ (net <= 0)
  BY DEF PumpSwapBuyQuote, Quote
<1>2. net \in Int /\ (net > 0 => net + PumpSwapFees(net, m) <= n)
  BY PumpSwapBudgetLeavesFees
<1> HIDE DEF net, first
<1>3. net - 1 \in Nat /\ net \in Nat /\ net + PumpSwapFees(net, m) <= n
  BY <1>1, <1>2
<1>4. m.x \in Nat \ {0} /\ eq \in Nat \ {0}
  BY <1>1, PumpSwapAmounts
<1>5. out \in Nat /\ PaysFor(net - 1, out, eq, m.x)
  BY <1>3, <1>4, ProductOutPays
<1>6. out < m.x
  BY <1>3, <1>4, <1>5, PaidForLeavesSome
<1> HIDE DEF out, eq
<1>7. raw \in Nat /\ raw <= net - 1
  <2>1. raw \in Nat
    BY <1>4, <1>5, <1>6, AskedPays
  <2>2. out \in Int /\ out <= out /\ m.x \in Nat /\ eq \in Nat
    BY <1>4, <1>5
  <2>3. raw <= net - 1
    BY <1>3, <1>5, <1>6, <2>2, CostWithin
  <2>4. QED
    BY <2>1, <2>3
<1>8. total <= n
  <2>1. PumpSwapFees(raw, m) \in Nat /\ PumpSwapFees(net, m) \in Nat /\ PumpSwapFees(raw, m) <= PumpSwapFees(net, m)
    BY <1>3, <1>7, PumpSwapFeesAreNat, PumpSwapFeesGrow
  <2>2. QED
    BY <1>3, <1>7, <2>1
<1>9. ~ (out >= m.x) /\ ~ (total > U64Max) /\ out # 0
  <2>1. total \in Nat
    BY <1>7, PumpSwapFeesAreNat
  <2>2. QED
    BY <1>1, <1>4, <1>5, <1>6, <1>8, <2>1, WidthIsNat
<1>10. PumpSwapBuyBase(m, out) = Quote(total, out, SlippageBuy(total, m.slip), eq, m.x, raw + FeeOf(raw, m.lp), out)
  BY <1>1, <1>9 DEF PumpSwapBuyBase, eq
<1> HIDE DEF raw, total
<1>11. PumpSwapBuyBase(m, out).paid = total /\ PumpSwapBuyBase(m, out).got = out
  BY <1>10, QuoteFields
<1>12. NoQuote.got = 0
  BY QuoteFields DEF NoQuote
<1>13. QED
  BY <1>1, <1>8, <1>9, <1>11, <1>12

(* A fee as an upper bound, and a quotient rounded up as a lower one. *)
IsFee(f, n, bps) == f \in Nat /\ 10000 * f <= n * bps + 9999
LEMMA FeeCost ==
  ASSUME NEW n \in Nat, NEW bps \in Nat
  PROVE  IsFee(FeeOf(n, bps), n, bps)
  BY FeeIsNat, FeeBounds DEF IsFee

Covers(c, n, d) == c \in Nat /\ c * d >= n
LEMMA CeilDivCovers ==
  ASSUME NEW n \in Nat, NEW d \in Nat \ {0}
  PROVE  Covers(CeilDiv(n, d), n, d)
  BY CeilDivBounds DEF Covers

(* The base quoted for some proceeds brings them but for two units: the fees are
   three roundings where the quote made one. *)
LEMMA ProceedsArrive ==
  ASSUME NEW m \in PumpSwapPools, NEW n \in Nat, PumpSwapSellQuote(m, n) # NoQuote,
         PumpSwapSellBase(m, PumpSwapSellQuote(m, n).paid) # NoQuote
  PROVE  PumpSwapSellBase(m, PumpSwapSellQuote(m, n).paid).got + 2 >= n
<1> DEFINE eq   == EffectiveQuote(m)
           kept == 10000 - (m.lp + m.fee + m.creator)
           raw  == CeilDiv(n * 10000, kept)
           base == CeilDiv(m.x * raw, eq - raw)
           paid == ProductOut(base, m.x, eq)
           lp   == m.lp
           fee  == m.fee
           cut  == m.creator
<1>1. /\ PumpSwapSellQuote(m, n).paid = base
      /\ ~ Depleted(m) /\ ~ (raw >= eq) /\ ~ (kept <= 0)
  BY DEF PumpSwapSellQuote, Quote
<1>2. PumpSwapSellBase(m, base).got = paid - PumpSwapFees(paid, m)
  BY <1>1 DEF PumpSwapSellBase, Quote
<1>3. m.x \in Nat \ {0} /\ eq \in Nat \ {0} /\ lp \in Nat /\ fee \in Nat /\ cut \in Nat
  BY <1>1, PumpSwapAmounts
<1>4. kept \in Nat \ {0} /\ kept = 10000 - (lp + fee + cut)
  BY <1>1, <1>3
<1> HIDE DEF eq, kept
<1>5. raw \in Nat /\ raw * kept >= n * 10000
  <2> DEFINE a == n * 10000
  <2>1. a \in Nat
    OBVIOUS
  <2> HIDE DEF a
  <2>2. kept \in Nat \ {0}
    BY <1>4
  <2>3. Covers(CeilDiv(a, kept), a, kept)
    BY <2>1, <2>2, CeilDivCovers, Zenon
  <2>4. QED
    BY <2>3 DEF a, Covers
<1> HIDE DEF raw
<1>6. raw < eq
  BY <1>1, <1>3, <1>5
<1>7. base \in Nat /\ PaysFor(base, raw, m.x, eq)
  BY <1>3, <1>5, <1>6, AskedPays
<1> HIDE DEF base
<1>8. paid \in Nat /\ raw <= paid
  <2> DEFINE d == m.x + base
  <2>1. d \in Nat \ {0} /\ base * eq \in Nat /\ d # 0
    BY <1>3, <1>7, SMT
  <2>2. raw * d <= base * eq
    BY <1>3, <1>5, <1>7, SMT DEF PaysFor
  <2>3. paid = (base * eq) \div d
    BY <2>1 DEF ProductOut
  <2> HIDE DEF d
  <2>4. QED
    BY <1>5, <2>1, <2>2, <2>3, QuotientLeast, QuotientBounds
<1> HIDE DEF paid
<1>9. PumpSwapFees(paid, m) = FeeOf(paid, lp) + FeeOf(paid, fee) + FeeOf(paid, cut)
  BY DEF PumpSwapFees
<1> HIDE DEF lp, fee, cut
<1>10. /\ FeeOf(paid, lp) \in Nat /\ 10000 * FeeOf(paid, lp) <= paid * lp + 9999
       /\ FeeOf(paid, fee) \in Nat /\ 10000 * FeeOf(paid, fee) <= paid * fee + 9999
       /\ FeeOf(paid, cut) \in Nat /\ 10000 * FeeOf(paid, cut) <= paid * cut + 9999
  <2>1. IsFee(FeeOf(paid, lp), paid, lp)
    BY <1>3, <1>8, FeeCost, Zenon
  <2>2. IsFee(FeeOf(paid, fee), paid, fee)
    BY <1>3, <1>8, FeeCost, Zenon
  <2>3. IsFee(FeeOf(paid, cut), paid, cut)
    BY <1>3, <1>8, FeeCost, Zenon
  <2>4. QED
    BY <2>1, <2>2, <2>3 DEF IsFee
<1>11. raw * kept <= paid * kept
  BY <1>4, <1>5, <1>8, ProductsOrdered
<1>12. paid * kept = paid * 10000 - paid * lp - paid * fee - paid * cut
  BY <1>3, <1>4, <1>8, SMT
<1> DEFINE a == FeeOf(paid, lp)
           b == FeeOf(paid, fee)
           c == FeeOf(paid, cut)
           u == paid * lp
           v == paid * fee
           w == paid * cut
           k == paid * kept
<1>13. u \in Int /\ v \in Int /\ w \in Int /\ k \in Int
  BY <1>3, <1>4, <1>8, SMT
<1>14. /\ a \in Nat /\ b \in Nat /\ c \in Nat /\ 10000 * a <= u + 9999 /\ 10000 * b <= v + 9999
       /\ 10000 * c <= w + 9999 /\ k = paid * 10000 - u - v - w /\ n * 10000 <= k
  BY <1>4, <1>5, <1>8, <1>10, <1>11, <1>12, SMT
<1> HIDE DEF a, b, c, u, v, w, k
<1>15. paid - (a + b + c) + 2 >= n
  BY <1>8, <1>13, <1>14, SMT
<1>16. QED
  BY <1>1, <1>2, <1>9, <1>15 DEF a, b, c

(* get_buy_price and get_buy_out_price agree: buying what an amount buys costs no
   more than the amount, when nothing was paid in beyond it and no fee is charged. *)
LEMMA PriceBuysThatMany ==
  ASSUME NEW m \in CurveAccounts, NEW n \in Nat, CurvePrice(m, n) # NoQuote, m.fee = 0,
         m.y - m.start <= CurvePrice(m, n).got
  PROVE  CurveBuyOut(m, CurvePrice(m, n).got).paid <= n
<1> DEFINE out    == CurvePrice(m, n).got
           tokens == Most(out, m.y - m.start)
           value  == (tokens * m.y) \div (m.x - tokens) + 1
           paid   == (value + (value * m.fee) \div 10000) % (U64Max + 1)
<1>0. m.x \in Nat /\ m.y \in Nat /\ m.start \in Nat /\ m.real \in Nat
  BY DEF CurveAccounts
<1>1. CurvePrice(m, n).dx = n /\ CurvePrice(m, n).dy = out /\ n # 0
  BY DEF CurvePrice, Quote
<1>2. PaysFor(n, out, m.y, m.x)
  BY <1>1, CurvePricePays
<1>3. out \in Nat /\ (m.x - out) * (m.y + n) > m.x * m.y
  <2> DEFINE kept == (m.x * m.y) \div (m.y + n) + 1
             take == Least(m.x - kept, m.real)
  <2>1. out = take /\ ~ (kept > m.x)
    BY DEF CurvePrice, Quote
  <2>2. m.x * m.y \in Nat /\ m.y + n \in Nat \ {0}
    BY <1>0, <1>1, SMT
  <2>3. kept \in Nat /\ m.x * m.y < kept * (m.y + n)
    BY <2>2, QuotientBounds, SMT
  <2>4. take \in Nat /\ take <= m.x - kept
    BY <1>0, <2>1, <2>3 DEF Least
  <2> HIDE DEF kept, take
  <2>5. kept * (m.y + n) <= (m.x - take) * (m.y + n)
    BY <1>0, <2>3, <2>4, ProductsOrdered
  <2>6. (m.x - take) * (m.y + n) > m.x * m.y
    BY <1>0, <2>3, <2>4, <2>5, SMT
  <2>7. QED
    BY <2>1, <2>4, <2>6
<1> HIDE DEF out
<1>4. tokens = out
  BY <1>0, <1>3 DEF Most, out
<1> HIDE DEF tokens
<1>5. CASE tokens >= m.x
  <2>1. CurveBuyOut(m, out) = NoQuote
    BY <1>5 DEF CurveBuyOut, tokens
  <2>2. NoQuote.paid = 0
    BY QuoteFields DEF NoQuote
  <2>3. QED
    BY <2>1, <2>2 DEF out
<1>6. CASE ~ (tokens >= m.x)
  <2>1. CurveBuyOut(m, out) = Quote(paid, out, out, m.y, m.x, value, out)
    BY <1>6 DEF CurveBuyOut, tokens
  <2>2. CurveBuyOut(m, out).paid = paid
    BY <2>1, QuoteFields
  <2>3. out * m.y \in Nat /\ m.x - out \in Nat \ {0} /\ out * m.y < n * (m.x - out)
    BY <1>0, <1>3, <1>4, <1>6, SMT
  <2>4. value \in Nat /\ value <= n
    <3> DEFINE a == out * m.y
               d == m.x - out
    <3>1. a \in Nat /\ d \in Nat \ {0} /\ a < n * d
      BY <2>3
    <3>2. value = a \div d + 1
      BY <1>4
    <3> HIDE DEF a, d, value
    <3>3. a \div d \in Nat /\ a \div d < n
      BY <3>1, Z3
    <3>4. QED
      BY <3>2, <3>3
  <2> HIDE DEF value
  <2>5. paid = value % (U64Max + 1)
    <3>1. value * m.fee = 0
      BY <2>4, SMT
    <3>2. QED
      BY <2>4, <3>1
  <2>6. value % (U64Max + 1) \in Nat /\ value % (U64Max + 1) <= value
    BY <2>4, WidthIsNat, Z3
  <2> HIDE DEF paid
  <2>7. paid <= n
    BY <2>4, <2>5, <2>6
  <2>8. QED
    BY <2>2, <2>7 DEF out
<1>7. QED
  BY <1>5, <1>6

(* The gross amount of a net one covers it after the fee. *)
LEMMA FeeOnTheWayIn ==
  ASSUME NEW net \in Nat
  PROVE  LET paid == CeilDiv(net * 10000, 9975)
         IN paid \in Nat /\ AfterFee(paid) >= net /\ (net > 0 => paid > 0)
  BY Z3 DEF CeilDiv, AfterFee, FeeOf

(* The input quoted for an exact output does buy it. *)
LEMMA AmountInBuys ==
  ASSUME NEW m \in PlainPools, NEW n \in Nat, FeeIn(m, n) # NoQuote
  PROVE  FeeOut(m, FeeIn(m, n).paid).got >= n
<1> DEFINE net  == CeilDiv(m.x * n, m.y - n)
           paid == CeilDiv(net * 10000, 9975)
           got  == ProductOut(AfterFee(paid), m.x, m.y)
<1>1. /\ FeeIn(m, n).paid = paid
      /\ n # 0 /\ m.x # 0 /\ m.y # 0 /\ ~ (n >= m.y)
  BY DEF FeeIn, Quote
<1>2. m.x \in Nat \ {0} /\ m.y \in Nat \ {0} /\ n < m.y
  BY <1>1, PlainPoolFields
<1>3. net \in Nat /\ PaysFor(net, n, m.x, m.y)
  BY <1>2, AskedPays
<1>4. net > 0
  <2>1. (m.x + net) * (m.y - n) >= m.x * m.y
    BY <1>3 DEF PaysFor
  <2> HIDE DEF net
  <2>2. net # 0
    BY <1>1, <1>2, <2>1, SMT
  <2>3. QED
    BY <1>3, <2>2
<1> HIDE DEF net
<1>5. paid \in Nat /\ AfterFee(paid) >= net /\ paid > 0
  BY <1>3, <1>4, FeeOnTheWayIn
<1> HIDE DEF paid
<1>6. FeeOut(m, paid).got = got
  BY <1>1, <1>5 DEF FeeOut, Quote
<1>7. got >= n
  <2> DEFINE fed == AfterFee(paid)
             d   == m.x + fed
  <2>1. fed \in Nat /\ fed >= net
    BY <1>5, AfterFeeIsNat
  <2> HIDE DEF fed
  <2>2. PaysFor(fed, n, m.x, m.y)
    BY <1>2, <1>3, <2>1, PaysForLess
  <2>3. d \in Nat \ {0} /\ fed * m.y \in Nat /\ n * d <= fed * m.y
    BY <1>2, <2>1, <2>2, SMT DEF PaysFor
  <2>4. got = (fed * m.y) \div d
    BY <2>3 DEF ProductOut, fed
  <2> HIDE DEF d, got
  <2>5. QED
    BY <2>3, <2>4, QuotientLeast, QuotientBounds
<1>8. QED
  BY <1>1, <1>6, <1>7

(* The buy-out price covers what the curve receives, unless 64 bits cut it. *)
LEMMA BuyOutIsPaid ==
  ASSUME NEW m \in CurveAccounts, NEW n \in Nat, CurveBuyOut(m, n) # NoQuote
  PROVE  Fits(CurveBuyOut(m, n).dx, m.fee) => CurveBuyOut(m, n).paid >= CurveBuyOut(m, n).dx
<1> DEFINE tokens == Most(n, m.y - m.start)
           value  == (tokens * m.y) \div (m.x - tokens) + 1
           fee    == (value * m.fee) \div 10000
<1>0. m.x \in Nat /\ m.y \in Nat /\ m.start \in Nat /\ m.fee \in Nat
  BY DEF CurveAccounts
<1>1. CurveBuyOut(m, n).paid = (value + fee) % (U64Max + 1) /\ CurveBuyOut(m, n).dx = value /\ ~ (tokens >= m.x)
  BY DEF CurveBuyOut, Quote
<1>2. tokens \in Nat /\ tokens < m.x
  BY <1>0, <1>1 DEF Most
<1> HIDE DEF tokens
<1> HIDE DEF fee
<1>3. value \in Nat /\ PaysFor(value, tokens, m.y, m.x)
  BY <1>0, <1>2, CurveCostPays
<1> HIDE DEF value
<1>4. fee \in Nat
  <2>1. value * m.fee \in Nat
    BY <1>0, <1>3, SMT
  <2>2. QED
    BY <2>1, QuotientBounds DEF fee
<1>5. SUFFICES ASSUME value + fee <= U64Max PROVE CurveBuyOut(m, n).paid >= value
  BY <1>1 DEF fee, Fits
<1>6. (value + fee) % (U64Max + 1) = value + fee
  BY <1>3, <1>4, <1>5, WidthIsNat, Z3
<1>7. QED
  BY <1>1, <1>3, <1>4, <1>6

(* What is known of a PumpFun V3 state. *)
LEMMA V3Fields ==
  ASSUME NEW c \in V3Curves
  PROVE  /\ c.x \in Nat /\ c.y \in Nat /\ c.left \in Nat /\ c.fee \in Nat /\ c.creator \in Nat
         /\ ~ V3Invalid(c) => c.left < c.x /\ c.y > 0
         /\ V3PoolBase(c) \in Int
         /\ \A q \in Nat : V3PoolQuote(c, q) \in Int
<1>1. c.x \in Nat /\ c.y \in Nat /\ c.left \in Nat /\ c.fee \in Nat /\ c.creator \in Nat
      /\ c.vault \in Nat /\ c.funds \in Nat /\ c.toll \in Nat
  BY DEF V3Curves
<1>2. ~ V3Invalid(c) => c.left < c.x /\ c.y > 0
  BY <1>1 DEF V3Invalid
<1>3. V3PoolBase(c) \in Int /\ \A q \in Nat : V3PoolQuote(c, q) \in Int
  BY <1>1 DEF V3PoolBase, V3PoolQuote
<1>4. QED
  BY <1>1, <1>2, <1>3

(* V3 charges two fees. *)
LEMMA TwoFees ==
  ASSUME NEW n \in Nat, NEW fee \in Nat, NEW creator \in Nat
  PROVE  /\ FeeOf(n, fee) + FeeOf(n, creator) \in Nat
         /\ \A k \in Nat : n <= k => FeeOf(n, fee) + FeeOf(n, creator) <= FeeOf(k, fee) + FeeOf(k, creator)
  BY FeeIsNat, FeesGrow

LEMMA V3FeesAreNat ==
  ASSUME NEW c \in V3Curves, NEW n \in Nat
  PROVE  /\ V3Fees(n, c) \in Nat
         /\ \A k \in Nat : n <= k => V3Fees(n, c) <= V3Fees(k, c)
  BY V3Fields, TwoFees, Zenon DEF V3Fees

(* _net_quote: the net amount and the fees on it are within the budget. *)
LEMMA V3BudgetLeavesFees ==
  ASSUME NEW c \in V3Curves, NEW n \in Nat
  PROVE  V3Net(n, c) \in Int /\ (V3Net(n, c) > 0 => V3Net(n, c) + V3Fees(V3Net(n, c), c) <= n)
<1> DEFINE first == (n * 10000) \div (10000 + c.fee + c.creator)
           net   == first - Most(0, first + V3Fees(first, c) - n)
<1>1. first \in Nat
  <2>1. n * 10000 \in Nat /\ 10000 + c.fee + c.creator \in Nat \ {0}
    BY V3Fields
  <2>2. QED
    BY <2>1, QuotientBounds
<1> HIDE DEF first
<1>2. V3Fees(first, c) \in Nat
  BY <1>1, V3FeesAreNat
<1>3. /\ net \in Int /\ net <= first /\ (net = first \/ net = n - V3Fees(first, c))
      /\ (net = first => first + V3Fees(first, c) <= n)
  BY <1>1, <1>2 DEF Most
<1> HIDE DEF net
<1>4. net > 0 => V3Fees(net, c) \in Nat /\ V3Fees(net, c) <= V3Fees(first, c)
  BY <1>1, <1>3, V3FeesAreNat
<1>5. net > 0 => net + V3Fees(net, c) <= n
  BY <1>1, <1>2, <1>3, <1>4
<1>6. V3Net(n, c) = net
  BY DEF V3Net, net, first
<1>7. QED
  BY <1>3, <1>5, <1>6

(* The curve leg's cost pays for its base. *)
LEMMA V3CurvePays ==
  ASSUME NEW c \in V3Curves, NEW n \in Nat, n < c.x
  PROVE  V3CurveCost(n, c) \in Nat /\ PaysFor(V3CurveCost(n, c), n, c.y, c.x)
<1> DEFINE value == (n * c.y) \div (c.x - n) + 1
<1>1. value \in Nat /\ PaysFor(value, n, c.y, c.x)
  BY V3Fields, CurveCostPays
<1> HIDE DEF value
<1>2. CASE n = 0
  <2>1. V3CurveCost(n, c) = 0
    BY <1>2 DEF V3CurveCost
  <2>2. PaysFor(0, n, c.y, c.x)
    BY <1>2, V3Fields, SMT DEF PaysFor
  <2>3. QED
    BY <2>1, <2>2
<1>3. CASE n # 0
  BY <1>1, <1>3 DEF V3CurveCost, value
<1>4. QED
  BY <1>2, <1>3

(* What V3PoolsNeverLose says of an answer. *)
V3LegsPay(c, r) ==
  /\ (c.x - r.curveBase) * (c.y + r.curveQuote) >= c.x * c.y
  /\ r.poolBase > 0 =>
       (V3PoolBase(c) - r.poolBase) * (V3PoolQuote(c, r.curveQuote) + r.poolQuote)
         >= V3PoolBase(c) * V3PoolQuote(c, r.curveQuote)

(* Legs that are paid for one by one are paid for in the answer. *)
LEMMA V3ResultPays ==
  ASSUME NEW c \in V3Curves, NEW cb \in Nat, NEW cq \in Nat, NEW pb, NEW pq,
         PaysFor(cq, cb, c.y, c.x),
         pb = 0 \/ (/\ pb \in Nat /\ V3PoolBase(c) \in Nat /\ V3PoolQuote(c, cq) \in Nat
                    /\ PaysFor(pq, pb, V3PoolQuote(c, cq), V3PoolBase(c))),
         V3Result(cb, cq, pb, pq, c) # V3None
  PROVE  V3LegsPay(c, V3Result(cb, cq, pb, pq, c))
<1> DEFINE r == V3Result(cb, cq, pb, pq, c)
<1>1. r.curveBase = cb /\ r.curveQuote = cq /\ r.poolBase = pb /\ r.poolQuote = pq
  BY DEF V3Result
<1> HIDE DEF r
<1>2. (c.x - cb) * (c.y + cq) >= c.x * c.y
  BY V3Fields, SMT DEF PaysFor
<1>3. pb > 0 => (V3PoolBase(c) - pb) * (V3PoolQuote(c, cq) + pq) >= V3PoolBase(c) * V3PoolQuote(c, cq)
  <2> DEFINE b == V3PoolBase(c)
             q == V3PoolQuote(c, cq)
  <2> SUFFICES ASSUME pb > 0 PROVE (b - pb) * (q + pq) >= b * q
    OBVIOUS
  <2>1. b \in Nat /\ q \in Nat /\ PaysFor(pq, pb, q, b)
    OBVIOUS
  <2> HIDE DEF b, q
  <2>2. QED
    BY <2>1, SMT DEF PaysFor
<1>4. QED
  BY <1>1, <1>2, <1>3 DEF V3LegsPay, r

(* quote_pump_buy_v3_exact_out: both legs are paid for. *)
LEMMA V3OutPays ==
  ASSUME NEW c \in V3Curves, NEW n \in Nat, NEW partial \in BOOLEAN, V3ExactOut(c, n, partial) # V3None
  PROVE  V3LegsPay(c, V3ExactOut(c, n, partial))
<1> DEFINE cb == Least(n, c.left)
           cq == V3CurveCost(cb, c)
           pb == n - cb
           b  == V3PoolBase(c)
           q  == V3PoolQuote(c, cq)
           pq == CeilDiv(q * pb, b - pb)
<1>1. ~ V3Invalid(c)
  BY DEF V3ExactOut
<1>2. cb \in Nat /\ cb < c.x /\ cb <= n /\ pb \in Nat
  BY <1>1, V3Fields DEF Least
<1>3. \/ V3ExactOut(c, n, partial) = V3Result(cb, cq, 0, 0, c)
      \/ /\ ~ V3NoPool(c, cq) /\ ~ (pb >= b)
         /\ V3ExactOut(c, n, partial) = V3Result(cb, cq, pb, pq, c)
  BY DEF V3ExactOut
<1>4. ~ V3NoPool(c, cq) => ~ (b <= 0) /\ ~ (q <= 0)
  BY DEF V3NoPool
<1> HIDE DEF cb
<1>5. cq \in Nat /\ PaysFor(cq, cb, c.y, c.x)
  BY <1>2, V3CurvePays
<1>6. b \in Int /\ q \in Int
  BY <1>5, V3Fields
<1> HIDE DEF cq, b, q, pb
<1>7. CASE V3ExactOut(c, n, partial) = V3Result(cb, cq, 0, 0, c)
  BY <1>2, <1>5, <1>7, V3ResultPays
<1>8. CASE /\ ~ V3NoPool(c, cq) /\ ~ (pb >= b)
           /\ V3ExactOut(c, n, partial) = V3Result(cb, cq, pb, pq, c)
  <2>1. b \in Nat /\ q \in Nat /\ pb < b
    BY <1>2, <1>4, <1>6, <1>8
  <2>2. PaysFor(pq, pb, q, b)
    BY <1>2, <2>1, AskedPays
  <2> HIDE DEF pq
  <2>3. QED
    BY <1>2, <1>5, <1>8, <2>1, <2>2, V3ResultPays DEF b, q
<1>9. QED
  BY <1>3, <1>7, <1>8

(* An answer to a budget, whichever of its early returns gave it. *)
LEMMA V3InAnswers ==
  ASSUME NEW c \in V3Curves, NEW n \in Nat, V3ExactIn(c, n) # V3None
  PROVE  \E cb \in Nat, cq \in Nat, pb \in Nat, pq \in Nat :
           /\ V3ExactIn(c, n) = V3Result(cb, cq, pb, pq, c)
           /\ ~ V3Invalid(c)
           /\ cb <= c.left /\ cq = V3CurveCost(cb, c) /\ PaysFor(cq, cb, c.y, c.x)
           /\ cq + V3Fees(cq, c) <= n
           /\ \/ pb = 0 /\ pq = 0
              \/ /\ pb > 0 /\ pq > 1 /\ cb = c.left /\ ~ c.mayhem /\ ~ V3NoPool(c, cq)
                 /\ V3PoolBase(c) \in Nat \ {0} /\ V3PoolQuote(c, cq) \in Nat \ {0}
                 /\ PaysFor(pq - 1, pb, V3PoolQuote(c, cq), V3PoolBase(c))
                 /\ cq + V3Fees(cq, c) + pq + V3Fees(pq, c) <= n
<1> DEFINE net    == V3Net(n, c)
           tokens == ((net - 1) * c.x) \div (c.y + net - 1)
           cb     == Least(tokens, c.left)
           cq     == V3CurveCost(cb, c)
           left   == n - cq - V3Fees(cq, c)
           leg    == V3Net(left, c)
           b      == V3PoolBase(c)
           q      == V3PoolQuote(c, cq)
           pb     == ((leg - 1) * b) \div (q + leg - 1)
<1>1. ~ V3Invalid(c) /\ ~ (net <= 1)
  BY DEF V3ExactIn
<1>2. \/ V3ExactIn(c, n) = V3Result(cb, cq, 0, 0, c)
      \/ /\ ~ (tokens <= c.left) /\ ~ c.mayhem /\ ~ (left <= 0) /\ ~ (leg <= 1)
         /\ ~ V3NoPool(c, cq) /\ pb # 0
         /\ V3ExactIn(c, n) = V3Result(cb, cq, pb, leg, c)
  BY DEF V3ExactIn
<1>3. c.x \in Nat /\ c.y \in Nat \ {0} /\ c.left \in Nat /\ c.left < c.x
  BY <1>1, V3Fields
<1>4. net \in Nat /\ net - 1 \in Nat /\ net + V3Fees(net, c) <= n
  BY <1>1, V3BudgetLeavesFees
<1> HIDE DEF net
<1>5. tokens \in Nat /\ PaysFor(net - 1, tokens, c.y, c.x)
  <2>1. tokens = ProductOut(net - 1, c.y, c.x)
    BY <1>3, <1>4 DEF ProductOut
  <2> HIDE DEF tokens
  <2>2. QED
    BY <1>3, <1>4, <2>1, ProductOutPays
<1> HIDE DEF tokens
<1>6. cb \in Nat /\ cb <= tokens /\ cb <= c.left /\ cb < c.x /\ (~ (tokens <= c.left) => cb = c.left)
  BY <1>3, <1>5 DEF Least
<1> HIDE DEF cb
<1>7. cq \in Nat /\ PaysFor(cq, cb, c.y, c.x)
  BY <1>6, V3CurvePays
<1>8. cq <= net
  <2> DEFINE v == (cb * c.y) \div (c.x - cb)
  <2>1. tokens \in Int /\ c.y \in Nat
    BY <1>3, <1>5
  <2>2. v <= net - 1
    BY <1>3, <1>4, <1>5, <1>6, <2>1, CostWithin
  <2>3. v \in Nat
    <3>1. cb * c.y \in Nat /\ c.x - cb \in Nat \ {0}
      BY <1>3, <1>6, SMT
    <3>2. QED
      BY <3>1, QuotientBounds
  <2>4. cq = 0 \/ cq = v + 1
    BY DEF V3CurveCost
  <2> HIDE DEF v, cq
  <2>5. QED
    BY <1>4, <2>2, <2>3, <2>4
<1> HIDE DEF cq
<1>9. cq + V3Fees(cq, c) <= n /\ V3Fees(cq, c) \in Nat
  <2>1. V3Fees(cq, c) \in Nat /\ V3Fees(net, c) \in Nat /\ V3Fees(cq, c) <= V3Fees(net, c)
    BY <1>4, <1>7, <1>8, V3FeesAreNat
  <2>2. QED
    BY <1>4, <1>7, <1>8, <2>1
<1>10. CASE V3ExactIn(c, n) = V3Result(cb, cq, 0, 0, c)
  BY <1>1, <1>6, <1>7, <1>9, <1>10 DEF cq
<1>11. CASE /\ ~ (tokens <= c.left) /\ ~ c.mayhem /\ ~ (left <= 0) /\ ~ (leg <= 1)
            /\ ~ V3NoPool(c, cq) /\ pb # 0
            /\ V3ExactIn(c, n) = V3Result(cb, cq, pb, leg, c)
  <2>1. left \in Nat
    BY <1>7, <1>9, <1>11
  <2>2. left + cq + V3Fees(cq, c) = n
    BY <1>7, <1>9
  <2> HIDE DEF left
  <2>3. leg \in Int /\ (leg > 0 => leg + V3Fees(leg, c) <= left)
    BY <2>1, V3BudgetLeavesFees
  <2> HIDE DEF leg
  <2>4. leg \in Nat /\ leg > 1 /\ leg - 1 \in Nat /\ leg + V3Fees(leg, c) <= left
    BY <1>11, <2>3
  <2>5. V3Fees(leg, c) \in Nat
    BY <2>4, V3FeesAreNat
  <2>6. cq + V3Fees(cq, c) + leg + V3Fees(leg, c) <= n
    BY <1>7, <1>9, <2>1, <2>2, <2>4, <2>5
  <2>7. ~ (b <= 0) /\ ~ (q <= 0) /\ b \in Int /\ q \in Int
    BY <1>7, <1>11, V3Fields DEF V3NoPool
  <2> HIDE DEF b, q
  <2>8. b \in Nat \ {0} /\ q \in Nat \ {0}
    BY <2>7
  <2>9. pb \in Nat /\ PaysFor(leg - 1, pb, q, b)
    <3>1. pb = ProductOut(leg - 1, q, b)
      BY <2>4, <2>8 DEF ProductOut
    <3>2. QED
      BY <2>4, <2>8, <3>1, ProductOutPays
  <2>10. pb > 0
    BY <1>11, <2>9
  <2>11. cb = c.left
    BY <1>6, <1>11
  <2> HIDE DEF pb
  <2>12. QED
    BY <1>1, <1>6, <1>7, <1>9, <1>11, <2>4, <2>6, <2>8, <2>9, <2>10, <2>11 DEF b, q, cq
<1>12. QED
  BY <1>2, <1>10, <1>11

(* quote_pump_buy_v3_exact_in: both legs are paid for. *)
LEMMA V3InPays ==
  ASSUME NEW c \in V3Curves, NEW n \in Nat, V3ExactIn(c, n) # V3None
  PROVE  V3LegsPay(c, V3ExactIn(c, n))
<1>1. PICK cb \in Nat, cq \in Nat, pb \in Nat, pq \in Nat :
           /\ V3ExactIn(c, n) = V3Result(cb, cq, pb, pq, c)
           /\ cq = V3CurveCost(cb, c) /\ PaysFor(cq, cb, c.y, c.x)
           /\ \/ pb = 0
              \/ /\ pq > 1 /\ V3PoolBase(c) \in Nat /\ V3PoolQuote(c, cq) \in Nat
                 /\ PaysFor(pq - 1, pb, V3PoolQuote(c, cq), V3PoolBase(c))
  BY V3InAnswers
<1>2. CASE pb = 0
  BY <1>1, <1>2, V3ResultPays
<1>3. CASE pb # 0
  <2> DEFINE b == V3PoolBase(c)
             q == V3PoolQuote(c, cq)
  <2>1. pq > 1 /\ b \in Nat /\ q \in Nat /\ PaysFor(pq - 1, pb, q, b)
    BY <1>1, <1>3
  <2> HIDE DEF b, q
  <2>2. PaysFor(pq, pb, q, b)
    BY <2>1, PaysForLess
  <2>3. QED
    BY <1>1, <2>1, <2>2, V3ResultPays DEF b, q
<1>4. QED
  BY <1>2, <1>3

(* No amount, no fee. *)
LEMMA V3NothingCostsNothing ==
  ASSUME NEW c \in V3Curves
  PROVE  V3Fees(0, c) = 0
<1>1. \A bps \in Nat : FeeOf(0, bps) = 0
  BY Z3 DEF FeeOf, CeilDiv
<1>2. c.fee \in Nat /\ c.creator \in Nat
  BY V3Fields
<1>3. QED
  BY <1>1, <1>2 DEF V3Fees

(* What an answer costs is the sum of its legs and fees. *)
LEMMA V3ResultCost ==
  ASSUME NEW c \in V3Curves, NEW cb \in Nat, NEW cq \in Nat, NEW pb \in Nat, NEW pq \in Nat, NEW k \in Nat,
         cq + V3Fees(cq, c) + pq + V3Fees(pq, c) <= k
  PROVE  V3Result(cb, cq, pb, pq, c).cost <= k
<1> DEFINE cost == cq + pq + V3Fees(cq, c) + V3Fees(pq, c)
<1>1. V3Fees(cq, c) \in Nat /\ V3Fees(pq, c) \in Nat
  BY V3FeesAreNat
<1>2. cost \in Nat /\ cost <= k
  BY <1>1
<1>3. V3Result(cb, cq, pb, pq, c).cost = cost \/ V3Result(cb, cq, pb, pq, c).cost = 0
  BY DEF V3Result, V3None
<1> HIDE DEF cost
<1>4. QED
  BY <1>2, <1>3

(* The answer to a budget is within it, and so is asking for that many tokens. *)
LEMMA V3BudgetBuys ==
  ASSUME NEW c \in V3Curves, NEW n \in Nat, V3ExactIn(c, n) # V3None
  PROVE  LET r == V3ExactIn(c, n)
         IN r.cost <= n /\ V3ExactOut(c, r.curveBase + r.poolBase, FALSE).cost <= n
<1>1. PICK cb \in Nat, cq \in Nat, pb \in Nat, pq \in Nat :
           /\ V3ExactIn(c, n) = V3Result(cb, cq, pb, pq, c)
           /\ ~ V3Invalid(c)
           /\ cb <= c.left /\ cq = V3CurveCost(cb, c) /\ PaysFor(cq, cb, c.y, c.x)
           /\ cq + V3Fees(cq, c) <= n
           /\ \/ pb = 0 /\ pq = 0
              \/ /\ pb > 0 /\ pq > 1 /\ cb = c.left /\ ~ c.mayhem /\ ~ V3NoPool(c, cq)
                 /\ V3PoolBase(c) \in Nat \ {0} /\ V3PoolQuote(c, cq) \in Nat \ {0}
                 /\ PaysFor(pq - 1, pb, V3PoolQuote(c, cq), V3PoolBase(c))
                 /\ cq + V3Fees(cq, c) + pq + V3Fees(pq, c) <= n
  BY V3InAnswers
<1> DEFINE r == V3ExactIn(c, n)
<1>2. r.curveBase = cb /\ r.poolBase = pb
  BY <1>1 DEF V3Result, V3None
<1>3. V3Fees(cq, c) \in Nat /\ V3Fees(pq, c) \in Nat /\ c.left \in Nat
  BY V3FeesAreNat, V3Fields
<1>4. CASE pb = 0 /\ pq = 0
  <2>1. cq + V3Fees(cq, c) + 0 + V3Fees(0, c) <= n
    BY <1>1, <1>3, V3NothingCostsNothing
  <2>2. V3Result(cb, cq, 0, 0, c).cost <= n
    BY <2>1, V3ResultCost
  <2>3. Least(cb + 0, c.left) = cb /\ cb + 0 <= c.left
    BY <1>1, <1>3 DEF Least
  <2>4. V3ExactOut(c, cb + 0, FALSE) = V3Result(cb, cq, 0, 0, c)
    BY <1>1, <2>3 DEF V3ExactOut
  <2>5. QED
    BY <1>1, <1>2, <1>4, <2>2, <2>4
<1>5. CASE pb > 0 /\ ~ (pb = 0 /\ pq = 0)
  <2> DEFINE b  == V3PoolBase(c)
             q  == V3PoolQuote(c, cq)
             pr == CeilDiv(q * pb, b - pb)
             m  == cb + pb
  <2>1. /\ pq > 1 /\ cb = c.left /\ ~ c.mayhem /\ ~ V3NoPool(c, cq)
        /\ b \in Nat \ {0} /\ q \in Nat \ {0}
        /\ PaysFor(pq - 1, pb, q, b) /\ cq + V3Fees(cq, c) + pq + V3Fees(pq, c) <= n
    BY <1>1, <1>5
  <2>2. V3Result(cb, cq, pb, pq, c).cost <= n
    BY <2>1, V3ResultCost
  <2>3. Least(m, c.left) = cb /\ ~ (m <= c.left) /\ m - cb = pb
    BY <1>3, <1>5, <2>1 DEF Least
  <2> HIDE DEF b, q, m
  <2>4. pq - 1 \in Nat
    BY <2>1
  <2>5. pb < b
    BY <2>1, <2>4, PaidForLeavesSome
  <2>6. pr \in Nat
    BY <2>1, <2>5, AskedPays
  <2>7. pr <= pq - 1
    <3>1. b \in Nat /\ q \in Nat /\ pb \in Int /\ pb <= pb
      BY <2>1
    <3>2. QED
      BY <2>1, <2>4, <2>5, <3>1, CostWithin
  <2> HIDE DEF pr
  <2>8. V3Fees(pr, c) \in Nat /\ V3Fees(pr, c) <= V3Fees(pq, c)
    BY <2>4, <2>6, <2>7, V3FeesAreNat
  <2>9. cq + V3Fees(cq, c) + pr + V3Fees(pr, c) <= n
    BY <1>3, <2>1, <2>4, <2>6, <2>7, <2>8
  <2>10. V3Result(cb, cq, pb, pr, c).cost <= n
    BY <2>6, <2>9, V3ResultCost
  <2>11. ~ (pb >= b)
    BY <2>1, <2>5
  <2>12. V3ExactOut(c, m, FALSE) = V3Result(cb, cq, pb, pr, c)
    BY <1>1, <2>1, <2>3, <2>11 DEF V3ExactOut, pr, b, q
  <2>13. QED
    BY <1>1, <1>2, <2>2, <2>10, <2>12 DEF m
<1>6. QED
  BY <1>1, <1>4, <1>5

(* Every question and its answer: the amounts asked about are numbers. *)
AskedOf(how, m, n, q) == asked' = [how |-> how, of |-> m, amount |-> n] /\ quote' = q

(* What a swap leaves of the question and its answer. *)
LEMMA SwapAsked ==
  ASSUME NEW how, NEW n, NEW STATE q, BuysX(how, n, q) \/ SellsX(how, n, q)
  PROVE  AskedOf(how, market, n, q) /\ q # NoQuote
  BY DEF BuysX, SellsX, Answered, AskedOf

(* The other questions promise nothing. *)
LEMMA HarmlessQuestions ==
  ASSUME asked'.how \notin {"budget", "proceeds", "price", "buy out", "in", "v3 budget", "v3 amount"}
  PROVE  QuotesHold'
  BY DEF QuotesHold, V3PoolsNeverLose, BudgetSuffices

(* The telling questions one by one. *)
LEMMA BudgetAnswered ==
  ASSUME market \in PumpSwapPools, NEW n \in Nat, n <= U64Max,
         AskedOf("budget", market, n, PumpSwapBuyQuote(market, n)), PumpSwapBuyQuote(market, n) # NoQuote
  PROVE  QuotesHold'
<1>1. asked'.how = "budget" /\ asked'.of = market /\ asked'.amount = n /\ quote' = PumpSwapBuyQuote(market, n)
  BY DEF AskedOf
<1>2. quote'.got > 0 => PumpSwapBuyBase(market, quote'.got) # NoQuote /\ PumpSwapBuyBase(market, quote'.got).paid <= n
  BY <1>1, BudgetBuysBase
<1>3. V3PoolsNeverLose'
  BY <1>1 DEF V3PoolsNeverLose
<1>4. BudgetSuffices'
  BY <1>1, <1>2 DEF BudgetSuffices
<1>5. QED
  BY <1>3, <1>4 DEF QuotesHold

LEMMA ProceedsAnswered ==
  ASSUME market \in PumpSwapPools, NEW n \in Nat, n <= U64Max,
         AskedOf("proceeds", market, n, PumpSwapSellQuote(market, n)), PumpSwapSellQuote(market, n) # NoQuote
  PROVE  QuotesHold'
<1>1. asked'.how = "proceeds" /\ asked'.of = market /\ asked'.amount = n /\ quote' = PumpSwapSellQuote(market, n)
  BY DEF AskedOf
<1>2. PumpSwapSellBase(market, quote'.paid) # NoQuote => PumpSwapSellBase(market, quote'.paid).got + 2 >= n
  BY <1>1, ProceedsArrive
<1>3. V3PoolsNeverLose'
  BY <1>1 DEF V3PoolsNeverLose
<1>4. BudgetSuffices'
  BY <1>1, <1>2 DEF BudgetSuffices
<1>5. QED
  BY <1>3, <1>4 DEF QuotesHold

LEMMA PriceAnswered ==
  ASSUME market \in CurveAccounts, NEW n \in Nat, n <= U64Max,
         AskedOf("price", market, n, CurvePrice(market, n)), CurvePrice(market, n) # NoQuote
  PROVE  QuotesHold'
<1>1. asked'.how = "price" /\ asked'.of = market /\ asked'.amount = n /\ quote' = CurvePrice(market, n)
  BY DEF AskedOf
<1>2. market.fee = 0 /\ market.y - market.start <= quote'.got => CurveBuyOut(market, quote'.got).paid <= n
  BY <1>1, PriceBuysThatMany
<1>3. V3PoolsNeverLose'
  BY <1>1 DEF V3PoolsNeverLose
<1>4. BudgetSuffices'
  BY <1>1, <1>2 DEF BudgetSuffices
<1>5. QED
  BY <1>3, <1>4 DEF QuotesHold

LEMMA BuyOutAnswered ==
  ASSUME market \in CurveAccounts, NEW n \in Nat, n <= U64Max,
         AskedOf("buy out", market, n, CurveBuyOut(market, n)), CurveBuyOut(market, n) # NoQuote
  PROVE  QuotesHold'
<1>1. asked'.how = "buy out" /\ asked'.of = market /\ asked'.amount = n /\ quote' = CurveBuyOut(market, n)
  BY DEF AskedOf
<1>2. Fits(quote'.dx, market.fee) => quote'.paid >= quote'.dx
  BY <1>1, BuyOutIsPaid
<1>3. V3PoolsNeverLose'
  BY <1>1 DEF V3PoolsNeverLose
<1>4. BudgetSuffices'
  BY <1>1, <1>2 DEF BudgetSuffices
<1>5. QED
  BY <1>3, <1>4 DEF QuotesHold

LEMMA AmountInAnswered ==
  ASSUME market \in PlainPools, NEW n \in Nat, n <= U64Max,
         AskedOf("in", market, n, FeeIn(market, n)), FeeIn(market, n) # NoQuote
  PROVE  QuotesHold'
<1>1. asked'.how = "in" /\ asked'.of = market /\ asked'.amount = n /\ quote' = FeeIn(market, n)
  BY DEF AskedOf
<1>2. FeeOut(market, quote'.paid).got >= n
  BY <1>1, AmountInBuys
<1>3. V3PoolsNeverLose'
  BY <1>1 DEF V3PoolsNeverLose
<1>4. BudgetSuffices'
  BY <1>1, <1>2 DEF BudgetSuffices
<1>5. QED
  BY <1>3, <1>4 DEF QuotesHold

(* Both questions about V3. *)
LEMMA V3Answered ==
  ASSUME MarketTypeOK, OnPumpV3
  PROVE  QuotesHold'
<1>1. PICK n \in Amounts : \/ OnV3("v3 budget", n, V3ExactIn(market, n))
                           \/ \E partial \in BOOLEAN : OnV3("v3 amount", n, V3ExactOut(market, n, partial))
  BY DEF OnPumpV3
<1>2. n \in Nat /\ market \in V3Curves
  BY <1>1, AmountsAreNat, ByVenue DEF OnV3, MarketTypeOK
<1>3. CASE OnV3("v3 budget", n, V3ExactIn(market, n))
  <2> DEFINE r == V3ExactIn(market, n)
  <2>1. /\ asked'.how = "v3 budget" /\ asked'.of = market /\ asked'.amount = n
        /\ quote' = r /\ r # V3None
    BY <1>3 DEF OnV3
  <2>2. /\ V3LegsPay(market, r)
        /\ r.cost <= n /\ V3ExactOut(market, r.curveBase + r.poolBase, FALSE).cost <= n
    BY <1>2, <2>1, V3InPays, V3BudgetBuys
  <2> HIDE DEF r
  <2>3. V3PoolsNeverLose'
    BY <2>1, <2>2 DEF V3PoolsNeverLose, V3LegsPay
  <2>4. BudgetSuffices'
    BY <2>1, <2>2 DEF BudgetSuffices
  <2>5. QED
    BY <2>3, <2>4 DEF QuotesHold
<1>4. CASE \E partial \in BOOLEAN : OnV3("v3 amount", n, V3ExactOut(market, n, partial))
  <2>1. PICK partial \in BOOLEAN : OnV3("v3 amount", n, V3ExactOut(market, n, partial))
    BY <1>4
  <2> DEFINE r == V3ExactOut(market, n, partial)
  <2>2. asked'.how = "v3 amount" /\ asked'.of = market /\ quote' = r /\ r # V3None
    BY <2>1 DEF OnV3
  <2>3. V3LegsPay(market, r)
    BY <1>2, <2>2, V3OutPays
  <2> HIDE DEF r
  <2>4. V3PoolsNeverLose'
    BY <2>2, <2>3 DEF V3PoolsNeverLose, V3LegsPay
  <2>5. BudgetSuffices'
    BY <2>2 DEF BudgetSuffices
  <2>6. QED
    BY <2>4, <2>5 DEF QuotesHold
<1>5. QED
  BY <1>1, <1>3, <1>4

(* Which question a swap answered. *)
LEMMA SwapHow ==
  ASSUME NEW how, NEW n, NEW STATE q, BuysX(how, n, q) \/ SellsX(how, n, q)
  PROVE  asked'.how = how
<1>1. asked' = [how |-> how, of |-> market, amount |-> n]
  BY SwapAsked DEF AskedOf
<1>2. QED
  BY <1>1

(* One lemma per venue: whatever is asked, the answer is what it says. *)
LEMMA PumpFunAnswered ==
  ASSUME MarketTypeOK, OnPumpFun
  PROVE  QuotesHold'
<1>1. PICK n \in Amounts :
        /\ market.venue = "pumpfun"
        /\ \/ BuysX("curve buy", n, PumpFunBuy(market, n))
           \/ SellsX("curve sell", n, PumpFunSell(market, n))
  BY DEF OnPumpFun
<1>3. CASE \/ BuysX("curve buy", n, PumpFunBuy(market, n))
           \/ SellsX("curve sell", n, PumpFunSell(market, n))
  <2>1. asked'.how \in {"curve buy", "curve sell"}
    BY <1>3, SwapHow
  <2>2. QED
    BY <2>1, HarmlessQuestions
<1>4. QED
  BY <1>1, <1>3

LEMMA CurveAccountAnswered ==
  ASSUME MarketTypeOK, OnCurveAccount
  PROVE  QuotesHold'
<1>1. PICK n \in Amounts :
        /\ market.venue = "curve"
        /\ \/ BuysX("price", n, CurvePrice(market, n))
           \/ BuysX("buy out", n, CurveBuyOut(market, n))
           \/ SellsX("sell price", n, CurveSellPrice(market, n))
  BY DEF OnCurveAccount
<1>2. market \in CurveAccounts /\ n \in Nat /\ n <= U64Max
  BY <1>1, ByVenue, AmountsAreNat DEF MarketTypeOK
<1>3. CASE BuysX("price", n, CurvePrice(market, n))
  BY <1>2, <1>3, SwapAsked, PriceAnswered
<1>4. CASE BuysX("buy out", n, CurveBuyOut(market, n))
  BY <1>2, <1>4, SwapAsked, BuyOutAnswered
<1>5. CASE \/ SellsX("sell price", n, CurveSellPrice(market, n))
  <2>1. asked'.how \in {"sell price"}
    BY <1>5, SwapHow
  <2>2. QED
    BY <2>1, HarmlessQuestions
<1>6. QED
  BY <1>1, <1>3, <1>4, <1>5

LEMMA PumpSwapAnswered ==
  ASSUME MarketTypeOK, OnPumpSwap
  PROVE  QuotesHold'
<1>1. PICK n \in Amounts :
        /\ market.venue = "pumpswap"
        /\ \/ BuysX("base", n, PumpSwapBuyBase(market, n))
           \/ BuysX("budget", n, PumpSwapBuyQuote(market, n))
           \/ SellsX("sell base", n, PumpSwapSellBase(market, n))
           \/ SellsX("proceeds", n, PumpSwapSellQuote(market, n))
  BY DEF OnPumpSwap
<1>2. market \in PumpSwapPools /\ n \in Nat /\ n <= U64Max
  BY <1>1, ByVenue, AmountsAreNat DEF MarketTypeOK
<1>3. CASE BuysX("budget", n, PumpSwapBuyQuote(market, n))
  BY <1>2, <1>3, SwapAsked, BudgetAnswered
<1>4. CASE SellsX("proceeds", n, PumpSwapSellQuote(market, n))
  BY <1>2, <1>4, SwapAsked, ProceedsAnswered
<1>5. CASE \/ BuysX("base", n, PumpSwapBuyBase(market, n))
           \/ SellsX("sell base", n, PumpSwapSellBase(market, n))
  <2>1. asked'.how \in {"base", "sell base"}
    BY <1>5, SwapHow
  <2>2. QED
    BY <2>1, HarmlessQuestions
<1>6. QED
  BY <1>1, <1>3, <1>4, <1>5

LEMMA BonkAnswered ==
  ASSUME MarketTypeOK, OnBonk
  PROVE  QuotesHold'
<1>1. PICK n \in Amounts :
        /\ market.venue = "bonk"
        /\ \/ BuysX("buy", n, BonkBuy(market, n))
           \/ SellsX("sell", n, BonkSell(market, n))
           \/ SellsX("out", n, BonkAmountOut(market, n))
           \/ SellsX("in", n, BonkAmountIn(market, n))
  BY DEF OnBonk
<1>2. market \in PlainPools /\ n \in Nat /\ n <= U64Max
  BY <1>1, ByVenue, AmountsAreNat DEF MarketTypeOK
<1>3. CASE SellsX("in", n, BonkAmountIn(market, n))
  BY <1>2, <1>3, SwapAsked, VenueRates, AmountInAnswered
<1>4. CASE \/ BuysX("buy", n, BonkBuy(market, n))
           \/ SellsX("sell", n, BonkSell(market, n))
           \/ SellsX("out", n, BonkAmountOut(market, n))
  <2>1. asked'.how \in {"buy", "sell", "out"}
    BY <1>4, SwapHow
  <2>2. QED
    BY <2>1, HarmlessQuestions
<1>5. QED
  BY <1>1, <1>3, <1>4

LEMMA AmmV4Answered ==
  ASSUME MarketTypeOK, OnAmmV4
  PROVE  QuotesHold'
<1>1. PICK n \in Amounts :
        /\ market.venue = "amm v4"
        /\ \/ SellsX("swap", n, AmmV4Swap(market, n))
           \/ SellsX("plain", n, AmmV4PlainSwap(market, n))
           \/ SellsX("out", n, AmmV4AmountOut(market, n))
           \/ SellsX("in", n, AmmV4AmountIn(market, n))
  BY DEF OnAmmV4
<1>2. market \in PlainPools /\ n \in Nat /\ n <= U64Max
  BY <1>1, ByVenue, AmountsAreNat DEF MarketTypeOK
<1>3. CASE SellsX("in", n, AmmV4AmountIn(market, n))
  BY <1>2, <1>3, SwapAsked, VenueRates, AmountInAnswered
<1>4. CASE \/ SellsX("swap", n, AmmV4Swap(market, n))
           \/ SellsX("plain", n, AmmV4PlainSwap(market, n))
           \/ SellsX("out", n, AmmV4AmountOut(market, n))
  <2>1. asked'.how \in {"swap", "plain", "out"}
    BY <1>4, SwapHow
  <2>2. QED
    BY <2>1, HarmlessQuestions
<1>5. QED
  BY <1>1, <1>3, <1>4

LEMMA CpmmAnswered ==
  ASSUME MarketTypeOK, OnCpmm
  PROVE  QuotesHold'
<1>1. PICK n \in Amounts :
        /\ market.venue = "cpmm"
        /\ \/ SellsX("swap", n, CpmmSwap(market, n))
           \/ SellsX("compute", n, CpmmComputeSwap(market, n))
           \/ SellsX("plain", n, CpmmPlainSwap(market, n))
           \/ SellsX("out", n, CpmmAmountOut(market, n))
           \/ SellsX("in", n, CpmmAmountIn(market, n))
  BY DEF OnCpmm
<1>2. market \in PlainPools /\ n \in Nat /\ n <= U64Max
  BY <1>1, ByVenue, AmountsAreNat DEF MarketTypeOK
<1>3. CASE SellsX("in", n, CpmmAmountIn(market, n))
  BY <1>2, <1>3, SwapAsked, VenueRates, AmountInAnswered
<1>4. CASE \/ SellsX("swap", n, CpmmSwap(market, n))
           \/ SellsX("compute", n, CpmmComputeSwap(market, n))
           \/ SellsX("plain", n, CpmmPlainSwap(market, n))
           \/ SellsX("out", n, CpmmAmountOut(market, n))
  <2>1. asked'.how \in {"swap", "compute", "plain", "out"}
    BY <1>4, SwapHow
  <2>2. QED
    BY <2>1, HarmlessQuestions
<1>5. QED
  BY <1>1, <1>3, <1>4

LEMMA DammV2Answered ==
  ASSUME MarketTypeOK, OnDammV2
  PROVE  QuotesHold'
<1>1. PICK n \in Amounts :
        /\ market.venue = "damm v2"
        /\ \/ SellsX("plain", n, DammV2Swap(market, n))
  BY DEF OnDammV2
<1>3. CASE \/ SellsX("plain", n, DammV2Swap(market, n))
  <2>1. asked'.how \in {"plain"}
    BY <1>3, SwapHow
  <2>2. QED
    BY <2>1, HarmlessQuestions
<1>4. QED
  BY <1>1, <1>3

(* Every step keeps what the answered question promises. *)
LEMMA AnswersHold ==
  ASSUME MarketTypeOK, QuotesHold, [QuotesNext]_quoteVars
  PROVE  QuotesHold'
<1>1. CASE Meet \/ UNCHANGED quoteVars
  <2>1. asked' = asked /\ quote' = quote
    BY <1>1 DEF Meet, quoteVars
  <2>2. V3PoolsNeverLose'
    BY <2>1, Zenon DEF QuotesHold, V3PoolsNeverLose
  <2>3. BudgetSuffices'
    BY <2>1, Zenon DEF QuotesHold, BudgetSuffices
  <2>4. QED
    BY <2>2, <2>3 DEF QuotesHold
<1>2. CASE Leave
  <2>1. asked'.how = "nothing"
    BY <1>2 DEF Leave, NoQuestion
  <2>2. QED
    BY <2>1, HarmlessQuestions
<1>3. CASE OnPumpV3
  BY <1>3, V3Answered
<1>4. CASE OnPumpFun
  BY <1>4, PumpFunAnswered
<1>5. CASE OnCurveAccount
  BY <1>5, CurveAccountAnswered
<1>6. CASE OnPumpSwap
  BY <1>6, PumpSwapAnswered
<1>7. CASE OnBonk
  BY <1>7, BonkAnswered
<1>8. CASE OnAmmV4
  BY <1>8, AmmV4Answered
<1>9. CASE OnCpmm
  BY <1>9, CpmmAnswered
<1>10. CASE OnDammV2
  BY <1>10, DammV2Answered
<1>11. QED
  BY <1>1, <1>2, <1>3, <1>4, <1>5, <1>6, <1>7, <1>8, <1>9, <1>10 DEF QuotesNext

(* For all reserves, fees and amounts up to 64 bits: the legs of a V3 quote are each
   paid for, and a quote agrees with the one that asks the other way round. *)
THEOREM QuotesAreWhatTheySay == QuotesSpec => []QuotesHold
<1> DEFINE Inv == MarketTypeOK /\ QuotesHold
<1>1. QuotesInit => Inv
  <2>1. QuotesInit => asked.how = "nothing"
    BY DEF QuotesInit, NoQuestion
  <2>2. QED
    BY <2>1 DEF QuotesInit, MarketTypeOK, QuotesHold, V3PoolsNeverLose, BudgetSuffices
<1>2. Inv /\ [QuotesNext]_quoteVars => Inv'
  BY SwapsKeepWorth, AnswersHold
<1>3. QED
  BY <1>1, <1>2, PTL DEF QuotesSpec

-----------------------------------------------------------------------------
(* TradePlan, for any wallets, requests, rates and slippage.  The chain runs
   a plan instruction by instruction; the wallets on the way exist. *)
AfterEach(f, w, s, size) ==
    /\ f[0] = w
    /\ \A n \in 1 .. size : f[n] = RunOne(f[n - 1], s[n])

LEMMA WalletsOnTheWay ==
  ASSUME NEW w, NEW s, NEW size \in Nat
  PROVE  \E f : AfterEach(f, w, s, size)
<1> DEFINE Reaches(m) == \E f : AfterEach(f, w, s, m)
           Bad == {m \in Nat : ~Reaches(m)}
           Less == {ss \in Nat \X Nat : ss[1] < ss[2]}
<1>1. Reaches(0)
  <2> DEFINE f == [n \in {0} |-> w]
  <2>1. f[0] = w /\ 1 .. 0 = {}
    OBVIOUS
  <2>2. AfterEach(f, w, s, 0)
    BY <2>1 DEF AfterEach
  <2>3. QED
    BY <2>2
<1>2. ASSUME NEW m \in Nat, Reaches(m) PROVE Reaches(m + 1)
  <2>1. PICK f : AfterEach(f, w, s, m)
    BY <1>2
  <2> DEFINE g == [n \in 0 .. m + 1 |-> IF n = m + 1 THEN RunOne(f[m], s[m + 1]) ELSE f[n]]
  <2>2. /\ 0 \in 0 .. m + 1 /\ 0 # m + 1 /\ (m + 1) - 1 = m
        /\ \A n \in 1 .. m + 1 : /\ n \in 0 .. m + 1 /\ n - 1 \in 0 .. m + 1 /\ n - 1 # m + 1
                                 /\ n = m + 1 \/ n \in 1 .. m
    OBVIOUS
  <2>3. g[0] = w
    BY <2>1, <2>2 DEF AfterEach
  <2>4. \A n \in 1 .. m + 1 : /\ g[n - 1] = f[n - 1]
                              /\ g[n] = IF n = m + 1 THEN RunOne(f[m], s[m + 1]) ELSE f[n]
    BY <2>2
  <2>5. \A n \in 1 .. m + 1 : g[n] = RunOne(g[n - 1], s[n])
    <3> TAKE n \in 1 .. m + 1
    <3>1. CASE n = m + 1
      BY <2>2, <2>4, <3>1
    <3>2. CASE n # m + 1
      <4>1. f[n] = RunOne(f[n - 1], s[n])
        BY <2>1, <2>2, <3>2 DEF AfterEach
      <4>2. QED
        BY <2>4, <3>2, <4>1
    <3>3. QED
      BY <3>1, <3>2
  <2> HIDE DEF g
  <2>6. AfterEach(g, w, s, m + 1)
    BY <2>3, <2>5 DEF AfterEach
  <2>7. QED
    BY <2>6
<1>3. Bad = {}
  <2> SUFFICES ASSUME Bad # {} PROVE FALSE
    OBVIOUS
  <2>1. IsWellFoundedOn(Less, Nat)
    BY NatLessThanWellFounded DEF OpToRel
  <2>2. Bad \subseteq Nat
    OBVIOUS
  <2> HIDE DEF Bad, Less
  <2>3. PICK m \in Bad : \A h \in Bad : ~ (<<h, m>> \in Less)
    BY <2>1, <2>2, WFMin
  <2>4. m \in Nat /\ \A h \in Bad : ~ (h < m)
    BY <2>2, <2>3 DEF Less
  <2>5. m # 0 /\ ~Reaches(m)
    BY <1>1, <2>4 DEF Bad
  <2>6. m - 1 \in Nat /\ m - 1 < m /\ (m - 1) + 1 = m
    BY <2>4, <2>5
  <2> HIDE DEF Reaches
  <2>7. Reaches(m - 1)
    BY <2>4, <2>6 DEF Bad
  <2>8. QED
    BY <1>2, <2>5, <2>6, <2>7
<1>4. QED
  <2>1. size \notin Bad
    BY <1>3
  <2>2. QED
    BY <2>1

(* They are what Run is about. *)
LEMMA RunIs ==
  ASSUME NEW w, NEW s, Len(s) \in Nat
  PROVE  \E f : AfterEach(f, w, s, Len(s)) /\ Run(w, s) = f[Len(s)]
<1> DEFINE size == Len(s)
           Rule(f) == [n \in 0 .. size |-> IF n = 0 THEN w ELSE RunOne(f[n - 1], s[n])]
           after == CHOOSE f : f = Rule(f)
<1>1. PICK f : AfterEach(f, w, s, size)
  BY WalletsOnTheWay
<1> DEFINE g == [n \in 0 .. size |-> f[n]]
<1>2. \A n \in 1 .. size : n # 0 /\ n - 1 \in 0 .. size
  OBVIOUS
<1>3. g = Rule(g)
  <2>1. \A n \in 0 .. size : f[n] = IF n = 0 THEN w ELSE RunOne(g[n - 1], s[n])
    <3> TAKE n \in 0 .. size
    <3>1. CASE n = 0
      BY <1>1, <3>1 DEF AfterEach
    <3>2. CASE n # 0
      <4>1. n \in 1 .. size
        BY <3>2
      <4>2. g[n - 1] = f[n - 1]
        BY <1>2, <4>1
      <4>3. QED
        BY <1>1, <3>2, <4>1, <4>2 DEF AfterEach
    <3>3. QED
      BY <3>1, <3>2
  <2>2. QED
    BY <2>1
<1>4. after = Rule(after)
  BY <1>3
<1>5. Run(w, s) = after[size]
  BY DEF Run
<1> HIDE DEF after
<1>6. AfterEach(after, w, s, size)
  <2>1. \A n \in 0 .. size : after[n] = IF n = 0 THEN w ELSE RunOne(after[n - 1], s[n])
    BY <1>4
  <2>2. 0 \in 0 .. size /\ \A n \in 1 .. size : n \in 0 .. size /\ n # 0
    OBVIOUS
  <2>3. QED
    BY <2>1, <2>2 DEF AfterEach
<1>7. QED
  BY <1>5, <1>6

(* Instructions that move nothing between currencies, and the swap of a request
   made at the rate "at". *)
Mints == {"SOL", "WSOL", "USDC", "TOKEN"}
Preparing ==
    [op : {"create"}, mint : Mints] \union [op : {"wrap"}, n : Nat]
    \union [op : {"close"}, mint : {"WSOL", "TOKEN"}]
Hows == {"exactIn", "exactOut", "rangedIn", "rangedOut", "partial"}
Swaps == [op : Hows, pay : Mints, get : Mints, in : Nat, out : Nat]
Exchanges(r, at) ==
    {i \in Swaps : /\ (IF r.buy THEN i.get ELSE i.pay) = "TOKEN"
                   /\ Mint(IF r.buy THEN i.pay ELSE i.get) = Mint(r.with)
                   /\ i.in <= MostIn(r) /\ i.out >= Wanted(r, at)}

(* What a wallet holds of each currency, wrapped or not. *)
Whole == {"SOL", "USDC", "TOKEN"}
Kept(b, w) == \A c \in Whole : Held(w, c) = Held(b, c)
Exchanged(b, w, r, at) ==
    LET paid == IF r.buy THEN r.with ELSE "TOKEN"
        got  == IF r.buy THEN "TOKEN" ELSE r.with
    IN /\ Held(b, paid) - Held(w, paid) <= MostIn(r)
       /\ Held(w, got) - Held(b, got) >= Wanted(r, at)
       /\ \A other \in Whole : Held(w, other) # Held(b, other) => Mint(other) \in {Mint(paid), Mint(got)}

(* A wallet is told from a rejection and from none at all. *)
LEMMA PurseShape ==
  ASSUME NEW w \in Purses
  PROVE  w # Failed /\ w # NoWallet
<1>1. "SOL" \in DOMAIN w /\ "SOL" \notin DOMAIN Failed /\ "SOL" \notin DOMAIN NoWallet
  BY DEF Purses, Failed, NoWallet
<1>2. QED
  BY <1>1

(* Held, of each currency. *)
LEMMA HeldIs ==
  ASSUME NEW w \in Purses
  PROVE  /\ w.SOL \in Nat /\ w.WSOL \in Nat \union {Closed}
         /\ w.USDC \in Nat \union {Closed} /\ w.TOKEN \in Nat \union {Closed}
         /\ Held(w, "SOL") = w.SOL + (IF w.WSOL = Closed THEN 0 ELSE w.WSOL)
         /\ Held(w, "WSOL") = Held(w, "SOL")
         /\ Held(w, "USDC") = (IF w.USDC = Closed THEN 0 ELSE w.USDC)
         /\ Held(w, "TOKEN") = (IF w.TOKEN = Closed THEN 0 ELSE w.TOKEN)
         /\ Held(w, "SOL") \in Nat /\ Held(w, "USDC") \in Nat /\ Held(w, "TOKEN") \in Nat
<1>1. /\ w.SOL \in Nat /\ w.WSOL \in Nat \union {Closed}
      /\ w.USDC \in Nat \union {Closed} /\ w.TOKEN \in Nat \union {Closed}
  BY DEF Purses
<1>2. /\ Held(w, "SOL") = w.SOL + (IF w.WSOL = Closed THEN 0 ELSE w.WSOL)
      /\ Held(w, "WSOL") = Held(w, "SOL")
      /\ Held(w, "USDC") = (IF w.USDC = Closed THEN 0 ELSE w.USDC)
      /\ Held(w, "TOKEN") = (IF w.TOKEN = Closed THEN 0 ELSE w.TOKEN)
  BY DEF Held, Balance
<1>3. QED
  BY <1>1, <1>2

(* Another amount at one place of the wallet. *)
Put(w, m, n) == [w EXCEPT ![m] = n]

LEMMA PutIs ==
  ASSUME NEW w \in Purses, NEW m \in Mints, NEW n \in Nat \union {Closed}, m = "SOL" => n \in Nat
  PROVE  Put(w, m, n) \in Purses /\ \A o \in Mints : Put(w, m, n)[o] = IF o = m THEN n ELSE w[o]
<1> USE DEF Put, Purses, Mints
<1>1. CASE m = "SOL"
  BY <1>1
<1>2. CASE m = "WSOL"
  BY <1>2
<1>3. CASE m = "USDC"
  BY <1>3
<1>4. CASE m = "TOKEN"
  BY <1>4
<1>5. QED
  BY <1>1, <1>2, <1>3, <1>4

LEMMA PutAt ==
  ASSUME NEW w \in Purses, NEW m, NEW n, NEW o \in Mints
  PROVE  Put(w, m, n)[o] = IF o = m THEN n ELSE w[o]
<1>1. DOMAIN w = Mints
  BY DEF Purses, Mints
<1>2. QED
  BY <1>1 DEF Put

(* Wrapping changes two of them, and closing an account two. *)
LEMMA PutBoth ==
  ASSUME NEW w \in Purses, NEW a \in Nat, NEW b \in Nat
  PROVE  LET v == Put(Put(w, "SOL", a), "WSOL", b)
         IN v \in Purses /\ v.SOL = a /\ v.WSOL = b /\ v.USDC = w.USDC /\ v.TOKEN = w.TOKEN
<1> DEFINE u == Put(w, "SOL", a)
           v == Put(u, "WSOL", b)
<1>1. u \in Purses /\ \A p \in Mints : u[p] = IF p = "SOL" THEN a ELSE w[p]
  BY PutIs DEF Mints
<1> HIDE DEF u
<1>2. v \in Purses /\ \A p \in Mints : v[p] = IF p = "WSOL" THEN b ELSE u[p]
  BY <1>1, PutIs DEF Mints
<1> HIDE DEF v
<1>3. QED
  BY <1>1, <1>2 DEF Mints, u, v

LEMMA PutClosed ==
  ASSUME NEW w \in Purses, NEW m \in {"WSOL", "TOKEN"}, NEW a \in Nat
  PROVE  LET v == Put(Put(w, m, Closed), "SOL", a)
         IN /\ v \in Purses /\ v.SOL = a /\ v.USDC = w.USDC
            /\ v.WSOL = (IF m = "WSOL" THEN Closed ELSE w.WSOL)
            /\ v.TOKEN = (IF m = "TOKEN" THEN Closed ELSE w.TOKEN)
<1> DEFINE u == Put(w, m, Closed)
           v == Put(u, "SOL", a)
<1>1. u \in Purses /\ \A p \in Mints : u[p] = IF p = m THEN Closed ELSE w[p]
  <2>1. m \in Mints /\ m # "SOL" /\ Closed \in Nat \union {Closed}
    BY DEF Mints
  <2>2. Put(w, m, Closed) \in Purses
    BY <2>1, PutIs
  <2>3. \A o \in Mints : Put(w, m, Closed)[o] = IF o = m THEN Closed ELSE w[o]
    <3>1. DOMAIN w = Mints
      BY DEF Purses, Mints
    <3>2. QED
      BY <3>1 DEF Put
  <2>4. QED
    BY <2>2, <2>3
<1> HIDE DEF u
<1>2. v \in Purses /\ \A p \in Mints : v[p] = IF p = "SOL" THEN a ELSE u[p]
  BY <1>1, PutIs DEF Mints
<1> HIDE DEF v
<1>3. \A p \in Mints : v[p] = IF p = "SOL" THEN a ELSE IF p = m THEN Closed ELSE w[p]
  BY <1>1, <1>2
<1>4. /\ v.SOL = a /\ v.USDC = w.USDC
      /\ v.WSOL = (IF m = "WSOL" THEN Closed ELSE w.WSOL)
      /\ v.TOKEN = (IF m = "TOKEN" THEN Closed ELSE w.TOKEN)
  BY <1>3 DEF Mints
<1>5. QED
  BY <1>2, <1>4 DEF u, v

(* Preparing accounts keeps what the wallet holds. *)
LEMMA PreparingKeeps ==
  ASSUME NEW w \in Purses, NEW i \in Preparing, RunOne(w, i) # Failed
  PROVE  RunOne(w, i) \in Purses /\ Kept(w, RunOne(w, i))
<1> DEFINE v == RunOne(w, i)
<1>1. /\ w # Failed
  BY PurseShape DEF Preparing
<1>2. CASE i \in [op : {"create"}, mint : Mints]
  <2>1. i.op = "create" /\ i.mint \in Mints
    BY <1>2
  <2>2. v = IF w[i.mint] = Closed THEN [w EXCEPT ![i.mint] = 0] ELSE w
    BY <1>1, <2>1 DEF RunOne
  <2>3. CASE w[i.mint] # Closed
    BY <2>2, <2>3 DEF Kept
  <2>4. CASE w[i.mint] = Closed
    <3>1. v = Put(w, i.mint, 0)
      BY <2>2, <2>4 DEF Put
    <3> HIDE DEF v
    <3>2. /\ v \in Purses /\ v[i.mint] = 0
          /\ \A o \in Mints : o # i.mint => v[o] = w[o]
      BY <2>1, <3>1, PutIs
    <3>3. w.SOL # Closed
      BY HeldIs DEF Closed
    <3>4. Kept(w, v)
      BY <2>1, <2>4, <3>2, <3>3, HeldIs DEF Kept, Whole, Mints
    <3>5. QED
      BY <3>2, <3>4 DEF v
  <2>5. QED
    BY <2>3, <2>4
<1>3. CASE i \in [op : {"wrap"}, n : Nat]
  <2>1. i.op = "wrap" /\ i.n \in Nat
    BY <1>3
  <2>2. v = IF w.SOL < i.n \/ w.WSOL = Closed THEN Failed
            ELSE [w EXCEPT !.SOL = @ - i.n, !.WSOL = @ + i.n]
    BY <1>1, <2>1 DEF RunOne
  <2>3. v = [w EXCEPT !.SOL = @ - i.n, !.WSOL = @ + i.n] /\ ~ (w.SOL < i.n) /\ w.WSOL # Closed
    BY <2>2
  <2>4. w.SOL \in Nat /\ w.WSOL \in Nat /\ w.SOL - i.n \in Nat /\ w.WSOL + i.n \in Nat
    BY <2>1, <2>3, HeldIs
  <2> DEFINE a == w.SOL - i.n
             b == w.WSOL + i.n
  <2>5. v = Put(Put(w, "SOL", a), "WSOL", b)
    BY <2>3 DEF Put
  <2>6. a \in Nat /\ b \in Nat /\ a + b = w.SOL + w.WSOL
    BY <2>1, <2>4
  <2> HIDE DEF v, a, b
  <2>7. v.SOL = a /\ v.WSOL = b /\ v.USDC = w.USDC /\ v.TOKEN = w.TOKEN /\ v \in Purses
    BY <2>5, <2>6, PutBoth
  <2>8. Held(v, "SOL") = a + b /\ Held(w, "SOL") = w.SOL + w.WSOL
    <3>1. /\ Held(v, "SOL") = v.SOL + (IF v.WSOL = Closed THEN 0 ELSE v.WSOL)
          /\ Held(w, "SOL") = w.SOL + (IF w.WSOL = Closed THEN 0 ELSE w.WSOL)
      BY <2>7, HeldIs
    <3>2. b # Closed /\ w.WSOL # Closed
      BY <2>4, <2>6 DEF Closed
    <3>3. QED
      BY <2>7, <3>1, <3>2
  <2>9. Held(v, "USDC") = Held(w, "USDC") /\ Held(v, "TOKEN") = Held(w, "TOKEN")
    BY <2>7, HeldIs
  <2>10. Kept(w, v)
    BY <2>6, <2>8, <2>9 DEF Kept, Whole
  <2>11. QED
    BY <2>7, <2>10 DEF v
<1>4. CASE i \in [op : {"close"}, mint : {"WSOL", "TOKEN"}]
  <2>1. i.op = "close" /\ i.mint \in {"WSOL", "TOKEN"}
    BY <1>4
  <2>2. v = IF w[i.mint] = Closed \/ (i.mint # "WSOL" /\ w[i.mint] > 0) THEN Failed
            ELSE [w EXCEPT ![i.mint] = Closed, !.SOL = @ + (IF i.mint = "WSOL" THEN w.WSOL ELSE 0)]
    BY <1>1, <2>1 DEF RunOne
  <2>3. /\ v = [w EXCEPT ![i.mint] = Closed, !.SOL = @ + (IF i.mint = "WSOL" THEN w.WSOL ELSE 0)]
        /\ w[i.mint] # Closed /\ ~ (i.mint # "WSOL" /\ w[i.mint] > 0)
    BY <2>2
  <2> HIDE DEF v
  <2>4. CASE i.mint = "WSOL"
    <3>1. v = [w EXCEPT !.WSOL = Closed, !.SOL = @ + w.WSOL] /\ w.WSOL # Closed
      BY <2>3, <2>4
    <3>2. w.SOL \in Nat /\ w.WSOL \in Nat
      BY <3>1, HeldIs
    <3> DEFINE a == w.SOL + w.WSOL
    <3>3. v = Put(Put(w, "WSOL", Closed), "SOL", a) /\ a \in Nat /\ a = w.SOL + w.WSOL
      <4>1. v = Put(Put(w, "WSOL", Closed), "SOL", a)
        BY <3>1 DEF Put
      <4>2. QED
        BY <3>2, <4>1
    <3> HIDE DEF a
    <3>4. v.SOL = a /\ v.WSOL = Closed /\ v.USDC = w.USDC /\ v.TOKEN = w.TOKEN /\ v \in Purses
      BY <3>3, PutClosed
    <3>5. Held(v, "SOL") = a /\ Held(w, "SOL") = a
      <4>1. /\ Held(v, "SOL") = v.SOL + (IF v.WSOL = Closed THEN 0 ELSE v.WSOL)
            /\ Held(w, "SOL") = w.SOL + (IF w.WSOL = Closed THEN 0 ELSE w.WSOL)
        BY <3>4, HeldIs
      <4>2. QED
        BY <3>1, <3>3, <3>4, <4>1 DEF a
    <3>6. Held(v, "USDC") = Held(w, "USDC") /\ Held(v, "TOKEN") = Held(w, "TOKEN")
      BY <3>4, HeldIs
    <3>7. QED
      BY <3>4, <3>5, <3>6 DEF v, Kept, Whole
  <2>5. CASE i.mint = "TOKEN"
    <3>1. v = [w EXCEPT !.TOKEN = Closed, !.SOL = @ + 0] /\ w.TOKEN # Closed /\ ~ (w.TOKEN > 0)
      BY <2>3, <2>5
    <3>2. w.SOL \in Nat /\ w.TOKEN = 0
      BY <3>1, HeldIs
    <3> DEFINE a == w.SOL + 0
    <3>3. v = Put(Put(w, "TOKEN", Closed), "SOL", a) /\ a \in Nat /\ a = w.SOL
      <4>1. v = Put(Put(w, "TOKEN", Closed), "SOL", a)
        BY <3>1 DEF Put
      <4>2. QED
        BY <3>2, <4>1
    <3> HIDE DEF a
    <3>4. v.SOL = a /\ v.WSOL = w.WSOL /\ v.USDC = w.USDC /\ v.TOKEN = Closed /\ v \in Purses
      BY <3>3, PutClosed
    <3>5. Held(v, "SOL") = Held(w, "SOL") /\ Held(v, "USDC") = Held(w, "USDC")
      BY <3>3, <3>4, HeldIs
    <3>6. Held(v, "TOKEN") = 0 /\ Held(w, "TOKEN") = 0
      BY <3>2, <3>4, HeldIs
    <3>7. QED
      BY <3>4, <3>5, <3>6 DEF v, Kept, Whole
  <2>6. QED
    BY <2>1, <2>4, <2>5
<1>5. QED
  BY <1>2, <1>3, <1>4 DEF Preparing

(* Slippage takes from what is asked for, and adds to what is paid. *)
LEMMA SlippageBounds ==
  ASSUME NEW n \in Nat
  PROVE  /\ SlippageSell(n, Slippage) \in Nat /\ SlippageSell(n, Slippage) <= n
         /\ SlippageBuy(n, Slippage) \in Nat
         /\ n <= U64Max => n <= SlippageBuy(n, Slippage)
<1> DEFINE c == Clamped(Slippage)
           d == (n * c) \div 10000
<1>1. c \in 0 .. 9999
  BY PlanAssumption DEF Clamped, Least
<1> HIDE DEF c
<1>2. n * c \in Nat /\ n * c <= n * 10000
  BY <1>1
<1>3. d \in Nat /\ d <= n
  <2> DEFINE p == n * c
  <2>1. p \in Nat /\ p <= n * 10000
    BY <1>2
  <2> HIDE DEF p
  <2>2. p \div 10000 \in Nat /\ p \div 10000 <= n
    BY <2>1
  <2>3. QED
    BY <2>2 DEF p
<1>4. SlippageSell(n, Slippage) = n - d /\ SlippageBuy(n, Slippage) = Least(U64Max, n + d)
  BY DEF SlippageSell, SlippageBuy, c
<1> HIDE DEF d
<1>5. QED
  BY <1>3, <1>4, WidthIsNat DEF Least

(* The limits of a request. *)
LEMMA LimitsAre ==
  ASSUME NEW r \in Shapes, NEW at \in Nat \ {0}
  PROVE  /\ MostIn(r) \in Nat /\ r.n <= MostIn(r)
         /\ Wanted(r, at) \in Nat
         /\ r.kind = "fixed" => Wanted(r, at) = r.fixed
         /\ r.kind # "fixed" => Wanted(r, at) = SlippageSell(IF r.buy THEN r.n * at ELSE r.n \div at, Slippage)
<1>1. r.n \in Nat /\ r.fixed \in Nat /\ r.buy \in BOOLEAN /\ (r.kind = "max" => r.n <= U64Max)
  BY DEF Shapes
<1>2. MostIn(r) \in Nat /\ r.n <= MostIn(r)
  BY <1>1, SlippageBounds DEF MostIn
<1>3. (IF r.buy THEN r.n * at ELSE r.n \div at) \in Nat
  <2> DEFINE n == r.n
  <2>1. n \in Nat
    BY <1>1
  <2> HIDE DEF n
  <2>2. n * at \in Nat /\ n \div at \in Nat
    BY <2>1
  <2>3. QED
    BY <2>2 DEF n
<1>4. QED
  BY <1>1, <1>2, <1>3, SlippageBounds DEF Wanted

(* A swap moves what it says, if it moves anything. *)
LEMMA SwappedIs ==
  ASSUME NEW w \in Purses, NEW i \in Swaps, i.pay # i.get, NEW paid \in Nat, NEW got \in Nat,
         Swapped(w, i, paid, got) # Failed
  PROVE  LET v == Swapped(w, i, paid, got)
         IN /\ v \in Purses /\ w[i.pay] \in Nat /\ w[i.get] \in Nat /\ w[i.pay] - paid \in Nat
            /\ \A o \in Mints : v[o] = IF o = i.get THEN w[o] + got
                                      ELSE IF o = i.pay THEN w[o] - paid ELSE w[o]
<1> DEFINE v == Swapped(w, i, paid, got)
           a == w[i.pay] - paid
           b == w[i.get] + got
           u == Put(w, i.pay, a)
<1>1. /\ ~ (w[i.pay] = Closed \/ w[i.get] = Closed \/ w[i.pay] < paid)
      /\ v = [w EXCEPT ![i.pay] = @ - paid, ![i.get] = @ + got]
  BY DEF Swapped
<1>2. i.pay \in Mints /\ i.get \in Mints
  BY DEF Swaps
<1>3. \A m \in Mints : w[m] \in Nat \union {Closed}
  BY DEF Purses, Mints
<1>4. w[i.pay] \in Nat /\ w[i.get] \in Nat /\ a \in Nat /\ b \in Nat
  BY <1>1, <1>2, <1>3
<1>5. u \in Purses /\ u[i.get] = w[i.get]
  <2> HIDE DEF a
  <2>1. Put(w, i.pay, a) \in Purses
    BY <1>2, <1>4, PutIs
  <2>2. Put(w, i.pay, a)[i.get] = w[i.get]
    BY <1>2, PutAt
  <2>3. QED
    BY <2>1, <2>2
<1>6. v = Put(u, i.get, b)
  BY <1>1, <1>5 DEF Put
<1> HIDE DEF v, a, b
<1>7. \A o \in Mints : u[o] = IF o = i.pay THEN a ELSE w[o]
  BY PutAt
<1> HIDE DEF u
<1>8. v \in Purses /\ \A o \in Mints : v[o] = IF o = i.get THEN b ELSE u[o]
  <2>1. Put(u, i.get, b) \in Purses
    BY <1>2, <1>4, <1>5, PutIs
  <2>2. \A o \in Mints : Put(u, i.get, b)[o] = IF o = i.get THEN b ELSE u[o]
    BY <1>5, PutAt
  <2>3. QED
    BY <1>6, <2>1, <2>2
<1>9. \A o \in Mints : v[o] = IF o = i.get THEN w[o] + got ELSE IF o = i.pay THEN w[o] - paid ELSE w[o]
  BY <1>7, <1>8 DEF a, b
<1>10. QED
  BY <1>4, <1>8, <1>9 DEF v, a

(* The sums behind it. *)
LEMMA SwappedHolds ==
  ASSUME NEW w \in Purses, NEW v \in Purses, NEW pay \in Mints, NEW get \in Mints,
         NEW paid \in Nat, NEW got \in Nat, w[pay] \in Nat, w[get] \in Nat, w[pay] - paid \in Nat,
         \A o \in Mints : v[o] = IF o = get THEN w[o] + got ELSE IF o = pay THEN w[o] - paid ELSE w[o]
  PROVE  /\ get = "TOKEN" /\ pay \in {"SOL", "WSOL"} =>
               /\ Held(v, "TOKEN") = Held(w, "TOKEN") + got /\ Held(v, "USDC") = Held(w, "USDC")
               /\ Held(v, "SOL") = Held(w, "SOL") - paid
         /\ get = "TOKEN" /\ pay = "USDC" =>
               /\ Held(v, "TOKEN") = Held(w, "TOKEN") + got /\ Held(v, "SOL") = Held(w, "SOL")
               /\ Held(v, "USDC") = Held(w, "USDC") - paid
         /\ pay = "TOKEN" /\ get \in {"SOL", "WSOL"} =>
               /\ Held(v, "TOKEN") = Held(w, "TOKEN") - paid /\ Held(v, "USDC") = Held(w, "USDC")
               /\ Held(v, "SOL") = Held(w, "SOL") + got
         /\ pay = "TOKEN" /\ get = "USDC" =>
               /\ Held(v, "TOKEN") = Held(w, "TOKEN") - paid /\ Held(v, "SOL") = Held(w, "SOL")
               /\ Held(v, "USDC") = Held(w, "USDC") + got
<1>1. /\ Held(w, "SOL") = w.SOL + (IF w.WSOL = Closed THEN 0 ELSE w.WSOL)
      /\ Held(w, "USDC") = (IF w.USDC = Closed THEN 0 ELSE w.USDC)
      /\ Held(w, "TOKEN") = (IF w.TOKEN = Closed THEN 0 ELSE w.TOKEN)
      /\ w.SOL \in Nat /\ w.WSOL \in Nat \union {Closed}
      /\ w.USDC \in Nat \union {Closed} /\ w.TOKEN \in Nat \union {Closed}
  BY HeldIs
<1>2. /\ Held(v, "SOL") = v.SOL + (IF v.WSOL = Closed THEN 0 ELSE v.WSOL)
      /\ Held(v, "USDC") = (IF v.USDC = Closed THEN 0 ELSE v.USDC)
      /\ Held(v, "TOKEN") = (IF v.TOKEN = Closed THEN 0 ELSE v.TOKEN)
      /\ v.SOL \in Nat /\ v.WSOL \in Nat \union {Closed}
      /\ v.USDC \in Nat \union {Closed} /\ v.TOKEN \in Nat \union {Closed}
  BY HeldIs
<1>3. Closed = -1 /\ "SOL" \in Mints /\ "WSOL" \in Mints /\ "USDC" \in Mints /\ "TOKEN" \in Mints
  BY DEF Closed, Mints
<1>4. /\ v.SOL = IF "SOL" = get THEN w.SOL + got ELSE IF "SOL" = pay THEN w.SOL - paid ELSE w.SOL
      /\ v.WSOL = IF "WSOL" = get THEN w.WSOL + got ELSE IF "WSOL" = pay THEN w.WSOL - paid ELSE w.WSOL
      /\ v.USDC = IF "USDC" = get THEN w.USDC + got ELSE IF "USDC" = pay THEN w.USDC - paid ELSE w.USDC
      /\ v.TOKEN = IF "TOKEN" = get THEN w.TOKEN + got ELSE IF "TOKEN" = pay THEN w.TOKEN - paid ELSE w.TOKEN
  BY <1>3
<1>5. ASSUME get = "TOKEN", pay \in {"SOL", "WSOL"}
      PROVE  /\ Held(v, "TOKEN") = Held(w, "TOKEN") + got /\ Held(v, "USDC") = Held(w, "USDC")
             /\ Held(v, "SOL") = Held(w, "SOL") - paid
  <2>1. /\ v.TOKEN = w.TOKEN + got /\ v.USDC = w.USDC /\ w.TOKEN \in Nat
        /\ \/ v.SOL = w.SOL - paid /\ v.WSOL = w.WSOL
           \/ v.SOL = w.SOL /\ v.WSOL = w.WSOL - paid /\ w.WSOL \in Nat /\ v.WSOL \in Nat
    BY <1>4, <1>5
  <2>2. QED
    BY <1>1, <1>2, <1>3, <2>1
<1>6. ASSUME get = "TOKEN", pay = "USDC"
      PROVE  /\ Held(v, "TOKEN") = Held(w, "TOKEN") + got /\ Held(v, "SOL") = Held(w, "SOL")
             /\ Held(v, "USDC") = Held(w, "USDC") - paid
  <2>1. /\ v.TOKEN = w.TOKEN + got /\ w.TOKEN \in Nat /\ v.SOL = w.SOL /\ v.WSOL = w.WSOL
        /\ v.USDC = w.USDC - paid /\ w.USDC \in Nat /\ v.USDC \in Nat
    BY <1>4, <1>6
  <2>2. QED
    BY <1>1, <1>2, <1>3, <2>1
<1>7. ASSUME pay = "TOKEN", get \in {"SOL", "WSOL"}
      PROVE  /\ Held(v, "TOKEN") = Held(w, "TOKEN") - paid /\ Held(v, "USDC") = Held(w, "USDC")
             /\ Held(v, "SOL") = Held(w, "SOL") + got
  <2>1. /\ v.TOKEN = w.TOKEN - paid /\ v.USDC = w.USDC /\ w.TOKEN \in Nat /\ v.TOKEN \in Nat
        /\ \/ v.SOL = w.SOL + got /\ v.WSOL = w.WSOL
           \/ v.SOL = w.SOL /\ v.WSOL = w.WSOL + got /\ w.WSOL \in Nat
    BY <1>4, <1>7
  <2>2. QED
    BY <1>1, <1>2, <1>3, <2>1
<1>8. ASSUME pay = "TOKEN", get = "USDC"
      PROVE  /\ Held(v, "TOKEN") = Held(w, "TOKEN") - paid /\ Held(v, "SOL") = Held(w, "SOL")
             /\ Held(v, "USDC") = Held(w, "USDC") + got
  <2>1. /\ v.TOKEN = w.TOKEN - paid /\ w.TOKEN \in Nat /\ v.TOKEN \in Nat /\ v.SOL = w.SOL /\ v.WSOL = w.WSOL
        /\ v.USDC = w.USDC + got /\ w.USDC \in Nat
    BY <1>4, <1>8
  <2>2. QED
    BY <1>1, <1>2, <1>3, <2>1
<1>9. QED
  BY <1>5, <1>6, <1>7, <1>8

(* What the chain pays for an amount, and asks for one. *)
LEMMA PricesAre ==
  ASSUME rate \in Nat \ {0}, NEW i, NEW n \in Nat
  PROVE  Gets(i, n) \in Nat /\ Costs(i, n) \in Nat
<1>1. n * rate \in Nat /\ n \div rate \in Nat /\ n + rate - 1 \in Nat
  OBVIOUS
<1>2. (n + rate - 1) \div rate \in Nat
  <2> DEFINE m == n + rate - 1
  <2>1. m \in Nat
    BY <1>1
  <2> HIDE DEF m
  <2>2. m \div rate \in Nat
    BY <2>1
  <2>3. QED
    BY <2>2 DEF m
<1>3. QED
  BY <1>1, <1>2 DEF Gets, Costs, CeilDiv

(* A swap that is not rejected takes no more than it may and brings no less than it
   has to, however it was asked for. *)
LEMMA SwapIs ==
  ASSUME NEW w, w # Failed, NEW i \in Swaps, rate \in Nat \ {0}, RunOne(w, i) # Failed
  PROVE  \E paid, got \in Nat :
           RunOne(w, i) = Swapped(w, i, paid, got) /\ paid <= i.in /\ got >= i.out
<1> DEFINE v == RunOne(w, i)
           in == i.in
           out == i.out
           takes == PoolTakes[i.pay]
           filled == Least(in, takes)
<1>1. i.op \in Hows /\ in \in Nat /\ out \in Nat /\ takes \in Nat
  BY PlanAssumption DEF Swaps, Mints, Paying
<1>2. \A n \in Nat : Gets(i, n) \in Nat /\ Costs(i, n) \in Nat
  BY PricesAre
<1>3. filled \in Nat /\ filled <= in
  BY <1>1 DEF Least
<1> DEFINE gets(n) == Gets(i, n)
           costs == Costs(i, out)
<1>4. /\ i.op = "exactIn" => v = IF gets(in) < out THEN Failed ELSE Swapped(w, i, in, gets(in))
      /\ i.op = "exactOut" => v = IF costs > in THEN Failed ELSE Swapped(w, i, costs, out)
      /\ i.op = "rangedIn" => v = IF in > takes \/ gets(in) < out THEN Failed
                                   ELSE Swapped(w, i, in, gets(in))
      /\ i.op = "rangedOut" => v = IF costs > filled THEN Failed ELSE Swapped(w, i, costs, out)
      /\ i.op = "partial" => v = IF gets(filled) < out THEN Failed
                                 ELSE Swapped(w, i, filled, gets(filled))
  BY DEF RunOne
<1>5. gets(in) \in Nat /\ gets(filled) \in Nat /\ costs \in Nat
  BY <1>1, <1>2, <1>3
<1> DEFINE whole == gets(in)
           part == gets(filled)
<1>6. /\ i.op = "exactIn" => v = IF whole < out THEN Failed ELSE Swapped(w, i, in, whole)
      /\ i.op = "exactOut" => v = IF costs > in THEN Failed ELSE Swapped(w, i, costs, out)
      /\ i.op = "rangedIn" => v = IF in > takes \/ whole < out THEN Failed
                                   ELSE Swapped(w, i, in, whole)
      /\ i.op = "rangedOut" => v = IF costs > filled THEN Failed ELSE Swapped(w, i, costs, out)
      /\ i.op = "partial" => v = IF part < out THEN Failed ELSE Swapped(w, i, filled, part)
  BY <1>4
<1>7. v # Failed /\ whole \in Nat /\ part \in Nat /\ costs \in Nat
  BY <1>5
<1> HIDE DEF v, whole, part, costs, filled, takes, in, out, gets
<1>8. CASE i.op \in {"exactIn", "rangedIn"}
  <2>1. v = Swapped(w, i, in, whole) /\ ~ (whole < out)
    BY <1>6, <1>7, <1>8
  <2>2. in <= in /\ whole >= out
    BY <1>1, <1>7, <2>1
  <2>3. QED
    BY <1>1, <1>7, <2>1, <2>2 DEF v, in, out
<1>9. CASE i.op \in {"exactOut", "rangedOut"}
  <2>1. v = Swapped(w, i, costs, out) /\ (~ (costs > in) \/ ~ (costs > filled))
    BY <1>6, <1>7, <1>9
  <2>2. costs <= in /\ out >= out
    BY <1>1, <1>3, <1>7, <2>1
  <2>3. QED
    BY <1>1, <1>7, <2>1, <2>2 DEF v, in, out
<1>10. CASE i.op = "partial"
  <2>1. v = Swapped(w, i, filled, part) /\ ~ (part < out)
    BY <1>6, <1>7, <1>10
  <2>2. part >= out
    BY <1>1, <1>7, <2>1
  <2>3. QED
    BY <1>1, <1>3, <1>7, <2>1, <2>2 DEF v, in, out
<1>11. QED
  BY <1>1, <1>8, <1>9, <1>10 DEF Hows

(* A swap that is not rejected keeps to the limits of the request, whatever the
   rate has become. *)
LEMMA ExchangeDoes ==
  ASSUME NEW w \in Purses, NEW r \in Shapes, NEW at \in Nat \ {0},
         rate \in Nat \ {0}, NEW i \in Exchanges(r, at), RunOne(w, i) # Failed
  PROVE  RunOne(w, i) \in Purses /\ Exchanged(w, RunOne(w, i), r, at)
<1> DEFINE v == RunOne(w, i)
<1>1. w # Failed
  BY PurseShape
<1>2. /\ i \in Swaps /\ i.in <= MostIn(r) /\ i.out >= Wanted(r, at)
      /\ (IF r.buy THEN i.get ELSE i.pay) = "TOKEN" /\ Mint(IF r.buy THEN i.pay ELSE i.get) = Mint(r.with)
  BY DEF Exchanges
<1>3. i.pay \in Mints /\ i.get \in Mints /\ i.in \in Nat /\ i.out \in Nat
  BY <1>2 DEF Swaps
<1>4. MostIn(r) \in Nat /\ Wanted(r, at) \in Nat /\ r.with \in Paying /\ r.buy \in BOOLEAN
  BY LimitsAre DEF Shapes
<1>5. \E paid, got \in Nat : v = Swapped(w, i, paid, got) /\ paid <= MostIn(r) /\ got >= Wanted(r, at)
  <2> DEFINE in == i.in
             out == i.out
             most == MostIn(r)
             wanted == Wanted(r, at)
  <2>1. PICK paid \in Nat, got \in Nat : v = Swapped(w, i, paid, got) /\ paid <= in /\ got >= out
    BY <1>1, <1>2, SwapIs
  <2>2. in \in Nat /\ out \in Nat /\ most \in Nat /\ wanted \in Nat /\ in <= most /\ out >= wanted
    BY <1>2, <1>3, <1>4
  <2> HIDE DEF v, in, out, most, wanted
  <2>3. paid <= most /\ got >= wanted
    BY <2>1, <2>2
  <2>4. QED
    BY <2>1, <2>3 DEF most, wanted
<1>6. PICK paid \in Nat, got \in Nat :
        v = Swapped(w, i, paid, got) /\ paid <= MostIn(r) /\ got >= Wanted(r, at)
  BY <1>5
<1> HIDE DEF v
<1>7. v # Failed
  BY DEF v
<1>8. /\ r.buy => i.get = "TOKEN" /\ (r.with = "USDC" => i.pay = "USDC")
                  /\ (r.with # "USDC" => i.pay \in {"SOL", "WSOL"})
      /\ ~r.buy => i.pay = "TOKEN" /\ (r.with = "USDC" => i.get = "USDC")
                   /\ (r.with # "USDC" => i.get \in {"SOL", "WSOL"})
  BY <1>2, <1>3, <1>4 DEF Mint, Mints, Paying
<1>9. i.pay # i.get
  BY <1>4, <1>8
<1>10. /\ v \in Purses /\ w[i.pay] \in Nat /\ w[i.get] \in Nat /\ w[i.pay] - paid \in Nat
       /\ \A o \in Mints : v[o] = IF o = i.get THEN w[o] + got
                                 ELSE IF o = i.pay THEN w[o] - paid ELSE w[o]
  BY <1>2, <1>6, <1>7, <1>9, SwappedIs
<1> DEFINE pay == i.pay
           get == i.get
<1>11. /\ get = "TOKEN" /\ pay \in {"SOL", "WSOL"} =>
            /\ Held(v, "TOKEN") = Held(w, "TOKEN") + got /\ Held(v, "USDC") = Held(w, "USDC")
            /\ Held(v, "SOL") = Held(w, "SOL") - paid
       /\ get = "TOKEN" /\ pay = "USDC" =>
            /\ Held(v, "TOKEN") = Held(w, "TOKEN") + got /\ Held(v, "SOL") = Held(w, "SOL")
            /\ Held(v, "USDC") = Held(w, "USDC") - paid
       /\ pay = "TOKEN" /\ get \in {"SOL", "WSOL"} =>
            /\ Held(v, "TOKEN") = Held(w, "TOKEN") - paid /\ Held(v, "USDC") = Held(w, "USDC")
            /\ Held(v, "SOL") = Held(w, "SOL") + got
       /\ pay = "TOKEN" /\ get = "USDC" =>
            /\ Held(v, "TOKEN") = Held(w, "TOKEN") - paid /\ Held(v, "SOL") = Held(w, "SOL")
            /\ Held(v, "USDC") = Held(w, "USDC") + got
  <2>1. pay \in Mints /\ get \in Mints
    BY <1>3
  <2>2. /\ w[pay] \in Nat /\ w[get] \in Nat /\ w[pay] - paid \in Nat
        /\ \A o \in Mints : v[o] = IF o = get THEN w[o] + got ELSE IF o = pay THEN w[o] - paid ELSE w[o]
    BY <1>10
  <2> HIDE DEF pay, get
  <2>3. QED
    BY <1>10, <2>1, <2>2, SwappedHolds
<1>12. /\ Held(w, "SOL") \in Nat /\ Held(w, "USDC") \in Nat /\ Held(w, "TOKEN") \in Nat
       /\ Held(w, "WSOL") = Held(w, "SOL") /\ Held(v, "WSOL") = Held(v, "SOL")
  BY <1>10, HeldIs
<1>13. CASE r.buy
  <2>1. CASE r.with = "USDC"
    <3>1. /\ Held(v, "TOKEN") = Held(w, "TOKEN") + got /\ Held(v, "SOL") = Held(w, "SOL")
          /\ Held(v, "USDC") = Held(w, "USDC") - paid
      BY <1>8, <1>11, <1>13, <2>1
    <3>2. Exchanged(w, v, r, at)
      <4>1. /\ Held(w, r.with) - Held(v, r.with) <= MostIn(r)
            /\ Held(v, "TOKEN") - Held(w, "TOKEN") >= Wanted(r, at)
        BY <1>4, <1>6, <1>12, <2>1, <3>1
      <4>2. \A other \in Whole : Held(v, other) # Held(w, other) => Mint(other) \in {Mint(r.with), Mint("TOKEN")}
        BY <2>1, <3>1 DEF Whole
      <4>3. QED
        BY <1>13, <4>1, <4>2 DEF Exchanged
    <3>3. QED
      BY <1>10, <3>2 DEF v
  <2>2. CASE r.with # "USDC"
    <3>1. /\ Held(v, "TOKEN") = Held(w, "TOKEN") + got /\ Held(v, "USDC") = Held(w, "USDC")
          /\ Held(v, "SOL") = Held(w, "SOL") - paid /\ Held(w, r.with) = Held(w, "SOL")
          /\ Held(v, r.with) = Held(v, "SOL") /\ Mint(r.with) = Mint("SOL")
      BY <1>4, <1>8, <1>11, <1>12, <1>13, <2>2 DEF Paying, Mint
    <3>2. Exchanged(w, v, r, at)
      <4>1. /\ Held(w, r.with) - Held(v, r.with) <= MostIn(r)
            /\ Held(v, "TOKEN") - Held(w, "TOKEN") >= Wanted(r, at)
        BY <1>4, <1>6, <1>12, <3>1
      <4>2. \A other \in Whole : Held(v, other) # Held(w, other) => Mint(other) \in {Mint(r.with), Mint("TOKEN")}
        BY <3>1 DEF Whole
      <4>3. QED
        BY <1>13, <4>1, <4>2 DEF Exchanged
    <3>3. QED
      BY <1>10, <3>2 DEF v
  <2>3. QED
    BY <2>1, <2>2
<1>14. CASE ~r.buy
  <2>1. CASE r.with = "USDC"
    <3>1. /\ Held(v, "TOKEN") = Held(w, "TOKEN") - paid /\ Held(v, "SOL") = Held(w, "SOL")
          /\ Held(v, "USDC") = Held(w, "USDC") + got
      BY <1>8, <1>11, <1>14, <2>1
    <3>2. Exchanged(w, v, r, at)
      <4>1. /\ Held(w, "TOKEN") - Held(v, "TOKEN") <= MostIn(r)
            /\ Held(v, r.with) - Held(w, r.with) >= Wanted(r, at)
        BY <1>4, <1>6, <1>12, <2>1, <3>1
      <4>2. \A other \in Whole : Held(v, other) # Held(w, other) => Mint(other) \in {Mint("TOKEN"), Mint(r.with)}
        BY <2>1, <3>1 DEF Whole
      <4>3. QED
        BY <1>14, <4>1, <4>2 DEF Exchanged
    <3>3. QED
      BY <1>10, <3>2 DEF v
  <2>2. CASE r.with # "USDC"
    <3>1. /\ Held(v, "TOKEN") = Held(w, "TOKEN") - paid /\ Held(v, "USDC") = Held(w, "USDC")
          /\ Held(v, "SOL") = Held(w, "SOL") + got /\ Held(w, r.with) = Held(w, "SOL")
          /\ Held(v, r.with) = Held(v, "SOL") /\ Mint(r.with) = Mint("SOL")
      BY <1>4, <1>8, <1>11, <1>12, <1>14, <2>2 DEF Paying, Mint
    <3>2. Exchanged(w, v, r, at)
      <4>1. /\ Held(w, "TOKEN") - Held(v, "TOKEN") <= MostIn(r)
            /\ Held(v, r.with) - Held(w, r.with) >= Wanted(r, at)
        BY <1>4, <1>6, <1>12, <3>1
      <4>2. \A other \in Whole : Held(v, other) # Held(w, other) => Mint(other) \in {Mint("TOKEN"), Mint(r.with)}
        BY <3>1 DEF Whole
      <4>3. QED
        BY <1>14, <4>1, <4>2 DEF Exchanged
    <3>3. QED
      BY <1>10, <3>2 DEF v
  <2>3. QED
    BY <2>1, <2>2
<1>15. QED
  BY <1>13, <1>14

(* One swap among instructions that prepare: s, with one of X among any of P. *)
OneOf(s, P, X) ==
    /\ s \in Seq(P \union X)
    /\ \E k \in 1 .. Len(s) : s[k] \in X /\ \A n \in 1 .. Len(s) : n # k => s[n] \in P

LEMMA OneAlone ==
  ASSUME NEW P, NEW X, NEW i \in X
  PROVE  OneOf(<<i>>, P, X)
<1>1. <<i>> \in Seq(P \union X) /\ Len(<<i>>) = 1 /\ <<i>>[1] = i /\ 1 .. 1 = {1}
  OBVIOUS
<1>2. QED
  BY <1>1 DEF OneOf

LEMMA OneAfter ==
  ASSUME NEW P, NEW X, NEW p \in Seq(P), NEW s, OneOf(s, P, X)
  PROVE  OneOf(p \o s, P, X)
<1> DEFINE I == P \union X
           a == Len(p)
           b == Len(s)
           t == p \o s
<1>1. s \in Seq(I) /\ a \in Nat /\ b \in Nat
  BY DEF OneOf
<1>2. PICK k \in 1 .. b : s[k] \in X /\ \A n \in 1 .. b : n # k => s[n] \in P
  BY DEF OneOf
<1>3. p \in Seq(I)
  OBVIOUS
<1>4. t \in Seq(I) /\ Len(t) = a + b /\ \A n \in 1 .. a + b : t[n] = IF n <= a THEN p[n] ELSE s[n - a]
  <2> HIDE DEF I
  <2>1. QED
    BY <1>1, <1>3, ConcatProperties
<1>5. \A n \in 1 .. a : p[n] \in P
  OBVIOUS
<1> HIDE DEF a, b, t, I
<1>6. a + k \in 1 .. a + b /\ t[a + k] \in X
  <2>1. a + k \in 1 .. a + b /\ ~ (a + k <= a) /\ (a + k) - a = k
    BY <1>1
  <2>2. QED
    BY <1>2, <1>4, <2>1
<1>7. \A n \in 1 .. a + b : n # a + k => t[n] \in P
  <2> TAKE n \in 1 .. a + b
  <2> HAVE n # a + k
  <2>1. CASE n <= a
    <3>1. n \in 1 .. a
      BY <1>1, <2>1
    <3>2. QED
      BY <1>4, <1>5, <2>1, <3>1
  <2>2. CASE ~ (n <= a)
    <3>1. n - a \in 1 .. b /\ n - a # k
      BY <1>1, <2>2
    <3>2. QED
      BY <1>2, <1>4, <2>2, <3>1
  <2>3. QED
    BY <2>1, <2>2
<1>8. QED
  BY <1>4, <1>6, <1>7 DEF OneOf, t, I

LEMMA OneBefore ==
  ASSUME NEW P, NEW X, NEW p \in Seq(P), NEW s, OneOf(s, P, X)
  PROVE  OneOf(s \o p, P, X)
<1> DEFINE I == P \union X
           a == Len(s)
           b == Len(p)
           t == s \o p
<1>1. s \in Seq(I) /\ a \in Nat /\ b \in Nat
  BY DEF OneOf
<1>2. PICK k \in 1 .. a : s[k] \in X /\ \A n \in 1 .. a : n # k => s[n] \in P
  BY DEF OneOf
<1>3. p \in Seq(I)
  OBVIOUS
<1>4. t \in Seq(I) /\ Len(t) = a + b /\ \A n \in 1 .. a + b : t[n] = IF n <= a THEN s[n] ELSE p[n - a]
  <2> HIDE DEF I
  <2>1. QED
    BY <1>1, <1>3, ConcatProperties
<1>5. \A n \in 1 .. b : p[n] \in P
  OBVIOUS
<1> HIDE DEF a, b, t, I
<1>6. k \in 1 .. a + b /\ t[k] \in X
  <2>1. k \in 1 .. a + b /\ k <= a
    BY <1>1
  <2>2. QED
    BY <1>2, <1>4, <2>1
<1>7. \A n \in 1 .. a + b : n # k => t[n] \in P
  <2> TAKE n \in 1 .. a + b
  <2> HAVE n # k
  <2>1. CASE n <= a
    <3>1. n \in 1 .. a
      BY <1>1, <2>1
    <3>2. QED
      BY <1>2, <1>4, <2>1, <3>1
  <2>2. CASE ~ (n <= a)
    <3>1. n - a \in 1 .. b
      BY <1>1, <2>2
    <3>2. QED
      BY <1>4, <1>5, <2>2, <3>1
  <2>3. QED
    BY <2>1, <2>2
<1>8. QED
  BY <1>4, <1>6, <1>7 DEF OneOf, t, I

(* The pieces around a swap only prepare. *)
LEMMA Pieces ==
  ASSUME NEW mint \in Mints, NEW n \in Nat
  PROVE  /\ Create(mint) \in Seq(Preparing) /\ handle_wsol(n) \in Seq(Preparing)
         /\ Close("WSOL") \in Seq(Preparing) /\ Close("TOKEN") \in Seq(Preparing)
<1>1. \A m \in Mints : [op |-> "create", mint |-> m] \in Preparing
  BY DEF Preparing
<1>2. \A m \in Mints : Create(m) \in Seq(Preparing)
  <2>1. \A i \in Preparing : <<i>> \in Seq(Preparing)
    OBVIOUS
  <2>2. QED
    BY <1>1, <2>1 DEF Create
<1>3. [op |-> "wrap", n |-> n] \in Preparing
  BY DEF Preparing
<1>4. <<[op |-> "wrap", n |-> n]>> \in Seq(Preparing)
  BY <1>3
<1>5. handle_wsol(n) \in Seq(Preparing)
  BY <1>2, <1>4, ConcatProperties DEF handle_wsol, Mints
<1>6. [op |-> "close", mint |-> "WSOL"] \in Preparing /\ [op |-> "close", mint |-> "TOKEN"] \in Preparing
  BY DEF Preparing
<1>7. QED
  BY <1>2, <1>5, <1>6 DEF Close

LEMMA OnlyPieces ==
  ASSUME NEW c, NEW p \in Seq(Preparing)
  PROVE  Only(c, p) \in Seq(Preparing)
<1>1. <<>> \in Seq(Preparing)
  OBVIOUS
<1>2. QED
  BY <1>1 DEF Only

LEMMA FundedCarries ==
  ASSUME NEW q, NEW mint \in Paying, NEW n \in Nat, NEW swap, NEW X, OneOf(swap, Preparing, X)
  PROVE  OneOf(Funded(q, mint, n, swap), Preparing, X)
<1> DEFINE A == Only(q.createIn, IF mint = "WSOL" THEN handle_wsol(n) ELSE Create(mint))
           B == Only(q.createOut, Create("TOKEN"))
           C == Only(q.closeIn /\ mint = "WSOL", Close("WSOL"))
<1>1. A \in Seq(Preparing) /\ B \in Seq(Preparing) /\ C \in Seq(Preparing)
  <2>1. mint \in Mints /\ "TOKEN" \in Mints
    BY DEF Mints, Paying
  <2>2. (IF mint = "WSOL" THEN handle_wsol(n) ELSE Create(mint)) \in Seq(Preparing)
    BY <2>1, Pieces
  <2>3. QED
    BY <2>1, <2>2, Pieces, OnlyPieces
<1>2. Funded(q, mint, n, swap) = ((A \o B) \o swap) \o C
  BY DEF Funded
<1> HIDE DEF A, B, C
<1>3. A \o B \in Seq(Preparing)
  BY <1>1, ConcatProperties
<1>4. OneOf((A \o B) \o swap, Preparing, X)
  BY <1>3, OneAfter
<1>5. QED
  BY <1>1, <1>2, <1>4, OneBefore

LEMMA ReceivedCarries ==
  ASSUME NEW q, NEW mint \in Paying, NEW swap, NEW X, OneOf(swap, Preparing, X)
  PROVE  OneOf(Received(q, mint, swap), Preparing, X)
<1> DEFINE A == Only(q.createOut, Create(mint))
           B == Only(q.closeOut /\ mint = "WSOL", Close("WSOL"))
           C == Only(q.closeIn, Close("TOKEN"))
<1>1. A \in Seq(Preparing) /\ B \in Seq(Preparing) /\ C \in Seq(Preparing)
  <2>1. mint \in Mints /\ 0 \in Nat
    BY DEF Mints, Paying
  <2>2. QED
    BY <2>1, Pieces, OnlyPieces
<1>2. Received(q, mint, swap) = ((A \o swap) \o B) \o C
  BY DEF Received
<1> HIDE DEF A, B, C
<1>3. OneOf(A \o swap, Preparing, X)
  BY <1>1, OneAfter
<1>4. OneOf((A \o swap) \o B, Preparing, X)
  BY <1>1, <1>3, OneBefore
<1>5. QED
  BY <1>1, <1>2, <1>4, OneBefore


(* What a builder works out of a request, at the rate it finds. *)
LEMMA EstimatesAre ==
  ASSUME NEW r \in Shapes, rate \in Nat \ {0}
  PROVE  /\ Estimate(r) \in Nat /\ LeastOut(r) = Wanted(r, rate)
         /\ LeastOut(r) \in Nat /\ MostIn(r) \in Nat /\ r.n \in Nat
         /\ r.n <= MostIn(r)
         /\ r.kind # "fixed" => Wanted(r, rate) <= Estimate(r)
<1>1. r.n \in Nat /\ r.n * rate \in Nat /\ r.n \div rate \in Nat
  <2>1. r.n \in Nat
    BY DEF Shapes
  <2> DEFINE n == r.n
  <2> HIDE DEF n
  <2>2. n \in Nat => n * rate \in Nat /\ n \div rate \in Nat
    OBVIOUS
  <2>3. QED
    BY <2>1, <2>2 DEF n
<1>2. Estimate(r) \in Nat
  BY <1>1 DEF Estimate
<1>3. LeastOut(r) = Wanted(r, rate)
  BY DEF LeastOut, Wanted, Estimate
<1>4. Wanted(r, rate) \in Nat /\ MostIn(r) \in Nat /\ r.n <= MostIn(r)
  BY LimitsAre
<1>5. r.kind # "fixed" => Wanted(r, rate) = SlippageSell(Estimate(r), Slippage)
  BY DEF Estimate, Wanted
<1>6. SlippageSell(Estimate(r), Slippage) <= Estimate(r)
  BY <1>2, SlippageBounds
<1>7. QED
  BY <1>1, <1>2, <1>3, <1>4, <1>5, <1>6

(* A swap on the side of the request, between its currency and the token. *)
LEMMA SwapSuits ==
  ASSUME NEW r \in Shapes, NEW currency \in Paying, Same(r.with, currency),
         NEW a \in Nat, a <= MostIn(r), NEW b \in Nat, b >= Wanted(r, rate)
  PROVE  \A how \in Hows :
           /\ r.buy => OneOf(Swap(how, currency, "TOKEN", a, b), Preparing, Exchanges(r, rate))
           /\ ~r.buy => OneOf(Swap(how, "TOKEN", currency, a, b), Preparing, Exchanges(r, rate))
<1> TAKE how \in Hows
<1> DEFINE i(pay, get) == [op |-> how, pay |-> pay, get |-> get, in |-> a, out |-> b]
<1>1. /\ currency \in Mints /\ "TOKEN" \in Mints /\ Mint(currency) = Mint(r.with)
  BY DEF Paying, Mints, Same
<1>2. \A pay, get \in Mints : i(pay, get) \in Swaps
  BY DEF Swaps
<1>3. \A pay, get \in Mints : /\ i(pay, get).pay = pay /\ i(pay, get).get = get
                              /\ i(pay, get).in <= MostIn(r) /\ i(pay, get).out >= Wanted(r, rate)
  OBVIOUS
<1>4. \A pay, get \in Mints : Swap(how, pay, get, a, b) = <<i(pay, get)>>
  BY DEF Swap
<1> HIDE DEF i
<1>5. r.buy => i(currency, "TOKEN") \in Exchanges(r, rate)
  BY <1>1, <1>2, <1>3 DEF Exchanges
<1>6. ~r.buy => i("TOKEN", currency) \in Exchanges(r, rate)
  BY <1>1, <1>2, <1>3 DEF Exchanges
<1>7. QED
  BY <1>1, <1>4, <1>5, <1>6, OneAlone

LEMMA SwapsExchange ==
  ASSUME NEW r \in Shapes, rate \in Nat \ {0}, NEW currency \in Paying, Same(r.with, currency)
  PROVE  /\ r.buy => OneOf(CurveBuy(r, currency), Preparing, Exchanges(r, rate))
         /\ ~r.buy => OneOf(CurveSell(r, currency), Preparing, Exchanges(r, rate))
         /\ r.buy => OneOf(BaseSwap(r, currency, "TOKEN"), Preparing, Exchanges(r, rate))
         /\ ~r.buy => OneOf(BaseSwap(r, "TOKEN", currency), Preparing, Exchanges(r, rate))
         /\ \A how \in Hows :
              /\ r.buy => OneOf(Swap(how, currency, "TOKEN", r.n, LeastOut(r)), Preparing, Exchanges(r, rate))
              /\ ~r.buy => OneOf(Swap(how, "TOKEN", currency, r.n, LeastOut(r)), Preparing, Exchanges(r, rate))
<1> DEFINE X == Exchanges(r, rate)
<1>1. /\ Estimate(r) \in Nat /\ LeastOut(r) = Wanted(r, rate)
      /\ LeastOut(r) \in Nat /\ MostIn(r) \in Nat /\ r.n \in Nat /\ r.n <= MostIn(r)
      /\ r.kind # "fixed" => Wanted(r, rate) <= Estimate(r)
  BY EstimatesAre
<1>2. /\ r.kind \in {"exact", "fixed", "max"}
      /\ r.kind = "fixed" => LeastOut(r) = r.fixed
  BY DEF Shapes, LeastOut
<1>3. \A how \in Hows :
        /\ r.buy => OneOf(Swap(how, currency, "TOKEN", r.n, LeastOut(r)), Preparing, X)
        /\ ~r.buy => OneOf(Swap(how, "TOKEN", currency, r.n, LeastOut(r)), Preparing, X)
  <2> DEFINE a == r.n
             b == LeastOut(r)
  <2>1. a \in Nat /\ a <= MostIn(r) /\ b \in Nat /\ b >= Wanted(r, rate)
    BY <1>1
  <2> HIDE DEF a, b
  <2>2. \A how \in Hows :
          /\ r.buy => OneOf(Swap(how, currency, "TOKEN", a, b), Preparing, Exchanges(r, rate))
          /\ ~r.buy => OneOf(Swap(how, "TOKEN", currency, a, b), Preparing, Exchanges(r, rate))
    BY <2>1, SwapSuits
  <2>3. QED
    BY <2>2 DEF a, b
<1>4. r.buy /\ r.kind = "max" => OneOf(Swap("exactOut", currency, "TOKEN", MostIn(r), Estimate(r)), Preparing, X)
  <2> SUFFICES ASSUME r.buy, r.kind = "max"
               PROVE  OneOf(Swap("exactOut", currency, "TOKEN", MostIn(r), Estimate(r)), Preparing, X)
    OBVIOUS
  <2> DEFINE a == MostIn(r)
             b == Estimate(r)
  <2>1. a \in Nat /\ a <= MostIn(r) /\ b \in Nat /\ b >= Wanted(r, rate)
    BY <1>1, LimitsAre
  <2> HIDE DEF a, b
  <2>2. \A how \in Hows :
          /\ r.buy => OneOf(Swap(how, currency, "TOKEN", a, b), Preparing, Exchanges(r, rate))
          /\ ~r.buy => OneOf(Swap(how, "TOKEN", currency, a, b), Preparing, Exchanges(r, rate))
    BY <2>1, SwapSuits
  <2>3. QED
    BY <2>2 DEF a, b, Hows
<1>5. CurveSell(r, currency) = Swap("exactIn", "TOKEN", currency, r.n, LeastOut(r))
  BY DEF CurveSell
<1>6. /\ r.kind = "exact" => CurveBuy(r, currency) = Swap("exactIn", currency, "TOKEN", r.n, LeastOut(r))
      /\ r.kind = "fixed" => CurveBuy(r, currency) = Swap("exactOut", currency, "TOKEN", r.n, LeastOut(r))
      /\ r.kind = "max" => CurveBuy(r, currency) = Swap("exactOut", currency, "TOKEN", MostIn(r), Estimate(r))
  BY <1>2 DEF CurveBuy
<1>7. \A pay, get : \E how \in {"exactIn", "exactOut"} :
        BaseSwap(r, pay, get) = Swap(how, pay, get, r.n, LeastOut(r))
  BY DEF BaseSwap
<1>8. "exactIn" \in Hows /\ "exactOut" \in Hows
  BY DEF Hows
<1>9. QED
  BY <1>2, <1>3, <1>4, <1>5, <1>6, <1>7, <1>8

(* The exchange of a DAMM v2 pool, in each of its modes. *)
LEMMA DammV2ExchangeIs ==
  ASSUME NEW r \in Shapes, DammV2Takes(r)
  PROVE  \E how \in Hows : \A pay, get : DammV2Exchange(r, pay, get) = Swap(how, pay, get, r.n, LeastOut(r))
<1>1. LeastOut(r) = r.fixed
  BY DEF DammV2Takes, LeastOut
<1>2. \E how \in Hows : \A pay, get : DammV2Exchange(r, pay, get) = Swap(how, pay, get, r.n, r.fixed)
  BY DEF DammV2Exchange, Hows
<1>3. QED
  BY <1>1, <1>2


(* A plan for the request: nothing is sent, or one swap that suits it is. *)
Suits(r, s) == s = Refused \/ OneOf(s, Preparing, Exchanges(r, rate))

LEMMA PumpFunSuits ==
  ASSUME NEW r \in Shapes, rate \in Nat \ {0}
  PROVE  Suits(r, PumpFunAdapter(r))
<1> DEFINE X == Exchanges(r, rate)
           mint == Mint(r.pool)
<1>1. r.pool \in Paying /\ r.with \in Paying /\ r.buy \in BOOLEAN
  BY DEF Shapes
<1>2. mint \in Paying /\ mint \in Mints /\ Mint(mint) = mint /\ r.pool \in Mints /\ "SOL" \in Paying
  BY <1>1 DEF Mint, Paying, Mints
<1>3. MostIn(r) \in Nat
  BY EstimatesAre
<1>4. \A c : /\ Only(c, Create("TOKEN")) \in Seq(Preparing) /\ Only(c, Create("WSOL")) \in Seq(Preparing)
             /\ Only(c, Create(r.pool)) \in Seq(Preparing)
             /\ Only(c, Close("TOKEN")) \in Seq(Preparing) /\ Only(c, Close("WSOL")) \in Seq(Preparing)
  <2>1. /\ "TOKEN" \in Mints /\ "WSOL" \in Mints /\ 0 \in Nat
    BY DEF Mints
  <2>2. QED
    BY <1>2, <2>1, Pieces, OnlyPieces
<1>5. Suits(r, PumpFunV2Buy(r)) \/ ~r.buy
  <2> SUFFICES ASSUME Same(r.with, r.pool), r.buy PROVE OneOf(PumpFunV2Buy(r), Preparing, X)
    BY DEF Suits, PumpFunV2Buy
  <2> DEFINE q == [r EXCEPT !.createOut = FALSE]
             swap == CurveBuy(r, mint)
             n == MostIn(r)
             A == Only(r.createOut, Create("TOKEN"))
  <2>1. Same(r.with, mint)
    BY <1>2 DEF Same
  <2>2. OneOf(swap, Preparing, X)
    BY <1>2, <2>1, SwapsExchange
  <2>3. PumpFunV2Buy(r) = A \o Funded(q, mint, n, swap)
    BY DEF PumpFunV2Buy
  <2>4. A \in Seq(Preparing) /\ n \in Nat
    BY <1>3, <1>4
  <2> HIDE DEF q, swap, n, A, X, mint
  <2>5. OneOf(Funded(q, mint, n, swap), Preparing, X)
    BY <1>2, <2>2, <2>4, FundedCarries
  <2>6. QED
    BY <2>3, <2>4, <2>5, OneAfter
<1>6. Suits(r, PumpFunV2Sell(r)) \/ r.buy
  <2> SUFFICES ASSUME Same(r.with, r.pool), ~r.buy PROVE OneOf(PumpFunV2Sell(r), Preparing, X)
    BY DEF Suits, PumpFunV2Sell
  <2> DEFINE q == [r EXCEPT !.closeOut = FALSE]
             swap == CurveSell(r, mint)
  <2>1. Same(r.with, mint)
    BY <1>2 DEF Same
  <2>2. OneOf(swap, Preparing, X)
    BY <1>2, <2>1, SwapsExchange
  <2>3. PumpFunV2Sell(r) = Received(q, mint, swap)
    BY DEF PumpFunV2Sell
  <2> HIDE DEF q, swap, X, mint
  <2>4. QED
    BY <1>2, <2>2, <2>3, ReceivedCarries
<1>7. Suits(r, PumpFunV3(r))
  <2> SUFFICES ASSUME r.with = r.pool, PumpFunV3(r) # Refused PROVE OneOf(PumpFunV3(r), Preparing, X)
    BY DEF Suits, PumpFunV3
  <2> DEFINE A == Only(r.createOut, Create("TOKEN"))
             B == Only(r.createIn /\ r.pool # "SOL", Create(r.pool))
             C == Only(r.createOut /\ r.pool # "SOL", Create(r.pool))
             D == Only(r.closeIn, Close("TOKEN"))
             bought == CurveBuy(r, r.pool)
             sold == CurveSell(r, r.pool)
  <2>1. A \in Seq(Preparing) /\ B \in Seq(Preparing) /\ C \in Seq(Preparing) /\ D \in Seq(Preparing)
    BY <1>4
  <2>2. (r.buy => OneOf(bought, Preparing, X)) /\ (~r.buy => OneOf(sold, Preparing, X))
    BY <1>1, SwapsExchange DEF Same
  <2>3. PumpFunV3(r) = IF r.buy THEN (A \o B) \o bought ELSE (C \o sold) \o D
    BY DEF PumpFunV3
  <2> HIDE DEF A, B, C, D, bought, sold, X
  <2>4. A \o B \in Seq(Preparing)
    BY <2>1, ConcatProperties
  <2>5. r.buy => OneOf((A \o B) \o bought, Preparing, X)
    BY <2>2, <2>4, OneAfter
  <2>6. ~r.buy => OneOf(C \o sold, Preparing, X)
    BY <2>1, <2>2, OneAfter
  <2>7. ~r.buy => OneOf((C \o sold) \o D, Preparing, X)
    BY <2>1, <2>6, OneBefore
  <2>8. QED
    BY <2>3, <2>5, <2>7
<1>8. ASSUME r.buy, r.with = "SOL"
      PROVE  OneOf(Only(r.createOut, Create("TOKEN")) \o CurveBuy(r, "SOL"), Preparing, X)
  <2> DEFINE A == Only(r.createOut, Create("TOKEN"))
             swap == CurveBuy(r, "SOL")
  <2>1. A \in Seq(Preparing)
    BY <1>4
  <2>2. OneOf(swap, Preparing, X)
    BY <1>2, <1>8, SwapsExchange DEF Same
  <2> HIDE DEF A, swap, X
  <2>3. OneOf(A \o swap, Preparing, X)
    BY <2>1, <2>2, OneAfter
  <2>4. QED
    BY <2>3 DEF A, swap
<1>9. ASSUME ~r.buy, r.with = "SOL"
      PROVE  OneOf(Only(r.createOut \/ r.closeOut, Create("WSOL")) \o CurveSell(r, "SOL")
                   \o Only(r.closeOut, Close("WSOL")) \o Only(r.closeIn, Close("TOKEN")), Preparing, X)
  <2> DEFINE A == Only(r.createOut \/ r.closeOut, Create("WSOL"))
             B == Only(r.closeOut, Close("WSOL"))
             C == Only(r.closeIn, Close("TOKEN"))
             swap == CurveSell(r, "SOL")
  <2>1. A \in Seq(Preparing) /\ B \in Seq(Preparing) /\ C \in Seq(Preparing)
    BY <1>4
  <2>2. OneOf(swap, Preparing, X)
    BY <1>2, <1>9, SwapsExchange DEF Same
  <2> HIDE DEF A, B, C, swap, X
  <2>3. OneOf(A \o swap, Preparing, X)
    BY <2>1, <2>2, OneAfter
  <2>4. OneOf((A \o swap) \o B, Preparing, X)
    BY <2>1, <2>3, OneBefore
  <2>5. OneOf(((A \o swap) \o B) \o C, Preparing, X)
    BY <2>1, <2>4, OneBefore
  <2>6. QED
    BY <2>5 DEF A, B, C, swap
<1>10. r.buy => Suits(r, PumpFunBuyPlan(r))
  BY <1>5, <1>7, <1>8 DEF PumpFunBuyPlan, Suits
<1>11. ~r.buy => Suits(r, PumpFunSellPlan(r))
  BY <1>6, <1>7, <1>9 DEF PumpFunSellPlan, Suits
<1>12. QED
  BY <1>10, <1>11 DEF PumpFunAdapter

(* The pools: a swap between the accounts of the pool's currency and the token. *)
LEMMA PoolsSuit ==
  ASSUME NEW r \in Shapes, rate \in Nat \ {0}, Same(r.with, r.pool)
  PROVE  LET X == Exchanges(r, rate)
         IN /\ r.buy => /\ OneOf(PumpSwapBuyPlan(r), Preparing, X) \/ PumpSwapBuyPlan(r) = Refused
                        /\ OneOf(CpmmBuyPlan(r), Preparing, X)
                        /\ OneOf(AmmV4BuyPlan(r), Preparing, X) \/ AmmV4BuyPlan(r) = Refused
                        /\ OneOf(DammV2BuyPlan(r), Preparing, X) \/ DammV2BuyPlan(r) = Refused
                        /\ OneOf(BonkBuyPlan(r), Preparing, X)
            /\ ~r.buy => /\ OneOf(PumpSwapSellPlan(r), Preparing, X) \/ PumpSwapSellPlan(r) = Refused
                         /\ OneOf(CpmmSellPlan(r), Preparing, X)
                         /\ OneOf(AmmV4SellPlan(r), Preparing, X) \/ AmmV4SellPlan(r) = Refused
                         /\ OneOf(DammV2SellPlan(r), Preparing, X) \/ DammV2SellPlan(r) = Refused
                         /\ OneOf(BonkSellPlan(r), Preparing, X)
<1> DEFINE X == Exchanges(r, rate)
           curveBuy == CurveBuy(r, r.pool)
           curveSell == CurveSell(r, r.pool)
           baseBuy == BaseSwap(r, r.pool, "TOKEN")
           baseSell == BaseSwap(r, "TOKEN", r.pool)
           givesBuy == Swap("exactIn", r.pool, "TOKEN", r.n, LeastOut(r))
           rangeBuy == DammV2Exchange(r, r.pool, "TOKEN")
           rangeSell == DammV2Exchange(r, "TOKEN", r.pool)
           qIn == [r EXCEPT !.createIn = @ /\ r.pool = "WSOL"]
           qOut == [r EXCEPT !.createOut = @ /\ r.pool = "WSOL"]
           mint == r.pool
           most == MostIn(r)
           n == r.n
<1>1. mint \in Paying /\ most \in Nat /\ n \in Nat
  BY EstimatesAre DEF Shapes
<1>2. /\ r.buy => OneOf(curveBuy, Preparing, X) /\ OneOf(baseBuy, Preparing, X) /\ OneOf(givesBuy, Preparing, X)
      /\ ~r.buy => OneOf(curveSell, Preparing, X) /\ OneOf(baseSell, Preparing, X)
      /\ \A how \in Hows :
           /\ r.buy => OneOf(Swap(how, mint, "TOKEN", n, LeastOut(r)), Preparing, X)
           /\ ~r.buy => OneOf(Swap(how, "TOKEN", mint, n, LeastOut(r)), Preparing, X)
  BY <1>1, SwapsExchange DEF Hows
<1>0. DammV2Takes(r) => /\ r.buy => OneOf(rangeBuy, Preparing, X)
                        /\ ~r.buy => OneOf(rangeSell, Preparing, X)
  <2> HIDE DEF X
  <2>1. QED
    BY <1>2, DammV2ExchangeIs
<1>3. /\ PumpSwapBuyPlan(r) \in {Refused, Funded(r, mint, most, curveBuy)}
      /\ CpmmBuyPlan(r) = Funded(r, mint, n, baseBuy)
      /\ AmmV4BuyPlan(r) \in {Refused, Funded(r, mint, n, baseBuy)}
      /\ DammV2BuyPlan(r) = IF DammV2Takes(r) THEN Funded(r, mint, n, rangeBuy) ELSE Refused
      /\ BonkBuyPlan(r) = Funded(qIn, mint, n, givesBuy)
  BY DEF PumpSwapBuyPlan, CpmmBuyPlan, AmmV4BuyPlan, DammV2BuyPlan, BonkBuyPlan, LeastOut
<1>4. /\ PumpSwapSellPlan(r) \in {Refused, Received(r, mint, curveSell)}
      /\ CpmmSellPlan(r) = Received(r, mint, baseSell)
      /\ AmmV4SellPlan(r) \in {Refused, Received(r, mint, baseSell)}
      /\ DammV2SellPlan(r) = IF DammV2Takes(r) THEN Received(r, mint, rangeSell) ELSE Refused
      /\ BonkSellPlan(r) = Received(qOut, mint, curveSell)
  BY DEF PumpSwapSellPlan, CpmmSellPlan, AmmV4SellPlan, DammV2SellPlan, BonkSellPlan, LeastOut
<1> HIDE DEF X, curveBuy, curveSell, baseBuy, baseSell, givesBuy, rangeBuy, rangeSell, qIn, qOut, mint, most, n
<1>5. r.buy => /\ OneOf(Funded(r, mint, most, curveBuy), Preparing, X)
               /\ OneOf(Funded(r, mint, n, baseBuy), Preparing, X)
               /\ DammV2Takes(r) => OneOf(Funded(r, mint, n, rangeBuy), Preparing, X)
               /\ OneOf(Funded(qIn, mint, n, givesBuy), Preparing, X)
  BY <1>0, <1>1, <1>2, FundedCarries
<1>6. ~r.buy => /\ OneOf(Received(r, mint, curveSell), Preparing, X)
                /\ OneOf(Received(r, mint, baseSell), Preparing, X)
                /\ DammV2Takes(r) => OneOf(Received(r, mint, rangeSell), Preparing, X)
                /\ OneOf(Received(qOut, mint, curveSell), Preparing, X)
  BY <1>0, <1>1, <1>2, ReceivedCarries
<1>7. /\ r.buy => /\ OneOf(PumpSwapBuyPlan(r), Preparing, X) \/ PumpSwapBuyPlan(r) = Refused
                  /\ OneOf(CpmmBuyPlan(r), Preparing, X)
                  /\ OneOf(AmmV4BuyPlan(r), Preparing, X) \/ AmmV4BuyPlan(r) = Refused
                  /\ OneOf(DammV2BuyPlan(r), Preparing, X) \/ DammV2BuyPlan(r) = Refused
                  /\ OneOf(BonkBuyPlan(r), Preparing, X)
  BY <1>3, <1>5
<1>8. /\ ~r.buy => /\ OneOf(PumpSwapSellPlan(r), Preparing, X) \/ PumpSwapSellPlan(r) = Refused
                   /\ OneOf(CpmmSellPlan(r), Preparing, X)
                   /\ OneOf(AmmV4SellPlan(r), Preparing, X) \/ AmmV4SellPlan(r) = Refused
                   /\ OneOf(DammV2SellPlan(r), Preparing, X) \/ DammV2SellPlan(r) = Refused
                   /\ OneOf(BonkSellPlan(r), Preparing, X)
  BY <1>4, <1>6
<1>9. QED
  BY <1>7, <1>8 DEF X


(* Requests as the adapters hand them on. *)
Handed(r) ==
    /\ r.venue = "pumpswap" /\ ~r.direct => r.kind = "exact"
    /\ r.venue = "cpmm" \/ (r.venue \in {"pumpswap", "bonk"} /\ r.direct) => r.with = r.pool

LEMMA PassedOnIs ==
  ASSUME NEW r \in Shapes
  PROVE  LET q == PassedOn(r)
         IN /\ q \in Shapes /\ Handed(q)
            /\ q.venue = r.venue /\ q.direct = r.direct /\ q.buy = r.buy /\ q.n = r.n
            /\ q.closeIn = r.closeIn /\ q.closeOut = r.closeOut
<1> DEFINE kind == IF r.venue = "pumpswap" /\ ~r.direct THEN "exact" ELSE r.kind
           with == IF r.venue = "cpmm" \/ (r.venue \in {"pumpswap", "bonk"} /\ r.direct) THEN r.pool ELSE r.with
           q == [r EXCEPT !.kind = kind, !.with = with]
<1>1. PassedOn(r) = q
  BY DEF PassedOn
<1>2. /\ kind \in {"exact", "fixed", "max"} /\ with \in Paying
      /\ kind = "max" => r.kind = "max"
  BY DEF Shapes
<1>3. /\ r.venue = "pumpswap" /\ ~r.direct => kind = "exact"
      /\ r.venue = "cpmm" \/ (r.venue \in {"pumpswap", "bonk"} /\ r.direct) => with = r.pool
  OBVIOUS
<1> HIDE DEF kind, with
<1>4. /\ q.venue = r.venue /\ q.direct = r.direct /\ q.buy = r.buy /\ q.n = r.n /\ q.pool = r.pool
      /\ q.closeIn = r.closeIn /\ q.closeOut = r.closeOut /\ q.kind = kind /\ q.with = with
  BY DEF Shapes
<1>5. q \in Shapes
  BY <1>2 DEF Shapes
<1> HIDE DEF q
<1>6. QED
  BY <1>1, <1>3, <1>4, <1>5 DEF Handed

(* Every request that is handed on gets a plan that suits it, or none is built. *)
LEMMA PlansSuit ==
  ASSUME NEW r \in Shapes, Handed(r), rate \in Nat \ {0}
  PROVE  IF Unbuilt(r) THEN Plan(r) = <<>> ELSE Suits(r, Plan(r))
<1>1. /\ r.venue \in {"pumpfun", "pumpswap", "bonk", "ammV4", "cpmm", "dammV2"}
      /\ r.buy \in BOOLEAN /\ r.direct \in BOOLEAN /\ r.pool \in Paying /\ r.with \in Paying
      /\ r.kind \in {"exact", "fixed", "max"}
  BY DEF Shapes
<1>0. Unbuilt(r) => Plan(r) = <<>>
  BY DEF Unbuilt, Plan, BonkAdapter
<1>2. CASE r.venue = "pumpfun"
  BY <1>2, PumpFunSuits DEF Plan, Unbuilt
<1>3. CASE r.venue = "cpmm"
  <2>1. Same(r.with, r.pool)
    BY <1>3 DEF Handed, Same
  <2>2. QED
    BY <1>1, <1>3, <2>1, PoolsSuit DEF Plan, CpmmAdapter, Suits, Unbuilt
<1>4. CASE r.venue = "ammV4"
  <2>1. CASE Same(r.with, r.pool)
    BY <1>1, <1>4, <2>1, PoolsSuit DEF Plan, AmmV4Adapter, Suits, Unbuilt
  <2>2. CASE ~Same(r.with, r.pool)
    BY <1>4, <2>2 DEF Plan, AmmV4Adapter, AmmV4BuyPlan, AmmV4SellPlan, Suits, Unbuilt
  <2>3. QED
    BY <2>1, <2>2
<1>5. CASE r.venue = "dammV2"
  <2>1. CASE Same(r.with, r.pool)
    BY <1>1, <1>5, <2>1, PoolsSuit DEF Plan, DammV2Adapter, Suits, Unbuilt
  <2>2. CASE ~Same(r.with, r.pool)
    BY <1>5, <2>2 DEF Plan, DammV2Adapter, DammV2BuyPlan, DammV2SellPlan, DammV2Takes, Suits, Unbuilt
  <2>3. QED
    BY <2>1, <2>2
<1>6. CASE r.venue = "bonk" /\ r.direct
  <2>1. r.direct /\ Same(r.with, r.pool)
    BY <1>6 DEF Handed, Same
  <2>2. QED
    BY <1>1, <1>6, <2>1, PoolsSuit DEF Plan, Suits, Unbuilt
<1>7. CASE r.venue = "pumpswap"
  <2>1. CASE r.direct
    <3>1. Same(r.with, r.pool)
      BY <1>7, <2>1 DEF Handed, Same
    <3>2. QED
      BY <1>1, <1>7, <2>1, <3>1, PoolsSuit DEF Plan, Suits, Unbuilt
  <2>2. CASE ~r.direct /\ r.buy
    BY <1>7, <2>2 DEF Plan, PumpSwapBuyAdapter, Suits, Unbuilt
  <2>3. CASE ~r.direct /\ ~r.buy
    <3>1. Plan(r) = PumpSwapSellAdapter(r)
      BY <1>7, <2>3 DEF Plan
    <3>2. CASE r.with # r.pool
      BY <1>7, <3>1, <3>2 DEF PumpSwapSellAdapter, Suits, Unbuilt
    <3>3. CASE r.with = r.pool
      <4>1. Plan(r) = PumpSwapSellPlan(r)
        BY <3>1, <3>3 DEF PumpSwapSellAdapter
      <4>2. QED
        BY <1>7, <2>3, <3>3, <4>1, PoolsSuit DEF Suits, Same, Unbuilt
    <3>4. QED
      BY <3>2, <3>3
  <2>4. QED
    BY <1>1, <2>1, <2>2, <2>3
<1>8. QED
  BY <1>0, <1>1, <1>2, <1>3, <1>4, <1>5, <1>6, <1>7 DEF Unbuilt

(* What prepares before and after changes nothing of the exchange. *)
LEMMA HeldBoth ==
  ASSUME NEW w
  PROVE  Held(w, "WSOL") = Held(w, "SOL")
BY DEF Held

LEMMA KeptThenExchanged ==
  ASSUME NEW r \in Shapes, NEW at, NEW b, NEW w, NEW v
  PROVE  /\ Kept(b, w) /\ Kept(w, v) => Kept(b, v)
         /\ Kept(b, w) /\ Exchanged(w, v, r, at) => Exchanged(b, v, r, at)
         /\ Exchanged(b, w, r, at) /\ Kept(w, v) => Exchanged(b, v, r, at)
<1>1. r.with \in Whole \union {"WSOL"} /\ "TOKEN" \in Whole
  BY DEF Shapes, Paying, Whole
<1>2. \A x, y : Kept(x, y) => \A c \in Whole \union {"WSOL"} : Held(y, c) = Held(x, c)
  BY HeldBoth DEF Kept, Whole
<1>3. Kept(b, w) /\ Kept(w, v) => Kept(b, v)
  BY DEF Kept
<1>4. Kept(b, w) /\ Exchanged(w, v, r, at) => Exchanged(b, v, r, at)
  BY <1>1, <1>2 DEF Exchanged
<1>5. Exchanged(b, w, r, at) /\ Kept(w, v) => Exchanged(b, v, r, at)
  BY <1>1, <1>2 DEF Exchanged
<1>6. QED
  BY <1>3, <1>4, <1>5

(* A plan that lands has exchanged what it was made for. *)
LEMMA RunExchanges ==
  ASSUME NEW w \in Purses, NEW r \in Shapes, NEW at \in Nat \ {0},
         rate \in Nat \ {0}, NEW s, OneOf(s, Preparing, Exchanges(r, at)), Run(w, s) # Failed
  PROVE  Run(w, s) \in Purses /\ Exchanged(w, Run(w, s), r, at)
<1> DEFINE X == Exchanges(r, at)
           size == Len(s)
<1>1. size \in Nat
  BY DEF OneOf
<1>2. PICK k \in 1 .. size : s[k] \in X /\ \A n \in 1 .. size : n # k => s[n] \in Preparing
  BY DEF OneOf
<1>3. PICK f : AfterEach(f, w, s, size) /\ Run(w, s) = f[size]
  BY <1>1, RunIs
<1>4. f[0] = w /\ \A n \in 1 .. size : f[n] = RunOne(f[n - 1], s[n])
  BY <1>3 DEF AfterEach
<1> HIDE DEF size, X
<1> DEFINE Good(n) == f[n] # Failed => /\ f[n] \in Purses
                                       /\ IF n < k THEN Kept(w, f[n]) ELSE Exchanged(w, f[n], r, at)
           Bad == {n \in 0 .. size : ~Good(n)}
           Less == {ss \in Nat \X Nat : ss[1] < ss[2]}
<1>5. Good(0)
  <2>1. 0 < k /\ Kept(w, w)
    BY <1>2 DEF Kept
  <2>2. QED
    BY <1>4, <2>1
<1>6. ASSUME NEW n \in 1 .. size, Good(n - 1) PROVE Good(n)
  <2> SUFFICES ASSUME f[n] # Failed
               PROVE  f[n] \in Purses /\ IF n < k THEN Kept(w, f[n]) ELSE Exchanged(w, f[n], r, at)
    OBVIOUS
  <2> DEFINE u == f[n - 1]
             v == f[n]
             i == s[n]
  <2>1. v = RunOne(u, i)
    BY <1>4
  <2>2. u # Failed
    BY <2>1 DEF RunOne
  <2>3. u \in Purses /\ IF n - 1 < k THEN Kept(w, u) ELSE Exchanged(w, u, r, at)
    BY <1>6, <2>2
  <2>4. n \in Int /\ k \in Int
    OBVIOUS
  <2>5. n # k => i \in Preparing
    BY <1>2
  <2>6. n = k => i \in X
    BY <1>2
  <2> HIDE DEF u, v, i
  <2>7. CASE n = k
    <3>1. n - 1 < k /\ ~ (n < k)
      BY <2>4, <2>7
    <3>2. RunOne(u, i) \in Purses /\ Exchanged(u, RunOne(u, i), r, at)
      BY <2>1, <2>3, <2>6, <2>7, ExchangeDoes DEF v, X
    <3>3. v \in Purses /\ Exchanged(u, v, r, at) /\ Kept(w, u)
      BY <2>1, <2>3, <3>1, <3>2
    <3>4. Exchanged(w, v, r, at)
      BY <3>3, KeptThenExchanged
    <3>5. QED
      BY <3>1, <3>3, <3>4 DEF v
  <2>8. CASE n # k
    <3>1. RunOne(u, i) \in Purses /\ Kept(u, RunOne(u, i))
      BY <2>1, <2>3, <2>5, <2>8, PreparingKeeps DEF v
    <3>2. v \in Purses /\ Kept(u, v)
      BY <2>1, <3>1
    <3>3. CASE n < k
      <4>1. n - 1 < k
        BY <2>4, <3>3
      <4>2. Kept(w, v)
        BY <2>3, <3>2, <4>1 DEF Kept
      <4>3. QED
        BY <3>2, <3>3, <4>2 DEF v
    <3>4. CASE ~ (n < k)
      <4>1. ~ (n - 1 < k)
        BY <2>4, <2>8, <3>4
      <4>2. Exchanged(w, u, r, at)
        BY <2>3, <4>1
      <4>3. Exchanged(w, v, r, at)
        BY <3>2, <4>2, KeptThenExchanged
      <4>4. QED
        BY <3>2, <3>4, <4>3 DEF v
    <3>5. QED
      BY <3>3, <3>4
  <2>9. QED
    BY <2>7, <2>8
<1>7. Bad = {}
  <2> SUFFICES ASSUME Bad # {} PROVE FALSE
    OBVIOUS
  <2>1. IsWellFoundedOn(Less, Nat)
    BY NatLessThanWellFounded DEF OpToRel
  <2>2. Bad \subseteq Nat
    BY <1>1
  <2> HIDE DEF Bad, Less
  <2>3. PICK m \in Bad : \A h \in Bad : ~ (<<h, m>> \in Less)
    BY <2>1, <2>2, WFMin
  <2>4. m \in 0 .. size /\ ~Good(m) /\ \A h \in Bad : ~ (h < m)
    BY <2>2, <2>3 DEF Less, Bad
  <2> HIDE DEF Good
  <2>5. m \in 1 .. size
    BY <1>1, <1>5, <2>4
  <2>6. m - 1 \in 0 .. size /\ m - 1 < m
    BY <1>1, <2>5
  <2>7. Good(m - 1)
    BY <2>4, <2>6 DEF Bad
  <2>8. QED
    BY <1>6, <2>4, <2>5, <2>7
<1>8. Good(size)
  <2>1. size \in 0 .. size
    BY <1>1
  <2>2. QED
    BY <1>7, <2>1
<1>9. ~ (size < k)
  BY <1>1, <1>2
<1>10. QED
  BY <1>3, <1>8, <1>9


(* Wrapping SOL and closing its account leave a wallet. *)
Errands == {Close("WSOL")} \union {handle_wsol(n) : n \in Nat}

LEMMA ErrandsLeaveAPurse ==
  ASSUME NEW w \in Purses, NEW s \in Errands, Run(w, s) # Failed
  PROVE  Run(w, s) \in Purses
<1>1. \A u \in Purses, i \in Preparing : RunOne(u, i) \in Purses \union {Failed}
  BY PreparingKeeps
<1>2. \A i : RunOne(Failed, i) = Failed
  BY DEF RunOne
<1>3. \/ Len(s) = 1 /\ s[1] \in Preparing
      \/ Len(s) = 2 /\ s[1] \in Preparing /\ s[2] \in Preparing
  <2>1. CASE s = Close("WSOL")
    <3>1. [op |-> "close", mint |-> "WSOL"] \in Preparing
      BY DEF Preparing
    <3>2. QED
      BY <2>1, <3>1 DEF Close
  <2>2. CASE \E n \in Nat : s = handle_wsol(n)
    <3>1. PICK n \in Nat : s = handle_wsol(n)
      BY <2>2
    <3> DEFINE i == [op |-> "create", mint |-> "WSOL"]
               j == [op |-> "wrap", n |-> n]
               a == <<i>>
               b == <<j>>
    <3>2. i \in Preparing /\ j \in Preparing
      BY DEF Preparing, Mints
    <3>3. s = a \o b
      BY <3>1 DEF handle_wsol, Create
    <3> HIDE DEF i, j
    <3>4. a \in Seq(Preparing) /\ b \in Seq(Preparing) /\ Len(a) = 1 /\ Len(b) = 1 /\ a[1] = i /\ b[1] = j
      BY <3>2
    <3> HIDE DEF a, b
    <3>5. Len(s) = 1 + 1 /\ \A k \in 1 .. 1 + 1 : s[k] = IF k <= 1 THEN a[k] ELSE b[k - 1]
      BY <3>3, <3>4, ConcatProperties
    <3>6. Len(s) = 2 /\ s[1] = a[1] /\ s[2] = b[1]
      BY <3>5
    <3>7. QED
      BY <3>2, <3>4, <3>6
  <2>3. QED
    BY <2>1, <2>2 DEF Errands
<1>4. PICK f : AfterEach(f, w, s, Len(s)) /\ Run(w, s) = f[Len(s)]
  BY <1>3, RunIs
<1>5. CASE Len(s) = 1 /\ s[1] \in Preparing
  <2>1. 1 \in 1 .. 1 /\ 1 - 1 = 0
    OBVIOUS
  <2>2. Run(w, s) = RunOne(w, s[1])
    BY <1>4, <1>5, <2>1 DEF AfterEach
  <2>3. QED
    BY <1>1, <1>5, <2>2
<1>6. CASE Len(s) = 2 /\ s[1] \in Preparing /\ s[2] \in Preparing
  <2>1. 1 \in 1 .. 2 /\ 1 - 1 = 0 /\ 2 \in 1 .. 2 /\ 2 - 1 = 1
    OBVIOUS
  <2>2. f[1] = RunOne(w, s[1]) /\ Run(w, s) = RunOne(f[1], s[2])
    BY <1>4, <1>6, <2>1 DEF AfterEach
  <2>3. f[1] \in Purses
    BY <1>1, <1>2, <1>6, <2>2
  <2>4. QED
    BY <1>1, <1>6, <2>2, <2>3
<1>7. QED
  BY <1>3, <1>5, <1>6

LEMMA RunShort ==
  ASSUME NEW w
  PROVE  Run(w, <<>>) = w /\ \A i : Run(w, <<i>>) = RunOne(w, i)
<1>1. Run(w, <<>>) = w
  <2>1. Len(<<>>) = 0
    OBVIOUS
  <2>2. PICK f : AfterEach(f, w, <<>>, Len(<<>>)) /\ Run(w, <<>>) = f[Len(<<>>)]
    BY <2>1, RunIs
  <2>3. QED
    BY <2>1, <2>2 DEF AfterEach
<1>2. ASSUME NEW i PROVE Run(w, <<i>>) = RunOne(w, i)
  <2> DEFINE s == <<i>>
  <2>1. Len(s) = 1 /\ s[1] = i /\ 1 \in 1 .. 1 /\ 1 - 1 = 0
    OBVIOUS
  <2> HIDE DEF s
  <2>2. PICK f : AfterEach(f, w, s, Len(s)) /\ Run(w, s) = f[Len(s)]
    BY <2>1, RunIs
  <2>3. f[1] = RunOne(f[0], i) /\ f[0] = w
    BY <2>1, <2>2 DEF AfterEach
  <2>4. QED
    BY <2>1, <2>2, <2>3 DEF s
<1>3. QED
  BY <1>1, <1>2

(* A transaction under way or over: its plan suits the request, as it was passed on,
   at the rate it was made with, and until it lands the wallet is the one it was
   made for. *)
Planned(plan, q, at) ==
    IF Unbuilt(q) THEN plan = <<>> ELSE OneOf(plan, Preparing, Exchanges(q, at))
Done(b, w, q, at) == IF Unbuilt(q) THEN w = b ELSE Exchanged(b, w, q, at)
Sent ==
    /\ trade.stage \in {"planned", "landed", "rejected"}
    /\ DOMAIN trade = {"stage", "request", "plan", "rate", "before"}
    /\ trade.rate \in Rates /\ wallet \in Purses /\ trade.before \in Purses
    /\ trade.stage = "planned" => trade.before = wallet
    /\ \/ /\ trade.request \in Shapes
          /\ Planned(trade.plan, PassedOn(trade.request), trade.rate)
       \/ trade.request.venue \in {"wrap", "close"} /\ trade.plan \in Errands
    /\ trade.stage = "landed" /\ trade.request.venue \notin {"wrap", "close"} =>
         Done(trade.before, wallet, PassedOn(trade.request), trade.rate)

PlanInv ==
    /\ wallet \in Purses \union {NoWallet} /\ rate \in Rates
    /\ trade = NoTrade \/ trade = [stage |-> "refused"] \/ Sent

LEMMA SentIsEnough ==
  ASSUME Sent', rate' \in Rates
  PROVE  PlanInv'
<1>1. wallet' \in Purses
  BY DEF Sent
<1>2. QED
  BY <1>1 DEF PlanInv

LEMMA PlanInvHolds == PlanInv => TradeDoesWhatWasAsked
<1> SUFFICES ASSUME PlanInv, Trades("landed")
             PROVE  TradeDoesWhatWasAsked
  BY DEF TradeDoesWhatWasAsked
<1>1. trade.stage = "landed" /\ trade.request.venue \notin {"wrap", "close"}
  BY DEF Trades
<1>2. Sent
  BY <1>1 DEF PlanInv, NoTrade
<1> DEFINE q == PassedOn(trade.request)
<1>3. IF Unbuilt(q) THEN wallet = trade.before ELSE Exchanged(trade.before, wallet, q, trade.rate)
  BY <1>1, <1>2 DEF Sent, Done
<1> HIDE DEF q
<1>4. LET b    == trade.before
          paid == IF q.buy THEN q.with ELSE "TOKEN"
          got  == IF q.buy THEN "TOKEN" ELSE q.with
      IN IF Unbuilt(q) THEN wallet = b
         ELSE /\ Held(b, paid) - Held(wallet, paid) <= MostIn(q)
              /\ Held(wallet, got) - Held(b, got) >= Wanted(q, trade.rate)
              /\ \A other \in {"SOL", "USDC", "TOKEN"} :
                   Held(wallet, other) # Held(b, other) => Mint(other) \in {Mint(paid), Mint(got)}
  BY <1>3 DEF Exchanged, Whole
<1>5. QED
  BY <1>4 DEF q, TradeDoesWhatWasAsked

LEMMA RatesArePositive == \A x \in Rates : x \in Nat \ {0}
BY PlanAssumption

(* A request, and an errand, become a transaction. *)
LEMMA AskingKeeps ==
  ASSUME PlanInv, NEW r, r \in Shapes, Idle, Asks(r)
  PROVE  PlanInv'
<1> DEFINE q == PassedOn(r)
           s == Plan(q)
<1>1. rate \in Nat \ {0} /\ wallet \in Purses
  BY RatesArePositive DEF PlanInv, Idle
<1>2. q \in Shapes /\ Handed(q)
  BY PassedOnIs
<1>3. wallet' = wallet /\ rate' = rate /\ Sends(r, s)
  BY DEF Asks
<1> HIDE DEF q
<1>4. s = Refused \/ Planned(s, q, rate)
  BY <1>1, <1>2, PlansSuit DEF Planned, Suits
<1> HIDE DEF s
<1>5. CASE s = Refused
  <2>1. trade' = [stage |-> "refused"]
    BY <1>3, <1>5 DEF Sends
  <2>2. QED
    BY <1>3, <2>1 DEF PlanInv
<1>6. CASE s # Refused
  <2>1. trade' = [stage |-> "planned", request |-> r, plan |-> s, rate |-> rate, before |-> wallet]
    BY <1>3, <1>6 DEF Sends
  <2>2. /\ DOMAIN trade' = {"stage", "request", "plan", "rate", "before"}
        /\ trade'.stage = "planned" /\ trade'.request = r /\ trade'.plan = s
        /\ trade'.rate = rate /\ trade'.before = wallet
    BY <2>1
  <2>3. Planned(trade'.plan, PassedOn(trade'.request), trade'.rate)
    BY <1>4, <1>6, <2>2 DEF q
  <2>4. Sent'
    BY <1>1, <1>3, <2>2, <2>3 DEF Sent, PlanInv
  <2>5. QED
    BY <1>3, <2>4 DEF PlanInv
<1>7. QED
  BY <1>5, <1>6

LEMMA ErrandKeeps ==
  ASSUME PlanInv, Idle, NEW name, name \in {"wrap", "close"}, NEW n, NEW s, s \in Errands,
         Sends(OfWallet(name, n), s), UNCHANGED <<wallet, rate, trades>>
  PROVE  PlanInv'
<1>1. wallet \in Purses
  BY DEF PlanInv, Idle
<1>2. CASE s = Refused
  BY <1>2 DEF Sends, PlanInv
<1>3. CASE s # Refused
  <2> DEFINE r == OfWallet(name, n)
  <2>1. r.venue = name
    BY DEF OfWallet
  <2>2. trade' = [stage |-> "planned", request |-> r, plan |-> s, rate |-> rate, before |-> wallet]
    BY <1>3 DEF Sends
  <2> HIDE DEF r
  <2>3. /\ DOMAIN trade' = {"stage", "request", "plan", "rate", "before"}
        /\ trade'.stage = "planned" /\ trade'.request = r /\ trade'.plan = s
        /\ trade'.rate = rate /\ trade'.before = wallet
    BY <2>2
  <2>4. Sent'
    BY <1>1, <2>1, <2>3 DEF Sent, PlanInv
  <2>5. QED
    BY <2>4 DEF PlanInv
<1>4. QED
  BY <1>2, <1>3

LEMMA LandingKeeps ==
  ASSUME PlanInv, Land
  PROVE  PlanInv'
<1> DEFINE w == Run(wallet, trade.plan)
<1>1. /\ trade.stage = "planned" /\ rate' = rate
      /\ wallet' = IF w = Failed THEN wallet ELSE w
      /\ trade' = [trade EXCEPT !.stage = IF w = Failed THEN "rejected" ELSE "landed"]
  BY DEF Land
<1>2. Sent
  BY <1>1 DEF PlanInv, NoTrade
<1>3. /\ trade.before = wallet /\ wallet \in Purses /\ trade.rate \in Nat \ {0} /\ rate \in Nat \ {0}
      /\ DOMAIN trade = {"stage", "request", "plan", "rate", "before"} /\ trade.rate \in Rates
  BY <1>1, <1>2, RatesArePositive DEF Sent, PlanInv
<1>4. /\ DOMAIN trade' = {"stage", "request", "plan", "rate", "before"}
      /\ trade'.stage = (IF w = Failed THEN "rejected" ELSE "landed")
      /\ trade'.request = trade.request /\ trade'.plan = trade.plan
      /\ trade'.rate = trade.rate /\ trade'.before = trade.before
  <2> HIDE DEF w
  <2>1. QED
    BY <1>1, <1>3
<1>5. CASE w = Failed
  <2>1. Sent'
    BY <1>1, <1>2, <1>3, <1>4, <1>5 DEF Sent
  <2>2. QED
    BY <1>1, <2>1, SentIsEnough DEF PlanInv
<1>6. CASE w # Failed /\ trade.request \in Shapes
           /\ Planned(trade.plan, PassedOn(trade.request), trade.rate)
  <2> DEFINE q == PassedOn(trade.request)
             at == trade.rate
             s == trade.plan
             u == wallet
  <2>1. q \in Shapes
    BY <1>6, PassedOnIs
  <2>2. u \in Purses /\ at \in Nat \ {0} /\ rate \in Nat \ {0} /\ Planned(s, q, at) /\ Run(u, s) # Failed
    BY <1>3, <1>6
  <2> HIDE DEF q, at, s, u
  <2>3. ASSUME Unbuilt(q) PROVE Run(u, s) \in Purses /\ Done(u, Run(u, s), q, at)
    <3>1. s = <<>>
      BY <2>2, <2>3 DEF Planned
    <3>2. Run(u, s) = u
      BY <3>1, RunShort
    <3>3. QED
      BY <2>2, <2>3, <3>2 DEF Done
  <2>4. ASSUME ~Unbuilt(q) PROVE Run(u, s) \in Purses /\ Done(u, Run(u, s), q, at)
    <3>1. OneOf(s, Preparing, Exchanges(q, at))
      BY <2>2, <2>4 DEF Planned
    <3>2. Run(u, s) \in Purses /\ Exchanged(u, Run(u, s), q, at)
      BY <2>1, <2>2, <3>1, RunExchanges
    <3>3. QED
      BY <2>4, <3>2 DEF Done
  <2>5. Run(u, s) \in Purses /\ Done(u, Run(u, s), q, at)
    BY <2>3, <2>4
  <2>6. w \in Purses /\ Done(trade.before, w, PassedOn(trade.request), trade.rate)
    BY <1>3, <2>5 DEF q, at, s, u
  <2> HIDE DEF w
  <2>7. Sent'
    BY <1>1, <1>3, <1>4, <1>6, <2>6 DEF Sent
  <2>8. QED
    BY <1>1, <2>7, SentIsEnough DEF PlanInv
<1>7. CASE w # Failed /\ trade.request.venue \in {"wrap", "close"} /\ trade.plan \in Errands
  <2>1. w \in Purses
    BY <1>3, <1>7, ErrandsLeaveAPurse
  <2> HIDE DEF w
  <2>2. Sent'
    BY <1>1, <1>3, <1>4, <1>7, <2>1 DEF Sent
  <2>3. QED
    BY <1>1, <2>2, SentIsEnough DEF PlanInv
<1>8. QED
  BY <1>2, <1>5, <1>6, <1>7 DEF Sent

(* A share of what the wallet holds is asked for as the sale of all of it is. *)
LEMMA PartsAreShapes ==
  ASSUME PlanInv, Idle, NEW q, q \in Shapes, q.kind # "max", NEW percent \in {50, 100}
  PROVE  Part(q, percent) \in Shapes
<1>1. Balance(wallet, "TOKEN") \in Nat
  BY DEF Idle, PlanInv, Balance, Purses
<1> DEFINE n == (Balance(wallet, "TOKEN") * percent) \div 100
           r == [q EXCEPT !.n = n]
<1>2. n \in Nat
  <2> DEFINE held == Balance(wallet, "TOKEN")
  <2> HIDE DEF held
  <2>1. held \in Nat => (held * percent) \div 100 \in Nat
    <3>1. CASE percent = 50
      <4>1. held \in Nat => (held * 50) \div 100 \in Nat
        OBVIOUS
      <4>2. QED
        BY <3>1, <4>1
    <3>2. CASE percent = 100
      <4>1. held \in Nat => (held * 100) \div 100 \in Nat
        OBVIOUS
      <4>2. QED
        BY <3>2, <4>1
    <3>3. QED
      BY <3>1, <3>2
  <2>2. QED
    BY <1>1, <2>1 DEF held
<1>3. Part(q, percent) = r
  BY DEF Part
<1> HIDE DEF n
<1>4. r \in Shapes
  BY <1>2 DEF Shapes
<1>5. QED
  BY <1>3, <1>4

LEMMA PlanStep == PlanInv /\ [PlanNext]_planVars => PlanInv'
<1> SUFFICES ASSUME PlanInv, [PlanNext]_planVars PROVE PlanInv'
  OBVIOUS
<1>1. ASSUME UNCHANGED planVars PROVE PlanInv'
  BY <1>1 DEF planVars, PlanInv, Sent
<1>2. ASSUME Open PROVE PlanInv'
  <2>1. wallet' \in Purses /\ rate' = rate /\ trade' = trade /\ wallet = NoWallet
    BY <1>2, PlanAssumption DEF Open
  <2>2. ~Sent
    BY <2>1, PurseShape DEF Sent
  <2>3. QED
    BY <2>1, <2>2 DEF PlanInv
<1>3. ASSUME Buy \/ Sell PROVE PlanInv'
  <2>1. PICK r \in Requests : Idle /\ Asks(r)
    BY <1>3 DEF Buy, Sell
  <2>2. r \in Shapes
    BY PlanAssumption
  <2>3. QED
    BY <2>1, <2>2, AskingKeeps
<1>4. ASSUME SellByPercent PROVE PlanInv'
  <2>1. PICK percent \in {50, 100}, q \in ExactSells : Idle /\ Asks(Part(q, percent))
    BY <1>4 DEF SellByPercent
  <2>2. q \in Shapes /\ q.kind # "max"
    BY PlanAssumption DEF ExactSells
  <2>3. Part(q, percent) \in Shapes
    BY <2>1, <2>2, PartsAreShapes
  <2>4. QED
    BY <2>1, <2>3, AskingKeeps
<1>5. ASSUME WrapSol PROVE PlanInv'
  <2>1. PICK n \in Sums : /\ Idle /\ Sends(OfWallet("wrap", n), handle_wsol(n))
                          /\ UNCHANGED <<wallet, rate, trades>>
    BY <1>5 DEF WrapSol
  <2>2. handle_wsol(n) \in Errands
    BY PlanAssumption DEF Sums, Shapes, Errands
  <2> DEFINE s == handle_wsol(n)
  <2>3. s \in Errands /\ Sends(OfWallet("wrap", n), s) /\ Idle /\ UNCHANGED <<wallet, rate, trades>>
    BY <2>1, <2>2
  <2> HIDE DEF s
  <2>4. QED
    BY <2>3, ErrandKeeps
<1>6. ASSUME CloseWsol PROVE PlanInv'
  <2> DEFINE s == Close("WSOL")
  <2>1. s \in Errands /\ Sends(OfWallet("close", 0), s) /\ Idle /\ UNCHANGED <<wallet, rate, trades>>
    BY <1>6 DEF CloseWsol, Errands
  <2> HIDE DEF s
  <2>2. QED
    BY <2>1, ErrandKeeps
<1>7. ASSUME MarketMoves PROVE PlanInv'
  BY <1>7 DEF MarketMoves, PlanInv, Sent
<1>8. ASSUME Settle PROVE PlanInv'
  BY <1>8 DEF Settle, PlanInv
<1>9. ASSUME Leaves PROVE PlanInv'
  BY <1>9 DEF Leaves, PlanInv
<1>10. QED
  BY <1>1, <1>2, <1>3, <1>4, <1>5, <1>6, <1>7, <1>8, <1>9, LandingKeeps DEF PlanNext

(* A trade that lands exchanged what was asked for, within its limits. *)
THEOREM TradesDoWhatWasAsked == PlanSpec => []TradeDoesWhatWasAsked
<1>1. PlanInit => PlanInv
  BY DEF PlanInit, PlanInv
<1>2. PlanInv /\ [PlanNext]_planVars => PlanInv'
  BY PlanStep
<1>3. PlanInv => TradeDoesWhatWasAsked
  BY PlanInvHolds
<1>4. QED
  BY <1>1, <1>2, <1>3, PTL DEF PlanSpec

(* The accounts of a plan.  Running a plan is running its parts. *)
LEMMA RunsAlike ==
  ASSUME NEW f, NEW g, NEW w, NEW s, NEW size \in Nat, AfterEach(f, w, s, size), AfterEach(g, w, s, size)
  PROVE  f[size] = g[size]
<1> DEFINE Bad == {n \in 0 .. size : f[n] # g[n]}
           Less == {ss \in Nat \X Nat : ss[1] < ss[2]}
<1>1. f[0] = g[0] /\ \A n \in 1 .. size : f[n - 1] = g[n - 1] => f[n] = g[n]
  BY DEF AfterEach
<1>2. Bad = {}
  <2> SUFFICES ASSUME Bad # {} PROVE FALSE
    OBVIOUS
  <2>1. IsWellFoundedOn(Less, Nat)
    BY NatLessThanWellFounded DEF OpToRel
  <2>2. Bad \subseteq Nat
    OBVIOUS
  <2> HIDE DEF Bad, Less
  <2>3. PICK m \in Bad : \A h \in Bad : ~ (<<h, m>> \in Less)
    BY <2>1, <2>2, WFMin
  <2>4. m \in 0 .. size /\ f[m] # g[m] /\ \A h \in Bad : ~ (h < m)
    BY <2>2, <2>3 DEF Less, Bad
  <2>5. m \in 1 .. size
    BY <1>1, <2>4
  <2>6. m - 1 \in 0 .. size /\ m - 1 < m
    BY <2>5
  <2>7. f[m - 1] = g[m - 1]
    BY <2>4, <2>6 DEF Bad
  <2>8. QED
    BY <1>1, <2>4, <2>5, <2>7
<1>3. size \in 0 .. size
  OBVIOUS
<1>4. QED
  BY <1>2, <1>3

LEMMA RunJoins ==
  ASSUME NEW I, NEW s \in Seq(I), NEW t \in Seq(I), NEW w
  PROVE  Run(w, s \o t) = Run(Run(w, s), t)
<1> DEFINE a == Len(s)
           b == Len(t)
           st == s \o t
<1>1. a \in Nat /\ b \in Nat
  OBVIOUS
<1>2. /\ Len(st) = a + b
      /\ \A n \in 1 .. a + b : st[n] = IF n <= a THEN s[n] ELSE t[n - a]
  BY ConcatProperties
<1>3. PICK g : AfterEach(g, w, s, a) /\ Run(w, s) = g[a]
  BY <1>1, RunIs
<1>4. PICK h : AfterEach(h, g[a], t, b) /\ Run(g[a], t) = h[b]
  BY <1>1, RunIs
<1> HIDE DEF st, a, b
<1>5. PICK f : AfterEach(f, w, st, Len(st)) /\ Run(w, st) = f[Len(st)]
  <2>1. Len(st) \in Nat
    BY <1>1, <1>2
  <2>2. QED
    BY <2>1, RunIs
<1> DEFINE c == [n \in 0 .. a + b |-> IF n <= a THEN g[n] ELSE h[n - a]]
<1>6. AfterEach(c, w, st, a + b)
  <2>1. 0 \in 0 .. a + b /\ 0 <= a
    BY <1>1
  <2>2. c[0] = w
    BY <1>3, <2>1 DEF AfterEach
  <2>3. ASSUME NEW n \in 1 .. a + b PROVE c[n] = RunOne(c[n - 1], st[n])
    <3>1. n \in 0 .. a + b /\ n - 1 \in 0 .. a + b
      BY <1>1
    <3>2. /\ c[n] = IF n <= a THEN g[n] ELSE h[n - a]
          /\ c[n - 1] = IF n - 1 <= a THEN g[n - 1] ELSE h[(n - 1) - a]
      BY <3>1
    <3> HIDE DEF c
    <3>3. CASE n <= a
      <4>1. n - 1 <= a /\ n \in 1 .. a
        BY <1>1, <3>3
      <4>2. QED
        BY <1>2, <1>3, <3>2, <3>3, <4>1 DEF AfterEach
    <3>4. CASE n = a + 1
      <4>1. ~ (n <= a) /\ n - 1 <= a /\ n - a = 1 /\ n - 1 = a /\ 1 \in 1 .. b /\ 1 - 1 = 0
        BY <1>1, <3>4
      <4>2. c[n] = h[1] /\ c[n - 1] = g[a] /\ st[n] = t[1]
        BY <1>2, <3>2, <4>1
      <4>3. h[1] = RunOne(h[0], t[1]) /\ h[0] = g[a]
        BY <1>4, <4>1 DEF AfterEach
      <4>4. QED
        BY <4>2, <4>3
    <3>5. CASE n > a + 1
      <4>1. ~ (n <= a) /\ ~ (n - 1 <= a) /\ n - a \in 1 .. b /\ (n - a) - 1 = (n - 1) - a
        BY <1>1, <3>5
      <4>2. c[n] = h[n - a] /\ c[n - 1] = h[(n - a) - 1] /\ st[n] = t[n - a]
        BY <1>2, <3>2, <4>1
      <4>3. QED
        BY <1>4, <4>1, <4>2 DEF AfterEach
    <3>6. QED
      BY <1>1, <3>3, <3>4, <3>5
  <2> HIDE DEF c
  <2>4. QED
    BY <2>2, <2>3 DEF AfterEach
<1>7. c[a + b] = h[b]
  <2>1. a + b \in 0 .. a + b /\ (a + b) - a = b
    BY <1>1
  <2>2. c[a + b] = IF a + b <= a THEN g[a + b] ELSE h[b]
    BY <2>1
  <2> HIDE DEF c
  <2>3. CASE a + b <= a
    <3>1. b = 0 /\ a + b = a
      BY <1>1, <2>3
    <3>2. h[0] = g[a]
      BY <1>4 DEF AfterEach
    <3>3. QED
      BY <2>2, <2>3, <3>1, <3>2
  <2>4. CASE ~ (a + b <= a)
    BY <2>2, <2>4
  <2>5. QED
    BY <2>3, <2>4
<1> HIDE DEF c
<1>8. f[a + b] = c[a + b]
  <2>1. a + b \in Nat /\ AfterEach(f, w, st, a + b)
    BY <1>1, <1>2, <1>5
  <2>2. QED
    BY <1>6, <2>1, RunsAlike
<1>9. QED
  BY <1>2, <1>3, <1>4, <1>5, <1>7, <1>8 DEF st

LEMMA RunOnly ==
  ASSUME NEW w, NEW c, NEW p
  PROVE  Run(w, Only(c, p)) = IF c THEN Run(w, p) ELSE w
BY RunShort DEF Only

(* What instructions keep, a plan of them keeps. *)
LEMMA RunStays ==
  ASSUME NEW S, NEW I, \A u \in S : \A i \in I : RunOne(u, i) \in S, NEW w \in S, NEW s \in Seq(I)
  PROVE  Run(w, s) \in S
<1> DEFINE size == Len(s)
<1>1. size \in Nat /\ \A n \in 1 .. size : s[n] \in I
  OBVIOUS
<1>2. PICK f : AfterEach(f, w, s, size) /\ Run(w, s) = f[size]
  BY <1>1, RunIs
<1> HIDE DEF size
<1>3. f[0] \in S /\ \A n \in 1 .. size : f[n - 1] \in S => f[n] \in S
  BY <1>1, <1>2 DEF AfterEach
<1> DEFINE Bad == {n \in 0 .. size : f[n] \notin S}
           Less == {ss \in Nat \X Nat : ss[1] < ss[2]}
<1>4. Bad = {}
  <2> SUFFICES ASSUME Bad # {} PROVE FALSE
    OBVIOUS
  <2>1. IsWellFoundedOn(Less, Nat)
    BY NatLessThanWellFounded DEF OpToRel
  <2>2. Bad \subseteq Nat
    BY <1>1
  <2> HIDE DEF Bad, Less
  <2>3. PICK m \in Bad : \A h \in Bad : ~ (<<h, m>> \in Less)
    BY <2>1, <2>2, WFMin
  <2>4. m \in 0 .. size /\ f[m] \notin S /\ \A h \in Bad : ~ (h < m)
    BY <2>2, <2>3 DEF Less, Bad
  <2>5. m \in 1 .. size
    BY <1>1, <1>3, <2>4
  <2>6. m - 1 \in 0 .. size /\ m - 1 < m
    BY <1>1, <2>5
  <2>7. f[m - 1] \in S
    BY <2>4, <2>6 DEF Bad
  <2>8. QED
    BY <1>3, <2>4, <2>5, <2>7
<1>5. size \in 0 .. size
  BY <1>1
<1>6. QED
  BY <1>2, <1>4, <1>5

(* The effect of creating, funding and closing an account. *)
LEMMA RunCreate ==
  ASSUME NEW w \in Purses, NEW m \in Mints
  PROVE  LET v == Run(w, Create(m))
         IN /\ v \in Purses /\ v[m] # Closed
            /\ \A o \in Mints : o # m => v[o] = w[o]
            /\ w[m] # Closed => v[m] = w[m]
            /\ w[m] = Closed => v[m] = 0
<1> DEFINE i == [op |-> "create", mint |-> m]
           v == Run(w, Create(m))
<1>1. v = RunOne(w, i)
  BY RunShort DEF Create
<1>2. i.op = "create" /\ i.mint = m /\ w # Failed
  BY PurseShape
<1>3. v = IF w[m] = Closed THEN Put(w, m, 0) ELSE w
  BY <1>1, <1>2 DEF RunOne, Put
<1> HIDE DEF v, i
<1>4. Put(w, m, 0) \in Purses
  BY PutIs
<1>5. \A o \in Mints : Put(w, m, 0)[o] = IF o = m THEN 0 ELSE w[o]
  BY PutAt
<1>6. 0 # Closed
  BY DEF Closed
<1>7. QED
  BY <1>3, <1>4, <1>5, <1>6 DEF v

LEMMA RunWrap ==
  ASSUME NEW w \in Purses, NEW n \in Nat, w.SOL >= n
  PROVE  LET v == Run(w, handle_wsol(n))
         IN /\ v \in Purses /\ v.WSOL \in Nat /\ v.WSOL >= n
            /\ v.USDC = w.USDC /\ v.TOKEN = w.TOKEN
<1> DEFINE u == Run(w, Create("WSOL"))
           i == [op |-> "wrap", n |-> n]
           v == Run(w, handle_wsol(n))
<1>1. v = RunOne(u, i)
  <2> DEFINE s == Create("WSOL")
             t == <<i>>
  <2>1. s \in Seq(Preparing) /\ t \in Seq(Preparing)
    <3>1. i \in Preparing /\ "WSOL" \in Mints
      BY DEF Preparing, Mints
    <3>2. s \in Seq(Preparing)
      BY <3>1, Pieces
    <3>3. QED
      BY <3>1, <3>2
  <2>2. handle_wsol(n) = s \o t
    BY DEF handle_wsol
  <2>3. Run(u, t) = RunOne(u, i)
    BY RunShort
  <2> HIDE DEF s, t, i
  <2>4. Run(w, s \o t) = Run(Run(w, s), t)
    BY <2>1, RunJoins
  <2>5. QED
    BY <2>2, <2>3, <2>4 DEF s
<1>2. /\ u \in Purses /\ u.WSOL # Closed /\ u.SOL = w.SOL /\ u.USDC = w.USDC /\ u.TOKEN = w.TOKEN
  <2>1. "WSOL" \in Mints /\ "SOL" \in Mints /\ "USDC" \in Mints /\ "TOKEN" \in Mints
    BY DEF Mints
  <2>2. QED
    BY <2>1, RunCreate
<1> HIDE DEF u
<1>3. i.op = "wrap" /\ i.n = n /\ u # Failed
  BY <1>2, PurseShape
<1>4. u.SOL \in Nat /\ u.WSOL \in Nat /\ ~ (u.SOL < n)
  BY <1>2, HeldIs
<1> HIDE DEF i
<1>5. RunOne(u, i) = [u EXCEPT !.SOL = @ - n, !.WSOL = @ + n]
  BY <1>2, <1>3, <1>4 DEF RunOne
<1> DEFINE a == u.SOL - n
           b == u.WSOL + n
<1>6. a \in Nat /\ b \in Nat /\ b >= n
  BY <1>4
<1>7. v = Put(Put(u, "SOL", a), "WSOL", b)
  BY <1>1, <1>5 DEF Put
<1> HIDE DEF a, b, v
<1>8. v \in Purses /\ v.WSOL = b /\ v.USDC = u.USDC /\ v.TOKEN = u.TOKEN
  BY <1>2, <1>6, <1>7, PutBoth
<1>9. QED
  BY <1>2, <1>6, <1>8 DEF v

LEMMA RunClose ==
  ASSUME NEW w \in Purses, NEW m \in {"WSOL", "TOKEN"}, w[m] # Closed, m = "TOKEN" => w[m] = 0
  PROVE  LET v == Run(w, Close(m))
         IN v \in Purses /\ (m = "WSOL" => v.TOKEN = w.TOKEN /\ v.WSOL = Closed)
<1> DEFINE i == [op |-> "close", mint |-> m]
           v == Run(w, Close(m))
<1>1. v = RunOne(w, i)
  BY RunShort DEF Close
<1>2. i.op = "close" /\ i.mint = m /\ w # Failed
  BY PurseShape
<1> HIDE DEF i
<1>3. v = [w EXCEPT ![m] = Closed, !.SOL = @ + (IF m = "WSOL" THEN w.WSOL ELSE 0)]
  <2>1. ~ (w[m] = Closed \/ (m # "WSOL" /\ w[m] > 0))
    OBVIOUS
  <2>2. QED
    BY <1>1, <1>2, <2>1 DEF RunOne
<1> DEFINE a == w.SOL + (IF m = "WSOL" THEN w.WSOL ELSE 0)
<1>4. a \in Nat
  BY HeldIs
<1>5. v = Put(Put(w, m, Closed), "SOL", a)
  <2>1. Put(w, m, Closed).SOL = w.SOL
    BY PutAt DEF Mints
  <2>2. QED
    BY <1>3, <2>1 DEF Put
<1> HIDE DEF a, v
<1>6. v \in Purses /\ v.WSOL = (IF m = "WSOL" THEN Closed ELSE w.WSOL)
      /\ v.TOKEN = (IF m = "TOKEN" THEN Closed ELSE w.TOKEN)
  BY <1>4, <1>5, PutClosed
<1>7. QED
  BY <1>6 DEF v

(* Everything a plan is made of. *)
Instructions == Preparing \union {i \in Swaps : i.pay # i.get}

(* A swap the market carries out at the rate it has now, from p to g, that takes
   at most so much; what the sale of all tokens takes is all of them. *)
Moves(swap, p, g, paid, got) ==
    \A w \in Purses : Run(w, swap) = Swapped(w, [pay |-> p, get |-> g], paid, got)
FairSwap(swap, p, g, most) ==
    /\ swap \in Seq(Instructions)
    /\ \E paid, got \in Nat : paid <= most /\ Moves(swap, p, g, paid, got)
TakesAll(swap, p, g, n) == \E got \in Nat : Moves(swap, p, g, n, got)

LEMMA SwapMoves ==
  ASSUME NEW w \in Purses, NEW i, i.pay \in Mints, i.get \in Mints, i.pay # i.get,
         w[i.pay] \in Nat, w[i.get] # Closed
  PROVE  \A paid, got \in Nat : w[i.pay] >= paid =>
           LET v == Swapped(w, i, paid, got)
           IN /\ v \in Purses /\ v[i.pay] = w[i.pay] - paid /\ v[i.get] # Closed
              /\ \A o \in Mints \ {i.pay, i.get} : v[o] = w[o]
<1> DEFINE p == i.pay
           g == i.get
<1> TAKE paid, got \in Nat
<1> HAVE w[p] >= paid
<1> DEFINE a == w[p] - paid
           b == w[g] + got
           u == Put(w, p, a)
           v == Swapped(w, i, paid, got)
<1>1. w[g] \in Nat /\ p \in Mints /\ g \in Mints /\ p # g
  BY DEF Purses, Mints
<1>2. a \in Nat /\ b \in Nat /\ ~ (w[p] < paid) /\ w[p] # Closed
  BY <1>1 DEF Closed
<1>3. v = [w EXCEPT ![p] = @ - paid, ![g] = @ + got]
  BY <1>2 DEF Swapped
<1> HIDE DEF p, g
<1>4. u[g] = w[g]
  BY <1>1, PutAt
<1>5. v = Put(u, g, b)
  BY <1>3, <1>4 DEF Put
<1> HIDE DEF a, b, v
<1>6. u \in Purses
  BY <1>1, <1>2, PutIs
<1>7. \A o \in Mints : u[o] = IF o = p THEN a ELSE w[o]
  BY PutAt
<1> HIDE DEF u
<1>8. v \in Purses
  BY <1>1, <1>2, <1>5, <1>6, PutIs
<1>9. \A o \in Mints : v[o] = IF o = g THEN b ELSE u[o]
  BY <1>5, <1>6, PutAt
<1>10. b # Closed
  BY <1>2 DEF Closed
<1>11. v \in Purses /\ v[p] = a /\ v[g] # Closed /\ \A o \in Mints \ {p, g} : v[o] = w[o]
  BY <1>1, <1>7, <1>8, <1>9, <1>10
<1>12. QED
  BY <1>11 DEF v, a, p, g

LEMMA FairSwapRuns ==
  ASSUME NEW w \in Purses, NEW swap, NEW p \in Mints, NEW g \in Mints, p # g, NEW most \in Nat,
         FairSwap(swap, p, g, most), w[p] \in Nat, w[p] >= most, w[g] # Closed
  PROVE  LET v == Run(w, swap)
         IN v \in Purses /\ v[p] \in Nat /\ v[g] # Closed /\ \A o \in Mints \ {p, g} : v[o] = w[o]
<1>1. PICK paid \in Nat, got \in Nat : paid <= most /\ Moves(swap, p, g, paid, got)
  BY DEF FairSwap
<1> DEFINE i == [pay |-> p, get |-> g]
           v == Run(w, swap)
           has == w[p]
<1>2. v = Swapped(w, i, paid, got) /\ i.pay = p /\ i.get = g
  BY <1>1 DEF Moves
<1>3. has \in Nat /\ has >= paid /\ has - paid \in Nat
  <2>1. has \in Nat /\ has >= most
    OBVIOUS
  <2> HIDE DEF has
  <2>2. QED
    BY <1>1, <2>1
<1> HIDE DEF i, v
<1>4. \A m, n \in Nat : w[i.pay] >= m =>
        LET u == Swapped(w, i, m, n)
        IN /\ u \in Purses /\ u[i.pay] = w[i.pay] - m /\ u[i.get] # Closed
           /\ \A o \in Mints \ {i.pay, i.get} : u[o] = w[o]
  <2>1. i.pay \in Mints /\ i.get \in Mints /\ i.pay # i.get /\ w[i.pay] \in Nat /\ w[i.get] # Closed
    BY <1>2
  <2>2. QED
    BY <2>1, SwapMoves
<1>5. \A m, n \in Nat : w[p] >= m =>
        LET u == Swapped(w, i, m, n)
        IN u \in Purses /\ u[p] = w[p] - m /\ u[g] # Closed /\ \A o \in Mints \ {p, g} : u[o] = w[o]
  BY <1>2, <1>4
<1>6. v \in Purses /\ v[p] = has - paid /\ v[g] # Closed /\ \A o \in Mints \ {p, g} : v[o] = w[o]
  BY <1>2, <1>3, <1>5
<1> HIDE DEF has
<1>7. QED
  BY <1>3, <1>6 DEF v

LEMMA TakesAllRuns ==
  ASSUME NEW w \in Purses, NEW swap, NEW p \in Mints, NEW g \in Mints, p # g, NEW n \in Nat,
         TakesAll(swap, p, g, n), w[p] = n, w[g] # Closed
  PROVE  Run(w, swap)[p] = 0
<1>1. PICK got \in Nat : Moves(swap, p, g, n, got)
  BY DEF TakesAll
<1> DEFINE i == [pay |-> p, get |-> g]
           v == Run(w, swap)
<1>2. v = Swapped(w, i, n, got) /\ i.pay = p /\ i.get = g
  BY <1>1 DEF Moves
<1>3. w[p] \in Nat /\ w[p] >= n /\ w[p] - n = 0
  OBVIOUS
<1> HIDE DEF i, v
<1>4. \A m, k \in Nat : w[i.pay] >= m => Swapped(w, i, m, k)[i.pay] = w[i.pay] - m
  <2>1. i.pay \in Mints /\ i.get \in Mints /\ i.pay # i.get /\ w[i.pay] \in Nat /\ w[i.get] # Closed
    BY <1>2, <1>3
  <2>2. QED
    BY <2>1, SwapMoves
<1>5. QED
  BY <1>2, <1>3, <1>4 DEF v

LEMMA SwapsAreInstructions ==
  ASSUME NEW p \in Mints, NEW g \in Mints, p # g, NEW a \in Nat, NEW b \in Nat, NEW how \in Hows
  PROVE  Swap(how, p, g, a, b) \in Seq(Instructions)
<1> DEFINE i == [op |-> how, pay |-> p, get |-> g, in |-> a, out |-> b]
<1>1. i \in Swaps /\ i.pay = p /\ i.get = g
  BY DEF Swaps
<1> HIDE DEF i
<1>2. i \in Instructions
  BY <1>1 DEF Instructions
<1>3. <<i>> \in Seq(Instructions)
  BY <1>2
<1>4. QED
  BY <1>3 DEF Swap, i

LEMMA FairSwapIsOne ==
  ASSUME NEW swap, NEW p, NEW g, NEW most, FairSwap(swap, p, g, most)
  PROVE  swap \in Seq(Instructions)
BY DEF FairSwap

LEMMA PiecesAreInstructions ==
  ASSUME NEW c, NEW s \in Seq(Preparing)
  PROVE  Only(c, s) \in Seq(Instructions)
<1>1. Only(c, s) \in Seq(Preparing)
  BY OnlyPieces
<1>2. Preparing \subseteq Instructions
  BY DEF Instructions
<1>3. QED
  BY <1>1, <1>2

(* Four parts, one after the other. *)
LEMMA RunFour ==
  ASSUME NEW w, NEW a \in Seq(Instructions), NEW b \in Seq(Instructions),
         NEW c \in Seq(Instructions), NEW d \in Seq(Instructions)
  PROVE  Run(w, ((a \o b) \o c) \o d) = Run(Run(Run(Run(w, a), b), c), d)
<1> DEFINE I == Instructions
<1>1. a \o b \in Seq(I)
  BY ConcatProperties
<1> DEFINE ab == a \o b
<1> HIDE DEF ab, I
<1>2. ab \o c \in Seq(I)
  BY <1>1, ConcatProperties DEF ab, I
<1> DEFINE abc == ab \o c
<1> HIDE DEF abc
<1>3. Run(w, abc \o d) = Run(Run(w, abc), d)
  <2>1. abc \in Seq(I) /\ d \in Seq(I)
    BY <1>2 DEF abc, I
  <2>2. QED
    BY <2>1, RunJoins
<1>4. Run(w, ab \o c) = Run(Run(w, ab), c)
  <2>1. ab \in Seq(I) /\ c \in Seq(I)
    BY <1>1 DEF ab, I
  <2>2. QED
    BY <2>1, RunJoins
<1>5. Run(w, a \o b) = Run(Run(w, a), b)
  BY RunJoins
<1>6. QED
  BY <1>3, <1>4, <1>5 DEF abc, ab

(* A buy that prepares both accounts and can pay for it is not rejected. *)
LEMMA FundedRuns ==
  ASSUME NEW w \in Purses, NEW q, NEW mint \in Paying, NEW n \in Nat, NEW swap, rate \in Nat \ {0},
         FairSwap(swap, mint, "TOKEN", n), q.createIn \/ (mint # "WSOL" /\ w[mint] # Closed),
         q.createOut \/ w.TOKEN # Closed,
         IF mint = "WSOL" THEN w.SOL >= n ELSE Balance(w, mint) >= n
  PROVE  Run(w, Funded(q, mint, n, swap)) # Failed
<1> DEFINE fund == IF mint = "WSOL" THEN handle_wsol(n) ELSE Create(mint)
           A == Only(q.createIn, fund)
           B == Only(q.createOut, Create("TOKEN"))
           C == Only(q.closeIn /\ mint = "WSOL", Close("WSOL"))
           v1 == Run(w, A)
           v2 == Run(v1, B)
           v3 == Run(v2, swap)
           v4 == Run(v3, C)
<1>1. mint \in Mints /\ "TOKEN" \in Mints /\ mint # "TOKEN"
  BY DEF Paying, Mints
<1>2. A \in Seq(Instructions) /\ B \in Seq(Instructions) /\ C \in Seq(Instructions) /\ swap \in Seq(Instructions)
  <2>1. fund \in Seq(Preparing)
    BY <1>1, Pieces
  <2>2. Create("TOKEN") \in Seq(Preparing) /\ Close("WSOL") \in Seq(Preparing)
    BY <1>1, Pieces
  <2>3. swap \in Seq(Instructions)
    BY FairSwapIsOne
  <2> HIDE DEF fund
  <2>4. QED
    BY <2>1, <2>2, <2>3, PiecesAreInstructions
<1>3. Run(w, Funded(q, mint, n, swap)) = v4
  <2>1. Funded(q, mint, n, swap) = ((A \o B) \o swap) \o C
    BY DEF Funded
  <2> HIDE DEF A, B, C
  <2>2. QED
    BY <1>2, <2>1, RunFour
<1>4. v1 \in Purses /\ v1[mint] \in Nat /\ v1[mint] >= n /\ v1.TOKEN = w.TOKEN
  <2>1. v1 = IF q.createIn THEN Run(w, fund) ELSE w
    BY RunOnly
  <2>2. CASE mint = "WSOL"
    <3>1. fund = handle_wsol(n) /\ w.SOL >= n /\ v1 = Run(w, fund)
      BY <2>1, <2>2
    <3> HIDE DEF v1, fund
    <3>2. LET v == Run(w, handle_wsol(n))
          IN /\ v \in Purses /\ v.WSOL \in Nat /\ v.WSOL >= n
             /\ v.USDC = w.USDC /\ v.TOKEN = w.TOKEN
      BY <3>1, RunWrap
    <3>3. QED
      BY <2>2, <3>1, <3>2
  <2>3. CASE mint # "WSOL" /\ q.createIn
    <3>1. fund = Create(mint) /\ Balance(w, mint) >= n /\ v1 = Run(w, fund)
      BY <2>1, <2>3
    <3> HIDE DEF v1, fund
    <3>2. v1 = Run(w, Create(mint))
      BY <3>1
    <3>3. /\ v1 \in Purses /\ v1[mint] # Closed /\ \A o \in Mints : o # mint => v1[o] = w[o]
          /\ w[mint] # Closed => v1[mint] = w[mint]
          /\ w[mint] = Closed => v1[mint] = 0
      BY <1>1, <3>2, RunCreate
    <3>4. v1[mint] = Balance(w, mint)
      BY <3>3 DEF Balance
    <3>5. v1[mint] \in Nat
      BY <1>1, <3>3 DEF Purses, Mints
    <3>6. QED
      BY <1>1, <3>1, <3>3, <3>4, <3>5
  <2>4. CASE mint # "WSOL" /\ ~q.createIn
    <3>1. v1 = w /\ w[mint] # Closed /\ Balance(w, mint) >= n
      BY <2>1, <2>4
    <3> HIDE DEF v1
    <3>2. w[mint] \in Nat /\ w[mint] >= n
      BY <1>1, <3>1 DEF Purses, Mints, Balance
    <3>3. QED
      BY <3>1, <3>2
  <2>5. QED
    BY <2>2, <2>3, <2>4
<1> HIDE DEF v1
<1>5. v2 \in Purses /\ v2[mint] \in Nat /\ v2[mint] >= n /\ v2.TOKEN # Closed
  <2>1. v2 = IF q.createOut THEN Run(v1, Create("TOKEN")) ELSE v1
    BY RunOnly
  <2>2. CASE q.createOut
    <3>1. v2 = Run(v1, Create("TOKEN"))
      BY <2>1, <2>2
    <3> HIDE DEF v2
    <3>2. v2 \in Purses /\ v2["TOKEN"] # Closed /\ \A o \in Mints : o # "TOKEN" => v2[o] = v1[o]
      BY <1>1, <1>4, <3>1, RunCreate
    <3>3. QED
      BY <1>1, <1>4, <3>2
  <2>3. CASE ~q.createOut
    BY <1>4, <2>1, <2>3
  <2>4. QED
    BY <2>2, <2>3
<1> HIDE DEF v2
<1>6. v3 \in Purses /\ v3[mint] \in Nat
  BY <1>1, <1>5, FairSwapRuns
<1> HIDE DEF v3
<1>7. v4 \in Purses
  <2>0. \A c : Run(v3, Only(c, Close("WSOL"))) = IF c THEN Run(v3, Close("WSOL")) ELSE v3
    BY RunOnly
  <2>1. v4 = IF q.closeIn /\ mint = "WSOL" THEN Run(v3, Close("WSOL")) ELSE v3
    BY <2>0
  <2>2. CASE q.closeIn /\ mint = "WSOL"
    <3>1. v3["WSOL"] # Closed
      BY <1>6, <2>2 DEF Closed
    <3>2. v4 = Run(v3, Close("WSOL"))
      BY <2>1, <2>2
    <3>3. QED
      BY <1>6, <3>1, <3>2, RunClose
  <2>3. CASE ~ (q.closeIn /\ mint = "WSOL")
    BY <1>6, <2>1, <2>3
  <2>4. QED
    BY <2>2, <2>3
<1>8. QED
  BY <1>3, <1>7, PurseShape

(* And so a sale, of all tokens if their account is to be closed; a curve of
   PumpFun may pay SOL that was not wrapped. *)
LEMMA ReceivedRuns ==
  ASSUME NEW w \in Purses, NEW q, NEW mint \in Paying, NEW n \in Nat, NEW swap, rate \in Nat \ {0},
         NEW got \in {mint, "SOL"}, FairSwap(swap, "TOKEN", got, n), q.createOut \/ w[mint] # Closed,
         w.TOKEN \in Nat, w.TOKEN >= n,
         q.closeIn => TakesAll(swap, "TOKEN", got, n) /\ w.TOKEN = n
  PROVE  Run(w, Received(q, mint, swap)) # Failed
<1> DEFINE A == Only(q.createOut, Create(mint))
           B == Only(q.closeOut /\ mint = "WSOL", Close("WSOL"))
           C == Only(q.closeIn, Close("TOKEN"))
           v1 == Run(w, A)
           v2 == Run(v1, swap)
           v3 == Run(v2, B)
           v4 == Run(v3, C)
<1>1. mint \in Mints /\ "TOKEN" \in Mints /\ mint # "TOKEN" /\ got \in Mints /\ got # "TOKEN"
  BY DEF Paying, Mints
<1>2. A \in Seq(Instructions) /\ B \in Seq(Instructions) /\ C \in Seq(Instructions) /\ swap \in Seq(Instructions)
  <2>1. Create(mint) \in Seq(Preparing) /\ Close("TOKEN") \in Seq(Preparing) /\ Close("WSOL") \in Seq(Preparing)
    BY <1>1, Pieces
  <2>2. swap \in Seq(Instructions)
    BY <1>1, FairSwapIsOne
  <2>3. QED
    BY <2>1, <2>2, PiecesAreInstructions
<1>3. Run(w, Received(q, mint, swap)) = v4
  <2>1. Received(q, mint, swap) = ((A \o swap) \o B) \o C
    BY DEF Received
  <2> HIDE DEF A, B, C
  <2>2. QED
    BY <1>2, <2>1, RunFour
<1>4. v1 \in Purses /\ v1[mint] # Closed /\ v1[got] # Closed /\ v1.TOKEN = w.TOKEN
  <2>1. v1 = IF q.createOut THEN Run(w, Create(mint)) ELSE w
    BY RunOnly
  <2>2. q.createOut => v1 = Run(w, Create(mint))
    BY <2>1
  <2>3. ~q.createOut => v1 = w /\ w[mint] # Closed
    BY <2>1
  <2> HIDE DEF v1
  <2>6. v1 \in Purses /\ v1[mint] # Closed /\ \A o \in Mints : o # mint => v1[o] = w[o]
    <3>1. CASE q.createOut
      <4>1. v1 = Run(w, Create(mint))
        BY <2>2, <3>1
      <4>2. QED
        BY <1>1, <4>1, RunCreate
    <3>2. CASE ~q.createOut
      BY <2>3, <3>2
    <3>3. QED
      BY <3>1, <3>2
  <2>4. v1.SOL # Closed
    BY <2>6, HeldIs DEF Closed
  <2>5. QED
    BY <1>1, <2>4, <2>6
<1> HIDE DEF v1
<1>5. v2 \in Purses /\ v2[mint] # Closed /\ v2.TOKEN \in Nat
  <2>1. v1.TOKEN \in Nat /\ v1.TOKEN >= n
    BY <1>4
  <2>2. v2 \in Purses /\ v2["TOKEN"] \in Nat /\ v2[got] # Closed
        /\ \A o \in Mints \ {"TOKEN", got} : v2[o] = v1[o]
    BY <1>1, <1>4, <2>1, FairSwapRuns
  <2> HIDE DEF v2
  <2>3. CASE mint = got
    BY <2>2, <2>3
  <2>4. CASE mint # got
    BY <1>1, <1>4, <2>2, <2>4
  <2>5. QED
    BY <2>2, <2>3, <2>4
<1>6. q.closeIn => v2.TOKEN = 0
  BY <1>1, <1>4, TakesAllRuns
<1> HIDE DEF v2
<1>7. v3 \in Purses /\ v3.TOKEN = v2.TOKEN
  <2>1. v3 = IF q.closeOut /\ mint = "WSOL" THEN Run(v2, Close("WSOL")) ELSE v2
    BY RunOnly
  <2>2. CASE q.closeOut /\ mint = "WSOL"
    <3>1. v2["WSOL"] # Closed
      BY <1>5, <2>2
    <3>2. v3 = Run(v2, Close("WSOL"))
      BY <2>1, <2>2
    <3>3. QED
      BY <1>5, <3>1, <3>2, RunClose
  <2>3. CASE ~ (q.closeOut /\ mint = "WSOL")
    BY <1>5, <2>1, <2>3
  <2>4. QED
    BY <2>2, <2>3
<1> HIDE DEF v3
<1>8. v4 \in Purses
  <2>1. v4 = IF q.closeIn THEN Run(v3, Close("TOKEN")) ELSE v3
    BY RunOnly
  <2>2. CASE q.closeIn
    <3>1. v3["TOKEN"] = 0 /\ 0 # Closed
      BY <1>6, <1>7, <2>2 DEF Closed
    <3>2. v4 = Run(v3, Close("TOKEN"))
      BY <2>1, <2>2
    <3>3. QED
      BY <1>7, <3>1, <3>2, RunClose
  <2>3. CASE ~q.closeIn
    BY <1>7, <2>1, <2>3
  <2>4. QED
    BY <2>2, <2>3
<1>9. QED
  BY <1>3, <1>8, PurseShape

(* What a request names agrees with the rate it was worked out at. *)
LEMMA RatesAgree ==
  ASSUME NEW n \in Nat, NEW least \in Nat, NEW at \in Nat \ {0}
  PROVE  /\ CeilDiv(n * at, at) <= n
         /\ CeilDiv(least, at) <= n => n * at >= least
         /\ n \div at >= least => least * at <= n
<1>1. n * at \in Nat
  BY SMT
<1>2. CeilDiv(n * at, at) <= n
  BY <1>1, CeilDivLeast
<1>3. CeilDiv(least, at) <= n => n * at >= least
  <2> DEFINE c == CeilDiv(least, at)
  <2>1. c \in Nat /\ c * at >= least
    BY CeilDivBounds
  <2> HIDE DEF c
  <2>2. c <= n => c * at <= n * at
    BY <2>1, ProductsOrdered
  <2>3. c <= n => n * at >= least
    BY <1>1, <2>1, <2>2, SMT
  <2>4. QED
    BY <2>3 DEF c
<1>4. n \div at >= least => least * at <= n
  <2> DEFINE q == n \div at
  <2>1. q \in Nat /\ q * at <= n
    BY QuotientBounds
  <2> HIDE DEF q
  <2>2. least <= q => least * at <= q * at
    BY <2>1, ProductsOrdered
  <2>3. q >= least => least * at <= n
    BY <2>1, <2>2, SMT
  <2>4. QED
    BY <2>3 DEF q
<1>5. QED
  BY <1>2, <1>3, <1>4

(* What is divided by the same is in the same order. *)
LEMMA QuotientsOrdered ==
  ASSUME NEW a \in Nat, NEW b \in Nat, NEW d \in Nat \ {0}, a <= b
  PROVE  a \div d <= b \div d
<1> DEFINE k == a \div d
<1>1. k \in Nat /\ k * d <= a
  BY QuotientBounds
<1> HIDE DEF k
<1>2. k * d \in Nat
  BY <1>1
<1>3. k * d <= b
  BY <1>1, <1>2
<1>4. k <= b \div d
  BY <1>1, <1>3, QuotientLeast
<1>5. QED
  BY <1>4 DEF k

(* One instruction that moves so much for so much is such a swap. *)
LEMMA OneMoves ==
  ASSUME NEW how \in Hows, NEW p \in Mints, NEW g \in Mints, p # g, NEW n \in Nat, NEW b \in Nat,
         NEW paid \in Nat, NEW got \in Nat, NEW most, paid <= most,
         \A i : i = [op |-> how, pay |-> p, get |-> g, in |-> n, out |-> b] =>
           \A w : w # Failed => RunOne(w, i) = Swapped(w, i, paid, got)
  PROVE  /\ FairSwap(Swap(how, p, g, n, b), p, g, most)
         /\ paid = n => TakesAll(Swap(how, p, g, n, b), p, g, n)
<1> DEFINE i == [op |-> how, pay |-> p, get |-> g, in |-> n, out |-> b]
           j == [pay |-> p, get |-> g]
           swap == Swap(how, p, g, n, b)
<1>1. swap \in Seq(Instructions)
  BY SwapsAreInstructions
<1>2. i.pay = j.pay /\ i.get = j.get
  OBVIOUS
<1>3. \A w : w # Failed => RunOne(w, i) = Swapped(w, i, paid, got)
  OBVIOUS
<1>4. \A w : Run(w, swap) = RunOne(w, i)
  BY RunShort DEF Swap
<1> HIDE DEF i
<1>5. \A w : Swapped(w, i, paid, got) = Swapped(w, j, paid, got)
  BY <1>2 DEF Swapped
<1> HIDE DEF swap
<1>6. \A w \in Purses : Run(w, swap) = Swapped(w, j, paid, got)
  BY <1>3, <1>4, <1>5, PurseShape
<1>7. Moves(swap, p, g, paid, got)
  BY <1>6 DEF Moves
<1>8. FairSwap(swap, p, g, most) /\ (paid = n => TakesAll(swap, p, g, n))
  BY <1>1, <1>7 DEF FairSwap, TakesAll
<1>9. QED
  BY <1>8 DEF swap

LEMMA FairIn ==
  ASSUME NEW p \in Mints, NEW g \in Mints, p # g, NEW most, NEW n \in Nat, NEW b \in Nat, n <= most,
         rate \in Nat \ {0}, IF g = "TOKEN" THEN n * rate >= b ELSE n \div rate >= b
  PROVE  /\ FairSwap(Swap("exactIn", p, g, n, b), p, g, most) /\ TakesAll(Swap("exactIn", p, g, n, b), p, g, n)
         /\ n <= PoolTakes[p] => FairSwap(Swap("rangedIn", p, g, n, b), p, g, most)
<1> DEFINE got == Gets([get |-> g], n)
<1>1. got >= b
  BY DEF Gets
<1>2. got \in Nat
  BY PricesAre
<1>3. \A i : i.get = g => Gets(i, n) = got
  BY DEF Gets
<1> HIDE DEF got
<1>4. ~ (got < b)
  BY <1>1, <1>2
<1>5. ASSUME NEW how \in {"exactIn", "rangedIn"}, how = "rangedIn" => ~ (n > PoolTakes[p])
      PROVE  /\ FairSwap(Swap(how, p, g, n, b), p, g, most)
             /\ TakesAll(Swap(how, p, g, n, b), p, g, n)
  <2>1. ASSUME NEW i, i = [op |-> how, pay |-> p, get |-> g, in |-> n, out |-> b], NEW w, w # Failed
        PROVE  RunOne(w, i) = Swapped(w, i, n, got)
    <3>1. i.op = how /\ i.pay = p /\ i.get = g /\ i.in = n /\ i.out = b
      BY <2>1
    <3>2. Gets(i, i.in) = got
      BY <1>3, <3>1
    <3>3. CASE how = "exactIn"
      BY <1>4, <2>1, <3>1, <3>2, <3>3 DEF RunOne
    <3>4. CASE how = "rangedIn"
      BY <1>4, <1>5, <2>1, <3>1, <3>2, <3>4 DEF RunOne
    <3>5. QED
      BY <3>3, <3>4
  <2>2. how \in Hows
    BY DEF Hows
  <2>3. QED
    BY <1>2, <2>1, <2>2, OneMoves
<1>6. n <= PoolTakes[p] => ~ (n > PoolTakes[p])
  BY PlanAssumption DEF Mints, Paying
<1>7. QED
  BY <1>5, <1>6

LEMMA FairOut ==
  ASSUME NEW p \in Mints, NEW g \in Mints, p # g, NEW most \in Nat, NEW n \in Nat, NEW b \in Nat, n <= most,
         rate \in Nat \ {0}, IF g = "TOKEN" THEN CeilDiv(b, rate) <= n ELSE b * rate <= n
  PROVE  /\ FairSwap(Swap("exactOut", p, g, n, b), p, g, most)
         /\ (IF g = "TOKEN" THEN CeilDiv(b, rate) <= PoolTakes[p] ELSE b * rate <= PoolTakes[p]) =>
              FairSwap(Swap("rangedOut", p, g, n, b), p, g, most)
<1> DEFINE cost == Costs([get |-> g], b)
           takes == PoolTakes[p]
<1>1. cost <= n /\ cost = IF g = "TOKEN" THEN CeilDiv(b, rate) ELSE b * rate
  BY DEF Costs
<1>2. cost \in Nat /\ takes \in Nat
  BY PricesAre, PlanAssumption DEF Mints, Paying
<1>3. \A i : i.get = g => Costs(i, b) = cost
  BY DEF Costs
<1> HIDE DEF cost, takes
<1>4. cost <= most /\ ~ (cost > n) /\ (cost <= takes => ~ (cost > Least(n, takes)))
  BY <1>1, <1>2 DEF Least
<1>5. ASSUME NEW how \in {"exactOut", "rangedOut"}, how = "rangedOut" => cost <= takes
      PROVE  FairSwap(Swap(how, p, g, n, b), p, g, most)
  <2>1. ASSUME NEW i, i = [op |-> how, pay |-> p, get |-> g, in |-> n, out |-> b], NEW w, w # Failed
        PROVE  RunOne(w, i) = Swapped(w, i, cost, b)
    <3>1. i.op = how /\ i.pay = p /\ i.get = g /\ i.in = n /\ i.out = b
      BY <2>1
    <3>2. Costs(i, i.out) = cost /\ PoolTakes[i.pay] = takes
      BY <1>3, <3>1 DEF takes
    <3>3. CASE how = "exactOut"
      BY <1>4, <2>1, <3>1, <3>2, <3>3 DEF RunOne
    <3>4. CASE how = "rangedOut"
      BY <1>4, <1>5, <2>1, <3>1, <3>2, <3>4 DEF RunOne
    <3>5. QED
      BY <3>3, <3>4
  <2>2. how \in Hows
    BY DEF Hows
  <2>3. QED
    BY <1>2, <1>4, <2>1, <2>2, OneMoves
<1>6. (IF g = "TOKEN" THEN CeilDiv(b, rate) <= PoolTakes[p] ELSE b * rate <= PoolTakes[p]) => cost <= takes
  BY <1>1 DEF takes
<1>7. QED
  BY <1>5, <1>6

(* What the pool takes of n, for what it gives. *)
LEMMA FairPart ==
  ASSUME NEW p \in Mints, NEW g \in Mints, p # g, NEW most, NEW n \in Nat, NEW b \in Nat, n <= most, most \in Nat,
         rate \in Nat \ {0}, NEW m \in Nat, m = Least(n, PoolTakes[p]),
         IF g = "TOKEN" THEN m * rate >= b ELSE m \div rate >= b
  PROVE  FairSwap(Swap("partial", p, g, n, b), p, g, most)
<1> DEFINE got == Gets([get |-> g], m)
<1>1. got >= b
  BY DEF Gets
<1>2. got \in Nat
  BY PricesAre
<1>3. \A i : i.get = g => Gets(i, m) = got
  BY DEF Gets
<1> HIDE DEF got
<1>4. m <= n
  BY PlanAssumption DEF Least, Mints, Paying
<1>5. ~ (got < b) /\ m <= most
  BY <1>1, <1>2, <1>4
<1>6. ASSUME NEW i, i = [op |-> "partial", pay |-> p, get |-> g, in |-> n, out |-> b], NEW w, w # Failed
      PROVE  RunOne(w, i) = Swapped(w, i, m, got)
  <2>1. i.op = "partial" /\ i.pay = p /\ i.get = g /\ i.in = n /\ i.out = b
    BY <1>6
  <2>2. Least(i.in, PoolTakes[i.pay]) = m /\ Gets(i, m) = got
    BY <1>3, <2>1
  <2>3. QED
    BY <1>5, <1>6, <2>1, <2>2 DEF RunOne
<1>7. "partial" \in Hows
  BY DEF Hows
<1>8. QED
  BY <1>2, <1>5, <1>6, <1>7, OneMoves

(* The limits of a buy can be met at the rate they were worked out at. *)
LEMMA BuysAreFair ==
  ASSUME NEW r \in Shapes, r.buy, rate \in Nat \ {0},
         r.kind = "fixed" => CeilDiv(r.fixed, rate) <= r.n, NEW c \in Paying
  PROVE  /\ FairSwap(CurveBuy(r, c), c, "TOKEN", MostIn(r))
         /\ FairSwap(BaseSwap(r, c, "TOKEN"), c, "TOKEN", r.n)
         /\ FairSwap(Swap("exactIn", c, "TOKEN", r.n, LeastOut(r)), c, "TOKEN", r.n)
<1> DEFINE n == r.n
           most == MostIn(r)
           least == LeastOut(r)
           all == Estimate(r)
           fixed == r.fixed
<1>0. c \in Mints /\ "TOKEN" \in Mints /\ c # "TOKEN"
  BY DEF Paying, Mints
<1>1. /\ r.kind \in {"exact", "fixed", "max"} /\ n \in Nat /\ fixed \in Nat
      /\ r.kind = "fixed" => least = fixed
  BY DEF Shapes, LeastOut
<1>2. /\ all \in Nat /\ least \in Nat /\ most \in Nat /\ n <= most
      /\ r.kind # "fixed" => least <= all
  BY EstimatesAre
<1>3. all = n * rate
  BY DEF Estimate
<1>4. r.kind = "fixed" => CeilDiv(fixed, rate) <= n
  OBVIOUS
<1> DEFINE kind == r.kind
<1>5. /\ CurveBuy(r, c) = CASE kind = "exact" -> Swap("exactIn", c, "TOKEN", n, least)
                            [] kind = "fixed" -> Swap("exactOut", c, "TOKEN", n, fixed)
                            [] kind = "max" -> Swap("exactOut", c, "TOKEN", most, all)
      /\ BaseSwap(r, c, "TOKEN") = IF kind = "fixed" THEN Swap("exactOut", c, "TOKEN", n, least)
                                   ELSE Swap("exactIn", c, "TOKEN", n, least)
  BY DEF CurveBuy, BaseSwap
<1> HIDE DEF n, most, least, all, fixed, kind
<1>6. n * rate >= least
  <2>1. CASE kind = "fixed"
    <3>1. CeilDiv(fixed, rate) <= n /\ least = fixed
      BY <1>1, <1>4, <2>1 DEF kind
    <3>2. QED
      BY <1>1, <3>1, RatesAgree
  <2>2. CASE kind # "fixed"
    BY <1>2, <1>3, <2>2 DEF kind
  <2>3. QED
    BY <2>1, <2>2
<1>7. /\ FairSwap(Swap("exactIn", c, "TOKEN", n, least), c, "TOKEN", n)
      /\ FairSwap(Swap("exactIn", c, "TOKEN", n, least), c, "TOKEN", most)
  <2>1. n <= n
    BY <1>1
  <2>2. QED
    BY <1>0, <1>1, <1>2, <1>6, <2>1, FairIn
<1>8. kind = "fixed" => /\ FairSwap(Swap("exactOut", c, "TOKEN", n, fixed), c, "TOKEN", n)
                        /\ FairSwap(Swap("exactOut", c, "TOKEN", n, fixed), c, "TOKEN", most)
  <2>1. n <= n
    BY <1>1
  <2>2. QED
    BY <1>0, <1>1, <1>2, <1>4, <2>1, FairOut DEF kind
<1>9. FairSwap(Swap("exactOut", c, "TOKEN", most, all), c, "TOKEN", most)
  <2>1. CeilDiv(all, rate) <= n
    BY <1>1, <1>3, RatesAgree
  <2>2. CeilDiv(all, rate) \in Nat
    BY <1>2, CeilDivBounds
  <2>3. CeilDiv(all, rate) <= most /\ most <= most
    BY <1>1, <1>2, <2>1, <2>2
  <2>4. QED
    BY <1>0, <1>2, <2>3, FairOut
<1>10. /\ FairSwap(CurveBuy(r, c), c, "TOKEN", most)
       /\ FairSwap(BaseSwap(r, c, "TOKEN"), c, "TOKEN", n)
  BY <1>1, <1>5, <1>7, <1>8, <1>9 DEF kind
<1>11. QED
  BY <1>7, <1>10 DEF n, most, least

LEMMA SalesAreFair ==
  ASSUME NEW r \in Shapes, ~r.buy, rate \in Nat \ {0},
         r.kind = "fixed" => r.n \div rate >= r.fixed, NEW c \in Paying
  PROVE  /\ FairSwap(CurveSell(r, c), "TOKEN", c, r.n) /\ TakesAll(CurveSell(r, c), "TOKEN", c, r.n)
         /\ FairSwap(BaseSwap(r, "TOKEN", c), "TOKEN", c, r.n)
         /\ r.kind # "fixed" => TakesAll(BaseSwap(r, "TOKEN", c), "TOKEN", c, r.n)
<1> DEFINE n == r.n
           least == LeastOut(r)
           all == Estimate(r)
           fixed == r.fixed
           kind == r.kind
<1>1. /\ n \in Nat /\ fixed \in Nat /\ (kind = "fixed" => least = fixed) /\ c # "TOKEN"
      /\ c \in Mints /\ "TOKEN" \in Mints
  BY DEF Shapes, LeastOut, Paying, Mints
<1>2. all \in Nat /\ least \in Nat /\ (kind # "fixed" => least <= all)
  BY EstimatesAre
<1>3. all = n \div rate
  BY DEF Estimate
<1>4. kind = "fixed" => n \div rate >= fixed
  OBVIOUS
<1>5. /\ CurveSell(r, c) = Swap("exactIn", "TOKEN", c, n, least)
      /\ BaseSwap(r, "TOKEN", c) = IF kind = "fixed" THEN Swap("exactOut", "TOKEN", c, n, least)
                                   ELSE Swap("exactIn", "TOKEN", c, n, least)
  BY DEF CurveSell, BaseSwap
<1> HIDE DEF n, least, all, fixed, kind
<1>6. n <= n /\ n \div rate >= least
  BY <1>1, <1>2, <1>3, <1>4
<1>7. /\ FairSwap(Swap("exactIn", "TOKEN", c, n, least), "TOKEN", c, n)
      /\ TakesAll(Swap("exactIn", "TOKEN", c, n, least), "TOKEN", c, n)
  BY <1>1, <1>2, <1>6, FairIn
<1>8. kind = "fixed" => FairSwap(Swap("exactOut", "TOKEN", c, n, least), "TOKEN", c, n)
  <2>1. kind = "fixed" => least * rate <= n
    BY <1>1, <1>2, <1>4, RatesAgree
  <2>2. QED
    BY <1>1, <1>2, <1>6, <2>1, FairOut
<1>9. QED
  BY <1>5, <1>7, <1>8 DEF n, kind

(* A DAMM v2 pool takes what there is of the input, and the price asks no more for
   the fixed output. *)
LEMMA DammV2IsFair ==
  ASSUME NEW r \in Shapes, DammV2Takes(r), rate \in Nat \ {0}, NEW pay \in Mints, NEW get \in Mints, pay # get,
         r.buy <=> get = "TOKEN", NEW m \in Nat, m = Least(r.n, PoolTakes[pay]),
         IF r.buy THEN CeilDiv(r.fixed, rate) <= m ELSE m \div rate >= r.fixed,
         SwapMode(r) = "EXACT_IN" => m = r.n
  PROVE  FairSwap(DammV2Exchange(r, pay, get), pay, get, r.n)
<1> DEFINE n == r.n
           fixed == r.fixed
           takes == PoolTakes[pay]
           mode == SwapMode(r)
<1>1. n \in Nat /\ fixed \in Nat /\ takes \in Nat /\ n <= n
  BY PlanAssumption DEF Shapes, Mints, Paying
<1>2. /\ IF get = "TOKEN" THEN CeilDiv(fixed, rate) <= m ELSE m \div rate >= fixed
      /\ mode = "EXACT_IN" => m = n
  OBVIOUS
<1>3. m = Least(n, takes)
  OBVIOUS
<1>4. mode \in {"EXACT_IN", "PARTIAL_FILL", "EXACT_OUT"}
  BY DEF DammV2Takes
<1>5. DammV2Exchange(r, pay, get) =
        Swap(CASE mode = "EXACT_IN" -> "rangedIn" [] mode = "EXACT_OUT" -> "rangedOut" [] OTHER -> "partial",
             pay, get, n, fixed)
  BY DEF DammV2Exchange
<1> HIDE DEF n, fixed, takes, mode
<1>6. m <= n /\ m <= takes
  BY <1>1, <1>3 DEF Least
<1>7. CeilDiv(fixed, rate) \in Nat /\ fixed * rate \in Nat
  <2>1. CeilDiv(fixed, rate) \in Nat
    BY <1>1, CeilDivBounds
  <2>2. fixed * rate \in Nat
    BY <1>1
  <2>3. QED
    BY <2>1, <2>2
<1>8. IF get = "TOKEN" THEN m * rate >= fixed ELSE m \div rate >= fixed
  BY <1>1, <1>2, RatesAgree
<1>9. IF get = "TOKEN" THEN CeilDiv(fixed, rate) <= m ELSE fixed * rate <= m
  BY <1>1, <1>2, RatesAgree
<1>10. CASE mode = "EXACT_IN"
  <2>1. IF get = "TOKEN" THEN n * rate >= fixed ELSE n \div rate >= fixed
    BY <1>2, <1>8, <1>10
  <2>2. n <= takes
    BY <1>2, <1>6, <1>10
  <2>3. n <= PoolTakes[pay] => FairSwap(Swap("rangedIn", pay, get, n, fixed), pay, get, n)
    BY <1>1, <2>1, FairIn
  <2>4. QED
    BY <1>5, <1>10, <2>2, <2>3 DEF takes, n
<1>11. CASE mode = "EXACT_OUT"
  <2>1. /\ IF get = "TOKEN" THEN CeilDiv(fixed, rate) <= n ELSE fixed * rate <= n
        /\ IF get = "TOKEN" THEN CeilDiv(fixed, rate) <= takes ELSE fixed * rate <= takes
    BY <1>1, <1>6, <1>7, <1>9
  <2>2. (IF get = "TOKEN" THEN CeilDiv(fixed, rate) <= PoolTakes[pay] ELSE fixed * rate <= PoolTakes[pay]) =>
          FairSwap(Swap("rangedOut", pay, get, n, fixed), pay, get, n)
    BY <1>1, <2>1, FairOut
  <2>3. QED
    BY <1>5, <1>11, <2>1, <2>2 DEF takes, n
<1>12. CASE mode = "PARTIAL_FILL"
  <2>1. FairSwap(Swap("partial", pay, get, n, fixed), pay, get, n)
    BY <1>1, <1>3, <1>8, FairPart DEF takes
  <2>2. QED
    BY <1>5, <1>12, <2>1 DEF n
<1>13. QED
  BY <1>4, <1>10, <1>11, <1>12

(* A wallet that can pay n in a mint, wrapping it first where it has to. *)
Pays(w, mint, n) == IF mint = "USDC" THEN Balance(w, mint) >= n ELSE w.SOL >= n

(* The conditions PreparedAccountsSuffice names, of a request that is handed on. *)
Ready(r) ==
    /\ wallet \in Purses /\ rate \in Nat \ {0}
    /\ r \in Shapes /\ Handed(r) /\ r.n > 0
    /\ Funds(wallet, r) /\ Fair(r) /\ Prepared(wallet, r)

LEMMA ReadyIs ==
  ASSUME NEW r, Ready(r)
  PROVE  /\ r.n \in Nat /\ MostIn(r) \in Nat /\ r.n <= MostIn(r)
         /\ r.buy \in BOOLEAN /\ r.direct \in BOOLEAN /\ r.pool \in Paying /\ r.with \in Paying
         /\ r.buy => \A mint \in Paying : Same(r.with, mint) => Pays(wallet, mint, MostIn(r))
         /\ ~r.buy => wallet.TOKEN \in Nat /\ wallet.TOKEN >= r.n
         /\ ~r.buy /\ r.closeIn => wallet.TOKEN = r.n /\ r.kind # "fixed"
         /\ r.kind = "fixed" => IF r.buy THEN CeilDiv(r.fixed, rate) <= r.n ELSE r.n \div rate >= r.fixed
<1>1. /\ r \in Shapes /\ rate \in Nat \ {0} /\ wallet \in Purses
      /\ r.n > 0 /\ Funds(wallet, r) /\ Fair(r)
  BY DEF Ready
<1>2. r.buy \in BOOLEAN /\ r.direct \in BOOLEAN /\ r.pool \in Paying /\ r.with \in Paying
  BY <1>1 DEF Shapes
<1>3. r.n \in Nat /\ MostIn(r) \in Nat /\ r.n <= MostIn(r)
  BY <1>1, EstimatesAre
<1>4. ASSUME r.buy, NEW mint \in Paying, Same(r.with, mint) PROVE Pays(wallet, mint, MostIn(r))
  <2> DEFINE most == MostIn(r)
  <2>1. (IF Same(r.with, "SOL") THEN wallet.SOL ELSE Balance(wallet, r.with)) >= most
    BY <1>1, <1>4 DEF Funds
  <2> HIDE DEF most
  <2>2. CASE mint = "USDC"
    <3>1. r.with = "USDC" /\ ~Same(r.with, "SOL")
      BY <1>2, <1>4, <2>2 DEF Same, Mint, Paying
    <3>2. QED
      BY <2>1, <2>2, <3>1 DEF Pays, most
  <2>3. CASE mint # "USDC"
    <3>1. Same(r.with, "SOL")
      BY <1>2, <1>4, <2>3 DEF Same, Mint, Paying
    <3>2. QED
      BY <2>1, <2>3, <3>1 DEF Pays, most
  <2>4. QED
    BY <2>2, <2>3
<1>5. ASSUME ~r.buy PROVE wallet.TOKEN \in Nat /\ wallet.TOKEN >= r.n
  <2>1. Balance(wallet, "TOKEN") >= r.n
    BY <1>1, <1>5 DEF Funds
  <2>2. wallet.TOKEN \in Nat \union {Closed}
    BY <1>1, HeldIs
  <2>3. wallet.TOKEN # Closed
    BY <1>1, <1>3, <2>1 DEF Balance
  <2>4. QED
    BY <2>1, <2>2, <2>3 DEF Balance
<1>6. ASSUME ~r.buy, r.closeIn PROVE wallet.TOKEN = r.n /\ r.kind # "fixed"
  <2>1. Balance(wallet, "TOKEN") = r.n /\ r.kind # "fixed"
    BY <1>1, <1>6 DEF Fair
  <2>2. wallet.TOKEN # Closed
    BY <1>5, <1>6 DEF Closed
  <2>3. QED
    BY <2>1, <2>2 DEF Balance
<1>7. r.kind = "fixed" => IF r.buy THEN CeilDiv(r.fixed, rate) <= r.n ELSE r.n \div rate >= r.fixed
  <2> DEFINE filled == FilledOf(r)
             takes == PoolTakes[IF r.buy THEN r.pool ELSE "TOKEN"]
             n == r.n
             fixed == r.fixed
             cost == CeilDiv(fixed, rate)
             least == filled \div rate
             all == n \div rate
  <2>1. takes \in Nat /\ n \in Nat /\ fixed \in Nat
    BY <1>1, <1>2, PlanAssumption DEF Shapes
  <2>2. filled = IF r.venue = "dammV2" THEN Least(n, takes) ELSE n
    BY DEF FilledOf
  <2>3. r.kind = "fixed" => IF r.buy THEN cost <= filled ELSE least >= fixed
    BY <1>1 DEF Fair
  <2> HIDE DEF filled, takes, n
  <2>4. filled \in Nat /\ filled <= n
    BY <2>1, <2>2 DEF Least
  <2>5. least <= all
    BY <1>1, <2>1, <2>4, QuotientsOrdered
  <2>6. cost \in Nat /\ least \in Nat /\ all \in Nat
    <3>1. cost \in Nat
      BY <1>1, <2>1, CeilDivBounds
    <3>2. least \in Nat /\ all \in Nat
      BY <1>1, <2>1, <2>4, QuotientBounds
    <3>3. QED
      BY <3>1, <3>2
  <2> HIDE DEF cost, least, all, fixed
  <2>7. r.kind = "fixed" => IF r.buy THEN cost <= n ELSE all >= fixed
    BY <2>1, <2>3, <2>4, <2>5, <2>6
  <2>8. QED
    BY <2>7 DEF cost, all, fixed, n
<1>8. QED
  BY <1>2, <1>3, <1>4, <1>5, <1>6, <1>7

(* Creating an account, or not. *)
LEMMA MayCreate ==
  ASSUME NEW w \in Purses, NEW m \in Mints, NEW c
  PROVE  LET v == Run(w, Only(c, Create(m)))
         IN /\ v \in Purses /\ \A o \in Mints : o # m => v[o] = w[o]
            /\ c \/ w[m] # Closed => v[m] # Closed
            /\ Balance(v, m) = Balance(w, m)
<1> DEFINE v == Run(w, Only(c, Create(m)))
<1>1. v = IF c THEN Run(w, Create(m)) ELSE w
  BY RunOnly
<1>2. CASE c
  <2>1. v = Run(w, Create(m))
    BY <1>1, <1>2
  <2> HIDE DEF v
  <2>2. /\ v \in Purses /\ v[m] # Closed /\ \A o \in Mints : o # m => v[o] = w[o]
        /\ w[m] # Closed => v[m] = w[m]
        /\ w[m] = Closed => v[m] = 0
    BY <2>1, RunCreate
  <2>3. Balance(v, m) = Balance(w, m)
    BY <2>2 DEF Balance
  <2>4. QED
    BY <2>2, <2>3 DEF v
<1>3. CASE ~c
  BY <1>1, <1>3
<1>4. QED
  BY <1>2, <1>3

LEMMA MayCreateToken ==
  ASSUME NEW w \in Purses, NEW c
  PROVE  LET v == Run(w, Only(c, Create("TOKEN")))
         IN /\ v \in Purses /\ \A o \in Mints : o # "TOKEN" => v[o] = w[o]
            /\ c => v["TOKEN"] # Closed
<1> DEFINE t == "TOKEN"
           v == Run(w, Only(c, Create(t)))
<1>1. t \in Mints
  BY DEF Mints
<1> HIDE DEF t
<1>2. /\ v \in Purses /\ \A o \in Mints : o # t => v[o] = w[o]
      /\ c \/ w[t] # Closed => v[t] # Closed
  BY <1>1, MayCreate
<1> HIDE DEF v
<1>3. v \in Purses /\ (\A o \in Mints : o # t => v[o] = w[o]) /\ (c => v[t] # Closed)
  BY <1>2
<1>4. QED
  BY <1>3 DEF v, t

LEMMA FundedIsInstructions ==
  ASSUME NEW q, NEW mint \in Paying, NEW n \in Nat, NEW swap \in Seq(Instructions)
  PROVE  Funded(q, mint, n, swap) \in Seq(Instructions)
<1> DEFINE A == Only(q.createIn, IF mint = "WSOL" THEN handle_wsol(n) ELSE Create(mint))
           B == Only(q.createOut, Create("TOKEN"))
           C == Only(q.closeIn /\ mint = "WSOL", Close("WSOL"))
<1>1. mint \in Mints /\ "TOKEN" \in Mints
  BY DEF Paying, Mints
<1>2. A \in Seq(Instructions) /\ B \in Seq(Instructions) /\ C \in Seq(Instructions)
  BY <1>1, Pieces, PiecesAreInstructions
<1>3. Funded(q, mint, n, swap) = ((A \o B) \o swap) \o C
  BY DEF Funded
<1> HIDE DEF A, B, C
<1>4. QED
  BY <1>2, <1>3

(* A buy paid from a token account goes through, also after the account of the
   token was created. *)
LEMMA FundedSuffices ==
  ASSUME NEW r, Ready(r), r.buy, NEW mint \in {"WSOL", "USDC"}, Same(r.with, mint), NEW n \in Nat, n <= MostIn(r),
         NEW swap, FairSwap(swap, mint, "TOKEN", n)
  PROVE  /\ \A q : q.createOut /\ (q.createIn \/ (mint # "WSOL" /\ wallet[mint] # Closed)) =>
              Run(wallet, Funded(q, mint, n, swap)) # Failed
         /\ \A q : q.createIn =>
              Run(wallet, Only(r.createOut, Create("TOKEN")) \o Funded(q, mint, n, swap)) # Failed
<1>1. /\ wallet \in Purses /\ rate \in Nat \ {0} /\ mint \in Paying /\ mint \in Mints /\ "TOKEN" \in Mints
      /\ "SOL" \in Mints /\ mint # "TOKEN" /\ r.createOut
  BY DEF Ready, Prepared, Paying, Mints
<1>2. /\ Pays(wallet, mint, MostIn(r)) /\ MostIn(r) \in Nat
      /\ wallet.SOL \in Nat /\ Balance(wallet, mint) \in Nat
  BY <1>1, ReadyIs, HeldIs DEF Balance
<1>3. IF mint = "WSOL" THEN wallet.SOL >= n ELSE Balance(wallet, mint) >= n
  BY <1>2 DEF Pays
<1>4. ASSUME NEW q, q.createOut, q.createIn \/ (mint # "WSOL" /\ wallet[mint] # Closed)
      PROVE  Run(wallet, Funded(q, mint, n, swap)) # Failed
  BY <1>1, <1>3, <1>4, FundedRuns
<1>5. ASSUME NEW q, q.createIn
      PROVE  Run(wallet, Only(r.createOut, Create("TOKEN")) \o Funded(q, mint, n, swap)) # Failed
  <2> DEFINE A == Only(r.createOut, Create("TOKEN"))
             F == Funded(q, mint, n, swap)
             v == Run(wallet, A)
  <2>1. A \in Seq(Instructions)
    BY <1>1, Pieces, PiecesAreInstructions
  <2>2. F \in Seq(Instructions)
    BY <1>1, FairSwapIsOne, FundedIsInstructions
  <2>3. Run(wallet, A \o F) = Run(v, F)
    <3> HIDE DEF A, F
    <3>1. QED
      BY <2>1, <2>2, RunJoins
  <2>4. v \in Purses /\ v["TOKEN"] # Closed /\ \A o \in Mints : o # "TOKEN" => v[o] = wallet[o]
    BY <1>1, MayCreateToken
  <2> HIDE DEF v, A
  <2>5. IF mint = "WSOL" THEN v.SOL >= n ELSE Balance(v, mint) >= n
    BY <1>1, <1>3, <2>4 DEF Balance
  <2>6. Run(v, F) # Failed
    BY <1>1, <1>5, <2>4, <2>5, FundedRuns
  <2>7. QED
    BY <2>3, <2>6 DEF A
<1>6. QED
  BY <1>4, <1>5

LEMMA RunThree ==
  ASSUME NEW w, NEW a \in Seq(Instructions), NEW b \in Seq(Instructions), NEW c \in Seq(Instructions)
  PROVE  /\ Run(w, (a \o b) \o c) = Run(Run(Run(w, a), b), c)
         /\ Run(w, a \o b) = Run(Run(w, a), b)
<1> DEFINE ab == a \o b
<1>1. ab \in Seq(Instructions)
  BY ConcatProperties
<1>2. Run(w, ab) = Run(Run(w, a), b)
  BY RunJoins
<1> HIDE DEF ab
<1>3. Run(w, ab \o c) = Run(Run(w, ab), c)
  BY <1>1, RunJoins
<1>4. QED
  BY <1>2, <1>3 DEF ab

(* A buy that pays what the wallet holds, and a sale, prepare no more than the
   accounts of the mints. *)
LEMMA BoughtRuns ==
  ASSUME NEW w \in Purses, NEW m \in Paying, NEW n \in Nat, NEW swap, rate \in Nat \ {0},
         FairSwap(swap, m, "TOKEN", n), Balance(w, m) >= n, NEW c, c
  PROVE  /\ \A d : d \/ w[m] # Closed =>
              Run(w, (Only(c, Create("TOKEN")) \o Only(d, Create(m))) \o swap) # Failed
         /\ w[m] # Closed => Run(w, Only(c, Create("TOKEN")) \o swap) # Failed
<1> DEFINE A == Only(c, Create("TOKEN"))
           v1 == Run(w, A)
<1>1. m \in Mints /\ "TOKEN" \in Mints /\ m # "TOKEN"
  BY DEF Paying, Mints
<1>2. A \in Seq(Instructions) /\ swap \in Seq(Instructions)
  BY <1>1, Pieces, PiecesAreInstructions, FairSwapIsOne
<1>3. v1 \in Purses /\ v1["TOKEN"] # Closed /\ v1[m] = w[m]
  BY <1>1, MayCreateToken
<1>4. Balance(v1, m) >= n
  BY <1>3 DEF Balance
<1> HIDE DEF v1
<1>5. ASSUME NEW d, d \/ w[m] # Closed
      PROVE  Run(w, (A \o Only(d, Create(m))) \o swap) # Failed
  <2> DEFINE B == Only(d, Create(m))
             v2 == Run(v1, B)
  <2>1. B \in Seq(Instructions)
    BY <1>1, Pieces, PiecesAreInstructions
  <2>2. /\ v2 \in Purses /\ v2[m] # Closed /\ Balance(v2, m) = Balance(v1, m)
        /\ v2["TOKEN"] = v1["TOKEN"]
    <3>1. d \/ v1[m] # Closed
      BY <1>3, <1>5
    <3>2. /\ v2 \in Purses /\ \A o \in Mints : o # m => v2[o] = v1[o]
          /\ d \/ v1[m] # Closed => v2[m] # Closed
          /\ Balance(v2, m) = Balance(v1, m)
      BY <1>1, <1>3, MayCreate
    <3> HIDE DEF v2
    <3>3. QED
      BY <1>1, <3>1, <3>2
  <2> HIDE DEF v2
  <2>3. v2[m] \in Nat /\ v2[m] >= n
    BY <1>1, <1>4, <2>2 DEF Balance, Purses, Mints
  <2>4. Run(v2, swap) \in Purses
    BY <1>1, <1>3, <2>2, <2>3, FairSwapRuns
  <2> HIDE DEF A, B
  <2>5. Run(w, (A \o B) \o swap) = Run(v2, swap)
    BY <1>2, <2>1, RunThree DEF v1, v2
  <2>6. QED
    BY <2>4, <2>5, PurseShape DEF B
<1>6. ASSUME w[m] # Closed PROVE Run(w, A \o swap) # Failed
  <2>1. v1[m] \in Nat /\ v1[m] >= n
    BY <1>1, <1>3, <1>4, <1>6 DEF Balance, Purses, Mints
  <2>2. Run(v1, swap) \in Purses
    BY <1>1, <1>3, <2>1, FairSwapRuns
  <2> HIDE DEF A
  <2>3. Run(w, A \o swap) = Run(v1, swap)
    BY <1>2, RunThree DEF v1
  <2>4. QED
    BY <2>2, <2>3, PurseShape
<1>7. QED
  BY <1>5, <1>6

LEMMA SoldRuns ==
  ASSUME NEW w \in Purses, NEW m \in Paying, NEW n \in Nat, NEW swap, rate \in Nat \ {0},
         FairSwap(swap, "TOKEN", m, n), w.TOKEN \in Nat, w.TOKEN >= n,
         NEW c, c \/ w[m] # Closed, NEW d, d => TakesAll(swap, "TOKEN", m, n) /\ w.TOKEN = n
  PROVE  Run(w, (Only(c, Create(m)) \o swap) \o Only(d, Close("TOKEN"))) # Failed
<1> DEFINE A == Only(c, Create(m))
           C == Only(d, Close("TOKEN"))
           v1 == Run(w, A)
           v2 == Run(v1, swap)
           v3 == Run(v2, C)
<1>1. m \in Mints /\ "TOKEN" \in Mints /\ m # "TOKEN"
  BY DEF Paying, Mints
<1>2. A \in Seq(Instructions) /\ C \in Seq(Instructions) /\ swap \in Seq(Instructions)
  BY <1>1, Pieces, PiecesAreInstructions, FairSwapIsOne
<1>3. v1 \in Purses /\ v1[m] # Closed /\ v1.TOKEN = w.TOKEN
  BY <1>1, MayCreate
<1> HIDE DEF v1
<1>4. v2 \in Purses
  BY <1>1, <1>3, FairSwapRuns
<1>5. d => v2.TOKEN = 0
  BY <1>1, <1>3, TakesAllRuns
<1> HIDE DEF v2
<1>6. v3 \in Purses
  <2>1. v3 = IF d THEN Run(v2, Close("TOKEN")) ELSE v2
    BY RunOnly
  <2>2. CASE d
    <3>1. v2["TOKEN"] = 0 /\ 0 # Closed
      BY <1>5, <2>2 DEF Closed
    <3>2. v3 = Run(v2, Close("TOKEN"))
      BY <2>1, <2>2
    <3>3. QED
      BY <1>4, <3>1, <3>2, RunClose
  <2>3. CASE ~d
    BY <1>4, <2>1, <2>3
  <2>4. QED
    BY <2>2, <2>3
<1> HIDE DEF A, C
<1>7. Run(w, (A \o swap) \o C) = v3
  BY <1>2, RunThree DEF v1, v2
<1>8. QED
  BY <1>6, <1>7, PurseShape DEF A, C

(* Venue by venue: the accounts that are prepared suffice. *)
Suffices(s) == s = Refused \/ Run(wallet, s) # Failed

LEMMA FundedBuysSuffice ==
  ASSUME NEW r, Ready(r), r.buy, NEW mint \in {"WSOL", "USDC"}, Same(r.with, mint)
  PROVE  \A q :
           /\ q.createOut /\ (q.createIn \/ (mint # "WSOL" /\ wallet[mint] # Closed)) =>
                /\ Suffices(Funded(q, mint, MostIn(r), CurveBuy(r, mint)))
                /\ Suffices(Funded(q, mint, r.n, BaseSwap(r, mint, "TOKEN")))
                /\ Suffices(Funded(q, mint, r.n, Swap("exactIn", mint, "TOKEN", r.n, LeastOut(r))))
           /\ q.createIn =>
                Suffices(Only(r.createOut, Create("TOKEN")) \o Funded(q, mint, MostIn(r), CurveBuy(r, mint)))
<1>1. /\ r \in Shapes /\ rate \in Nat \ {0}
      /\ r.kind = "fixed" => CeilDiv(r.fixed, rate) <= r.n
      /\ mint \in Paying
  BY ReadyIs DEF Ready, Paying
<1>2. r.n \in Nat /\ MostIn(r) \in Nat /\ r.n <= MostIn(r) /\ MostIn(r) <= MostIn(r)
  BY ReadyIs
<1>3. /\ FairSwap(CurveBuy(r, mint), mint, "TOKEN", MostIn(r))
      /\ FairSwap(BaseSwap(r, mint, "TOKEN"), mint, "TOKEN", r.n)
      /\ FairSwap(Swap("exactIn", mint, "TOKEN", r.n, LeastOut(r)), mint, "TOKEN", r.n)
  BY <1>1, BuysAreFair
<1> DEFINE n == r.n
           most == MostIn(r)
           curve == CurveBuy(r, mint)
           base == BaseSwap(r, mint, "TOKEN")
           plain == Swap("exactIn", mint, "TOKEN", r.n, LeastOut(r))
<1> HIDE DEF n, most, curve, base, plain
<1>4. /\ n \in Nat /\ n <= MostIn(r) /\ most \in Nat /\ most <= MostIn(r)
      /\ FairSwap(curve, mint, "TOKEN", most) /\ FairSwap(base, mint, "TOKEN", n)
      /\ FairSwap(plain, mint, "TOKEN", n)
  BY <1>2, <1>3 DEF n, most, curve, base, plain
<1>5. ASSUME NEW q, q.createOut, q.createIn \/ (mint # "WSOL" /\ wallet[mint] # Closed)
      PROVE  /\ Run(wallet, Funded(q, mint, most, curve)) # Failed
             /\ Run(wallet, Funded(q, mint, n, base)) # Failed
             /\ Run(wallet, Funded(q, mint, n, plain)) # Failed
  BY <1>4, <1>5, FundedSuffices
<1>7. ASSUME NEW q, q.createIn
      PROVE  Run(wallet, Only(r.createOut, Create("TOKEN")) \o Funded(q, mint, most, curve)) # Failed
  BY <1>4, <1>7, FundedSuffices
<1>6. QED
  BY <1>5, <1>7 DEF Suffices, n, most, curve, base, plain

LEMMA ReceivedSalesSuffice ==
  ASSUME NEW r, Ready(r), ~r.buy, NEW mint \in Paying, NEW got \in {mint, "SOL"}
  PROVE  \A q : (q.createOut \/ wallet[mint] # Closed) /\ q.closeIn = r.closeIn =>
           /\ Suffices(Received(q, mint, CurveSell(r, got)))
           /\ Suffices(Received(q, mint, BaseSwap(r, "TOKEN", got)))
<1>1. /\ r \in Shapes /\ rate \in Nat \ {0} /\ wallet \in Purses
      /\ r.kind = "fixed" => r.n \div rate >= r.fixed
      /\ wallet.TOKEN \in Nat /\ wallet.TOKEN >= r.n /\ r.n \in Nat
      /\ r.closeIn => wallet.TOKEN = r.n /\ r.kind # "fixed"
      /\ got \in Paying
  BY ReadyIs DEF Ready, Paying
<1> DEFINE n == r.n
           curve == CurveSell(r, got)
           base == BaseSwap(r, "TOKEN", got)
<1>2. /\ FairSwap(curve, "TOKEN", got, n) /\ TakesAll(curve, "TOKEN", got, n)
      /\ FairSwap(base, "TOKEN", got, n)
      /\ r.closeIn => TakesAll(base, "TOKEN", got, n)
  BY <1>1, SalesAreFair
<1> HIDE DEF n, curve, base
<1>3. n \in Nat /\ wallet.TOKEN >= n /\ (r.closeIn => wallet.TOKEN = n)
  BY <1>1 DEF n
<1>4. ASSUME NEW q, q.createOut \/ wallet[mint] # Closed, q.closeIn = r.closeIn
      PROVE  Run(wallet, Received(q, mint, curve)) # Failed /\ Run(wallet, Received(q, mint, base)) # Failed
  <2>1. q.closeIn => TakesAll(curve, "TOKEN", got, n) /\ TakesAll(base, "TOKEN", got, n) /\ wallet.TOKEN = n
    BY <1>2, <1>3, <1>4
  <2>2. Run(wallet, Received(q, mint, curve)) # Failed
    BY <1>1, <1>2, <1>3, <1>4, <2>1, ReceivedRuns
  <2>3. Run(wallet, Received(q, mint, base)) # Failed
    BY <1>1, <1>2, <1>3, <1>4, <2>1, ReceivedRuns
  <2>4. QED
    BY <2>2, <2>3
<1>5. QED
  BY <1>4 DEF Suffices, curve, base

LEMMA PumpFunV3Suffices ==
  ASSUME NEW r, Ready(r), r.venue = "pumpfun"
  PROVE  Suffices(PumpFunV3(r))
<1>1. /\ r \in Shapes /\ rate \in Nat \ {0} /\ wallet \in Purses /\ r.createOut
      /\ r.buy => r.createIn
      /\ r.buy \in BOOLEAN /\ r.pool \in {"SOL", "USDC"} /\ r.pool \in Paying /\ r.with \in Paying
      /\ MostIn(r) \in Nat /\ r.n \in Nat
  BY ReadyIs DEF Ready, Prepared, Shapes, Paying
<1>2. wallet.SOL \in Nat /\ wallet.SOL # Closed
  BY <1>1, HeldIs DEF Closed
<1>3. CASE r.with # r.pool \/ Graduates(r) \/ LeastOut(r) = 0 \/ (r.kind = "max" /\ r.pool # "SOL")
  BY <1>3 DEF PumpFunV3, Suffices
<1>4. CASE ~ (r.with # r.pool \/ Graduates(r) \/ LeastOut(r) = 0 \/ (r.kind = "max" /\ r.pool # "SOL")) /\ r.buy
  <2> DEFINE c == r.createOut
             d == r.createIn /\ r.pool # "SOL"
             m == r.pool
             swap == CurveBuy(r, r.pool)
             most == MostIn(r)
  <2>1. PumpFunV3(r) = (Only(c, Create("TOKEN")) \o Only(d, Create(m))) \o swap
    BY <1>4 DEF PumpFunV3
  <2>2. FairSwap(swap, m, "TOKEN", most)
    BY <1>1, <1>4, ReadyIs, BuysAreFair
  <2>3. Balance(wallet, m) >= most
    <3>1. Same(r.with, m)
      BY <1>4 DEF Same
    <3>2. Pays(wallet, m, MostIn(r))
      BY <1>1, <1>4, <3>1, ReadyIs
    <3>3. QED
      BY <1>1, <1>2, <3>2 DEF Pays, Balance
  <2>4. d \/ wallet[m] # Closed
    BY <1>1, <1>2, <1>4
  <2>5. c /\ m \in Paying /\ most \in Nat
    BY <1>1
  <2> HIDE DEF c, d, m, swap, most
  <2>6. Run(wallet, (Only(c, Create("TOKEN")) \o Only(d, Create(m))) \o swap) # Failed
    BY <1>1, <2>2, <2>3, <2>4, <2>5, BoughtRuns
  <2>7. QED
    BY <2>1, <2>6 DEF Suffices
<1>5. CASE ~ (r.with # r.pool \/ Graduates(r) \/ LeastOut(r) = 0 \/ (r.kind = "max" /\ r.pool # "SOL")) /\ ~r.buy
  <2> DEFINE c == r.createOut /\ r.pool # "SOL"
             d == r.closeIn
             m == r.pool
             swap == CurveSell(r, r.pool)
             n == r.n
  <2>1. PumpFunV3(r) = (Only(c, Create(m)) \o swap) \o Only(d, Close("TOKEN"))
    BY <1>5 DEF PumpFunV3
  <2>2. FairSwap(swap, "TOKEN", m, n) /\ TakesAll(swap, "TOKEN", m, n)
    BY <1>1, <1>5, ReadyIs, SalesAreFair
  <2>3. c \/ wallet[m] # Closed
    BY <1>1, <1>2
  <2>4. /\ m \in Paying /\ n \in Nat /\ wallet.TOKEN \in Nat /\ wallet.TOKEN >= n
        /\ d => wallet.TOKEN = n
    BY <1>1, <1>5, ReadyIs
  <2> HIDE DEF c, d, m, swap, n
  <2>5. Run(wallet, (Only(c, Create(m)) \o swap) \o Only(d, Close("TOKEN"))) # Failed
    BY <1>1, <2>2, <2>3, <2>4, SoldRuns
  <2>6. QED
    BY <2>1, <2>5 DEF Suffices
<1>6. QED
  BY <1>1, <1>3, <1>4, <1>5

LEMMA PumpFunSuffices ==
  ASSUME NEW r, Ready(r), r.venue = "pumpfun"
  PROVE  Suffices(PumpFunAdapter(r))
<1> DEFINE mint == Mint(r.pool)
<1>1. /\ r \in Shapes /\ rate \in Nat \ {0} /\ wallet \in Purses /\ r.createOut
      /\ r.buy => r.createIn
      /\ r.buy \in BOOLEAN /\ r.pool \in {"SOL", "USDC"} /\ r.with \in Paying
      /\ MostIn(r) \in Nat /\ r.n \in Nat
  BY ReadyIs DEF Ready, Prepared, Shapes, Paying
<1>2. mint \in {"WSOL", "USDC"} /\ mint \in Paying
  BY <1>1 DEF Mint, Paying
<1>3. Suffices(PumpFunV3(r))
  BY PumpFunV3Suffices
<1>4. ASSUME r.buy PROVE Suffices(PumpFunV2Buy(r))
  <2>1. CASE ~Same(r.with, r.pool)
    BY <2>1 DEF PumpFunV2Buy, Suffices
  <2>2. CASE Same(r.with, r.pool)
    <3> DEFINE q == [r EXCEPT !.createOut = FALSE]
    <3>1. q.createIn
      BY <1>1, <1>4 DEF Shapes
    <3>2. Same(r.with, mint)
      BY <1>1, <2>2 DEF Same, Mint
    <3>3. PumpFunV2Buy(r) = Only(r.createOut, Create("TOKEN")) \o Funded(q, mint, MostIn(r), CurveBuy(r, mint))
      BY <2>2 DEF PumpFunV2Buy
    <3> HIDE DEF q, mint
    <3>4. QED
      BY <1>2, <1>4, <3>1, <3>2, <3>3, FundedBuysSuffice
  <2>3. QED
    BY <2>1, <2>2
<1>5. ASSUME ~r.buy PROVE Suffices(PumpFunV2Sell(r))
  <2>1. CASE ~Same(r.with, r.pool)
    BY <2>1 DEF PumpFunV2Sell, Suffices
  <2>2. CASE Same(r.with, r.pool)
    <3> DEFINE q == [r EXCEPT !.closeOut = FALSE]
    <3>1. q.createOut /\ q.closeIn = r.closeIn
      BY <1>1 DEF Shapes
    <3>2. PumpFunV2Sell(r) = Received(q, mint, CurveSell(r, mint))
      BY <2>2 DEF PumpFunV2Sell
    <3> HIDE DEF q, mint
    <3>3. QED
      BY <1>2, <1>5, <3>1, <3>2, ReceivedSalesSuffice
  <2>3. QED
    BY <2>1, <2>2
<1>6. ASSUME r.buy, r.with = "SOL" PROVE Suffices(Only(r.createOut, Create("TOKEN")) \o CurveBuy(r, "SOL"))
  <2> DEFINE c == r.createOut
             swap == CurveBuy(r, "SOL")
             most == MostIn(r)
  <2>1. FairSwap(swap, "SOL", "TOKEN", most)
    BY <1>1, <1>6, ReadyIs, BuysAreFair
  <2>2. "SOL" \in Paying /\ Same(r.with, "SOL")
    BY <1>6 DEF Paying, Same
  <2>3. Pays(wallet, "SOL", most)
    BY <1>6, <2>2, ReadyIs
  <2>4. wallet["SOL"] # Closed
    BY <1>1, HeldIs DEF Closed
  <2>5. Balance(wallet, "SOL") >= most /\ c /\ most \in Nat
    BY <1>1, <2>3, <2>4 DEF Pays, Balance
  <2> HIDE DEF c, swap, most
  <2>6. Run(wallet, Only(c, Create("TOKEN")) \o swap) # Failed
    BY <1>1, <2>1, <2>2, <2>4, <2>5, BoughtRuns
  <2>7. QED
    BY <2>6 DEF Suffices, c, swap
<1>7. ASSUME ~r.buy
      PROVE  Suffices(Only(r.createOut \/ r.closeOut, Create("WSOL")) \o CurveSell(r, "SOL")
                      \o Only(r.closeOut, Close("WSOL")) \o Only(r.closeIn, Close("TOKEN")))
  <2>1. Received(r, "WSOL", CurveSell(r, "SOL"))
        = Only(r.createOut \/ r.closeOut, Create("WSOL")) \o CurveSell(r, "SOL")
          \o Only(r.closeOut, Close("WSOL")) \o Only(r.closeIn, Close("TOKEN"))
    BY <1>1 DEF Received, Only
  <2>2. "WSOL" \in Paying
    BY DEF Paying
  <2>3. Suffices(Received(r, "WSOL", CurveSell(r, "SOL")))
    BY <1>1, <1>7, <2>2, ReceivedSalesSuffice
  <2>4. QED
    BY <2>1, <2>3
<1>8. Suffices(Refused)
  BY DEF Suffices
<1>9. CASE r.buy
  <2>1. PumpFunAdapter(r) = PumpFunBuyPlan(r)
    BY <1>9 DEF PumpFunAdapter
  <2>2. QED
    BY <1>3, <1>4, <1>6, <1>8, <1>9, <2>1 DEF PumpFunBuyPlan
<1>10. CASE ~r.buy
  <2>1. PumpFunAdapter(r) = PumpFunSellPlan(r)
    BY <1>10 DEF PumpFunAdapter
  <2>2. QED
    BY <1>3, <1>5, <1>7, <1>8, <1>10, <2>1 DEF PumpFunSellPlan
<1>11. QED
  BY <1>1, <1>9, <1>10

LEMMA PoolsSuffice ==
  ASSUME NEW r, Ready(r), Same(r.with, r.pool), r.pool \in {"WSOL", "USDC"}
  PROVE  /\ r.buy => Suffices(PumpSwapBuyPlan(r)) /\ Suffices(CpmmBuyPlan(r)) /\ Suffices(AmmV4BuyPlan(r))
         /\ r.buy /\ r.venue = "dammV2" => Suffices(DammV2BuyPlan(r))
         /\ r.buy /\ r.venue = "bonk" => Suffices(BonkBuyPlan(r))
         /\ ~r.buy => Suffices(PumpSwapSellPlan(r)) /\ Suffices(CpmmSellPlan(r)) /\ Suffices(AmmV4SellPlan(r))
         /\ ~r.buy /\ r.venue = "dammV2" => Suffices(DammV2SellPlan(r))
         /\ ~r.buy /\ r.venue = "bonk" => Suffices(BonkSellPlan(r))
<1> DEFINE mint == r.pool
           Opened == mint # "WSOL" /\ wallet[mint] # Closed
<1>1. /\ r \in Shapes /\ r.createOut /\ (r.buy => r.createIn) /\ wallet \in Purses /\ rate \in Nat \ {0}
      /\ mint \in {"WSOL", "USDC"} /\ mint \in Paying /\ Same(r.with, mint)
      /\ r.venue = "bonk" /\ mint # "WSOL" => Opened
      /\ r.createIn \in BOOLEAN /\ r.createOut \in BOOLEAN
  BY DEF Ready, Prepared, Paying, Shapes
<1>2. r.kind = "fixed" => LeastOut(r) = r.fixed
  BY DEF LeastOut
<1>3. Suffices(Refused)
  BY DEF Suffices
<1>4. ASSUME r.buy
      PROVE  \A q : q.createOut /\ (q.createIn \/ Opened) =>
                /\ Suffices(Funded(q, mint, MostIn(r), CurveBuy(r, mint)))
                /\ Suffices(Funded(q, mint, r.n, BaseSwap(r, mint, "TOKEN")))
                /\ Suffices(Funded(q, mint, r.n, Swap("exactIn", mint, "TOKEN", r.n, LeastOut(r))))
  <2> HIDE DEF mint
  <2>1. QED
    BY <1>1, <1>4, FundedBuysSuffice
<1>5. ASSUME ~r.buy
      PROVE  \A q : (q.createOut \/ wallet[mint] # Closed) /\ q.closeIn = r.closeIn =>
                /\ Suffices(Received(q, mint, CurveSell(r, mint)))
                /\ Suffices(Received(q, mint, BaseSwap(r, "TOKEN", mint)))
  <2> HIDE DEF mint
  <2>1. QED
    BY <1>1, <1>5, ReceivedSalesSuffice
<1>6. r.buy => Suffices(PumpSwapBuyPlan(r)) /\ Suffices(CpmmBuyPlan(r)) /\ Suffices(AmmV4BuyPlan(r))
  BY <1>1, <1>2, <1>3, <1>4 DEF PumpSwapBuyPlan, CpmmBuyPlan, AmmV4BuyPlan
<1>7. r.buy /\ r.venue = "bonk" => Suffices(BonkBuyPlan(r))
  <2> SUFFICES ASSUME r.buy, r.venue = "bonk" PROVE Suffices(BonkBuyPlan(r))
    OBVIOUS
  <2> DEFINE q == [r EXCEPT !.createIn = @ /\ r.pool = "WSOL"]
  <2>1. q.createOut /\ (q.createIn \/ Opened)
    BY <1>1 DEF Shapes
  <2>2. BonkBuyPlan(r) = Funded(q, mint, r.n, Swap("exactIn", mint, "TOKEN", r.n, LeastOut(r)))
    BY DEF BonkBuyPlan
  <2> HIDE DEF q, mint, Opened
  <2>3. QED
    BY <1>4, <2>1, <2>2
<1>8. ~r.buy => Suffices(PumpSwapSellPlan(r)) /\ Suffices(CpmmSellPlan(r)) /\ Suffices(AmmV4SellPlan(r))
  BY <1>1, <1>2, <1>3, <1>5 DEF PumpSwapSellPlan, CpmmSellPlan, AmmV4SellPlan, CurveSell
<1>9. ~r.buy /\ r.venue = "bonk" => Suffices(BonkSellPlan(r))
  <2> SUFFICES ASSUME ~r.buy, r.venue = "bonk" PROVE Suffices(BonkSellPlan(r))
    OBVIOUS
  <2> DEFINE q == [r EXCEPT !.createOut = @ /\ r.pool = "WSOL"]
  <2>1. (q.createOut \/ wallet[mint] # Closed) /\ q.closeIn = r.closeIn
    BY <1>1 DEF Shapes
  <2>2. BonkSellPlan(r) = Received(q, mint, CurveSell(r, mint))
    BY DEF BonkSellPlan
  <2> HIDE DEF q, mint
  <2>3. QED
    BY <1>5, <2>1, <2>2
<1>10. r.venue = "dammV2" /\ DammV2Takes(r) =>
         LET m == FilledOf(r)
         IN /\ m \in Nat /\ m = Least(r.n, PoolTakes[IF r.buy THEN mint ELSE "TOKEN"])
            /\ IF r.buy THEN CeilDiv(r.fixed, rate) <= m ELSE m \div rate >= r.fixed
            /\ SwapMode(r) = "EXACT_IN" => m = r.n
            /\ r.kind = "fixed" /\ (~r.buy => ~r.closeIn)
  <2> SUFFICES ASSUME r.venue = "dammV2", DammV2Takes(r)
               PROVE  LET m == FilledOf(r)
                      IN /\ m \in Nat /\ m = Least(r.n, PoolTakes[IF r.buy THEN mint ELSE "TOKEN"])
                         /\ IF r.buy THEN CeilDiv(r.fixed, rate) <= m ELSE m \div rate >= r.fixed
                         /\ SwapMode(r) = "EXACT_IN" => m = r.n
                         /\ r.kind = "fixed" /\ (~r.buy => ~r.closeIn)
    OBVIOUS
  <2> DEFINE m == FilledOf(r)
             takes == PoolTakes[IF r.buy THEN mint ELSE "TOKEN"]
  <2>1. takes \in Nat /\ r.n \in Nat
    BY <1>1, PlanAssumption DEF Shapes
  <2>2. m = Least(r.n, takes)
    BY DEF FilledOf
  <2>3. r.kind = "fixed"
    BY DEF DammV2Takes
  <2>4. m \in Nat
    BY <2>1, <2>2 DEF Least
  <2>5. Fair(r)
    BY DEF Ready
  <2>6. QED
    BY <2>2, <2>3, <2>4, <2>5 DEF Fair
<1>11. r.buy /\ r.venue = "dammV2" => Suffices(DammV2BuyPlan(r))
  <2> SUFFICES ASSUME r.buy, r.venue = "dammV2", DammV2Takes(r) PROVE Suffices(DammV2BuyPlan(r))
    BY <1>3 DEF DammV2BuyPlan
  <2> DEFINE m == FilledOf(r)
             swap == DammV2Exchange(r, mint, "TOKEN")
             n == r.n
  <2>1. /\ m \in Nat /\ m = Least(r.n, PoolTakes[mint])
        /\ CeilDiv(r.fixed, rate) <= m /\ (SwapMode(r) = "EXACT_IN" => m = r.n)
    BY <1>10
  <2>2. mint \in Mints /\ "TOKEN" \in Mints /\ mint # "TOKEN"
    BY <1>1 DEF Paying, Mints
  <2> HIDE DEF mint, m
  <2>3. FairSwap(swap, mint, "TOKEN", n)
    BY <1>1, <2>1, <2>2, DammV2IsFair
  <2>4. n \in Nat /\ n <= MostIn(r)
    BY ReadyIs
  <2>5. DammV2BuyPlan(r) = Funded(r, mint, n, swap)
    BY DEF DammV2BuyPlan, mint
  <2> HIDE DEF swap, n, Opened
  <2>6. Run(wallet, Funded(r, mint, n, swap)) # Failed
    BY <1>1, <2>3, <2>4, FundedSuffices
  <2>7. QED
    BY <2>5, <2>6 DEF Suffices
<1>12. ~r.buy /\ r.venue = "dammV2" => Suffices(DammV2SellPlan(r))
  <2> SUFFICES ASSUME ~r.buy, r.venue = "dammV2", DammV2Takes(r) PROVE Suffices(DammV2SellPlan(r))
    BY <1>3 DEF DammV2SellPlan
  <2> DEFINE m == FilledOf(r)
             swap == DammV2Exchange(r, "TOKEN", mint)
             n == r.n
  <2>1. /\ m \in Nat /\ m = Least(r.n, PoolTakes["TOKEN"])
        /\ m \div rate >= r.fixed /\ (SwapMode(r) = "EXACT_IN" => m = r.n) /\ ~r.closeIn
    BY <1>10
  <2>2. mint \in Mints /\ "TOKEN" \in Mints /\ mint # "TOKEN"
    BY <1>1 DEF Paying, Mints
  <2> HIDE DEF mint, m
  <2>3. FairSwap(swap, "TOKEN", mint, n)
    BY <1>1, <2>1, <2>2, DammV2IsFair
  <2>4. n \in Nat /\ wallet.TOKEN \in Nat /\ wallet.TOKEN >= n
    BY ReadyIs
  <2>5. DammV2SellPlan(r) = Received(r, mint, swap)
    BY DEF DammV2SellPlan, mint
  <2> HIDE DEF swap, n, Opened
  <2>6. Run(wallet, Received(r, mint, swap)) # Failed
    BY <1>1, <2>1, <2>3, <2>4, ReceivedRuns
  <2>7. QED
    BY <2>5, <2>6 DEF Suffices
<1>13. QED
  BY <1>6, <1>7, <1>8, <1>9, <1>11, <1>12

LEMMA PlansSuffice ==
  ASSUME NEW r, Ready(r)
  PROVE  Suffices(Plan(r))
<1>1. /\ r \in Shapes /\ Handed(r) /\ wallet \in Purses
      /\ r.buy \in BOOLEAN /\ r.direct \in BOOLEAN /\ r.pool \in Paying /\ r.with \in Paying
      /\ r.venue \in {"pumpfun", "pumpswap", "bonk", "ammV4", "cpmm", "dammV2"}
      /\ r.venue # "pumpfun" => r.pool \in {"WSOL", "USDC"}
  BY DEF Ready, Shapes, Paying
<1>2. Suffices(Refused)
  BY DEF Suffices
<1>3. CASE r.venue = "pumpfun"
  <2>1. Plan(r) = PumpFunAdapter(r)
    BY <1>3 DEF Plan
  <2>2. QED
    BY <1>3, <2>1, PumpFunSuffices
<1>4. CASE r.venue \in {"ammV4", "dammV2"} /\ ~Same(r.with, r.pool)
  <2>1. CASE r.venue = "ammV4"
    <3>1. Plan(r) = AmmV4Adapter(r)
      BY <2>1 DEF Plan
    <3>2. Plan(r) = Refused
      BY <1>4, <3>1 DEF AmmV4Adapter, AmmV4BuyPlan, AmmV4SellPlan
    <3>3. QED
      BY <1>2, <3>2
  <2>2. CASE r.venue = "dammV2"
    <3>1. Plan(r) = DammV2Adapter(r)
      BY <2>2 DEF Plan
    <3>2. Plan(r) = Refused
      BY <1>4, <3>1 DEF DammV2Adapter, DammV2BuyPlan, DammV2SellPlan, DammV2Takes
    <3>3. QED
      BY <1>2, <3>2
  <2>3. QED
    BY <1>4, <2>1, <2>2
<1>5. CASE r.venue = "bonk" /\ ~r.direct
  <2>1. Plan(r) = <<>>
    BY <1>5 DEF Plan, BonkAdapter
  <2>2. Run(wallet, <<>>) = wallet /\ wallet # Failed
    BY <1>1, RunShort, PurseShape
  <2>3. QED
    BY <2>1, <2>2 DEF Suffices
<1>6. CASE r.venue = "pumpswap" /\ ~r.direct /\ (r.buy \/ r.with # r.pool)
  <2>1. Plan(r) = IF r.buy THEN Refused ELSE PumpSwapSellAdapter(r)
    BY <1>6 DEF Plan, PumpSwapBuyAdapter
  <2>2. Plan(r) = Refused
    BY <1>6, <2>1 DEF PumpSwapSellAdapter
  <2>3. QED
    BY <1>2, <2>2
<1>7. CASE r.venue # "pumpfun" /\ Same(r.with, r.pool)
  <2>1. r.pool \in {"WSOL", "USDC"}
    BY <1>1, <1>7
  <2>2. /\ r.buy => Suffices(PumpSwapBuyPlan(r)) /\ Suffices(CpmmBuyPlan(r)) /\ Suffices(AmmV4BuyPlan(r))
        /\ r.buy /\ r.venue = "dammV2" => Suffices(DammV2BuyPlan(r))
        /\ r.buy /\ r.venue = "bonk" => Suffices(BonkBuyPlan(r))
        /\ ~r.buy => Suffices(PumpSwapSellPlan(r)) /\ Suffices(CpmmSellPlan(r)) /\ Suffices(AmmV4SellPlan(r))
        /\ ~r.buy /\ r.venue = "dammV2" => Suffices(DammV2SellPlan(r))
        /\ ~r.buy /\ r.venue = "bonk" => Suffices(BonkSellPlan(r))
    BY <1>7, <2>1, PoolsSuffice
  <2>3. CASE r.venue = "cpmm"
    <3>1. Plan(r) = CpmmAdapter(r)
      BY <2>3 DEF Plan
    <3>2. QED
      BY <1>1, <2>2, <3>1 DEF CpmmAdapter
  <2>4. CASE r.venue = "ammV4"
    <3>1. Plan(r) = AmmV4Adapter(r)
      BY <2>4 DEF Plan
    <3>2. QED
      BY <1>1, <2>2, <3>1 DEF AmmV4Adapter
  <2>5. CASE r.venue = "dammV2"
    <3>1. Plan(r) = DammV2Adapter(r)
      BY <2>5 DEF Plan
    <3>2. QED
      BY <1>1, <2>2, <2>5, <3>1 DEF DammV2Adapter
  <2>6. CASE r.venue = "bonk" /\ r.direct
    <3>1. Plan(r) = IF r.buy THEN BonkBuyPlan(r) ELSE BonkSellPlan(r)
      BY <2>6 DEF Plan
    <3>2. QED
      BY <1>1, <2>2, <2>6, <3>1
  <2>7. CASE r.venue = "pumpswap" /\ r.direct
    <3>1. Plan(r) = IF r.buy THEN PumpSwapBuyPlan(r) ELSE PumpSwapSellPlan(r)
      BY <2>7 DEF Plan
    <3>2. QED
      BY <1>1, <2>2, <3>1
  <2>8. CASE r.venue = "pumpswap" /\ ~r.direct /\ ~r.buy /\ r.with = r.pool
    <3>1. Plan(r) = PumpSwapSellAdapter(r)
      BY <2>8 DEF Plan
    <3>2. Plan(r) = PumpSwapSellPlan(r)
      BY <2>8, <3>1 DEF PumpSwapSellAdapter
    <3>3. QED
      BY <2>2, <2>8, <3>2
  <2>9. QED
    BY <1>1, <1>5, <1>6, <1>7, <2>3, <2>4, <2>5, <2>6, <2>7, <2>8
<1>8. r.venue = "cpmm" \/ (r.venue \in {"bonk", "pumpswap"} /\ r.direct) => Same(r.with, r.pool)
  BY <1>1 DEF Handed, Same
<1>9. r.venue = "pumpswap" /\ ~r.direct => r.buy \/ r.with # r.pool \/ Same(r.with, r.pool)
  BY DEF Same
<1>10. QED
  BY <1>1, <1>3, <1>4, <1>5, <1>6, <1>7, <1>8, <1>9

(* Instructions that leave no more wrapped than they find, and plans that end so:
   of such instructions only, or with the account closed before the last of them. *)
Quiet ==
    [op : {"create"}, mint : Mints] \union [op : {"close"}, mint : {"WSOL", "TOKEN"}]
    \union {i \in Swaps : i.pay # i.get /\ i.get # "WSOL"}
TidyPlan(s) ==
    \/ s \in Seq(Quiet)
    \/ \E p \in Seq(Instructions), q \in Seq(Quiet) : s = (p \o Close("WSOL")) \o q

LEMMA QuietAreInstructions == Quiet \subseteq Instructions
BY DEF Quiet, Instructions, Preparing

LEMMA SwapsSwap ==
  ASSUME NEW w \in Purses, NEW i \in Swaps, i.pay # i.get, rate \in Nat \ {0}, RunOne(w, i) # Failed
  PROVE  LET v == RunOne(w, i)
         IN v \in Purses /\ (i.get # "WSOL" => Balance(v, "WSOL") <= Balance(w, "WSOL"))
<1> DEFINE v == RunOne(w, i)
<1>1. /\ i.pay \in Mints /\ i.get \in Mints
      /\ i.in \in Nat /\ i.out \in Nat /\ w # Failed
  BY PurseShape DEF Swaps
<1>2. PICK paid \in Nat, got \in Nat : v = Swapped(w, i, paid, got)
  BY <1>1, SwapIs
<1>3. Swapped(w, i, paid, got) # Failed
  BY <1>2
<1> HIDE DEF v
<1>4. /\ v \in Purses /\ w[i.pay] \in Nat /\ w[i.get] \in Nat /\ w[i.pay] - paid \in Nat
      /\ \A o \in Mints : v[o] = IF o = i.get THEN w[o] + got
                                ELSE IF o = i.pay THEN w[o] - paid ELSE w[o]
  BY <1>2, <1>3, SwappedIs
<1>5. ASSUME i.get # "WSOL" PROVE Balance(v, "WSOL") <= Balance(w, "WSOL")
  <2>1. v["WSOL"] = IF i.pay = "WSOL" THEN w["WSOL"] - paid ELSE w["WSOL"]
    BY <1>4, <1>5 DEF Mints
  <2>2. CASE i.pay = "WSOL"
    <3>1. w["WSOL"] \in Nat /\ v["WSOL"] \in Nat /\ v["WSOL"] <= w["WSOL"]
      BY <1>4, <2>1, <2>2
    <3>2. QED
      BY <3>1 DEF Balance, Closed
  <2>3. CASE i.pay # "WSOL"
    <3>1. Balance(v, "WSOL") = Balance(w, "WSOL") /\ Balance(w, "WSOL") \in Nat
      BY <2>1, <2>3, HeldIs DEF Balance
    <3>2. QED
      BY <3>1
  <2>4. QED
    BY <2>2, <2>3
<1>6. QED
  BY <1>4, <1>5 DEF v

LEMMA InstructionsLeaveAPurse ==
  ASSUME NEW w \in Purses, NEW i \in Instructions, rate \in Nat \ {0}, RunOne(w, i) # Failed
  PROVE  RunOne(w, i) \in Purses
<1>1. CASE i \in Preparing
  BY <1>1, PreparingKeeps
<1>2. CASE i \in Swaps /\ i.pay # i.get
  BY <1>2, SwapsSwap
<1>3. QED
  BY <1>1, <1>2 DEF Instructions

LEMMA QuietWrapNothing ==
  ASSUME NEW w \in Purses, NEW i \in Quiet, rate \in Nat \ {0}, RunOne(w, i) # Failed
  PROVE  Balance(RunOne(w, i), "WSOL") <= Balance(w, "WSOL")
<1> DEFINE v == RunOne(w, i)
           had == Balance(w, "WSOL")
<1>1. had \in Nat /\ w # Failed
  BY HeldIs, PurseShape DEF Balance
<1>2. CASE i \in [op : {"create"}, mint : Mints]
  <2>1. i.op = "create" /\ i.mint \in Mints
    BY <1>2
  <2>2. v = IF w[i.mint] = Closed THEN Put(w, i.mint, 0) ELSE w
    BY <1>1, <2>1 DEF RunOne, Put
  <2>3. Put(w, i.mint, 0)["WSOL"] = IF i.mint = "WSOL" THEN 0 ELSE w["WSOL"]
    BY <2>1, PutAt DEF Mints
  <2> HIDE DEF v
  <2>4. Balance(v, "WSOL") = had
    BY <2>2, <2>3 DEF Balance
  <2>5. QED
    BY <1>1, <2>4 DEF v
<1>3. CASE i \in [op : {"close"}, mint : {"WSOL", "TOKEN"}]
  <2> DEFINE m == i.mint
             a == w.SOL + (IF m = "WSOL" THEN w.WSOL ELSE 0)
             u == Put(w, m, Closed)
  <2>1. i.op = "close" /\ m \in {"WSOL", "TOKEN"} /\ m \in Mints /\ "SOL" \in Mints /\ m # "SOL"
    BY <1>3 DEF Mints
  <2>2. ~ (w[m] = Closed \/ (m # "WSOL" /\ w[m] > 0))
    BY <1>1, <2>1 DEF RunOne
  <2>3. v = [w EXCEPT ![m] = Closed, !.SOL = @ + (IF m = "WSOL" THEN w.WSOL ELSE 0)]
    BY <1>1, <2>1, <2>2 DEF RunOne
  <2>4. u.SOL = w.SOL
    BY <2>1, PutAt
  <2>5. v = Put(u, "SOL", a)
    BY <2>3, <2>4 DEF Put
  <2>6. a \in Nat
    BY <2>1, <2>2, HeldIs
  <2> HIDE DEF m, a, v
  <2>7. v.WSOL = IF m = "WSOL" THEN Closed ELSE w.WSOL
    BY <2>1, <2>5, <2>6, PutClosed
  <2> HIDE DEF u
  <2>8. Balance(v, "WSOL") \in {0, had}
    BY <2>7 DEF Balance
  <2>9. QED
    BY <1>1, <2>8 DEF v
<1>4. CASE i \in Swaps /\ i.pay # i.get /\ i.get # "WSOL"
  BY <1>4, SwapsSwap
<1>5. QED
  BY <1>2, <1>3, <1>4 DEF Quiet

(* Quiet instructions leave at most so much, whatever it is. *)
LEMMA QuietRuns ==
  ASSUME NEW w \in Purses \union {Failed}, NEW s \in Seq(Quiet), rate \in Nat \ {0}, NEW n \in Nat,
         w # Failed => Balance(w, "WSOL") <= n
  PROVE  Run(w, s) # Failed => Run(w, s) \in Purses /\ Balance(Run(w, s), "WSOL") <= n
<1> DEFINE S == {u \in Purses : Balance(u, "WSOL") <= n} \union {Failed}
<1>1. ASSUME NEW u \in S, NEW i \in Quiet PROVE RunOne(u, i) \in S
  <2>1. CASE u = Failed
    BY <2>1 DEF RunOne
  <2>2. CASE u \in Purses /\ Balance(u, "WSOL") <= n /\ RunOne(u, i) # Failed
    <3> DEFINE v == RunOne(u, i)
    <3>1. v \in Purses
      BY <2>2, QuietAreInstructions, InstructionsLeaveAPurse
    <3>2. Balance(v, "WSOL") <= Balance(u, "WSOL")
      BY <2>2, QuietWrapNothing
    <3>3. Balance(v, "WSOL") \in Nat /\ Balance(u, "WSOL") \in Nat
      BY <2>2, <3>1, HeldIs DEF Balance
    <3> HIDE DEF v
    <3>4. Balance(v, "WSOL") <= n
      BY <2>2, <3>2, <3>3
    <3>5. QED
      BY <3>1, <3>4 DEF v
  <2>3. QED
    BY <2>1, <2>2
<1>2. w \in S
  OBVIOUS
<1> HIDE DEF S
<1>3. Run(w, s) \in S
  BY <1>1, <1>2, RunStays
<1>4. QED
  BY <1>3 DEF S

LEMMA InstructionsRun ==
  ASSUME NEW w \in Purses, NEW s \in Seq(Instructions), rate \in Nat \ {0}
  PROVE  Run(w, s) \in Purses \union {Failed}
<1> DEFINE S == Purses \union {Failed}
<1>1. ASSUME NEW u \in S, NEW i \in Instructions PROVE RunOne(u, i) \in S
  <2>1. CASE u = Failed
    BY <2>1 DEF RunOne
  <2>2. CASE u \in Purses
    BY <2>2, InstructionsLeaveAPurse
  <2>3. QED
    BY <2>1, <2>2
<1>2. w \in S
  OBVIOUS
<1> HIDE DEF S
<1>3. Run(w, s) \in S
  BY <1>1, <1>2, RunStays
<1>4. QED
  BY <1>3 DEF S

LEMMA TidyPlansRun ==
  ASSUME NEW w \in Purses, NEW s, TidyPlan(s), rate \in Nat \ {0}, Run(w, s) # Failed
  PROVE  Balance(Run(w, s), "WSOL") <= Balance(w, "WSOL")
<1> DEFINE had == Balance(w, "WSOL")
<1>1. had \in Nat /\ had <= had
  BY HeldIs DEF Balance
<1>2. CASE s \in Seq(Quiet)
  <2> HIDE DEF had
  <2>1. w # Failed => Balance(w, "WSOL") <= had
    BY <1>1 DEF had
  <2>2. Balance(Run(w, s), "WSOL") <= had
    BY <1>1, <1>2, <2>1, QuietRuns
  <2>3. QED
    BY <2>2 DEF had
<1>3. CASE \E p \in Seq(Instructions), q \in Seq(Quiet) : s = (p \o Close("WSOL")) \o q
  <2>1. PICK p \in Seq(Instructions), q \in Seq(Quiet) : s = (p \o Close("WSOL")) \o q
    BY <1>3
  <2> DEFINE C == Close("WSOL")
             u == Run(w, p)
             v == Run(u, C)
  <2>2. C \in Seq(Instructions)
    BY Pieces, QuietAreInstructions DEF Mints, Instructions
  <2>3. q \in Seq(Instructions)
    BY QuietAreInstructions
  <2>4. Run(w, s) = Run(v, q)
    <3> HIDE DEF C
    <3>1. Run(w, (p \o C) \o q) = Run(v, q)
      BY <2>2, <2>3, RunThree
    <3>2. QED
      BY <2>1, <3>1 DEF C
  <2>5. u \in Purses \union {Failed}
    BY InstructionsRun
  <2> HIDE DEF u
  <2>6. v \in Purses \union {Failed} /\ (v # Failed => Balance(v, "WSOL") = 0)
    <3> DEFINE i == [op |-> "close", mint |-> "WSOL"]
    <3>1. v = RunOne(u, i)
      BY RunShort DEF Close
    <3>2. CASE u = Failed
      BY <3>1, <3>2 DEF RunOne
    <3>3. CASE u \in Purses /\ u.WSOL = Closed
      <4>1. i.op = "close" /\ i.mint = "WSOL" /\ u # Failed
        BY <3>3, PurseShape
      <4>2. QED
        BY <3>1, <3>3, <4>1 DEF RunOne
    <3>4. CASE u \in Purses /\ u.WSOL # Closed
      <4>1. u["WSOL"] # Closed
        BY <3>4
      <4>2. v \in Purses /\ v.WSOL = Closed
        BY <3>4, <4>1, RunClose
      <4>3. QED
        BY <4>2 DEF Balance
    <3>5. QED
      BY <2>5, <3>2, <3>3, <3>4
  <2> HIDE DEF v, had
  <2>7. v # Failed => Balance(v, "WSOL") <= had
    BY <1>1, <2>6
  <2>8. Run(v, q) # Failed => Balance(Run(v, q), "WSOL") <= had
    BY <1>1, <2>6, <2>7, QuietRuns
  <2>9. QED
    BY <2>4, <2>8 DEF had
<1>4. QED
  BY <1>2, <1>3 DEF TidyPlan

LEMMA SwapsAreQuiet ==
  ASSUME NEW p \in Mints, NEW g \in Mints, p # g, g # "WSOL", NEW a \in Nat, NEW b \in Nat, NEW how \in Hows
  PROVE  Swap(how, p, g, a, b) \in Seq(Quiet)
<1> DEFINE i == [op |-> how, pay |-> p, get |-> g, in |-> a, out |-> b]
<1>1. i \in Swaps /\ i.pay = p /\ i.get = g
  BY DEF Swaps
<1> HIDE DEF i
<1>2. i \in Quiet
  BY <1>1 DEF Quiet
<1>3. <<i>> \in Seq(Quiet)
  BY <1>2
<1>4. QED
  BY <1>3 DEF Swap, i

LEMMA SwapPieces ==
  ASSUME NEW r \in Shapes, rate \in Nat \ {0}, NEW c \in Paying
  PROVE  /\ CurveBuy(r, c) \in Seq(Quiet) /\ BaseSwap(r, c, "TOKEN") \in Seq(Quiet)
         /\ Swap("exactIn", c, "TOKEN", r.n, LeastOut(r)) \in Seq(Quiet)
         /\ CurveSell(r, c) \in Seq(Instructions) /\ BaseSwap(r, "TOKEN", c) \in Seq(Instructions)
         /\ c # "WSOL" => CurveSell(r, c) \in Seq(Quiet) /\ BaseSwap(r, "TOKEN", c) \in Seq(Quiet)
         /\ DammV2Takes(r) => /\ DammV2Exchange(r, c, "TOKEN") \in Seq(Quiet)
                              /\ DammV2Exchange(r, "TOKEN", c) \in Seq(Instructions)
                              /\ c # "WSOL" => DammV2Exchange(r, "TOKEN", c) \in Seq(Quiet)
<1> DEFINE n == r.n
           most == MostIn(r)
           least == LeastOut(r)
           all == Estimate(r)
           fixed == r.fixed
           kind == r.kind
<1>1. kind \in {"exact", "fixed", "max"} /\ n \in Nat /\ fixed \in Nat
  BY DEF Shapes
<1>2. all \in Nat /\ least \in Nat /\ most \in Nat
  BY EstimatesAre
<1>3. /\ c \in Mints /\ "TOKEN" \in Mints /\ c # "TOKEN"
      /\ "exactIn" \in Hows /\ "exactOut" \in Hows
  BY DEF Paying, Mints, Hows
<1>4. /\ CurveBuy(r, c) = CASE kind = "exact" -> Swap("exactIn", c, "TOKEN", n, least)
                            [] kind = "fixed" -> Swap("exactOut", c, "TOKEN", n, fixed)
                            [] kind = "max" -> Swap("exactOut", c, "TOKEN", most, all)
      /\ BaseSwap(r, c, "TOKEN") = IF kind = "fixed" THEN Swap("exactOut", c, "TOKEN", n, least)
                                   ELSE Swap("exactIn", c, "TOKEN", n, least)
      /\ CurveSell(r, c) = Swap("exactIn", "TOKEN", c, n, least)
      /\ BaseSwap(r, "TOKEN", c) = IF kind = "fixed" THEN Swap("exactOut", "TOKEN", c, n, least)
                                   ELSE Swap("exactIn", "TOKEN", c, n, least)
  BY DEF CurveBuy, CurveSell, BaseSwap
<1> HIDE DEF n, most, least, all, fixed, kind
<1>5. /\ Swap("exactIn", c, "TOKEN", n, least) \in Seq(Quiet)
      /\ Swap("exactOut", c, "TOKEN", n, least) \in Seq(Quiet)
      /\ Swap("exactOut", c, "TOKEN", n, fixed) \in Seq(Quiet)
      /\ Swap("exactOut", c, "TOKEN", most, all) \in Seq(Quiet)
  BY <1>1, <1>2, <1>3, SwapsAreQuiet
<1>6. /\ Swap("exactIn", "TOKEN", c, n, least) \in Seq(Instructions)
      /\ Swap("exactOut", "TOKEN", c, n, least) \in Seq(Instructions)
  BY <1>1, <1>2, <1>3, SwapsAreInstructions
<1>7. c # "WSOL" => /\ Swap("exactIn", "TOKEN", c, n, least) \in Seq(Quiet)
                    /\ Swap("exactOut", "TOKEN", c, n, least) \in Seq(Quiet)
  BY <1>1, <1>2, <1>3, SwapsAreQuiet
<1>8. ASSUME DammV2Takes(r)
      PROVE  /\ DammV2Exchange(r, c, "TOKEN") \in Seq(Quiet)
             /\ DammV2Exchange(r, "TOKEN", c) \in Seq(Instructions)
             /\ c # "WSOL" => DammV2Exchange(r, "TOKEN", c) \in Seq(Quiet)
  <2>1. PICK how \in Hows : \A pay, get : DammV2Exchange(r, pay, get) = Swap(how, pay, get, n, least)
    BY <1>8, DammV2ExchangeIs DEF n, least
  <2>2. /\ Swap(how, c, "TOKEN", n, least) \in Seq(Quiet)
        /\ c # "WSOL" => Swap(how, "TOKEN", c, n, least) \in Seq(Quiet)
    BY <1>1, <1>2, <1>3, SwapsAreQuiet
  <2>3. Swap(how, "TOKEN", c, n, least) \in Seq(Instructions)
    BY <1>1, <1>2, <1>3, SwapsAreInstructions
  <2>4. QED
    BY <2>1, <2>2, <2>3
<1>9. QED
  BY <1>1, <1>4, <1>5, <1>6, <1>7, <1>8 DEF n, least

LEMMA QuietPieces ==
  ASSUME NEW m \in Mints, NEW c
  PROVE  /\ Only(c, Create(m)) \in Seq(Quiet) /\ Only(c, Close("WSOL")) \in Seq(Quiet)
         /\ Only(c, Close("TOKEN")) \in Seq(Quiet) /\ <<>> \in Seq(Quiet)
<1> DEFINE i == [op |-> "create", mint |-> m]
           j == [op |-> "close", mint |-> "WSOL"]
           k == [op |-> "close", mint |-> "TOKEN"]
<1>1. i \in Quiet /\ j \in Quiet /\ k \in Quiet
  BY DEF Quiet
<1> HIDE DEF i, j, k
<1>2. <<i>> \in Seq(Quiet) /\ <<j>> \in Seq(Quiet) /\ <<k>> \in Seq(Quiet) /\ <<>> \in Seq(Quiet)
  BY <1>1
<1>3. QED
  BY <1>2 DEF Only, Create, Close, i, j, k

LEMMA FundedTidy ==
  ASSUME NEW q, NEW mint \in Paying, NEW n \in Nat, NEW swap \in Seq(Quiet), q.closeIn \/ mint # "WSOL"
  PROVE  /\ TidyPlan(Funded(q, mint, n, swap))
         /\ \A p \in Seq(Quiet) : TidyPlan(p \o Funded(q, mint, n, swap))
<1> DEFINE A == Only(q.createIn, IF mint = "WSOL" THEN handle_wsol(n) ELSE Create(mint))
           B == Only(q.createOut, Create("TOKEN"))
           C == Only(q.closeIn /\ mint = "WSOL", Close("WSOL"))
           front == (A \o B) \o swap
<1>1. Funded(q, mint, n, swap) = front \o C
  BY DEF Funded
<1>2. mint \in Mints /\ "TOKEN" \in Mints
  BY DEF Paying, Mints
<1>3. B \in Seq(Quiet) /\ C \in Seq(Quiet) /\ <<>> \in Seq(Quiet)
  BY <1>2, QuietPieces
<1>4. CASE mint = "WSOL"
  <2> DEFINE D == Close("WSOL")
  <2>1. C = D
    BY <1>4 DEF Only
  <2>2. A \in Seq(Instructions) /\ D \in Seq(Instructions)
    <3>1. A \in Seq(Instructions)
      BY <1>2, Pieces, PiecesAreInstructions
    <3>2. D \in Seq(Instructions)
      BY <1>2, Pieces DEF Instructions
    <3>3. QED
      BY <3>1, <3>2
  <2>3. B \in Seq(Instructions) /\ swap \in Seq(Instructions)
    BY <1>3, QuietAreInstructions
  <2> HIDE DEF A, B, D
  <2>4. front \in Seq(Instructions)
    BY <2>2, <2>3
  <2> HIDE DEF front, C
  <2>5. front \o D \in Seq(Instructions)
    BY <2>2, <2>4
  <2>6. (front \o D) \o <<>> = front \o D
    BY <2>5, ConcatEmptySeq
  <2>7. TidyPlan(front \o C)
    BY <1>3, <2>1, <2>4, <2>6 DEF TidyPlan, D
  <2>8. ASSUME NEW p \in Seq(Quiet) PROVE TidyPlan(p \o (front \o C))
    <3>1. p \in Seq(Instructions)
      BY QuietAreInstructions
    <3>2. p \o (front \o D) = (p \o front) \o D
      <4>1. \A s, t, u \in Seq(Instructions) : (s \o t) \o u = s \o (t \o u)
        BY ConcatAssociative
      <4>2. QED
        BY <2>2, <2>4, <3>1, <4>1
    <3>3. p \o front \in Seq(Instructions)
      BY <2>4, <3>1
    <3> DEFINE pf == p \o front
    <3> HIDE DEF pf
    <3>4. pf \o D \in Seq(Instructions)
      BY <2>2, <3>3 DEF pf
    <3>5. (pf \o D) \o <<>> = pf \o D
      BY <3>4, ConcatEmptySeq
    <3>6. TidyPlan(pf \o D)
      BY <1>3, <3>3, <3>5 DEF TidyPlan, D, pf
    <3>7. QED
      BY <2>1, <3>2, <3>6 DEF pf
  <2>9. QED
    BY <1>1, <2>7, <2>8
<1>5. CASE mint # "WSOL"
  <2>1. A \in Seq(Quiet)
    BY <1>2, <1>5, QuietPieces
  <2> HIDE DEF A, B, C
  <2>2. front \in Seq(Quiet)
    BY <1>3, <2>1
  <2> HIDE DEF front
  <2>3. front \o C \in Seq(Quiet)
    BY <1>3, <2>2
  <2>4. \A p \in Seq(Quiet) : p \o (front \o C) \in Seq(Quiet)
    BY <2>3
  <2>5. QED
    BY <1>1, <2>3, <2>4 DEF TidyPlan
<1>6. QED
  BY <1>4, <1>5

LEMMA ReceivedTidy ==
  ASSUME NEW q, NEW mint \in Paying, NEW swap \in Seq(Instructions), mint # "WSOL" => swap \in Seq(Quiet),
         q.closeOut \/ mint # "WSOL"
  PROVE  TidyPlan(Received(q, mint, swap))
<1> DEFINE A == Only(q.createOut, Create(mint))
           B == Only(q.closeOut /\ mint = "WSOL", Close("WSOL"))
           C == Only(q.closeIn, Close("TOKEN"))
           front == A \o swap
<1>1. Received(q, mint, swap) = (front \o B) \o C
  BY DEF Received
<1>2. mint \in Mints
  BY DEF Paying, Mints
<1>3. A \in Seq(Quiet) /\ B \in Seq(Quiet) /\ C \in Seq(Quiet)
  BY <1>2, QuietPieces
<1>4. CASE mint = "WSOL"
  <2> DEFINE D == Close("WSOL")
  <2>1. B = D
    BY <1>4 DEF Only
  <2>2. A \in Seq(Instructions)
    BY <1>3, QuietAreInstructions
  <2> HIDE DEF A
  <2>3. front \in Seq(Instructions)
    BY <2>2
  <2> HIDE DEF front, B, C
  <2>4. QED
    BY <1>1, <1>3, <2>1, <2>3 DEF TidyPlan, D
<1>5. CASE mint # "WSOL"
  <2> HIDE DEF A, B, C
  <2>1. front \in Seq(Quiet)
    BY <1>3, <1>5
  <2> HIDE DEF front
  <2>2. (front \o B) \o C \in Seq(Quiet)
    BY <1>3, <2>1
  <2>3. QED
    BY <1>1, <2>2 DEF TidyPlan
<1>6. QED
  BY <1>4, <1>5

(* The plans of requests that close the account of wrapped SOL. *)
Closes(r) == /\ IF r.buy THEN r.closeIn ELSE r.closeOut
             /\ r.venue = "pumpfun" => r.buy
Tidies(s) == s = Refused \/ TidyPlan(s)

LEMMA PumpFunTidy ==
  ASSUME NEW r \in Shapes, rate \in Nat \ {0}, r.buy, r.closeIn
  PROVE  Tidies(PumpFunAdapter(r))
<1> DEFINE mint == Mint(r.pool)
           curve == CurveBuy(r, mint)
           plain == CurveBuy(r, r.pool)
           native == CurveBuy(r, "SOL")
           A == Only(r.createOut, Create("TOKEN"))
           B == Only(r.createIn /\ r.pool # "SOL", Create(r.pool))
<1>1. r.pool \in Paying /\ mint \in Paying /\ "SOL" \in Paying /\ "TOKEN" \in Mints /\ r.pool \in Mints
  BY DEF Shapes, Mint, Paying, Mints
<1>2. curve \in Seq(Quiet) /\ plain \in Seq(Quiet) /\ native \in Seq(Quiet)
  BY <1>1, SwapPieces
<1>3. A \in Seq(Quiet) /\ B \in Seq(Quiet)
  BY <1>1, QuietPieces
<1>4. MostIn(r) \in Nat
  BY EstimatesAre
<1>5. Tidies(Refused)
  BY DEF Tidies
<1>6. Tidies(PumpFunV2Buy(r))
  <2>1. CASE ~Same(r.with, r.pool)
    BY <1>5, <2>1 DEF PumpFunV2Buy
  <2>2. CASE Same(r.with, r.pool)
    <3> DEFINE q == [r EXCEPT !.createOut = FALSE]
    <3>1. q.closeIn
      BY DEF Shapes
    <3>2. PumpFunV2Buy(r) = A \o Funded(q, mint, MostIn(r), curve)
      BY <2>2 DEF PumpFunV2Buy
    <3> HIDE DEF q, mint, A, curve
    <3>3. QED
      BY <1>1, <1>2, <1>3, <1>4, <3>1, <3>2, FundedTidy DEF Tidies
  <2>3. QED
    BY <2>1, <2>2
<1>7. Tidies((A \o B) \o plain) /\ Tidies(A \o native)
  <2> HIDE DEF A, B, plain, native
  <2>1. A \o B \in Seq(Quiet) /\ A \o native \in Seq(Quiet)
    BY <1>2, <1>3
  <2> DEFINE AB == A \o B
  <2> HIDE DEF AB
  <2>2. AB \o plain \in Seq(Quiet)
    BY <1>2, <2>1 DEF AB
  <2>3. QED
    BY <2>1, <2>2 DEF Tidies, TidyPlan, AB
<1>8. Tidies(PumpFunV3(r))
  BY <1>5, <1>7 DEF PumpFunV3
<1>9. PumpFunAdapter(r) = PumpFunBuyPlan(r)
  BY DEF PumpFunAdapter
<1>10. QED
  BY <1>5, <1>6, <1>7, <1>8, <1>9 DEF PumpFunBuyPlan

LEMMA PoolsTidy ==
  ASSUME NEW r \in Shapes, rate \in Nat \ {0}
  PROVE  /\ r.closeIn => /\ Tidies(PumpSwapBuyPlan(r)) /\ Tidies(CpmmBuyPlan(r)) /\ Tidies(AmmV4BuyPlan(r))
                         /\ Tidies(DammV2BuyPlan(r)) /\ Tidies(BonkBuyPlan(r))
         /\ r.closeOut => /\ Tidies(PumpSwapSellPlan(r)) /\ Tidies(CpmmSellPlan(r)) /\ Tidies(AmmV4SellPlan(r))
                          /\ Tidies(DammV2SellPlan(r)) /\ Tidies(BonkSellPlan(r))
<1> DEFINE mint == r.pool
           curve == CurveBuy(r, mint)
           base == BaseSwap(r, mint, "TOKEN")
           plain == Swap("exactIn", mint, "TOKEN", r.n, LeastOut(r))
           sold == CurveSell(r, mint)
           out == BaseSwap(r, "TOKEN", mint)
           dbuy == DammV2Exchange(r, mint, "TOKEN")
           dsell == DammV2Exchange(r, "TOKEN", mint)
<1>1. mint \in Paying /\ r.n \in Nat /\ MostIn(r) \in Nat
  BY EstimatesAre DEF Shapes
<1>2. /\ curve \in Seq(Quiet) /\ base \in Seq(Quiet) /\ plain \in Seq(Quiet)
      /\ sold \in Seq(Instructions) /\ out \in Seq(Instructions)
      /\ mint # "WSOL" => sold \in Seq(Quiet) /\ out \in Seq(Quiet)
      /\ DammV2Takes(r) => /\ dbuy \in Seq(Quiet) /\ dsell \in Seq(Instructions)
                           /\ mint # "WSOL" => dsell \in Seq(Quiet)
  BY <1>1, SwapPieces
<1>3. Tidies(Refused) /\ \A s : TidyPlan(s) => Tidies(s)
  BY DEF Tidies
<1>4. r.kind = "fixed" => LeastOut(r) = r.fixed
  BY DEF LeastOut
<1>5. ASSUME NEW q, q.closeIn
      PROVE  /\ Tidies(Funded(q, mint, MostIn(r), curve)) /\ Tidies(Funded(q, mint, r.n, base))
             /\ Tidies(Funded(q, mint, r.n, plain))
             /\ DammV2Takes(r) => Tidies(Funded(q, mint, r.n, dbuy))
  <2> HIDE DEF mint, curve, base, plain, dbuy
  <2>1. QED
    BY <1>1, <1>2, <1>3, <1>5, FundedTidy
<1>6. ASSUME NEW q, q.closeOut
      PROVE  /\ Tidies(Received(q, mint, sold)) /\ Tidies(Received(q, mint, out))
             /\ DammV2Takes(r) => Tidies(Received(q, mint, dsell))
  <2> HIDE DEF mint, sold, out, dsell
  <2>1. QED
    BY <1>1, <1>2, <1>3, <1>6, ReceivedTidy
<1>7. ASSUME r.closeIn
      PROVE  /\ Tidies(PumpSwapBuyPlan(r)) /\ Tidies(CpmmBuyPlan(r)) /\ Tidies(AmmV4BuyPlan(r))
             /\ Tidies(DammV2BuyPlan(r))
  BY <1>3, <1>4, <1>5, <1>7 DEF PumpSwapBuyPlan, CpmmBuyPlan, AmmV4BuyPlan, DammV2BuyPlan
<1>8. ASSUME r.closeIn PROVE Tidies(BonkBuyPlan(r))
  <2> DEFINE q == [r EXCEPT !.createIn = @ /\ r.pool = "WSOL"]
  <2>1. q.closeIn
    BY <1>8 DEF Shapes
  <2>2. BonkBuyPlan(r) = Funded(q, mint, r.n, plain)
    BY DEF BonkBuyPlan
  <2> HIDE DEF q, mint, plain
  <2>3. QED
    BY <1>5, <2>1, <2>2
<1>9. ASSUME r.closeOut
      PROVE  /\ Tidies(PumpSwapSellPlan(r)) /\ Tidies(CpmmSellPlan(r)) /\ Tidies(AmmV4SellPlan(r))
             /\ Tidies(DammV2SellPlan(r))
  BY <1>3, <1>4, <1>6, <1>9 DEF PumpSwapSellPlan, CpmmSellPlan, AmmV4SellPlan, DammV2SellPlan, CurveSell
<1>10. ASSUME r.closeOut PROVE Tidies(BonkSellPlan(r))
  <2> DEFINE q == [r EXCEPT !.createOut = @ /\ r.pool = "WSOL"]
  <2>1. q.closeOut
    BY <1>10 DEF Shapes
  <2>2. BonkSellPlan(r) = Received(q, mint, sold)
    BY DEF BonkSellPlan
  <2> HIDE DEF q, mint, sold
  <2>3. QED
    BY <1>6, <2>1, <2>2
<1>11. QED
  BY <1>7, <1>8, <1>9, <1>10

LEMMA PlansTidy ==
  ASSUME NEW r \in Shapes, rate \in Nat \ {0}, Closes(r)
  PROVE  Tidies(Plan(r))
<1>1. /\ r.buy \in BOOLEAN /\ r.direct \in BOOLEAN /\ r.pool \in Paying /\ r.with \in Paying
      /\ r.venue \in {"pumpfun", "pumpswap", "bonk", "ammV4", "cpmm", "dammV2"}
      /\ r.buy => r.closeIn
      /\ ~r.buy => r.closeOut /\ r.venue # "pumpfun"
  BY DEF Shapes, Closes
<1>2. Tidies(Refused)
  BY DEF Tidies
<1>3. /\ r.buy => /\ Tidies(PumpSwapBuyPlan(r)) /\ Tidies(CpmmBuyPlan(r)) /\ Tidies(AmmV4BuyPlan(r))
                  /\ Tidies(DammV2BuyPlan(r)) /\ Tidies(BonkBuyPlan(r))
      /\ ~r.buy => /\ Tidies(PumpSwapSellPlan(r)) /\ Tidies(CpmmSellPlan(r)) /\ Tidies(AmmV4SellPlan(r))
                   /\ Tidies(DammV2SellPlan(r)) /\ Tidies(BonkSellPlan(r))
  BY <1>1, PoolsTidy
<1>4. CASE r.venue = "pumpfun"
  <2>1. Plan(r) = PumpFunAdapter(r)
    BY <1>4 DEF Plan
  <2>2. QED
    BY <1>1, <1>4, <2>1, PumpFunTidy
<1>5. CASE r.venue = "cpmm"
  <2>1. Plan(r) = CpmmAdapter(r)
    BY <1>5 DEF Plan
  <2>2. QED
    BY <1>1, <1>3, <2>1 DEF CpmmAdapter
<1>6. CASE r.venue = "ammV4"
  <2>1. Plan(r) = AmmV4Adapter(r)
    BY <1>6 DEF Plan
  <2>2. QED
    BY <1>1, <1>3, <2>1 DEF AmmV4Adapter
<1>7. CASE r.venue = "dammV2"
  <2>1. Plan(r) = DammV2Adapter(r)
    BY <1>7 DEF Plan
  <2>2. QED
    BY <1>1, <1>3, <2>1 DEF DammV2Adapter
<1>8. CASE r.venue = "bonk"
  <2>1. CASE r.direct
    <3>1. Plan(r) = IF r.buy THEN BonkBuyPlan(r) ELSE BonkSellPlan(r)
      BY <1>8, <2>1 DEF Plan
    <3>2. QED
      BY <1>1, <1>3, <3>1
  <2>2. CASE ~r.direct
    <3>1. Plan(r) = <<>>
      BY <1>8, <2>2 DEF Plan, BonkAdapter
    <3>2. QED
      BY <3>1 DEF Tidies, TidyPlan
  <2>3. QED
    BY <1>1, <2>1, <2>2
<1>9. CASE r.venue = "pumpswap" /\ r.direct
  <2>1. Plan(r) = IF r.buy THEN PumpSwapBuyPlan(r) ELSE PumpSwapSellPlan(r)
    BY <1>9 DEF Plan
  <2>2. QED
    BY <1>1, <1>3, <2>1
<1>10. CASE r.venue = "pumpswap" /\ ~r.direct
  <2>1. Plan(r) = IF r.buy THEN Refused ELSE PumpSwapSellAdapter(r)
    BY <1>10 DEF Plan, PumpSwapBuyAdapter
  <2>2. QED
    BY <1>1, <1>2, <1>3, <2>1 DEF PumpSwapSellAdapter
<1>11. QED
  BY <1>1, <1>4, <1>5, <1>6, <1>7, <1>8, <1>9, <1>10

(* A plan runs as it would have while nothing has moved. *)
PlannedRun ==
    Len(trade.plan) \in Nat =>
      \E f : /\ AfterEach(f, wallet, trade.plan, Len(trade.plan))
             /\ Run(wallet, trade.plan) = f[Len(trade.plan)]

LEMMA PlannedRunIs == PlannedRun
BY RunIs DEF PlannedRun

LEMMA PlannedRunThen == PlannedRun'
BY PlannedRunIs, PTL

LEMMA StepsAgree ==
  ASSUME NEW w, NEW i, rate' = rate
  PROVE  RunOne(w, i)' = RunOne(w, i)
BY DEF RunOne, Gets, Costs, Swapped

LEMMA RunKeeps ==
  ASSUME NEW w, NEW s, Len(s) \in Nat, rate' = rate, wallet' = w, trade'.plan = s
  PROVE  Run(wallet, trade.plan)' = Run(w, s)
<1>1. PICK h : AfterEach(h, w, s, Len(s)) /\ Run(w, s) = h[Len(s)]
  BY RunIs
<1>2. PICK g : /\ (AfterEach(g, wallet, trade.plan, Len(trade.plan)))'
               /\ Run(wallet, trade.plan)' = g[Len(s)]
  BY PlannedRunThen DEF PlannedRun
<1>3. g[0] = w /\ \A n \in 1 .. Len(s) : g[n] = RunOne(g[n - 1], s[n])'
  BY <1>2 DEF AfterEach
<1>4. \A n \in 1 .. Len(s) : g[n] = RunOne(g[n - 1], s[n])
  BY <1>3, StepsAgree
<1>5. AfterEach(g, w, s, Len(s))
  BY <1>3, <1>4 DEF AfterEach
<1>6. QED
  BY <1>1, <1>2, <1>5, RunsAlike

(* What a transaction that was sent has to have run through is known when it is
   planned; what it must have closed, when it lands. *)
AccountsInv ==
    /\ PlanInv
    /\ PreparedAccountsSuffice
    /\ NothingLeftWrapped
    /\ Trades("planned") => (Closes(trade.request) => TidyPlan(trade.plan))

LEMMA OtherwiseInOrder ==
  ASSUME PlanInv', ~ Trades("planned")', ~ Trades("landed")'
  PROVE  AccountsInv'
BY DEF AccountsInv, PreparedAccountsSuffice, NothingLeftWrapped

(* The conditions of a trade that was just planned, and of one whose world stays. *)
Conditions(w, r) == Funds(w, r) /\ Fair(r) /\ Prepared(w, r)

LEMMA ConditionsKeep ==
  ASSUME rate' = rate, wallet' = wallet, NEW r, PassedOn(trade'.request) = r,
         Conditions(wallet, PassedOn(trade.request))'
  PROVE  Conditions(wallet, r)
<1>1. Funds(wallet, r)
  BY DEF Conditions, Funds, Balance
<1>2. Fair(r)
  BY DEF Conditions, Fair, Balance
<1>3. Prepared(wallet, r)
  BY DEF Conditions, Prepared
<1>4. QED
  BY <1>1, <1>2, <1>3 DEF Conditions

LEMMA AskedInOrder ==
  ASSUME AccountsInv, NEW r, r \in Shapes, Idle, Asks(r)
  PROVE  AccountsInv'
<1>1. PlanInv'
  BY AskingKeeps DEF AccountsInv
<1> DEFINE q == PassedOn(r)
           s == Plan(q)
<1>2. /\ r.n > 0 /\ Sends(r, s) /\ wallet' = wallet /\ rate' = rate
      /\ wallet \in Purses /\ rate \in Nat \ {0}
      /\ r.venue \notin {"wrap", "close"}
  BY RatesArePositive DEF Asks, Idle, AccountsInv, PlanInv, Shapes
<1>3. /\ q \in Shapes /\ Handed(q) /\ q.n = r.n /\ (Closes(r) => Closes(q))
  BY PassedOnIs DEF Closes
<1> HIDE DEF q
<1>4. /\ IF Unbuilt(q) THEN s = <<>> ELSE Suits(q, s)
      /\ Closes(q) => Tidies(s)
      /\ Ready(q) => Suffices(s)
  BY <1>2, <1>3, PlansSuit, PlansTidy, PlansSuffice
<1> HIDE DEF s
<1>5. CASE s = Refused
  <2>1. trade'.stage = "refused"
    BY <1>2, <1>5 DEF Sends
  <2>2. QED
    BY <1>1, <2>1, OtherwiseInOrder DEF Trades
<1>6. CASE s # Refused
  <2>1. /\ trade'.stage = "planned" /\ trade'.request = r /\ trade'.plan = s
    BY <1>2, <1>6 DEF Sends
  <2>2. Len(s) \in Nat
    <3>1. s = <<>> \/ OneOf(s, Preparing, Exchanges(q, rate))
      BY <1>4, <1>6 DEF Suits
    <3>2. Len(<<>>) \in Nat
      OBVIOUS
    <3>3. QED
      BY <3>1, <3>2 DEF OneOf
  <2>3. ASSUME Conditions(wallet, PassedOn(trade.request))' PROVE Run(wallet, trade.plan)' # Failed
    <3>1. PassedOn(trade'.request) = q
      BY <2>1 DEF q
    <3>2. Conditions(wallet, q)
      BY <1>2, <2>3, <3>1, ConditionsKeep
    <3>3. Ready(q)
      BY <1>2, <1>3, <3>2 DEF Conditions, Ready
    <3>4. Run(wallet, s) # Failed
      BY <1>4, <1>6, <3>3 DEF Suffices
    <3>5. Run(wallet, trade.plan)' = Run(wallet, s)
      BY <1>2, <2>1, <2>2, RunKeeps
    <3>6. QED
      BY <3>4, <3>5
  <2>4. Closes(r) => TidyPlan(s)
    BY <1>3, <1>4, <1>6 DEF Tidies
  <2>5. PreparedAccountsSuffice'
    BY <2>3 DEF PreparedAccountsSuffice, Conditions
  <2>6. NothingLeftWrapped'
    BY <2>1 DEF NothingLeftWrapped, Trades
  <2>7. (Trades("planned") => (Closes(trade.request) => TidyPlan(trade.plan)))'
    BY <2>1, <2>4 DEF Closes, TidyPlan
  <2>8. QED
    BY <1>1, <2>5, <2>6, <2>7 DEF AccountsInv
<1>7. QED
  BY <1>5, <1>6

(* Nothing happens to the wallet and the trade, and the rate moves or not. *)
LEMMA WaitingInOrder ==
  ASSUME AccountsInv, PlanInv', wallet' = wallet, trade' = trade,
         rate' = rate \/ (trade.stage = "planned" /\ trade.rate = rate)
  PROVE  AccountsInv'
<1>1. ASSUME Trades("planned"), rate' = trade'.rate, Conditions(wallet, PassedOn(trade.request))'
      PROVE  Run(wallet, trade.plan)' # Failed
  <2>1. rate' = rate
    BY <1>1 DEF Trades
  <2>2. Conditions(wallet, PassedOn(trade.request))
    BY <1>1, <2>1, ConditionsKeep
  <2>3. Run(wallet, trade.plan) # Failed
    BY <1>1, <2>1, <2>2 DEF AccountsInv, PreparedAccountsSuffice, Conditions
  <2>4. Len(trade.plan) \in Nat
    <3>1. Sent /\ trade.request.venue \notin {"wrap", "close"}
      BY <1>1 DEF AccountsInv, PlanInv, Trades, NoTrade
    <3>2. Planned(trade.plan, PassedOn(trade.request), trade.rate)
      BY <3>1 DEF Sent
    <3>3. Len(<<>>) \in Nat
      OBVIOUS
    <3>4. QED
      BY <3>2, <3>3 DEF Planned, OneOf
  <2>5. Run(wallet, trade.plan)' = Run(wallet, trade.plan)
    BY <2>1, <2>4, RunKeeps
  <2>6. QED
    BY <2>3, <2>5
<1>2. PreparedAccountsSuffice'
  BY <1>1 DEF PreparedAccountsSuffice, Conditions, Trades
<1>3. NothingLeftWrapped'
  BY DEF AccountsInv, NothingLeftWrapped, Trades, Balance
<1>4. (Trades("planned") => (Closes(trade.request) => TidyPlan(trade.plan)))'
  BY DEF AccountsInv, Trades, Closes, TidyPlan
<1>5. QED
  BY <1>2, <1>3, <1>4 DEF AccountsInv

LEMMA LandingInOrder ==
  ASSUME AccountsInv, Land
  PROVE  AccountsInv'
<1>1. PlanInv'
  BY LandingKeeps DEF AccountsInv
<1> DEFINE w == Run(wallet, trade.plan)
<1>2. /\ trade.stage = "planned"
      /\ wallet' = IF w = Failed THEN wallet ELSE w
      /\ trade' = [trade EXCEPT !.stage = IF w = Failed THEN "rejected" ELSE "landed"]
  BY DEF Land
<1>3. Sent
  BY <1>2 DEF AccountsInv, PlanInv, NoTrade
<1>4. /\ trade.before = wallet /\ wallet \in Purses /\ rate \in Nat \ {0}
      /\ DOMAIN trade = {"stage", "request", "plan", "rate", "before"}
  BY <1>2, <1>3, RatesArePositive DEF Sent, AccountsInv, PlanInv
<1>5. /\ trade'.stage = (IF w = Failed THEN "rejected" ELSE "landed")
      /\ trade'.request = trade.request /\ trade'.before = wallet
  <2> HIDE DEF w
  <2>1. QED
    BY <1>2, <1>4
<1>6. ASSUME Trades("landed")', Closes(trade.request) PROVE Balance(w, "WSOL") <= Balance(wallet, "WSOL")
  <2>1. w # Failed /\ Trades("planned")
    BY <1>2, <1>5, <1>6 DEF Trades
  <2>2. TidyPlan(trade.plan)
    BY <1>6, <2>1 DEF AccountsInv
  <2>3. QED
    BY <1>4, <2>1, <2>2, TidyPlansRun
<1>7. Trades("landed")' => wallet' = w
  BY <1>2, <1>5 DEF Trades
<1> HIDE DEF w
<1>8. NothingLeftWrapped'
  BY <1>5, <1>6, <1>7 DEF NothingLeftWrapped, Closes, Balance
<1>9. ~ Trades("planned")'
  BY <1>5 DEF Trades
<1>10. QED
  BY <1>1, <1>8, <1>9 DEF AccountsInv, PreparedAccountsSuffice

LEMMA AccountsStep ==
  ASSUME AccountsInv, [PlanNext]_planVars
  PROVE  AccountsInv'
<1>1. PlanInv'
  BY PlanStep DEF AccountsInv
<1>2. CASE UNCHANGED planVars
  BY <1>1, <1>2, WaitingInOrder DEF planVars
<1>3. CASE MarketMoves
  BY <1>1, <1>3, WaitingInOrder DEF MarketMoves
<1>4. CASE Open
  <2>1. trade' = trade /\ wallet = NoWallet
    BY <1>4 DEF Open
  <2>2. ~Sent
    BY <2>1, PurseShape DEF Sent
  <2>3. trade'.stage \in {"none", "refused"}
    BY <2>1, <2>2 DEF AccountsInv, PlanInv, NoTrade
  <2>4. QED
    BY <1>1, <2>3, OtherwiseInOrder DEF Trades
<1>5. CASE Buy \/ Sell
  <2>1. PICK r \in Requests : Idle /\ Asks(r)
    BY <1>5 DEF Buy, Sell
  <2>2. r \in Shapes
    BY PlanAssumption
  <2>3. QED
    BY <2>1, <2>2, AskedInOrder
<1>6. CASE SellByPercent
  <2>1. PICK percent \in {50, 100}, q \in ExactSells : Idle /\ Asks(Part(q, percent))
    BY <1>6 DEF SellByPercent
  <2>2. q \in Shapes /\ q.kind # "max"
    BY PlanAssumption DEF ExactSells
  <2>3. Part(q, percent) \in Shapes
    BY <2>1, <2>2, PartsAreShapes DEF AccountsInv
  <2>4. QED
    BY <2>1, <2>3, AskedInOrder
<1>7. CASE WrapSol \/ CloseWsol
  <2>1. \E name \in {"wrap", "close"} : \E n, s : Sends(OfWallet(name, n), s)
    BY <1>7 DEF WrapSol, CloseWsol
  <2>2. trade'.stage = "refused" \/ trade'.request.venue \in {"wrap", "close"}
    BY <2>1 DEF Sends, OfWallet
  <2>3. QED
    BY <1>1, <2>2, OtherwiseInOrder DEF Trades
<1>8. CASE Settle \/ Leaves
  <2>1. trade' = NoTrade
    BY <1>8 DEF Settle, Leaves
  <2>2. trade'.stage = "none"
    BY <2>1 DEF NoTrade
  <2>3. QED
    BY <1>1, <2>2, OtherwiseInOrder DEF Trades
<1>9. QED
  BY <1>2, <1>3, <1>4, <1>5, <1>6, <1>7, <1>8, LandingInOrder DEF PlanNext

(* With the accounts a request asks for, every plan of every venue runs through in
   the market it was made for, and whatever lands with its account of wrapped SOL
   closed has left nothing wrapped. *)
THEOREM AccountsAreInOrder == PlanSpec => []AccountsInOrder
<1>1. PlanInit => AccountsInv
  BY DEF PlanInit, AccountsInv, PlanInv, PreparedAccountsSuffice, NothingLeftWrapped, Trades, NoTrade
<1>2. AccountsInv /\ [PlanNext]_planVars => AccountsInv'
  BY AccountsStep
<1>3. AccountsInv => AccountsInOrder
  BY DEF AccountsInv, AccountsInOrder
<1>4. QED
  BY <1>1, <1>2, <1>3, PTL DEF PlanSpec

-----------------------------------------------------------------------------
(* CreatorFees, for any rates, amounts and number of writes.  What was read of
   an account and still has its version is what the account is. *)
FeeShares == [owned : BOOLEAN, rate : 0 .. Million]
EntryOf(a) == [data : IF a = "pool" THEN PoolFees ELSE FeeShares, slot : Nat, version : Nat]
Known(e, a) ==
    /\ e \in EntryOf(a) /\ e.version <= ledger[a].version
    /\ e.version = ledger[a].version => e.data = ledger[a].data
RateFrom(accounts) == resolve_creator_fee_share_rate(accounts["config"].data, accounts["share"].data)

LedgerOK == DOMAIN ledger = FeeAccounts /\ \A a \in FeeAccounts : ledger[a] \in EntryOf(a)
ShotOK ==
    /\ DOMAIN shot.accounts = FeeAccounts
    /\ \A a \in FeeAccounts : shot.accounts[a] = Unseen \/ Known(shot.accounts[a], a)
Made(o) ==
    /\ o.stage \in {"prepared", "rated", "sent"} /\ {"stage", "from", "rate"} \subseteq DOMAIN o
    /\ DOMAIN o.from = FeeAccounts /\ \A a \in FeeAccounts : o.from[a] \in EntryOf(a)
    /\ o.rate = RateFrom(o.from)
    /\ o.stage # "rated" => /\ "split" \in DOMAIN o
                            /\ o.split = Splits(o.from["pool"].data, o.rate)
                            /\ "at" \in DOMAIN o => /\ ~NothingAccrued(o.from["pool"].data)
                                                    /\ ~Overflows(o.from["pool"].data, o.split)
OfferOK == offer = NoOffer \/ (Made(offer) /\ \A a \in FeeAccounts : Known(offer.from[a], a))
FeesInv ==
    /\ feeSlot \in Nat /\ LedgerOK /\ ShotOK /\ OfferOK
    /\ payment = NoPayment \/ CollectionPaysAsSaid

(* The protocol's part is within the fee, and the creator's grows with it. *)
LEMMA MillionIs == Million \in Nat \ {0} /\ 0 \in 0 .. Million
<1>1. \A a, b \in Nat \ {0} : a * b \in Nat \ {0}
  BY SMT
<1>2. 1000 \in Nat \ {0}
  OBVIOUS
<1>3. Million \in Nat \ {0}
  BY <1>1, <1>2 DEF Million
<1> HIDE DEF Million
<1>4. QED
  BY <1>3

LEMMA SharesOfFees ==
  ASSUME NEW g \in Nat, NEW x \in 0 .. Million
  PROVE  ProtocolShare(g, x) \in Nat /\ g * x \in Nat
<1>1. g * x \in Nat
  BY MillionIs
<1>2. (g * x) \div Million \in Nat
  BY <1>1, MillionIs, QuotientBounds
<1>3. QED
  BY <1>1, <1>2 DEF ProtocolShare

LEMMA CreatorsShareGrows ==
  ASSUME NEW g \in Nat, NEW h \in Nat, g <= h, NEW x \in 0 .. Million
  PROVE  split_creator_fee(g, x).creator <= split_creator_fee(h, x).creator
<1> DEFINE M == Million
           p == g * x
           q == h * x
           d == h - g
           z == d * x
           a == p \div M
           b == q \div M
<1>1. x \in Nat /\ M \in Nat \ {0} /\ x <= M /\ d \in Nat /\ h = g + d
  BY MillionIs
<1>2. q = p + z
  <2> HIDE DEF d
  <2>1. (g + d) * x = g * x + d * x
    BY <1>1
  <2>2. QED
    BY <1>1, <2>1
<1>3. p \in Nat /\ z \in Nat /\ q \in Nat /\ z <= d * M
  <2> HIDE DEF d, M
  <2>1. QED
    BY <1>1
<1> HIDE DEF p, q, z, d, M
<1>4. /\ a \in Nat /\ p < a * M + M
      /\ b \in Nat /\ b * M <= q
  BY <1>1, <1>3, QuotientBounds
<1> HIDE DEF a, b
<1>5. b * M < (a + d + 1) * M
  <2>1. (a + d + 1) * M = a * M + d * M + M /\ a * M \in Nat /\ d * M \in Nat /\ b * M \in Nat
    BY <1>1, <1>4
  <2>2. QED
    BY <1>1, <1>2, <1>3, <1>4, <2>1
<1>6. b <= a + d
  <2>1. b >= a + d + 1 => b * M >= (a + d + 1) * M
    BY <1>1, <1>4
  <2>2. b * M \in Nat /\ (a + d + 1) * M \in Nat
    BY <1>1, <1>4
  <2>3. QED
    BY <1>1, <1>4, <1>5, <2>1, <2>2
<1>7. g - a <= h - b
  BY <1>1, <1>4, <1>6
<1>8. QED
  BY <1>7 DEF split_creator_fee, ProtocolShare, a, b, p, q, M

LEMMA RatesOfShares ==
  ASSUME NEW f, f["config"] \in EntryOf("config"), f["share"] \in EntryOf("share")
  PROVE  RateFrom(f) \in 0 .. Million
BY MillionIs DEF RateFrom, resolve_creator_fee_share_rate, EntryOf, FeeShares

(* The program finds the rate the same way. *)
LEMMA ProgramPaysRate ==
  ASSUME NEW f
  PROVE  ProgramPays(f) = Splits(f["pool"].data, RateFrom(f))
BY DEF ProgramPays, RateFrom, resolve_creator_fee_share_rate

LEMMA CollectedIsAPool ==
  ASSUME LedgerOK
  PROVE  Collected(ledger["pool"].data) \in PoolFees
<1> DEFINE m == ledger["pool"].data
           r == RateFrom(ledger)
<1>1. m \in PoolFees /\ r \in 0 .. Million
  BY RatesOfShares DEF LedgerOK, FeeAccounts, EntryOf
<1> HIDE DEF r
<1>2. \A t \in Tokens : m.fees[t] \in Nat /\ m.protocol[t] \in Nat
  BY <1>1 DEF PoolFees
<1>3. \A t \in Tokens : Splits(m, r)[t].protocol = ProtocolShare(m.fees[t], r)
  BY DEF Splits, split_creator_fee
<1>4. \A t \in Tokens : ProtocolShare(m.fees[t], r) \in Nat
  BY <1>1, <1>2, SharesOfFees
<1>5. ProgramPays(ledger) = Splits(m, r)
  BY ProgramPaysRate DEF r
<1> DEFINE s == ProgramPays(ledger)
<1>6. \A t \in Tokens : m.protocol[t] + s[t].protocol \in Nat
  BY <1>2, <1>3, <1>4, <1>5
<1> HIDE DEF s, m
<1>7. Collected(m) = [fees |-> [t \in Tokens |-> 0], protocol |-> [t \in Tokens |-> m.protocol[t] + s[t].protocol]]
  BY DEF Collected, s
<1>8. QED
  BY <1>6, <1>7 DEF PoolFees, m

(* A write gives the account a version that nobody has read yet. *)
LEMMA WriteKeeps ==
  ASSUME FeesInv, NEW a \in FeeAccounts, NEW data, data \in (IF a = "pool" THEN PoolFees ELSE FeeShares),
         Written(a, data)
  PROVE  LedgerOK' /\ \A b \in FeeAccounts : \A e : Known(e, b) => Known(e, b)'
<1> DEFINE n == [data |-> data, slot |-> feeSlot, version |-> ledger[a].version + 1]
<1>1. ledger' = [ledger EXCEPT ![a] = n]
  BY DEF Written
<1>2. n \in EntryOf(a) /\ n.version = ledger[a].version + 1 /\ ledger[a].version \in Nat
  BY DEF FeesInv, LedgerOK, EntryOf
<1> HIDE DEF n
<1>3. DOMAIN ledger' = FeeAccounts /\ \A b \in FeeAccounts : ledger'[b] = IF b = a THEN n ELSE ledger[b]
  BY <1>1 DEF FeesInv, LedgerOK
<1>4. LedgerOK'
  BY <1>2, <1>3 DEF FeesInv, LedgerOK
<1>5. ASSUME NEW b \in FeeAccounts, NEW e, Known(e, b) PROVE Known(e, b)'
  <2>1. e \in EntryOf(b) /\ e.version \in Nat /\ e.version <= ledger[b].version
    BY <1>5 DEF Known, EntryOf
  <2>2. CASE b = a
    <3>1. e.version <= ledger'[b].version /\ e.version # ledger'[b].version
      BY <1>2, <1>3, <2>1, <2>2
    <3>2. QED
      BY <2>1, <3>1 DEF Known
  <2>3. CASE b # a
    BY <1>3, <1>5, <2>3 DEF Known
  <2>4. QED
    BY <2>2, <2>3
<1>6. QED
  BY <1>4, <1>5

(* So what was read before is known after. *)
LEMMA KnownStays ==
  ASSUME FeesInv, \A b \in FeeAccounts : \A e : Known(e, b) => Known(e, b)',
         UNCHANGED <<shot, offer>>
  PROVE  ShotOK' /\ OfferOK'
<1>1. ShotOK'
  BY DEF FeesInv, ShotOK
<1>2. Made(offer) => Made(offer)'
  BY DEF Made
<1>3. OfferOK'
  BY <1>2 DEF FeesInv, OfferOK
<1>4. QED
  BY <1>1, <1>3

(* The announcement holds when the collection is executed. *)
LEMMA CollectionIsAsSaid ==
  ASSUME FeesInv, CollectionExecutes
  PROVE  CollectionPaysAsSaid'
<1> DEFINE o == offer
           m == ledger["pool"].data
           b == o.from["pool"].data
           s == ProgramPays(ledger)
           r == RateFrom(ledger)
<1>1. /\ payment' = [made |-> TRUE, fails |-> NothingAccrued(m) \/ Overflows(m, s), split |-> s, on |-> ledger, offer |-> o]
      /\ o.stage = "sent"
  BY DEF CollectionExecutes
<1>2. Made(o) /\ \A a \in FeeAccounts : Known(o.from[a], a)
  BY <1>1 DEF FeesInv, OfferOK, NoOffer
<1>3. /\ o.rate = RateFrom(o.from) /\ o.split = Splits(b, o.rate)
      /\ "at" \in DOMAIN o => ~NothingAccrued(b) /\ ~Overflows(b, o.split)
  BY <1>1, <1>2 DEF Made
<1>4. s = Splits(m, r)
  BY ProgramPaysRate
<1>5. /\ r \in 0 .. Million /\ m \in PoolFees /\ b \in PoolFees
  BY <1>2, RatesOfShares DEF FeesInv, LedgerOK, Known, FeeAccounts, EntryOf
<1>6. \A a \in FeeAccounts : ledger[a].version = o.from[a].version => o.from[a].data = ledger[a].data
  BY <1>2 DEF Known
<1>7. ledger["config"].version = o.from["config"].version /\ ledger["share"].version = o.from["share"].version
        => o.rate = r
  BY <1>3, <1>6 DEF RateFrom, FeeAccounts
<1>8. ledger["pool"].version = o.from["pool"].version => b = m
  BY <1>6 DEF FeeAccounts
<1>9. ASSUME o.rate = r, NEW t \in Tokens, m.fees[t] >= b.fees[t]
      PROVE  s[t].creator >= o.split[t].creator
  <2> DEFINE g == b.fees[t]
             h == m.fees[t]
  <2>1. g \in Nat /\ h \in Nat /\ g <= h
    BY <1>5, <1>9 DEF PoolFees
  <2>2. s[t] = split_creator_fee(h, r) /\ o.split[t] = split_creator_fee(g, r)
    BY <1>3, <1>4, <1>9 DEF Splits
  <2> HIDE DEF g, h, r, s
  <2>3. split_creator_fee(g, r).creator <= split_creator_fee(h, r).creator
    BY <1>5, <2>1, CreatorsShareGrows
  <2>4. split_creator_fee(g, r).creator \in Int /\ split_creator_fee(h, r).creator \in Int
    BY <1>5, <2>1, SharesOfFees DEF split_creator_fee
  <2>5. QED
    BY <2>2, <2>3, <2>4
<1>10. /\ payment'.made /\ payment'.fails = (NothingAccrued(m) \/ Overflows(m, s)) /\ payment'.split = s
       /\ payment'.on = ledger /\ payment'.offer = o
  BY <1>1
<1> HIDE DEF s, r
<1>11. ASSUME ledger["config"].version = o.from["config"].version,
              ledger["share"].version = o.from["share"].version
       PROVE  /\ ledger["pool"].version = o.from["pool"].version =>
                   s = o.split /\ (NothingAccrued(m) \/ Overflows(m, s) => ~("at" \in DOMAIN o))
              /\ \A t \in Tokens : m.protocol = b.protocol /\ m.fees[t] >= b.fees[t] =>
                   s[t].creator >= o.split[t].creator
  BY <1>3, <1>4, <1>7, <1>8, <1>9, <1>11
<1> HIDE DEF o, m, b
<1>12. QED
  BY <1>10, <1>11 DEF CollectionPaysAsSaid, m, b

LEMMA FeesStart == FeesInit => FeesInv
<1> SUFFICES ASSUME FeesInit PROVE FeesInv
  OBVIOUS
<1>1. PICK r \in ShareRates : ledger = FirstLedger(r)
  BY DEF FeesInit
<1>2. r \in 0 .. Million
  BY FeesAssumption
<1>3. LedgerOK
  BY <1>1, <1>2, FeesAssumption, MillionIs DEF LedgerOK, FirstLedger, FeeAccounts, EntryOf, FeeShares, Share, Gone
<1>4. QED
  BY <1>3 DEF FeesInit, FeesInv, ShotOK, OfferOK, NothingRead

LEMMA WritingKeeps ==
  ASSUME FeesInv, NEW a \in FeeAccounts, NEW data, data \in (IF a = "pool" THEN PoolFees ELSE FeeShares),
         Writing(a, data)
  PROVE  FeesInv'
<1>1. Written(a, data) /\ UNCHANGED <<feeSlot, shot, offer, payment>>
  BY DEF Writing
<1>2. LedgerOK' /\ \A b \in FeeAccounts : \A e : Known(e, b) => Known(e, b)'
  BY <1>1, WriteKeeps
<1>3. ShotOK' /\ OfferOK'
  BY <1>1, <1>2, KnownStays
<1>4. CollectionPaysAsSaid => CollectionPaysAsSaid'
  BY <1>1 DEF CollectionPaysAsSaid
<1>5. QED
  BY <1>1, <1>2, <1>3, <1>4 DEF FeesInv

LEMMA FeesStep == FeesInv /\ [FeesNext]_feeVars => FeesInv'
<1> SUFFICES ASSUME FeesInv, [FeesNext]_feeVars PROVE FeesInv'
  OBVIOUS
<1>1. ASSUME UNCHANGED ledger PROVE LedgerOK' /\ \A b \in FeeAccounts : \A e : Known(e, b) => Known(e, b)'
  BY <1>1 DEF FeesInv, LedgerOK, Known
<1>2. UNCHANGED payment /\ CollectionPaysAsSaid => CollectionPaysAsSaid'
  BY DEF CollectionPaysAsSaid
<1>3. ASSUME UNCHANGED <<ledger, payment, offer>>, feeSlot' \in Nat, ShotOK' PROVE FeesInv'
  <2>1. LedgerOK' /\ OfferOK'
    BY <1>1, <1>3 DEF FeesInv, OfferOK, Made
  <2>2. QED
    BY <1>2, <1>3, <2>1 DEF FeesInv
<1>4. ASSUME UNCHANGED <<feeSlot, ledger, shot, payment>>, OfferOK' PROVE FeesInv'
  <2>1. LedgerOK' /\ ShotOK'
    BY <1>1, <1>4 DEF FeesInv, ShotOK
  <2>2. QED
    BY <1>2, <1>4, <2>1 DEF FeesInv
<1>5. ASSUME NEW t \in Tokens, Accrues(t) PROVE FeesInv'
  <2> DEFINE m == ledger["pool"].data
             data == [m EXCEPT !.fees[t] = @ + Accrual]
  <2>1. m \in PoolFees
    BY DEF FeesInv, LedgerOK, FeeAccounts, EntryOf
  <2>2. data \in PoolFees /\ Writing("pool", data)
    BY <1>5, <2>1, FeesAssumption DEF Accrues, PoolFees
  <2> HIDE DEF data
  <2>3. QED
    BY <2>2, WritingKeeps DEF FeeAccounts
<1>6. ASSUME NEW r \in ShareRates, ConfigChanges(r) PROVE FeesInv'
  <2>1. Share(r) \in FeeShares /\ Writing("config", Share(r))
    BY <1>6, FeesAssumption DEF ConfigChanges, Share, FeeShares
  <2>2. QED
    BY <2>1, WritingKeeps DEF FeeAccounts
<1>7. ASSUME NEW data \in {Gone} \cup {Share(r) : r \in ShareRates}, ShareChanges(data) PROVE FeesInv'
  <2>1. Gone \in FeeShares
    BY MillionIs DEF Gone, FeeShares
  <2>2. \A r \in ShareRates : Share(r) \in FeeShares
    BY FeesAssumption DEF Share, FeeShares
  <2>3. data \in FeeShares /\ Writing("share", data)
    BY <1>7, <2>1, <2>2 DEF ShareChanges
  <2>4. QED
    BY <2>3, WritingKeeps DEF FeeAccounts
<1>8. ASSUME OthersCollect PROVE FeesInv'
  <2> DEFINE data == Collected(ledger["pool"].data)
  <2>1. data \in PoolFees /\ Writing("pool", data)
    BY <1>8, CollectedIsAPool DEF OthersCollect, FeesInv
  <2> HIDE DEF data
  <2>2. QED
    BY <2>1, WritingKeeps DEF FeeAccounts
<1>9. ASSUME SlotPasses PROVE FeesInv'
  <2>1. ShotOK'
    BY <1>1, <1>9 DEF SlotPasses, FeesInv, ShotOK
  <2>2. QED
    BY <1>3, <1>9, <2>1 DEF SlotPasses, FeesInv
<1>10. ASSUME ShotDies PROVE FeesInv'
  <2>1. shot'.accounts = shot.accounts
    BY <1>10 DEF ShotDies
  <2>2. ShotOK'
    BY <1>1, <1>10, <2>1 DEF ShotDies, FeesInv, ShotOK
  <2>3. QED
    BY <1>3, <1>10, <2>2 DEF ShotDies, FeesInv
<1>11. ASSUME NEW A, NEW through, Shoots(A, through) PROVE FeesInv'
  <2>1. \A a \in FeeAccounts : Known(ledger[a], a)
    BY DEF FeesInv, LedgerOK, Known, EntryOf
  <2>2. \A a \in FeeAccounts : shot'.accounts[a] = IF a \in A THEN ledger[a] ELSE shot.accounts[a]
    BY <1>11 DEF Shoots
  <2>3. ShotOK'
    BY <1>1, <1>11, <2>1, <2>2 DEF Shoots, FeesInv, ShotOK
  <2>4. QED
    BY <1>3, <1>11, <2>3 DEF Shoots, FeesInv
<1>12. ASSUME Prepare PROVE FeesInv'
  <2>1. PICK at \in 1 .. feeSlot : offer' \in Preparation(at)
    BY <1>12 DEF Prepare
  <2> DEFINE accounts == shot.accounts
             m == accounts["pool"].data
             split == Splits(m, RateFrom(accounts))
  <2>2. /\ \A a \in FeeAccounts : Readable(a, at)
        /\ ~NothingAccrued(m) /\ ~Overflows(m, split)
        /\ offer' = [stage |-> "prepared", at |-> at, rate |-> RateFrom(accounts), split |-> split, from |-> accounts]
    BY <2>1 DEF Preparation, RateFrom
  <2>3. DOMAIN accounts = FeeAccounts /\ \A a \in FeeAccounts : Known(accounts[a], a)
    BY <2>2 DEF FeesInv, ShotOK, Readable
  <2> HIDE DEF accounts, split
  <2>4. /\ offer'.stage = "prepared" /\ offer'.from = accounts /\ offer'.rate = RateFrom(accounts)
        /\ offer'.split = split /\ {"stage", "from", "rate", "split"} \subseteq DOMAIN offer'
    BY <2>2
  <2>5. split = Splits(m, RateFrom(accounts))
    BY DEF split
  <2> HIDE DEF m
  <2>6. m = offer'.from["pool"].data
    BY <2>4 DEF m
  <2>7. Made(offer')
    BY <2>2, <2>3, <2>4, <2>5, <2>6 DEF Made, Known
  <2>8. \A a \in FeeAccounts : Known(offer'.from[a], a)
    BY <2>3, <2>4
  <2>9. QED
    BY <1>1, <1>4, <1>12, <2>7, <2>8 DEF Prepare, OfferOK
<1>13. ASSUME Validate PROVE FeesInv'
  <2>1. offer' = [offer EXCEPT !.stage = "sent"] /\ offer.stage = "prepared" /\ UNCHANGED <<feeSlot, ledger, shot, payment>>
    BY <1>13 DEF Validate
  <2>2. Made(offer) /\ \A a \in FeeAccounts : Known(offer.from[a], a)
    BY <2>1 DEF FeesInv, OfferOK, NoOffer
  <2>3. /\ DOMAIN offer' = DOMAIN offer /\ offer'.stage = "sent" /\ offer'.from = offer.from
        /\ offer'.rate = offer.rate /\ offer'.split = offer.split
    BY <2>1, <2>2 DEF Made
  <2>4. Made(offer')
    BY <2>1, <2>2, <2>3 DEF Made
  <2>5. QED
    BY <1>1, <1>4, <2>1, <2>2, <2>3, <2>4 DEF OfferOK
<1>14. ASSUME GivesUp PROVE FeesInv'
  BY <1>4, <1>14 DEF GivesUp, OfferOK
<1>15. ASSUME FetchRate PROVE FeesInv'
  <2>1. \A a \in FeeAccounts : Known(ledger[a], a) /\ ledger[a] \in EntryOf(a)
    BY DEF FeesInv, LedgerOK, Known, EntryOf
  <2>2. offer' = [stage |-> "rated", from |-> ledger, rate |-> RateFrom(ledger)]
    BY <1>15 DEF FetchRate, RateFrom
  <2>3. Made(offer')
    BY <2>1, <2>2 DEF Made, FeesInv, LedgerOK
  <2>4. QED
    BY <1>1, <1>4, <1>15, <2>1, <2>2, <2>3 DEF FetchRate, OfferOK
<1>16. ASSUME EstimatePayout PROVE FeesInv'
  <2> DEFINE from == [offer.from EXCEPT !["pool"] = ledger["pool"]]
  <2>1. /\ offer.stage = "rated"
        /\ offer' = [stage |-> "sent", rate |-> offer.rate,
                     split |-> Splits(ledger["pool"].data, offer.rate), from |-> from]
    BY <1>16 DEF EstimatePayout
  <2>2. Made(offer) /\ \A a \in FeeAccounts : Known(offer.from[a], a)
    BY <2>1 DEF FeesInv, OfferOK, NoOffer
  <2>3. /\ DOMAIN from = FeeAccounts
        /\ \A a \in FeeAccounts : from[a] = IF a = "pool" THEN ledger["pool"] ELSE offer.from[a]
    BY <2>2 DEF Made
  <2> HIDE DEF from
  <2>4. Known(ledger["pool"], "pool")
    BY DEF FeesInv, LedgerOK, Known, EntryOf, FeeAccounts
  <2>5. \A a \in FeeAccounts : Known(from[a], a)
    BY <2>2, <2>3, <2>4
  <2>6. RateFrom(from) = offer.rate
    BY <2>2, <2>3 DEF RateFrom, Made, FeeAccounts
  <2>7. from["pool"] = ledger["pool"]
    BY <2>3 DEF FeeAccounts
  <2>8. Made(offer')
    BY <2>1, <2>3, <2>5, <2>6, <2>7 DEF Made, Known
  <2>9. offer'.from = from
    BY <2>1
  <2>10. \A a \in FeeAccounts : Known(offer'.from[a], a)
    BY <2>5, <2>9
  <2>11. OfferOK'
    BY <1>1, <1>16, <2>8, <2>10 DEF EstimatePayout, OfferOK
  <2>12. QED
    BY <1>4, <1>16, <2>11 DEF EstimatePayout
<1>17. ASSUME CollectionExecutes PROVE FeesInv'
  <2>1. LedgerOK' /\ \A b \in FeeAccounts : \A e : Known(e, b) => Known(e, b)'
    <3>1. CASE UNCHANGED ledger
      BY <1>1, <3>1
    <3>2. CASE Written("pool", Collected(ledger["pool"].data))
      <4> DEFINE data == Collected(ledger["pool"].data)
      <4>1. data \in PoolFees
        BY CollectedIsAPool DEF FeesInv
      <4> HIDE DEF data
      <4>2. QED
        BY <3>2, <4>1, WriteKeeps DEF FeeAccounts, data
    <3>3. QED
      BY <1>17, <3>1, <3>2 DEF CollectionExecutes
  <2>2. ShotOK'
    BY <1>17, <2>1 DEF CollectionExecutes, FeesInv, ShotOK
  <2>3. QED
    BY <1>17, <2>1, <2>2, CollectionIsAsSaid DEF CollectionExecutes, FeesInv, OfferOK
<1>18. ASSUME AnotherPool PROVE FeesInv'
  <2>1. FeesInit'
    BY <1>18 DEF AnotherPool, FeesInit
  <2>2. QED
    BY <2>1, FeesStart, PTL
<1>19. ASSUME UNCHANGED feeVars PROVE FeesInv'
  BY <1>1, <1>2, <1>19 DEF feeVars, FeesInv, ShotOK, OfferOK, Made
<1>20. QED
  BY <1>5, <1>6, <1>7, <1>8, <1>9, <1>10, <1>11, <1>12, <1>13, <1>14, <1>15, <1>16, <1>17, <1>18, <1>19
  DEF FeesNext

(* A creator is paid exactly what was announced while nothing it depends on was
   written, and never less while fees accrue. *)
THEOREM CollectionsPayAsSaid == FeesSpec => []CollectionPaysAsSaid
<1>1. FeesInv => CollectionPaysAsSaid
  BY DEF FeesInv, CollectionPaysAsSaid, NoPayment
<1>2. QED
  BY <1>1, FeesStart, FeesStep, PTL DEF FeesSpec
=============================================================================
