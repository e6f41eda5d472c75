----------------------- MODULE SubscriptionCache_proofs -----------------------
(***************************************************************************)
(* Proofs about SubscriptionAccountCache for every set of accounts,         *)
(* versions, contents and threads.                                          *)
(*                                                                          *)
(* Why the invariants need strengthening: what the cache holds after a      *)
(* commit is what was staged, so "the newest of what was committed" has to  *)
(* be known of the staged map too (MergedIsNewest); and a snapshot is whole *)
(* only because nothing can commit while a reader holds the lock            *)
(* (CopyingIsExclusive).  IInv conjoins these facts.                        *)
(***************************************************************************)
EXTENDS SubscriptionCache, TLAPS

(* Versions are totally ordered by (slot, write_version). *)
LEMMA VersionOrder ==
  ASSUME NEW a \in Account, NEW b \in Account
  PROVE  /\ Newer(a, b) \/ Newer(b, a) \/ SameVersion(a, b)
         /\ ~ (Newer(a, b) /\ Newer(b, a))
         /\ SameVersion(a, b) => ~ Newer(a, b)
         /\ SameVersion(a, b) => SameVersion(b, a)
<1>1. /\ a.slot \in Nat /\ a.write_version \in Nat
      /\ b.slot \in Nat /\ b.write_version \in Nat
  BY CacheConstants DEF Account
<1>2. QED
  BY <1>1 DEF Newer, Older, SameVersion

LEMMA NewerTransitive ==
  ASSUME NEW a \in Account, NEW b \in Account, NEW c \in Account,
         Newer(a, b), ~ Newer(c, b)
  PROVE  Newer(a, c) /\ ~ SameVersion(c, a)
<1>1. /\ a.slot \in Nat /\ a.write_version \in Nat
      /\ b.slot \in Nat /\ b.write_version \in Nat
      /\ c.slot \in Nat /\ c.write_version \in Nat
  BY CacheConstants DEF Account
<1>2. QED
  BY <1>1 DEF Newer, Older, SameVersion

(* Parser events yield accounts like any other. *)
LEMMA ObservableIsAccount == Observable = Account
<1>1. ASSUME NEW o \in Owner, NEW d \in Data, NEW l \in {0, 1}, NEW s \in Slot,
             NEW v \in WriteVersion
      PROVE  FromParser(o, d, l, s, v) \in Account
  <2>1. (IF l = 0 THEN Empty ELSE d) \in Data
    BY CacheConstants
  <2>2. QED
    BY <2>1 DEF FromParser, Account
<1>2. QED
  BY <1>1 DEF Observable

LEMMA MergedType == TypeOK => \A k \in Key : Merged(k) \in Value
BY DEF TypeOK, Merged

-----------------------------------------------------------------------------
(* The empty cache satisfies the inductive invariant. *)
LEMMA InitIInv == Init => IInv
<1>1. SUFFICES ASSUME Init PROVE IInv
  OBVIOUS
<1>2. TypeOK
  BY <1>1 DEF Init, TypeOK, NoPending, NoSnapshot, Snapshot, Value
<1>3. StoredIsNewest /\ MergedIsNewest /\ StagedIsNewer
  BY <1>1 DEF Init, StoredIsNewest, MergedIsNewest, StagedIsNewer, NewestOf, Merged, NoPending
<1>4. NoBatchAfterConflict /\ CopyingIsExclusive /\ CopyIsOfMark /\ FrozenIsComplete
      /\ LockHolderCopies
  BY <1>1, CacheConstants
  DEF Init, NoBatchAfterConflict, CopyingIsExclusive, CopyIsOfMark, FrozenIsComplete,
      LockHolderCopies, NoSnapshot, NoPending
<1>5. QED
  BY <1>2, <1>3, <1>4 DEF IInv

-----------------------------------------------------------------------------
(* update_many() *)

LEMMA BatchBeginKeeps ==
  ASSUME NEW w \in Writer, IInv, BatchBegin(w)
  PROVE  IInv'
<1> USE DEF IInv, BatchBegin
<1>1. TypeOK'
  BY DEF TypeOK
<1>2. StoredIsNewest' /\ MergedIsNewest' /\ StagedIsNewer'
  BY DEF StoredIsNewest, MergedIsNewest, StagedIsNewer, NewestOf, Merged
<1>3. NoBatchAfterConflict' /\ CopyIsOfMark' /\ FrozenIsComplete'
  BY DEF NoBatchAfterConflict, CopyIsOfMark, FrozenIsComplete
<1>4. CopyingIsExclusive' /\ LockHolderCopies'
  BY CacheConstants DEF CopyingIsExclusive, LockHolderCopies
<1>5. QED
  BY <1>1, <1>2, <1>3, <1>4

(* One iteration of the loop: the staged item is newer than what it replaces,
   the skipped one older or the same. *)
LEMMA ItemKeeps ==
  ASSUME NEW w \in Writer, NEW k \in Key, NEW a \in Account, IInv, Item(w, k, a)
  PROVE  IInv'
<1> USE DEF IInv, Item
<1>1. TypeOK'
  BY DEF TypeOK, Stage, Skip, Value
<1>2. StoredIsNewest'
  BY DEF StoredIsNewest, NewestOf
<1>3. \A j \in Key : j # k => Merged(j)' = Merged(j)
  BY DEF TypeOK, Merged, Stage, Skip
<1>4. ASSUME NEW j \in Key, j # k
      PROVE  NewestOf(j, Merged(j), committed \cup batch)'
  BY <1>3, <1>4 DEF MergedIsNewest, NewestOf
<1>5. NewestOf(k, Merged(k), committed \cup batch)'
  <2>1. CASE Stage(k, a)
    <3>1. Merged(k)' = a /\ a # NoAccount
      BY <2>1, NoAccountIsNone DEF TypeOK, Merged, Stage
    <3>2. ASSUME NEW b \in Account, <<k, b>> \in (committed \cup batch)'
          PROVE  ~ Newer(b, a) /\ (SameVersion(b, a) => b = a)
      <4>1. CASE b = a
        <5>1. SameVersion(a, a)
          BY DEF SameVersion
        <5>2. ~ Newer(a, a)
          BY <5>1, VersionOrder
        <5>3. QED
          BY <4>1, <5>2
      <4>2. CASE <<k, b>> \in committed \cup batch
        <5>1. Merged(k) \in Account /\ ~ Newer(b, Merged(k))
          BY <4>2, MergedType DEF MergedIsNewest, NewestOf, Value
        <5>2. Newer(a, Merged(k))
          BY <2>1, <5>1, NoAccountIsNone DEF Stage, Previous
        <5>3. QED
          BY <5>1, <5>2, NewerTransitive, VersionOrder
      <4>3. QED
        BY <3>2, <4>1, <4>2
    <3>3. QED
      BY <3>1, <3>2 DEF NewestOf
  <2>2. CASE Skip(k, a)
    <3>1. Merged(k)' = Merged(k) /\ Merged(k) \in Account
      BY <2>2, MergedType DEF Merged, Skip, Previous, Value
    <3>2. ~ Newer(a, Merged(k)) /\ (SameVersion(a, Merged(k)) => a = Merged(k))
      BY <2>2, <3>1, VersionOrder DEF Skip, Previous
    <3>3. <<k, Merged(k)>> \in (committed \cup batch)'
      BY <3>1, NoAccountIsNone DEF MergedIsNewest, NewestOf
    <3>4. ASSUME NEW b \in Account, <<k, b>> \in (committed \cup batch)'
          PROVE  ~ Newer(b, Merged(k)) /\ (SameVersion(b, Merged(k)) => b = Merged(k))
      BY <3>2, <3>4 DEF MergedIsNewest, NewestOf
    <3>5. QED
      BY <3>1, <3>3, <3>4, NoAccountIsNone DEF NewestOf
  <2>3. QED
    BY <2>1, <2>2
<1>6. MergedIsNewest'
  BY <1>4, <1>5 DEF MergedIsNewest
<1>7. StagedIsNewer'
  <2>1. CASE Stage(k, a)
    <3>1. ASSUME accounts[k] # NoAccount PROVE Newer(a, accounts[k])
      <4>1. Previous(k) \in Account /\ Newer(a, Previous(k))
        BY <2>1, <3>1 DEF Stage, Previous, Merged, TypeOK, Value
      <4>2. CASE pending[k] = NoAccount
        BY <4>1, <4>2 DEF Previous, Merged
      <4>3. CASE pending[k] # NoAccount
        <5>1. Newer(pending[k], accounts[k]) /\ Previous(k) = pending[k]
          BY <3>1, <4>3 DEF StagedIsNewer, Previous, Merged
        <5>2. pending[k] \in Account /\ accounts[k] \in Account
          BY <3>1, <4>3 DEF TypeOK, Value
        <5>3. QED
          BY <4>1, <5>1, <5>2, NewerTransitive, VersionOrder
      <4>4. QED
        BY <4>2, <4>3
    <3>2. QED
      BY <2>1, <3>1 DEF StagedIsNewer, Stage, TypeOK
  <2>2. CASE Skip(k, a)
    BY <2>2 DEF StagedIsNewer, Skip
  <2>3. QED
    BY <2>1, <2>2
<1>8. NoBatchAfterConflict' /\ CopyingIsExclusive' /\ CopyIsOfMark' /\ FrozenIsComplete'
      /\ LockHolderCopies'
  BY DEF NoBatchAfterConflict, CopyingIsExclusive, CopyIsOfMark, FrozenIsComplete,
         LockHolderCopies
<1>9. QED
  BY <1>1, <1>2, <1>6, <1>7, <1>8

(* Without staged items the merged map is the stored one. *)
LEMMA NothingStaged ==
  ASSUME pending = NoPending
  PROVE  \A k \in Key : Merged(k) = accounts[k]
BY DEF NoPending, Merged

(* A batch that is given up leaves the stored accounts as they were. *)
LEMMA AbandonedBatchKeeps ==
  ASSUME NEW w \in Writer, IInv, lock = w, Release, UNCHANGED <<accounts, frozen, committed>>,
         conflicted' \in BOOLEAN, items' \in Nat
  PROVE  IInv'
<1> USE DEF IInv, Release
<1>1. TypeOK'
  BY CacheConstants DEF TypeOK, NoPending, Value
<1>2. StoredIsNewest'
  BY DEF StoredIsNewest, NewestOf
<1>3. MergedIsNewest' /\ StagedIsNewer'
  BY DEF StoredIsNewest, MergedIsNewest, StagedIsNewer, NewestOf, Merged, NoPending
<1>4. NoBatchAfterConflict' /\ CopyIsOfMark' /\ FrozenIsComplete'
  BY CacheConstants DEF NoBatchAfterConflict, CopyIsOfMark, FrozenIsComplete
<1>5. CopyingIsExclusive' /\ LockHolderCopies'
  BY CacheConstants DEF CopyingIsExclusive, LockHolderCopies
<1>6. QED
  BY <1>1, <1>2, <1>3, <1>4, <1>5

LEMMA BatchCommitKeeps ==
  ASSUME NEW w \in Writer, IInv, BatchCommit(w)
  PROVE  IInv'
<1> USE DEF IInv, BatchCommit, Release
<1>1. TypeOK'
  BY CacheConstants, MergedType DEF TypeOK, NoPending, Value
<1>2. \A k \in Key : accounts'[k] = Merged(k)
  OBVIOUS
<1>3. StoredIsNewest'
  BY <1>2 DEF StoredIsNewest, MergedIsNewest, NewestOf
<1>4. MergedIsNewest' /\ StagedIsNewer'
  BY <1>2 DEF MergedIsNewest, StagedIsNewer, NewestOf, Merged, NoPending
<1>5. NoBatchAfterConflict' /\ CopyIsOfMark' /\ FrozenIsComplete'
  BY CacheConstants DEF NoBatchAfterConflict, CopyIsOfMark, FrozenIsComplete
<1>6. CopyingIsExclusive' /\ LockHolderCopies'
  BY CacheConstants DEF CopyingIsExclusive, LockHolderCopies
<1>7. QED
  BY <1>1, <1>3, <1>4, <1>5, <1>6

LEMMA UpdateKeeps ==
  ASSUME NEW w \in Writer, IInv, Update(w)
  PROVE  IInv'
<1>1. CASE BatchBegin(w)
  BY <1>1, BatchBeginKeeps
<1>2. ASSUME NEW k \in Key, NEW a \in Observable, Item(w, k, a) PROVE IInv'
  BY <1>2, ItemKeeps, ObservableIsAccount
<1>3. ASSUME NEW k \in Key, NEW a \in Observable, BatchConflict(w, k, a) PROVE IInv'
  BY <1>3, AbandonedBatchKeeps DEF BatchConflict, IInv, TypeOK
<1>4. CASE BatchRaises(w)
  BY <1>4, AbandonedBatchKeeps DEF BatchRaises, IInv, TypeOK
<1>5. CASE BatchCommit(w)
  BY <1>5, BatchCommitKeeps
<1>6. QED
  BY <1>1, <1>2, <1>3, <1>4, <1>5 DEF Update

-----------------------------------------------------------------------------
(* snapshot() *)

LEMMA FreezingKeeps ==
  ASSUME NEW r \in Reader, NEW keys \in SUBSET Key, IInv, Freezing(r, keys)
  PROVE  IInv'
<1> USE DEF IInv, Freezing
<1>1. TypeOK'
  BY CacheConstants DEF TypeOK, Snapshot, NoPending, Value
<1>2. StoredIsNewest' /\ MergedIsNewest' /\ StagedIsNewer'
  BY DEF StoredIsNewest, MergedIsNewest, StagedIsNewer, NewestOf, Merged
<1>3. NoBatchAfterConflict'
  BY CacheConstants DEF NoBatchAfterConflict
<1>4. CopyIsOfMark' /\ FrozenIsComplete'
  BY DEF TypeOK, CopyIsOfMark, FrozenIsComplete, NoPending
<1>5. CopyingIsExclusive' /\ LockHolderCopies'
  BY CacheConstants DEF TypeOK, CopyingIsExclusive, LockHolderCopies
<1>6. QED
  BY <1>1, <1>2, <1>3, <1>4, <1>5

LEMMA FreezeKeyKeeps ==
  ASSUME NEW r \in Reader, NEW k \in Key, IInv, FreezeKey(r, k)
  PROVE  IInv'
<1> USE DEF IInv, FreezeKey, ToCopy, Known
<1>1. TypeOK'
  BY DEF TypeOK, Snapshot
<1>2. StoredIsNewest' /\ MergedIsNewest' /\ StagedIsNewer' /\ NoBatchAfterConflict'
  BY DEF StoredIsNewest, MergedIsNewest, StagedIsNewer, NewestOf, Merged,
         NoBatchAfterConflict
<1>3. frozen[r].pc = "copying" /\ frozen[r].mark = accounts
  BY DEF LockHolderCopies, CopyingIsExclusive
<1>4. CopyIsOfMark'
  BY <1>3 DEF TypeOK, CopyIsOfMark, Snapshot
<1>5. FrozenIsComplete' /\ CopyingIsExclusive' /\ LockHolderCopies'
  BY <1>3 DEF TypeOK, FrozenIsComplete, CopyingIsExclusive, LockHolderCopies, Snapshot
<1>6. QED
  BY <1>1, <1>2, <1>4, <1>5

LEMMA FreezeMissingKeeps ==
  ASSUME NEW r \in Reader, IInv, FreezeMissing(r)
  PROVE  IInv'
<1> USE DEF IInv, FreezeMissing
<1>1. TypeOK'
  BY CacheConstants DEF TypeOK, Snapshot, NoSnapshot, NoPending, Value
<1>2. StoredIsNewest' /\ MergedIsNewest' /\ StagedIsNewer'
  BY DEF StoredIsNewest, MergedIsNewest, StagedIsNewer, NewestOf, Merged
<1>3. CopyIsOfMark' /\ FrozenIsComplete'
  BY DEF TypeOK, CopyIsOfMark, FrozenIsComplete, NoSnapshot, NoPending
<1>4. NoBatchAfterConflict' /\ CopyingIsExclusive' /\ LockHolderCopies'
  BY CacheConstants DEF TypeOK, NoBatchAfterConflict, CopyingIsExclusive, LockHolderCopies,
                        NoSnapshot
<1>5. QED
  BY <1>1, <1>2, <1>3, <1>4

LEMMA FreezeEndKeeps ==
  ASSUME NEW r \in Reader, IInv, FreezeEnd(r)
  PROVE  IInv'
<1> USE DEF IInv, FreezeEnd, ToCopy
<1>1. TypeOK'
  BY CacheConstants DEF TypeOK, Snapshot
<1>2. StoredIsNewest' /\ MergedIsNewest' /\ StagedIsNewer'
  BY DEF StoredIsNewest, MergedIsNewest, StagedIsNewer, NewestOf, Merged
<1>3. CopyIsOfMark' /\ FrozenIsComplete'
  BY DEF TypeOK, CopyIsOfMark, FrozenIsComplete, Snapshot
<1>4. NoBatchAfterConflict' /\ CopyingIsExclusive' /\ LockHolderCopies'
  BY CacheConstants DEF TypeOK, NoBatchAfterConflict, CopyingIsExclusive, LockHolderCopies
<1>5. QED
  BY <1>1, <1>2, <1>3, <1>4

LEMMA FreezeKeeps ==
  ASSUME NEW r \in Reader, IInv, Freeze(r)
  PROVE  IInv'
<1>1. CASE FreezeAll(r)
  BY <1>1, FreezingKeeps DEF FreezeAll, Known
<1>2. ASSUME NEW keys \in SUBSET Key, FreezeBegin(r, keys) PROVE IInv'
  BY <1>2, FreezingKeeps DEF FreezeBegin
<1>3. ASSUME NEW k \in Key, FreezeKey(r, k) PROVE IInv'
  BY <1>3, FreezeKeyKeeps
<1>4. QED
  BY <1>1, <1>2, <1>3, FreezeMissingKeeps, FreezeEndKeeps DEF Freeze

LEMMA StutterKeeps == IInv /\ UNCHANGED vars => IInv'
BY DEF IInv, vars, TypeOK, StoredIsNewest, MergedIsNewest, StagedIsNewer, NewestOf, Merged,
       NoBatchAfterConflict, CopyingIsExclusive, CopyIsOfMark, FrozenIsComplete,
       LockHolderCopies

LEMMA NextKeeps == IInv /\ [Next]_vars => IInv'
BY UpdateKeeps, FreezeKeeps, StutterKeeps DEF Next

-----------------------------------------------------------------------------
(* The inductive invariant holds in every reachable state. *)
THEOREM Inductive == Spec => []IInv
BY InitIInv, NextKeeps, PTL DEF Spec

(* The fields keep their types and nothing is staged outside a batch. *)
THEOREM TypeCorrect == Spec => []TypeOK
<1>1. IInv => TypeOK
  BY DEF IInv
<1>2. QED
  BY <1>1, Inductive, PTL

(* The cache holds exactly the newest committed version of every account. *)
THEOREM Newest == Spec => []NewestCommitted
<1>1. IInv => NewestCommitted
  BY DEF IInv, StoredIsNewest, NewestOf, NewestCommitted
<1>2. QED
  BY <1>1, Inductive, PTL

(* The version it holds was committed with one content only. *)
THEOREM Unambiguous == Spec => []CurrentVersionUnambiguous
<1>1. IInv => CurrentVersionUnambiguous
  BY DEF IInv, StoredIsNewest, NewestOf, CurrentVersionUnambiguous
<1>2. QED
  BY <1>1, Inductive, PTL

(* A snapshot shows the cache at one instant. *)
THEOREM SnapshotsWhole == Spec => []NoTornSnapshot
<1>1. ASSUME IInv, NEW r \in Reader, frozen[r].pc = "frozen"
      PROVE  frozen[r].accounts = [k \in Key |-> IF k \in frozen[r].keys
                                                 THEN frozen[r].mark[k] ELSE NoAccount]
  <2>1. frozen[r].accounts \in [Key -> Value]
    BY <1>1 DEF IInv, TypeOK, Snapshot
  <2>2. ASSUME NEW k \in Key
        PROVE  frozen[r].accounts[k] = IF k \in frozen[r].keys
                                       THEN frozen[r].mark[k] ELSE NoAccount
    BY <1>1 DEF IInv, CopyIsOfMark, FrozenIsComplete
  <2>3. QED
    BY <2>1, <2>2
<1>2. IInv => NoTornSnapshot
  BY <1>1 DEF NoTornSnapshot
<1>3. QED
  BY <1>2, Inductive, PTL

-----------------------------------------------------------------------------
(* Refinement: every step of the cache is a step of the abstract store or
   leaves it alone. *)

LEMMA StoreInit == Init => Store!Init
BY DEF Init, NoPending, Store!Init

LEMMA CommitAdvances ==
  ASSUME NEW w \in Writer, IInv, BatchCommit(w)
  PROVE  Store!Advance
<1>1. ~ conflicted
  BY DEF IInv, NoBatchAfterConflict, BatchCommit
<1>2. accounts' \in [Key -> Value]
  BY MergedType DEF IInv, BatchCommit
<1>3. ASSUME NEW k \in Key
      PROVE  accounts'[k] = accounts[k] \/ Store!Supersedes(accounts'[k], accounts[k])
  BY DEF IInv, BatchCommit, Merged, StagedIsNewer, Store!Supersedes
<1>4. QED
  BY <1>1, <1>2, <1>3 DEF Store!Advance, BatchCommit, Value

LEMMA StoreStep == IInv /\ [Next]_vars => [Store!Next]_<<accounts, conflicted>>
<1>1. SUFFICES ASSUME IInv, [Next]_vars PROVE [Store!Next]_<<accounts, conflicted>>
  OBVIOUS
<1>2. ASSUME NEW w \in Writer, Update(w) PROVE [Store!Next]_<<accounts, conflicted>>
  <2>1. CASE BatchCommit(w)
    BY <1>1, <2>1, CommitAdvances DEF Store!Next
  <2>2. ASSUME NEW k \in Key, NEW a \in Observable, BatchConflict(w, k, a)
        PROVE  Store!Poison
    BY <2>2 DEF BatchConflict, Store!Poison
  <2>3. ASSUME NEW k \in Key, NEW a \in Observable, Item(w, k, a)
        PROVE  UNCHANGED <<accounts, conflicted>>
    BY <2>3 DEF Item
  <2>4. QED
    BY <1>2, <2>1, <2>2, <2>3 DEF Update, BatchBegin, BatchRaises, Store!Next
<1>3. ASSUME NEW r \in Reader, Freeze(r) PROVE UNCHANGED <<accounts, conflicted>>
  BY <1>3 DEF Freeze, FreezeAll, FreezeBegin, Freezing, FreezeKey, FreezeMissing, FreezeEnd
<1>4. QED
  BY <1>1, <1>2, <1>3 DEF Next, vars

(* SubscriptionAccountCache implements the abstract store. *)
THEOREM Implementation == Spec => ImplementsStore
BY StoreInit, StoreStep, Inductive, PTL DEF Spec, ImplementsStore, Store!Spec
=============================================================================
