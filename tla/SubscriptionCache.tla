-------------------------- MODULE SubscriptionCache --------------------------
(***************************************************************************)
(* SubscriptionAccountCache of src/src/trading/subscription_cache.py: the   *)
(* account map that a subscription feeds, one lock, threads that apply      *)
(* batches of updates and threads that freeze snapshots.                    *)
(*                                                                          *)
(* update_many() consumes an iterable item by item while it holds the lock, *)
(* staging the changes in `pending`; _snapshot_accounts() copies key by key *)
(* under the same lock.  Both loops are modelled one iteration per step, so *)
(* that what the lock and the staging protect is visible: a batch is one of *)
(* BatchBegin, any number of Item steps, and BatchCommit, BatchConflict or  *)
(* BatchRaises.  Re-entrant use of the RLock is not modelled.               *)
(*                                                                          *)
(* committed, batch and frozen[r].mark are history variables, read by no    *)
(* action.  Operators introduced as a faulty variant are used by nothing:   *)
(* each is a mistake that the properties are shown to catch.                *)
(***************************************************************************)
EXTENDS Naturals, FiniteSets

CONSTANTS
    Key,             \* account addresses
    Owner,           \* owning programs
    Data,            \* account bytes, Empty for a closed account
    Empty,           \* b""
    Slot,            \* slots of the updates
    WriteVersion,    \* write versions within a slot
    Writer,          \* threads that apply updates
    Reader,          \* threads that freeze snapshots
    NoThread,        \* the lock is free
    NoAccount,       \* dict.get() found nothing
    MaxItems         \* bound: batch items processed in a behaviour

ASSUME CacheConstants ==
    /\ Empty \in Data
    /\ Slot \subseteq Nat
    /\ WriteVersion \subseteq Nat
    /\ MaxItems \in Nat
    /\ NoThread \notin Writer \cup Reader
    /\ Writer \cap Reader = {}

Account == [owner : Owner, data : Data, slot : Slot, write_version : WriteVersion]

ASSUME NoAccountIsNone == NoAccount \notin Account

VARIABLES
    accounts,    \* __accounts
    conflicted,  \* __conflicted
    lock,        \* holder of __lock
    pending,     \* the staging map of the batch under way
    frozen,      \* frozen[r]: the snapshot reader r is taking or has taken
    batch,       \* history: items of the batch under way
    committed,   \* history: items of the batches that were committed
    items        \* number of items processed (bounded by MaxItems)

vars == <<accounts, conflicted, lock, pending, frozen, batch, committed, items>>

NoPending  == [k \in Key |-> NoAccount]
NoSnapshot == [pc |-> "none", keys |-> {}, accounts |-> NoPending, mark |-> NoPending]

Init ==
    /\ accounts = NoPending
    /\ conflicted = FALSE
    /\ lock = NoThread
    /\ pending = NoPending
    /\ frozen = [r \in Reader |-> NoSnapshot]
    /\ batch = {}
    /\ committed = {}
    /\ items = 0

-----------------------------------------------------------------------------
(* Versions are compared as the pair (slot, write_version). *)

Older(a, b) ==
    \/ a.slot < b.slot
    \/ a.slot = b.slot /\ a.write_version < b.write_version

SameVersion(a, b) == a.slot = b.slot /\ a.write_version = b.write_version

Newer(a, b) == Older(b, a)

(* update_from_parser(): an account without lamports is a tombstone. *)
FromParser(owner, data, lamports, slot, write_version) ==
    [owner |-> owner, data |-> IF lamports = 0 THEN Empty ELSE data,
     slot |-> slot, write_version |-> write_version]

(* An item comes from the application or from a parser event. *)
Observable ==
    Account \cup {FromParser(o, d, l, s, v) :
                    o \in Owner, d \in Data, l \in {0, 1}, s \in Slot, v \in WriteVersion}

-----------------------------------------------------------------------------
(* update_many() *)

Merged(k) == IF pending[k] # NoAccount THEN pending[k] ELSE accounts[k]

(* Faulty variant: items are compared with the committed map only. *)
PreviousCommitted(k) == accounts[k]

(* The account an item is compared with: the staged one, else the stored one. *)
Previous(k) == Merged(k)

(* Faulty variant: a batch may begin on a conflicted cache. *)
BatchBeginRegardless(w) ==
    /\ lock = NoThread
    /\ lock' = w
    /\ UNCHANGED <<accounts, conflicted, pending, frozen, batch, committed, items>>

BatchBegin(w) ==
    /\ lock = NoThread
    /\ ~ conflicted
    /\ lock' = w
    /\ UNCHANGED <<accounts, conflicted, pending, frozen, batch, committed, items>>

Stage(k, a) ==
    /\ Previous(k) # NoAccount => Newer(a, Previous(k))
    /\ pending' = [pending EXCEPT ![k] = a]

(* An older version, or the same account again. *)
Skip(k, a) ==
    /\ Previous(k) # NoAccount
    /\ Newer(Previous(k), a) \/ a = Previous(k)
    /\ UNCHANGED pending

Item(w, k, a) ==
    /\ lock = w
    /\ items < MaxItems
    /\ Stage(k, a) \/ Skip(k, a)
    /\ batch' = batch \cup {<<k, a>>}
    /\ items' = items + 1
    /\ UNCHANGED <<accounts, conflicted, lock, frozen, committed>>

Release ==
    /\ lock' = NoThread
    /\ pending' = NoPending
    /\ batch' = {}

(* Equal version, different bytes or owner: latch the conflict and raise. *)
BatchConflict(w, k, a) ==
    /\ lock = w
    /\ items < MaxItems
    /\ Previous(k) # NoAccount
    /\ SameVersion(a, Previous(k))
    /\ a # Previous(k)
    /\ conflicted' = TRUE
    /\ Release
    /\ items' = items + 1
    /\ UNCHANGED <<accounts, frozen, committed>>

(* The iterable raises, or an item whose versions are not unsigned does. *)
BatchRaises(w) ==
    /\ lock = w
    /\ Release
    /\ UNCHANGED <<accounts, conflicted, frozen, committed, items>>

BatchCommit(w) ==
    /\ lock = w
    /\ accounts' = [k \in Key |-> Merged(k)]
    /\ committed' = committed \cup batch
    /\ Release
    /\ UNCHANGED <<conflicted, frozen, items>>

-----------------------------------------------------------------------------
(* snapshot(keys), whose guard is the conflict latch read on every use. *)

Freezing(r, keys) ==
    /\ lock = NoThread
    /\ lock' = r
    /\ frozen' = [frozen EXCEPT ![r] = [pc |-> "copying", keys |-> keys,
                                        accounts |-> NoPending, mark |-> accounts]]
    /\ UNCHANGED <<accounts, conflicted, pending, batch, committed, items>>

Known == {k \in Key : accounts[k] # NoAccount}

(* keys = None: everything observed so far, without a look at the latch. *)
FreezeAll(r) == Freezing(r, Known)

FreezeBegin(r, keys) == ~ conflicted /\ Freezing(r, keys)

ToCopy(r) == {k \in frozen[r].keys : frozen[r].accounts[k] = NoAccount}

(* Faulty variant: the lock is taken for each key, not around the loop. *)
FreezeKeyRelocking(r, k) ==
    /\ lock \in {r, NoThread}
    /\ frozen[r].pc = "copying"
    /\ k \in ToCopy(r) \cap Known
    /\ lock' = IF ToCopy(r) = {k} THEN r ELSE NoThread
    /\ frozen' = [frozen EXCEPT ![r].accounts[k] = accounts[k]]
    /\ UNCHANGED <<accounts, conflicted, pending, batch, committed, items>>

FreezeKey(r, k) ==
    /\ lock = r
    /\ k \in ToCopy(r) \cap Known
    /\ frozen' = [frozen EXCEPT ![r].accounts[k] = accounts[k]]
    /\ UNCHANGED <<accounts, conflicted, lock, pending, batch, committed, items>>

(* A wanted key that was never observed raises. *)
FreezeMissing(r) ==
    /\ lock = r
    /\ ~ (ToCopy(r) \subseteq Known)
    /\ lock' = NoThread
    /\ frozen' = [frozen EXCEPT ![r] = NoSnapshot]
    /\ UNCHANGED <<accounts, conflicted, pending, batch, committed, items>>

FreezeEnd(r) ==
    /\ lock = r
    /\ ToCopy(r) = {}
    /\ lock' = NoThread
    /\ frozen' = [frozen EXCEPT ![r].pc = "frozen"]
    /\ UNCHANGED <<accounts, conflicted, pending, batch, committed, items>>

Update(w) ==
    \/ BatchBegin(w)
    \/ \E k \in Key, a \in Observable : Item(w, k, a) \/ BatchConflict(w, k, a)
    \/ BatchRaises(w)
    \/ BatchCommit(w)

Freeze(r) ==
    \/ FreezeAll(r)
    \/ \E keys \in SUBSET Key : FreezeBegin(r, keys)
    \/ \E k \in Key : FreezeKey(r, k)
    \/ FreezeMissing(r)
    \/ FreezeEnd(r)

Next == (\E w \in Writer : Update(w)) \/ (\E r \in Reader : Freeze(r))

Spec == Init /\ [][Next]_vars

-----------------------------------------------------------------------------
Value == Account \cup {NoAccount}
Snapshot == [pc : {"none", "copying", "frozen"}, keys : SUBSET Key,
             accounts : [Key -> Value], mark : [Key -> Value]]

(* The fields keep their types and nothing is staged outside a batch. *)
TypeOK ==
    /\ accounts \in [Key -> Value]
    /\ conflicted \in BOOLEAN
    /\ lock \in Writer \cup Reader \cup {NoThread}
    /\ pending \in [Key -> Value]
    /\ frozen \in [Reader -> Snapshot]
    /\ batch \in SUBSET (Key \X Account)
    /\ committed \in SUBSET (Key \X Account)
    /\ items \in Nat
    /\ lock \notin Writer => pending = NoPending /\ batch = {}

(* Whatever the order of delivery and whatever batches were given up, the
   cache holds exactly the newest committed version of each account: stale and
   duplicated updates lose, and no part of an abandoned batch shows. *)
NewestCommitted ==
    \A k \in Key :
        /\ accounts[k] # NoAccount => <<k, accounts[k]>> \in committed
        /\ \A a \in Account :
              <<k, a>> \in committed => accounts[k] # NoAccount /\ ~ Newer(a, accounts[k])

(* The version the cache holds was only ever committed with one content. *)
CurrentVersionUnambiguous ==
    \A k \in Key : \A a \in Account :
        <<k, a>> \in committed /\ accounts[k] # NoAccount /\ SameVersion(a, accounts[k])
            => a = accounts[k]

(* A snapshot is the state of the cache at one instant, although it is copied
   key by key while other threads wait to commit. *)
NoTornSnapshot ==
    \A r \in Reader :
        frozen[r].pc = "frozen" =>
            frozen[r].accounts = [k \in Key |-> IF k \in frozen[r].keys
                                                THEN frozen[r].mark[k] ELSE NoAccount]

(* The cache implements a store with atomic, monotone batches that stops for
   good at a conflict. *)
Store == INSTANCE VersionedStore WITH store <- accounts, poisoned <- conflicted

ImplementsStore == Store!Spec
-----------------------------------------------------------------------------
(* The inductive strengthening proved in SubscriptionCache_proofs. *)

(* v is the newest of the items processed for k in S, and the only one of its
   version. *)
NewestOf(k, v, S) ==
    /\ v # NoAccount => <<k, v>> \in S
    /\ \A a \in Account :
          <<k, a>> \in S =>
              /\ v # NoAccount
              /\ ~ Newer(a, v)
              /\ SameVersion(a, v) => a = v

StoredIsNewest == \A k \in Key : NewestOf(k, accounts[k], committed)
MergedIsNewest == \A k \in Key : NewestOf(k, Merged(k), committed \cup batch)

StagedIsNewer ==
    \A k \in Key :
        pending[k] # NoAccount /\ accounts[k] # NoAccount => Newer(pending[k], accounts[k])

(* Nothing enters a batch on a conflicted cache. *)
NoBatchAfterConflict == conflicted => lock \notin Writer

(* While a reader copies it holds the lock and the cache stands still. *)
CopyingIsExclusive ==
    \A r \in Reader :
        frozen[r].pc = "copying" =>
            /\ lock = r
            /\ frozen[r].mark = accounts

CopyIsOfMark ==
    \A r \in Reader : \A k \in Key :
        frozen[r].accounts[k] # NoAccount =>
            k \in frozen[r].keys /\ frozen[r].accounts[k] = frozen[r].mark[k]

FrozenIsComplete ==
    \A r \in Reader : \A k \in Key :
        frozen[r].pc = "frozen" /\ k \in frozen[r].keys => frozen[r].accounts[k] # NoAccount

LockHolderCopies == \A r \in Reader : lock = r => frozen[r].pc = "copying"

IInv ==
    /\ TypeOK
    /\ StoredIsNewest
    /\ MergedIsNewest
    /\ StagedIsNewer
    /\ NoBatchAfterConflict
    /\ CopyingIsExclusive
    /\ CopyIsOfMark
    /\ FrozenIsComplete
    /\ LockHolderCopies
=============================================================================
