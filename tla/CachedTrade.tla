----------------------------- MODULE CachedTrade -----------------------------
(***************************************************************************)
(* The cached trading path: CachedTradeExecutor.execute() and               *)
(* prepare_cached_trade() of src/src/trading/cached_trade.py over           *)
(* snapshots of a SubscriptionAccountCache guarded by SubscriptionReadiness.*)
(*                                                                          *)
(* Gate is the continuity gate in full.  Store is the abstract store that   *)
(* SubscriptionCache is proved to implement; cacheLock is the cache's lock  *)
(* as far as a snapshot being taken needs it.  Traders run beside the       *)
(* threads that feed the cache and supervise the stream, so anything can    *)
(* happen between two of their steps, the two critical sections of one      *)
(* assert_usable() included: its conflict half and its ready half.          *)
(*                                                                          *)
(* Routes, quotes, instructions and signatures are data: a route is the set *)
(* of accounts its preparation reads, and a read fails when the account is  *)
(* missing, closed or stale.  stalePrepared and staleSigned are         *)
(* history variables, read by no action.  Operators introduced as a faulty  *)
(* variant are used by nothing: each is a mistake the properties catch.     *)
(***************************************************************************)
EXTENDS Naturals, Sequences

CONSTANTS
    Key,             \* account addresses, also the identities of the gate
    Slot,            \* slots of accounts
    Context,         \* slots of read contexts and observations
    Data, Empty,     \* account bytes; Empty for a closed account
    NoAccount,       \* an address never observed
    Trader,          \* threads that freeze snapshots and trade
    Free,            \* the cache lock is free
    Candidates,      \* candidate routes in search order: a sequence of key sets
    MaxAge,          \* maximum_slot_age of the read contexts
    NotObserved,     \* observed_through is None
    Fork, InitialFork, InitialRequired, Worker, MaxGeneration   \* of the gate

VARIABLES
    fork, generation, state, required, validated,   \* SubscriptionReadiness
    work, guards, continuity, epoch, evidence,
    accounts, conflicted, cacheLock,                \* SubscriptionAccountCache
    trade                                           \* trade[t]: what t is doing

Gate == INSTANCE SubscriptionReadiness WITH Account <- Key, Holder <- Trader

Account == [slot : Slot, data : Data]

Newer(a, b) == a.slot > b.slot

Store == INSTANCE VersionedStore WITH store <- accounts, poisoned <- conflicted

gateVars  == <<fork, generation, state, required, validated, work, guards,
               continuity, epoch, evidence>>
storeVars == <<accounts, conflicted>>
vars      == <<gateVars, storeVars, cacheLock, trade>>

ASSUME TradeConstants ==
    /\ Slot \subseteq Nat
    /\ Context \subseteq Nat
    /\ Empty \in Data
    /\ NoAccount \notin Account
    /\ NotObserved \notin Context
    /\ Free \notin Trader
    /\ MaxAge \in Nat
    /\ Candidates \in Seq(SUBSET Key)
    /\ Candidates # <<>>
    /\ \A i \in DOMAIN Candidates : Candidates[i] # {}

(* What the constructor of the gate refuses otherwise. *)
ASSUME GateConstants ==
    /\ InitialRequired \subseteq Key /\ InitialRequired # {}
    /\ InitialFork \in Fork
    /\ MaxGeneration \in Nat

NoAccounts == [k \in Key |-> NoAccount]

IdleTrade ==
    [pc |-> "idle",              \* where the trader is
     stage |-> "none",           \* which assert_usable() it is in
     live |-> FALSE,             \* the snapshot has a continuity guard
     snapshot |-> NoAccounts,    \* the snapshot's accounts
     observed |-> NotObserved,   \* the snapshot's observed_through
     search |-> FALSE,           \* hints are left to the candidate search
     route |-> 1,                \* the candidate being prepared
     toRead |-> {},              \* accounts its preparation still reads
     context |-> 0,              \* slot of the read context
     stalePrepared |-> FALSE,    \* history: snapshot refused when compiled
     staleSigned |-> FALSE]      \* history: snapshot refused when signed

Init ==
    /\ Gate!Init
    /\ Store!Init
    /\ cacheLock = Free
    /\ trade = [t \in Trader |-> IdleTrade]

-----------------------------------------------------------------------------
(* The threads that feed the cache and supervise the stream. *)

Feed == cacheLock = Free /\ Store!Next /\ UNCHANGED <<gateVars, cacheLock, trade>>

Stream ==
    /\ Gate!Supervise \/ \E w \in Worker : Gate!Validate(w)
    /\ UNCHANGED <<storeVars, cacheLock, trade>>

-----------------------------------------------------------------------------
(* ready_snapshot(), observed_snapshot() and snapshot(). *)

At(t, pc) == trade[t].pc = pc

(* Under the cache lock: no conflict, then readiness.guard(). *)
SnapshotBegin(t) ==
    /\ At(t, "idle")
    /\ cacheLock = Free
    /\ ~ conflicted
    /\ Gate!GuardCapture(t)
    /\ cacheLock' = t
    /\ trade' = [trade EXCEPT ![t].pc = "guarding"]
    /\ UNCHANGED storeVars

SnapshotGuard(t) ==
    /\ At(t, "guarding")
    /\ Gate!GuardCheck(t)
    /\ trade' = [trade EXCEPT ![t].pc = "copying"]
    /\ UNCHANGED <<storeVars, cacheLock>>

SnapshotRefused(t) ==
    /\ At(t, "guarding")
    /\ Gate!GuardRefused(t)
    /\ cacheLock' = Free
    /\ trade' = [trade EXCEPT ![t] = IdleTrade]
    /\ UNCHANGED storeVars

Selected(keys) == [k \in Key |-> IF k \in keys THEN accounts[k] ELSE NoAccount]

AllKnown(keys) == \A k \in keys : accounts[k] # NoAccount

SnapshotCopy(t, keys, observed) ==
    /\ At(t, "copying")
    /\ AllKnown(keys)
    /\ cacheLock' = Free
    /\ trade' = [trade EXCEPT ![t].pc = "holding", ![t].live = TRUE,
                              ![t].snapshot = Selected(keys), ![t].observed = observed]
    /\ UNCHANGED <<gateVars, storeVars>>

SnapshotMissing(t, keys) ==
    /\ At(t, "copying")
    /\ ~ AllKnown(keys)
    /\ cacheLock' = Free
    /\ trade' = [trade EXCEPT ![t] = IdleTrade]
    /\ UNCHANGED <<gateVars, storeVars>>

(* snapshot(keys): guarded by the conflict latch only. *)
SnapshotOffline(t, keys) ==
    /\ At(t, "idle")
    /\ cacheLock = Free
    /\ ~ conflicted
    /\ AllKnown(keys)
    /\ trade' = [trade EXCEPT ![t].pc = "holding", ![t].snapshot = Selected(keys)]
    /\ UNCHANGED <<gateVars, storeVars, cacheLock>>

-----------------------------------------------------------------------------
(* assert_usable(): the conflict latch, then the continuity guard. *)

GuardPasses(t) == trade[t].live => Gate!Current(t)

Usable(t) == ~ conflicted /\ GuardPasses(t)

(* Run assert_usable() for the given stage. *)
Check(t, stage) == [trade[t] EXCEPT !.pc = "conflict", !.stage = stage]

(* Back to the caller with an exception; the snapshot is still in its hands. *)
Raised(t) ==
    [IdleTrade EXCEPT !.pc = "holding", !.live = trade[t].live,
                      !.snapshot = trade[t].snapshot, !.observed = trade[t].observed]

(* A ValueError inside a searched candidate moves on to the next candidate. *)
InCandidate(t) == trade[t].search /\ trade[t].stage \in {"entry", "read", "final"}

(* Faulty variant: the failed candidate is tried again. *)
ValueErrorRetrying(t) ==
    IF InCandidate(t) THEN [Check(t, "candidate") EXCEPT !.toRead = {}] ELSE Raised(t)

ValueError(t) ==
    IF InCandidate(t) /\ trade[t].route < Len(Candidates)
    THEN [Check(t, "candidate") EXCEPT !.route = @ + 1, !.toRead = {}]
    ELSE Raised(t)

Step(t, record) ==
    /\ trade' = [trade EXCEPT ![t] = record]
    /\ UNCHANGED <<gateVars, storeVars, cacheLock>>

Conflicted(t)  == At(t, "conflict") /\ conflicted /\ Step(t, ValueError(t))
NoConflict(t)  == At(t, "conflict") /\ ~ conflicted
                  /\ Step(t, [trade[t] EXCEPT !.pc = "ready"])
NotReady(t)    == At(t, "ready") /\ ~ GuardPasses(t) /\ Step(t, Raised(t))

Passed(t, stage) == At(t, "ready") /\ trade[t].stage = stage /\ GuardPasses(t)

-----------------------------------------------------------------------------
(* execute(): prepare, sign, check once more, submit. *)

Execute(t, search, context) ==
    /\ At(t, "holding")
    /\ Step(t, [Check(t, IF search THEN "search" ELSE "entry") EXCEPT
                    !.search = search, !.context = context])

SearchRoutes(t)   == Passed(t, "search") /\ Step(t, Check(t, "candidate"))
TryCandidate(t)   == Passed(t, "candidate") /\ Step(t, Check(t, "entry"))
EnterCandidate(t) ==
    /\ Passed(t, "entry")
    /\ Step(t, [Check(t, "read") EXCEPT !.toRead = Candidates[trade[t].route]])

Larger(a, b) == IF a > b THEN a ELSE b

(* AccountCacheSnapshot._stale() *)
Stale(a, observed, context) ==
    LET seen == IF observed = NotObserved THEN a.slot ELSE observed IN
    \/ a.slot > context
    \/ seen > context
    \/ context - Larger(seen, a.slot) > MaxAge

(* AccountCacheSnapshot.get(); owners are not told apart here. *)
Readable(t, k) ==
    LET a == trade[t].snapshot[k] IN
    /\ a # NoAccount
    /\ ~ Stale(a, trade[t].observed, trade[t].context)
    /\ a.data # Empty

ReadMore(t, k) ==
    /\ Passed(t, "read")
    /\ Readable(t, k)
    /\ trade[t].toRead # {k}
    /\ Step(t, [Check(t, "read") EXCEPT !.toRead = @ \ {k}])

(* Faulty variant: the compiled trade is returned without a last check. *)
ReadLastUnchecked(t, k) ==
    /\ Passed(t, "read")
    /\ Readable(t, k)
    /\ trade[t].toRead = {k}
    /\ Step(t, [trade[t] EXCEPT !.pc = "signing", !.toRead = {},
                                !.stalePrepared = ~ Usable(t)])

(* The last read; quoting, settling and compiling follow at once. *)
ReadLast(t, k) ==
    /\ Passed(t, "read")
    /\ Readable(t, k)
    /\ trade[t].toRead = {k}
    /\ Step(t, [trade[t] EXCEPT !.pc = "compiling", !.toRead = {}])

ReadFails(t, k) == Passed(t, "read") /\ ~ Readable(t, k) /\ Step(t, ValueError(t))

Compile(t) ==
    /\ At(t, "compiling")
    /\ Step(t, [Check(t, "final") EXCEPT !.stalePrepared = ~ Usable(t)])

(* The quote, the settlement or the message does not work out. *)
QuoteFails(t) == At(t, "compiling") /\ Step(t, ValueError(t))

Prepared(t) == Passed(t, "final") /\ Step(t, [trade[t] EXCEPT !.pc = "signing"])

(* Faulty variant: the signed wire goes out without a last check. *)
SignUnchecked(t) ==
    /\ At(t, "signing")
    /\ Step(t, [trade[t] EXCEPT !.pc = "cleared", !.staleSigned = ~ Usable(t)])

Sign(t) ==
    /\ At(t, "signing")
    /\ Step(t, [Check(t, "submit") EXCEPT !.staleSigned = ~ Usable(t)])

SignFails(t) == At(t, "signing") /\ Step(t, Raised(t))

Clear(t) == Passed(t, "submit") /\ Step(t, [trade[t] EXCEPT !.pc = "cleared"])

Submit(t) == At(t, "cleared") /\ Step(t, [trade[t] EXCEPT !.pc = "sent"])

(* The transport answers, with the right signature or not, or raises. *)
Return(t) == At(t, "sent") /\ Step(t, Raised(t))

(* The caller lets go of its snapshot. *)
Drop(t) == At(t, "holding") /\ Step(t, IdleTrade)

TakeSnapshot(t) ==
    \/ SnapshotBegin(t)
    \/ SnapshotGuard(t)
    \/ SnapshotRefused(t)
    \/ \E keys \in SUBSET Key :
          \/ \E observed \in Context \cup {NotObserved} : SnapshotCopy(t, keys, observed)
          \/ SnapshotMissing(t, keys)
          \/ SnapshotOffline(t, keys)
    \/ Drop(t)

Begin(t) == \E search \in BOOLEAN, context \in Context : Execute(t, search, context)

Progress(t) ==
    \/ Conflicted(t)
    \/ NoConflict(t)
    \/ NotReady(t)
    \/ SearchRoutes(t)
    \/ TryCandidate(t)
    \/ EnterCandidate(t)
    \/ \E k \in trade[t].toRead : ReadMore(t, k) \/ ReadLast(t, k) \/ ReadFails(t, k)
    \/ Compile(t)
    \/ QuoteFails(t)
    \/ Prepared(t)
    \/ Sign(t)
    \/ SignFails(t)
    \/ Clear(t)
    \/ Submit(t)

Next ==
    \/ Feed
    \/ Stream
    \/ \E t \in Trader : TakeSnapshot(t) \/ Begin(t) \/ Progress(t) \/ Return(t)

Spec == Init /\ [][Next]_vars

(* A trader that is preparing or signing runs plain code to its end; only the
   transport may keep it waiting. *)
FairSpec == Spec /\ \A t \in Trader : WF_vars(Progress(t))

-----------------------------------------------------------------------------
Trade ==
    [pc : {"idle", "guarding", "copying", "holding", "conflict", "ready", "compiling",
           "signing", "cleared", "sent"},
     stage : {"none", "search", "candidate", "entry", "read", "final", "submit"},
     live : BOOLEAN,
     snapshot : [Key -> Account \cup {NoAccount}],
     observed : Context \cup {NotObserved},
     search : BOOLEAN,
     route : 1..Len(Candidates),
     toRead : SUBSET Key,
     context : Context \cup {0},
     stalePrepared : BOOLEAN,
     staleSigned : BOOLEAN]

(* The fields keep their types; exactly the trader that takes a snapshot holds
   the cache lock. *)
TypeOK ==
    /\ accounts \in [Key -> Account \cup {NoAccount}]
    /\ conflicted \in BOOLEAN
    /\ cacheLock \in Trader \cup {Free}
    /\ trade \in [Trader -> Trade]
    /\ \A t \in Trader : cacheLock = t <=> trade[t].pc \in {"guarding", "copying"}

(* prepare_cached_trade() returns no trade whose snapshot was refused by the
   time it was compiled, and execute() sends none whose snapshot was refused
   when it was signed: an interruption, a recovery, a new dependency or a
   version conflict anywhere on the way is found by the check before the
   result is handed on. *)
NothingOnDeadSnapshot ==
    \A t \in Trader :
        /\ trade[t].pc = "signing" => ~ trade[t].stalePrepared
        /\ trade[t].pc = "sent" => ~ trade[t].staleSigned

(* A trade that has begun ends: it is handed to the transport or raises,
   whatever the stream does in the meantime. *)
EveryTradeEnds ==
    \A t \in Trader :
        trade[t].pc \in {"conflict", "ready", "compiling", "signing", "cleared"}
            ~> trade[t].pc \in {"sent", "holding"}
=============================================================================
