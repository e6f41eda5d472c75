---------------------------- MODULE HotPathState ----------------------------
(***************************************************************************)
(* The prefetched blockhash of hotpath/state.py: start() and stop() under   *)
(* the lifecycle lock, the loop that fetches, and get_blockhash(), which    *)
(* judges by the age of the cached data alone.  Beside it the states of     *)
(* accounts, prefetched by any number of requests at a time, and of pools,  *)
(* which the caller brings, and the context a trade is made from.           *)
(*                                                                          *)
(* Time passes in ticks; the chain has a new blockhash every tick, and a    *)
(* blockhash is the tick it was made in, as is the state of an account or a *)
(* pool.  The age of what is cached counts from the arrival of an answer,   *)
(* not from its request.                                                    *)
(***************************************************************************)
EXTENDS Integers, FiniteSets

CONSTANTS
    CacheTTL,           \* HotPathConfig.cache_ttl
    PrefetchTimeout,    \* HotPathConfig.prefetch_timeout
    ContextAge,         \* max_age of TradingContext.is_valid()
    MaxTicks,           \* bound: ticks of the clock
    Accounts,           \* keys that prefetch_accounts() is asked for
    PoolKeys,           \* keys of pools
    MaxReads,           \* bound: requests of prefetch_accounts() at a time
    BroughtAges,        \* bound: ages of the states that callers bring
    NoData

VARIABLES
    tick,
    cached,     \* NoData or [hash, fetched]: PrefetchedData
    newest,     \* history: the newest blockhash ever stored
    lifecycle,  \* who holds _lifecycle_lock: "none", "start" or "stop"
    task,       \* _prefetch_task: "none", "sleeping", "fetching" or "cancelled"
    context,    \* NoData or [hash, created, states]: a TradingContext
    asked,      \* [{"start", "loop"} -> when its request was made, -1: none]
    states,     \* [key -> NoData or [made, fetched]]: _accounts and _pools
    reads       \* requests of prefetch_accounts() under way: [keys, at]

stateVars == <<states, reads>>
hotVars == <<tick, cached, newest, lifecycle, task, context, asked, stateVars>>
Stateful == Accounts \cup PoolKeys

ASSUME HotPathAssumption ==
    /\ CacheTTL \in Nat /\ PrefetchTimeout \in Nat
    /\ ContextAge \in Nat /\ MaxTicks \in Nat
    /\ MaxReads \in Nat /\ Accounts \cap PoolKeys = {}
    /\ BroughtAges \subseteq Int

HotPathInit ==
    /\ tick = 0 /\ cached = NoData /\ newest = 0
    /\ lifecycle = "none" /\ task = "none" /\ context = NoData
    /\ asked = [o \in {"start", "loop"} |-> -1]
    /\ states = [k \in Stateful |-> NoData] /\ reads = {}

(* is_fresh *)
IsFresh == cached # NoData /\ tick - cached.fetched <= CacheTTL

(* A request that is out is answered or given up within its timeout. *)
Tick ==
    /\ tick < MaxTicks
    /\ \A o \in {"start", "loop"} : asked[o] # -1 => tick < asked[o] + PrefetchTimeout
    /\ \A read \in reads : tick < read.at + PrefetchTimeout
    /\ tick' = tick + 1
    /\ UNCHANGED <<cached, newest, lifecycle, task, context, asked, stateVars>>

(* The answer was made some time between the request and its arrival. *)
Stored(o) ==
    \E hash \in asked[o]..tick :
        /\ cached' = [hash |-> hash, fetched |-> tick]
        /\ newest' = IF hash > newest THEN hash ELSE newest

(* Faulty variant: a start() fetches although the loop is running. *)
StartPrefetchAnyway ==
    /\ lifecycle = "none"
    /\ lifecycle' = "start"
    /\ asked' = [asked EXCEPT !["start"] = tick]
    /\ UNCHANGED <<tick, cached, newest, task, context, stateVars>>

(* start(): nothing more to do when the loop is running. *)
StartPrefetch ==
    /\ lifecycle = "none" /\ task = "none"
    /\ lifecycle' = "start"
    /\ asked' = [asked EXCEPT !["start"] = tick]
    /\ UNCHANGED <<tick, cached, newest, task, context, stateVars>>

(* The first answer starts the loop; without one start() raises. *)
Started(answered) ==
    /\ lifecycle = "start"
    /\ IF answered THEN Stored("start") ELSE UNCHANGED <<cached, newest>>
    /\ task' = IF answered THEN "sleeping" ELSE task
    /\ asked' = [asked EXCEPT !["start"] = -1]
    /\ lifecycle' = "none"
    /\ UNCHANGED <<tick, context, stateVars>>

LoopWakes ==
    /\ task = "sleeping"
    /\ task' = "fetching"
    /\ asked' = [asked EXCEPT !["loop"] = tick]
    /\ UNCHANGED <<tick, cached, newest, lifecycle, context, stateVars>>

LoopFetches(answered) ==
    /\ task = "fetching"
    /\ IF answered THEN Stored("loop") ELSE UNCHANGED <<cached, newest>>
    /\ task' = "sleeping"
    /\ asked' = [asked EXCEPT !["loop"] = -1]
    /\ UNCHANGED <<tick, lifecycle, context, stateVars>>

StopPrefetch ==
    /\ lifecycle = "none" /\ task # "none"
    /\ lifecycle' = "stop" /\ task' = "cancelled"
    /\ UNCHANGED <<tick, cached, newest, context, asked, stateVars>>

(* stop() awaits the task it cancelled; an answer that was there already is *)
(* still stored.                                                            *)
Stopped(answered) ==
    /\ lifecycle = "stop"
    /\ answered => asked["loop"] # -1
    /\ IF answered THEN Stored("loop") ELSE UNCHANGED <<cached, newest>>
    /\ task' = "none" /\ lifecycle' = "none"
    /\ asked' = [asked EXCEPT !["loop"] = -1]
    /\ UNCHANGED <<tick, context, stateVars>>

(* A trade is prepared with what get_blockhash() hands out, or not at all. *)
get_blockhash == IF IsFresh THEN {cached.hash} ELSE {}
CreateContext ==
    /\ \E hash \in get_blockhash :
           context' = [hash |-> hash, created |-> tick, states |-> [k \in Stateful |-> NoData]]
    /\ UNCHANGED <<tick, cached, newest, lifecycle, task, asked, stateVars>>

ContextValid == context # NoData /\ tick - context.created <= ContextAge

---------------------------------------------------------------------------
(* get_account(), get_pool(): {} or {the state} *)
get_state(k) == {s \in {states[k]} \ {NoData} : tick - s.fetched <= CacheTTL}

(* update_account(), update_pool(): the caller brings a state and says when *)
(* it was fetched, which may be a while ago.                                *)
UpdateState(k) ==
    /\ \E age \in BroughtAges :
           /\ age <= tick
           /\ states' = [states EXCEPT ![k] = [made |-> tick - age, fetched |-> tick - age]]
    /\ UNCHANGED <<tick, cached, newest, lifecycle, task, context, asked, reads>>

(* prefetch_accounts(): nothing keeps requests apart. *)
AskAccounts(keys) ==
    /\ keys # {} /\ Cardinality(reads) < MaxReads
    /\ reads' = reads \cup {[keys |-> keys, at |-> tick]}
    /\ UNCHANGED <<tick, cached, newest, lifecycle, task, context, asked, states>>

(* An answer replaces what is cached, also when that is of a later request; *)
(* an account it does not have keeps the state it had.                      *)
AccountsAnswered(read, found) ==
    /\ reads' = reads \ {read}
    /\ \E made \in read.at..tick :
           states' = [k \in Stateful |->
                         IF k \in found THEN [made |-> made, fetched |-> tick] ELSE states[k]]
    /\ UNCHANGED <<tick, cached, newest, lifecycle, task, context, asked>>

AccountsNotAnswered(read) ==
    /\ reads' = reads \ {read}
    /\ UNCHANGED <<tick, cached, newest, lifecycle, task, context, asked, states>>

(* add_account(), add_pool(): a state that is not fresh is not taken, and   *)
(* what was taken before stays.                                             *)
AddState(k) ==
    /\ context # NoData
    /\ \E s \in get_state(k) : context' = [context EXCEPT !.states[k] = s]
    /\ UNCHANGED <<tick, cached, newest, lifecycle, task, asked, stateVars>>

HotPathNext ==
    \/ Tick \/ StartPrefetch \/ LoopWakes \/ StopPrefetch \/ CreateContext
    \/ \E answered \in BOOLEAN : Started(answered)
    \/ \E answered \in BOOLEAN : LoopFetches(answered)
    \/ \E answered \in BOOLEAN : Stopped(answered)
    \/ \E k \in Stateful : UpdateState(k) \/ AddState(k)
    \/ \E keys \in SUBSET Accounts : AskAccounts(keys)
    \/ \E read \in reads :
           AccountsNotAnswered(read) \/ \E found \in SUBSET read.keys : AccountsAnswered(read, found)

HotPathSpec == HotPathInit /\ [][HotPathNext]_hotVars

---------------------------------------------------------------------------
(* What the hot path hands out is the newest blockhash it ever stored, and  *)
(* the chain made it no longer ago than the lifetime of the cache and one   *)
(* request; the age of a valid context comes on top.  The same ages hold of *)
(* accounts and pools, which need not be the newest.  However starts,       *)
(* stops, failures and late answers interleave.                             *)
HandedOutIsRecent ==
    LET age == CacheTTL + PrefetchTimeout
    IN /\ \A hash \in get_blockhash : hash = newest /\ tick - hash <= age
       /\ \A k \in Stateful : \A s \in get_state(k) : tick - s.made <= age
       /\ ContextValid =>
              /\ tick - context.hash <= age + ContextAge
              /\ \A k \in Stateful :
                    context.states[k] # NoData => tick - context.states[k].made <= age + ContextAge

=============================================================================
