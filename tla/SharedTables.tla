----------------------------- MODULE SharedTables -----------------------------
(***************************************************************************)
(* The tables in memory that many callers share: the LRU cache with expiry  *)
(* of cache/cache.py and its decorator, the nonces of nonce_cache.py and    *)
(* the gas fees of common/types.py.  Every method is one critical section;  *)
(* what is not is the time between a look and a store.                      *)
(***************************************************************************)
EXTENDS Integers, Sequences, FiniteSets

CONSTANTS
    Keys, Askers,
    CacheSize, CacheLife,   \* max_size and ttl of the cache
    Computing,              \* bound: ticks that a cached function may take
    MaxTime,                \* bound: ticks of the clock
    MaxNonce,               \* bound: nonces on the chain
    Lanes, Tips

(* set() pushes out what does not fit: a cache without room would have      *)
(* nothing to push out.                                                     *)
ASSUME CacheAssumption ==
    CacheSize \in Nat \ {0} /\ CacheLife \in Nat /\ Computing \in Nat

VARIABLES
    now,
    entries,    \* _cache, the least recently used first: [key, value, until]
    asker,      \* [Askers -> [at, key, since]]: calls of the cached function
    uses,       \* history: the order in which keys were used last
    oldest,     \* history: the age of the oldest value handed out
    nonceOnChain, nonceCached, nonceKnown,  \* the newest value stored so far
    fetch,      \* the look-ups under way: {[asked, known]}
    overtaken,  \* history: the value cached came in after a newer one
    fees        \* _strategies: [lane, kind] -> tip, of one trade type

cacheVars == <<now, entries, asker, uses, oldest>>
nonceVars == <<nonceOnChain, nonceCached, nonceKnown, fetch, overtaken>>
tableVars == <<cacheVars, nonceVars, fees>>

Kinds == {"NORMAL", "LOW_TIP_HIGH_CU_PRICE", "HIGH_TIP_LOW_CU_PRICE"}
NoTip == -1
NoNonce == 0
Away == [at |-> "away"]

TablesInit ==
    /\ now = 0 /\ entries = <<>> /\ asker = [a \in Askers |-> Away] /\ uses = <<>> /\ oldest = 0
    /\ nonceOnChain = 1 /\ nonceCached = NoNonce /\ nonceKnown = NoNonce
    /\ fetch = {} /\ overtaken = FALSE
    /\ fees = [f \in Lanes \X Kinds |-> NoTip]

---------------------------------------------------------------------------
(* The cache.  A value is the time it was computed from. *)
Time ==
    /\ now < MaxTime
    /\ \A a \in Askers : asker[a].at = "computes" => now < asker[a].since + Computing
    /\ now' = now + 1
    /\ UNCHANGED <<entries, asker, uses, oldest, nonceVars, fees>>

(* What is at these places of a sequence, in its order. *)
Staying(s, places) ==
    [n \in 1..Cardinality(places) |->
        s[CHOOSE i \in places : Cardinality({j \in places : j <= i}) = n]]
Without(key) == Staying(entries, {i \in DOMAIN entries : entries[i].key # key})
Entry(key) == {entries[i] : i \in {n \in DOMAIN entries : entries[n].key = key}}
IsExpired(e) == now > e.until
Unused(key) == Staying(uses, {i \in DOMAIN uses : uses[i] # key})
UsedNow(key) == Append(Unused(key), key)

(* LRUCache.get, from the decorator: a hit is handed out and moves to the   *)
(* end, an expired entry is dropped.                                        *)
\* Faulty variant: a hit keeps its place.
GetInPlace(a, key) ==
    /\ asker[a] = Away
    /\ \E e \in Entry(key) : ~IsExpired(e) /\ oldest' = IF now - e.value > oldest THEN now - e.value ELSE oldest
    /\ uses' = UsedNow(key)
    /\ UNCHANGED <<now, entries, asker, nonceVars, fees>>
Get(a, key) ==
    /\ asker[a] = Away
    /\ \E e \in Entry(key) :
           /\ ~IsExpired(e)
           /\ entries' = Append(Without(key), e)
           /\ oldest' = IF now - e.value > oldest THEN now - e.value ELSE oldest
    /\ uses' = UsedNow(key)
    /\ UNCHANGED <<now, asker, nonceVars, fees>>
GetMisses(a, key) ==
    /\ asker[a] = Away
    /\ \A e \in Entry(key) : IsExpired(e)
    /\ entries' = Without(key)
    /\ uses' = Unused(key)
    /\ asker' = [asker EXCEPT ![a] = [at |-> "computes", key |-> key, since |-> now]]
    /\ UNCHANGED <<now, oldest, nonceVars, fees>>

(* LRUCache.set: a key that is there is refreshed, a new one may push out   *)
(* the least recently used.                                                 *)
Stores(key, value) ==
    LET all == Append(Without(key), [key |-> key, value |-> value, until |-> now + CacheLife])
    IN IF Len(all) > CacheSize THEN Tail(all) ELSE all
(* The function ends; its result was true some time since it was called.    *)
Computed(a, value) ==
    /\ asker[a].at = "computes" /\ value \in asker[a].since..now
    /\ entries' = Stores(asker[a].key, value)
    /\ uses' = LET all == UsedNow(asker[a].key) IN IF Len(all) > CacheSize THEN Tail(all) ELSE all
    /\ asker' = [asker EXCEPT ![a] = Away]
    /\ UNCHANGED <<now, oldest, nonceVars, fees>>

Delete(key) ==
    /\ Entry(key) # {}
    /\ entries' = Without(key) /\ uses' = Unused(key)
    /\ UNCHANGED <<now, asker, oldest, nonceVars, fees>>
Cleanup ==
    /\ entries' = Staying(entries, {i \in DOMAIN entries : ~IsExpired(entries[i])})
    /\ uses' = Staying(uses, {i \in DOMAIN uses : \E e \in Entry(uses[i]) : ~IsExpired(e)})
    /\ UNCHANGED <<now, asker, oldest, nonceVars, fees>>

---------------------------------------------------------------------------
(* The nonce cache.  Nonces are numbered as the chain makes them. *)
NonceAdvances ==
    /\ nonceOnChain < MaxNonce /\ nonceOnChain' = nonceOnChain + 1
    /\ UNCHANGED <<cacheVars, nonceCached, nonceKnown, fetch, overtaken, fees>>

(* get_nonce() asks when nothing is cached or the caller wants it anew. *)
GetNonce(force) ==
    /\ force \/ nonceCached = NoNonce
    /\ Cardinality(fetch) < 2
    /\ fetch' = fetch \cup {[asked |-> nonceOnChain, known |-> nonceKnown]}
    /\ UNCHANGED <<cacheVars, nonceOnChain, nonceCached, nonceKnown, overtaken, fees>>

Knows(value) == nonceKnown' = IF value > nonceKnown THEN value ELSE nonceKnown

(* The answer, made since the request, is stored whatever came meanwhile. *)
NonceFetched(f, value) ==
    /\ f \in fetch /\ value \in f.asked..nonceOnChain
    /\ fetch' = fetch \ {f}
    /\ nonceCached' = value /\ Knows(value)
    /\ overtaken' = (nonceKnown > f.known)
    /\ UNCHANGED <<cacheVars, nonceOnChain, fees>>
NonceNotFetched(f) ==
    /\ f \in fetch /\ fetch' = fetch \ {f}
    /\ UNCHANGED <<cacheVars, nonceOnChain, nonceCached, nonceKnown, overtaken, fees>>

(* update_nonce() has an effect only on an account that is cached. *)
UpdateNonce ==
    /\ nonceCached # NoNonce
    /\ nonceCached' = nonceOnChain /\ Knows(nonceOnChain) /\ overtaken' = FALSE
    /\ UNCHANGED <<cacheVars, nonceOnChain, fetch, fees>>
RemoveNonce ==
    /\ nonceCached # NoNonce /\ nonceCached' = NoNonce
    /\ UNCHANGED <<cacheVars, nonceOnChain, nonceKnown, fetch, overtaken, fees>>

---------------------------------------------------------------------------
(* Gas fees: NORMAL and the pair of the other two exclude each other. *)
DefaultLane == CHOOSE l \in Lanes : l = "DEFAULT"
Changes(table) == fees' = table /\ UNCHANGED <<cacheVars, nonceVars>>

\* Faulty variant: only NORMAL removes what it conflicts with.
SetInternalOneWay(table, lane, kind, tip) ==
    [f \in DOMAIN table |->
        IF f = <<lane, kind>> THEN tip
        ELSE IF f[1] = lane /\ kind = "NORMAL" THEN NoTip ELSE table[f]]
SetInternal(table, lane, kind, tip) ==
    [f \in DOMAIN table |->
        IF f = <<lane, kind>> THEN tip
        ELSE IF f[1] = lane /\ (kind = "NORMAL" \/ f[2] = "NORMAL") THEN NoTip ELSE table[f]]

set(lane, kind, tip) == Changes(SetInternal(fees, lane, kind, tip))
set_global_fee_strategy(tip) ==
    Changes([f \in DOMAIN fees |-> IF f[2] # "NORMAL" THEN NoTip
                                   ELSE IF f[1] = DefaultLane THEN 0 ELSE tip])
set_high_low_fee_strategies(lane, low, high) ==
    Changes(SetInternal(SetInternal(fees, lane, "LOW_TIP_HIGH_CU_PRICE", low),
                        lane, "HIGH_TIP_LOW_CU_PRICE", high))
delete(lane, kinds) == Changes([f \in DOMAIN fees |-> IF f[1] = lane /\ f[2] \in kinds THEN NoTip ELSE fees[f]])
update_tip(tip) == Changes([f \in DOMAIN fees |-> IF fees[f] = NoTip THEN NoTip ELSE tip])

(* What the client reads for a trade; without it the trade ends in an error.*)
GasForTrade == fees[<<DefaultLane, "NORMAL">>]

TablesNext ==
    \/ Time
    \/ \E a \in Askers, key \in Keys : Get(a, key) \/ GetMisses(a, key)
    \/ \E a \in Askers, value \in 0..MaxTime : Computed(a, value)
    \/ \E key \in Keys : Delete(key)
    \/ Cleanup
    \/ NonceAdvances \/ (\E force \in BOOLEAN : GetNonce(force)) \/ UpdateNonce \/ RemoveNonce
    \/ \E f \in fetch : NonceNotFetched(f) \/ \E value \in 1..MaxNonce : NonceFetched(f, value)
    \/ \E lane \in Lanes, kind \in Kinds, tip \in Tips : set(lane, kind, tip)
    \/ \E tip \in Tips : set_global_fee_strategy(tip) \/ update_tip(tip)
    \/ \E lane \in Lanes, low, high \in Tips : set_high_low_fee_strategies(lane, low, high)
    \/ \E lane \in Lanes, kinds \in {{k} : k \in Kinds} \cup {Kinds} : delete(lane, kinds)

TablesSpec == TablesInit /\ [][TablesNext]_tableVars

---------------------------------------------------------------------------
(* The cache forgets the least recently used first, and what it hands out   *)
(* is no older than its lifetime and one computation.                       *)
CacheForgetsInOrder ==
    /\ Len(entries) <= CacheSize
    /\ [i \in DOMAIN entries |-> entries[i].key] = uses
    /\ oldest <= CacheLife + Computing

(* The nonce cache goes back to an older nonce only with an answer that was *)
(* overtaken on its way.                                                    *)
NonceNotTurnedBack ==
    nonceCached # NoNonce => nonceCached = nonceKnown \/ overtaken

(* The client never finds a normal fee next to the high and low ones that   *)
(* replaced it: which of them a lane pays is not a matter of the order of   *)
(* calls.                                                                   *)
FeesExcludeEachOther ==
    \A lane \in Lanes : fees[<<lane, "NORMAL">>] # NoTip =>
        \A kind \in Kinds \ {"NORMAL"} : fees[<<lane, kind>>] = NoTip

TablesHold == CacheForgetsInOrder /\ NonceNotTurnedBack /\ FeesExcludeEachOther
=============================================================================
