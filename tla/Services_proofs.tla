--------------------------- MODULE Services_proofs ---------------------------
(***************************************************************************)
(* Proofs about the services around a trade, one after the other: they      *)
(* share no state.  In turn: RetryBreaker, HotPathState, SwqosRelays,       *)
(* WebSocketHandle, Pools, TradeDispatch, SharedTables, PoolLookup.         *)
(***************************************************************************)
EXTENDS RetryBreaker, HotPathState, SwqosRelays, WebSocketHandle, Pools,
        TradeDispatch, SharedTables, PoolLookup, SequenceTheorems, FiniteSetTheorems,
        WellFoundedInduction, TLAPS

(* RetryBreaker, for any number of callers and every threshold: what the
   breaker tells is inductive together with the types of its counters. *)
BreakerStates == {"CLOSED", "OPEN", "HALF_OPEN"}
Breakers == [state : BreakerStates, failures : Nat, successes : Nat, cooled : BOOLEAN]

(* The breaker's fields; what a retry did last matters to no promise of it. *)
BreakerTypeOK ==
    /\ breaker \in Breakers
    /\ streak \in [bad : Nat, good : Nat]

BreakerIInv == BreakerTypeOK /\ BreakerTellsTruth

(* What _on_success and _on_failure write are fields of a breaker. *)
LEMMA BreakerClosed ==
  ASSUME NEW b \in Breakers, NEW s \in BreakerStates, NEW f \in Nat, NEW n \in Nat
  PROVE  [b EXCEPT !.state = s, !.failures = f, !.successes = n] \in Breakers
  BY DEF Breakers, BreakerStates

LEMMA BreakerOpened ==
  ASSUME NEW b \in Breakers, NEW s \in BreakerStates, NEW f \in Nat, NEW cool \in BOOLEAN
  PROVE  [b EXCEPT !.failures = f, !.cooled = cool, !.state = s] \in Breakers
  BY DEF Breakers, BreakerStates

(* CircuitBreaker.__init__: closed, nothing counted. *)
LEMMA BreakerInitIInv == BreakerInit => BreakerIInv
  BY BreakerAssumption
  DEF BreakerInit, BreakerIInv, Breakers, BreakerStates, BreakerTypeOK, BreakerTellsTruth

(* A call is let through: a trial begins with no success counted. *)
LEMMA LetThroughKeeps ==
  ASSUME NEW c \in Callers, BreakerIInv, LetThrough(c)
  PROVE  BreakerIInv'
<1> USE DEF BreakerIInv, BreakerTypeOK, BreakerTellsTruth, Breakers, BreakerStates, LetThrough, Running
<1>1. BreakerTypeOK'
  OBVIOUS
<1>2. BreakerTellsTruth'
  OBVIOUS
<1>3. QED
  BY <1>1, <1>2

(* _on_success, in whatever state the breaker is by then: a closed breaker
   forgets its failures, and a trial counts at most the successes in a row. *)
LEMMA SucceedsKeeps ==
  ASSUME NEW c \in Callers, BreakerIInv, Succeeds(c)
  PROVE  BreakerIInv'
<1> USE DEF BreakerIInv
<1>1. /\ streak' \in [bad : Nat, good : Nat] /\ streak'.bad = 0
      /\ streak.good < SuccessThreshold => streak'.good = streak.good + 1
      /\ ~ (streak.good < SuccessThreshold) => streak'.good = streak.good
  BY DEF BreakerTypeOK, Succeeds
<1>2. CASE breaker.state # "HALF_OPEN"
  <2>1. breaker' = [breaker EXCEPT !.failures = 0]
    BY <1>2 DEF Succeeds, AfterSuccess
  <2>2. QED
    BY <1>1, <1>2, <2>1, BreakerAssumption DEF BreakerTypeOK, BreakerTellsTruth, Breakers, BreakerStates
<1>3. CASE breaker.state = "HALF_OPEN" /\ breaker.successes + 1 < SuccessThreshold
  <2>1. breaker' = [breaker EXCEPT !.successes = @ + 1]
    BY <1>3 DEF Succeeds, AfterSuccess
  <2>2. QED
    BY <1>1, <1>3, <2>1, BreakerAssumption DEF BreakerTypeOK, BreakerTellsTruth, Breakers, BreakerStates
<1>4. CASE breaker.state = "HALF_OPEN" /\ ~ (breaker.successes + 1 < SuccessThreshold)
  <2>1. breaker' = [breaker EXCEPT !.state = "CLOSED", !.failures = 0, !.successes = @ + 1]
    BY <1>4 DEF Succeeds, AfterSuccess
  <2>2. BreakerTypeOK'
    <3>1. breaker.successes + 1 \in Nat
      BY DEF BreakerTypeOK, Breakers
    <3>2. QED
      BY <1>1, <2>1, <3>1, BreakerClosed DEF BreakerTypeOK, BreakerStates
  <2>3. breaker'.state = "CLOSED" /\ breaker'.failures = 0
    BY <2>1 DEF BreakerTypeOK, Breakers
  <2>4. QED
    BY <1>1, <2>2, <2>3, BreakerAssumption DEF BreakerTellsTruth
<1>5. QED
  BY <1>2, <1>3, <1>4

(* _on_failure, likewise: what would fill a closed breaker opens it. *)
LEMMA FailsKeeps ==
  ASSUME NEW c \in Callers, NEW error, BreakerIInv, Fails(c, error)
  PROVE  BreakerIInv'
<1> USE DEF BreakerIInv
<1>1. BreakerTypeOK'
  <2>1. breaker.failures + 1 \in Nat /\ streak' \in [bad : Nat, good : Nat]
    BY DEF BreakerTypeOK, Breakers, Fails
  <2>2. (IF breaker.state = "HALF_OPEN" \/ breaker.failures + 1 >= FailureThreshold
         THEN "OPEN" ELSE breaker.state) \in BreakerStates
    BY DEF BreakerTypeOK, Breakers, BreakerStates
  <2>3. breaker' \in Breakers
    BY <2>1, <2>2, BreakerOpened DEF BreakerTypeOK, Fails, AfterFailure
  <2>4. QED
    BY <2>1, <2>3 DEF BreakerTypeOK
<1>2. streak'.bad = streak.bad + 1
  BY DEF BreakerTypeOK, Breakers, Fails
<1>3. /\ breaker'.failures = breaker.failures + 1
      /\ breaker'.state = IF breaker.state = "HALF_OPEN" \/ breaker.failures + 1 >= FailureThreshold
                          THEN "OPEN" ELSE breaker.state
  BY DEF BreakerTypeOK, Breakers, Fails, AfterFailure
<1>4. BreakerTellsTruth'
  BY <1>2, <1>3, BreakerAssumption DEF BreakerTypeOK, BreakerTellsTruth, Breakers, BreakerStates
<1>5. QED
  BY <1>1, <1>4

(* The recovery time is over. *)
LEMMA CoolsKeeps == BreakerIInv /\ Cools => BreakerIInv'
  BY DEF BreakerIInv, BreakerTypeOK, BreakerTellsTruth, Breakers, BreakerStates, Cools

(* The steps of a retry between its calls leave the breaker alone. *)
LEMMA BreakerUntouchedKeeps ==
  BreakerIInv /\ UNCHANGED <<breaker, streak>> => BreakerIInv'
  BY DEF BreakerIInv, BreakerTypeOK, BreakerTellsTruth

LEMMA BreakerNextKeeps == BreakerIInv /\ [BreakerNext]_breakerVars => BreakerIInv'
<1>1. SUFFICES ASSUME BreakerIInv, [BreakerNext]_breakerVars PROVE BreakerIInv'
  OBVIOUS
<1>2. ASSUME NEW c \in Callers, ExecuteRetried(c) \/ NotAttempted(c) \/ DelayOver(c)
      PROVE BreakerIInv'
  BY <1>1, <1>2, BreakerUntouchedKeeps DEF ExecuteRetried, NotAttempted, DelayOver
<1>3. CASE UNCHANGED breakerVars
  BY <1>1, <1>3, BreakerUntouchedKeeps DEF breakerVars
<1>4. QED
  BY <1>1, <1>2, <1>3, LetThroughKeeps, SucceedsKeeps, FailsKeeps, CoolsKeeps DEF BreakerNext

(* The counters of the breaker and what it tells hold in every reachable
   state. *)
THEOREM BreakerInductive == BreakerSpec => []BreakerIInv
  BY BreakerInitIInv, BreakerNextKeeps, PTL DEF BreakerSpec

(* However late results come in: a closed breaker has seen fewer failures in
   a row than its threshold and counts exactly those, and a trial counts only
   successes that no failure interrupted. *)
THEOREM BreakerIsTruthful == BreakerSpec => []BreakerTellsTruth
<1>1. BreakerIInv => BreakerTellsTruth
  BY DEF BreakerIInv
<1>2. QED
  BY <1>1, BreakerInductive, PTL

-----------------------------------------------------------------------------
(***************************************************************************)
(* HotPathState, for any accounts, pools and times.  That what is handed    *)
(* out is the newest blockhash ever stored is not inductive: it takes that  *)
(* start() and the loop never have requests out together (OneFetcher), that *)
(* a request is younger than everything stored (NothingNewerStored) and not *)
(* older than its timeout (RequestsInTime).                                 *)
(***************************************************************************)
Requesters == {"start", "loop"}
CachedStates == {NoData} \cup [made : Int, fetched : Int]

HotTypeOK ==
    /\ tick \in Nat /\ newest \in Nat
    /\ cached \in {NoData} \cup [hash : Nat, fetched : Nat]
    /\ lifecycle \in {"none", "start", "stop"}
    /\ task \in {"none", "sleeping", "fetching", "cancelled"}
    /\ context \in {NoData} \cup [hash : Nat, created : Nat, states : [Stateful -> CachedStates]]
    /\ asked \in [Requesters -> Int]
    /\ states \in [Stateful -> CachedStates]
    /\ \A read \in reads : read.at \in Nat

(* The lifecycle lock and the task keep the two requesters apart. *)
OneFetcher ==
    /\ asked["start"] # -1 <=> lifecycle = "start"
    /\ asked["loop"] # -1 => task \in {"fetching", "cancelled"}
    /\ task = "fetching" => asked["loop"] # -1
    /\ task = "cancelled" <=> lifecycle = "stop"
    /\ lifecycle = "start" => task = "none"

RequestsInTime ==
    /\ \A o \in Requesters : asked[o] # -1 => asked[o] <= tick /\ tick <= asked[o] + PrefetchTimeout
    /\ \A read \in reads : read.at <= tick /\ tick <= read.at + PrefetchTimeout

NothingNewerStored ==
    /\ newest <= tick
    /\ \A o \in Requesters : asked[o] # -1 => newest <= asked[o]

(* What is cached was made at most one request before it came in. *)
CachedInTime ==
    /\ cached # NoData =>
           /\ cached.hash = newest
           /\ cached.fetched <= tick /\ cached.fetched - cached.hash <= PrefetchTimeout
    /\ \A k \in Stateful :
           states[k] # NoData => states[k].fetched - states[k].made <= PrefetchTimeout

(* A context was made from fresh data, and only fresh data is added to it. *)
ContextInTime ==
    context # NoData =>
        /\ context.created <= tick
        /\ context.created - context.hash <= CacheTTL + PrefetchTimeout
        /\ \A k \in Stateful : context.states[k] # NoData =>
               context.created - context.states[k].made <= CacheTTL + PrefetchTimeout

HotIInv ==
    HotTypeOK /\ OneFetcher /\ RequestsInTime /\ NothingNewerStored /\ CachedInTime /\ ContextInTime

-----------------------------------------------------------------------------
(* __init__: nothing fetched, nothing asked. *)
LEMMA HotInitIInv == HotPathInit => HotIInv
<1>1. SUFFICES ASSUME HotPathInit PROVE HotIInv
  OBVIOUS
<1> USE <1>1, HotPathAssumption DEF HotPathInit
<1>2. HotTypeOK
  BY DEF HotTypeOK, Requesters, CachedStates
<1>3. OneFetcher /\ RequestsInTime /\ NothingNewerStored
  BY DEF OneFetcher, RequestsInTime, NothingNewerStored, Requesters
<1>4. CachedInTime /\ ContextInTime
  BY DEF CachedInTime, ContextInTime
<1>5. QED
  BY <1>2, <1>3, <1>4 DEF HotIInv

(* A tick: no request outlives its timeout. *)
LEMMA TickKeeps == HotIInv /\ Tick => HotIInv'
<1>1. SUFFICES ASSUME HotIInv, Tick PROVE HotIInv'
  OBVIOUS
<1> USE <1>1, HotPathAssumption DEF HotIInv, Tick, stateVars
<1>2. HotTypeOK'
  BY DEF HotTypeOK
<1>3. OneFetcher'
  BY DEF OneFetcher
<1>4. RequestsInTime'
  BY DEF HotTypeOK, RequestsInTime, Requesters
<1>5. NothingNewerStored'
  BY DEF HotTypeOK, NothingNewerStored
<1>6. CachedInTime'
  BY DEF HotTypeOK, CachedInTime, CachedStates
<1>7. ContextInTime'
  BY DEF HotTypeOK, ContextInTime, CachedStates
<1>8. QED
  BY <1>2, <1>3, <1>4, <1>5, <1>6, <1>7

(* What an answer stores: a hash no older than everything stored before. *)
LEMMA StoredIsNewest ==
  ASSUME NEW o \in Requesters, HotIInv, asked[o] # -1, Stored(o)
  PROVE  /\ cached' \in [hash : Nat, fetched : Nat]
         /\ newest' \in Nat /\ newest' = cached'.hash /\ newest' <= tick
         /\ cached'.fetched = tick /\ tick - cached'.hash <= PrefetchTimeout
<1> USE HotPathAssumption DEF HotIInv
<1>1. asked[o] \in Nat /\ newest <= asked[o] /\ asked[o] <= tick
      /\ tick <= asked[o] + PrefetchTimeout
  BY DEF HotTypeOK, NothingNewerStored, RequestsInTime
<1>2. PICK hash \in asked[o]..tick :
          /\ cached' = [hash |-> hash, fetched |-> tick]
          /\ newest' = IF hash > newest THEN hash ELSE newest
  BY DEF Stored
<1>3. hash \in Nat /\ hash >= newest
  BY <1>1, <1>2 DEF HotTypeOK
<1>4. newest' = hash
  BY <1>2, <1>3 DEF HotTypeOK
<1>5. QED
  BY <1>1, <1>2, <1>3, <1>4 DEF HotTypeOK

(* start(): its request begins when none of the loop's is out. *)
LEMMA StartPrefetchKeeps == HotIInv /\ StartPrefetch => HotIInv'
<1>1. SUFFICES ASSUME HotIInv, StartPrefetch PROVE HotIInv'
  OBVIOUS
<1> USE <1>1, HotPathAssumption DEF HotIInv, StartPrefetch, stateVars
<1>2. HotTypeOK'
  BY DEF HotTypeOK, Requesters
<1>3. OneFetcher'
  BY DEF HotTypeOK, OneFetcher, Requesters
<1>4. RequestsInTime' /\ NothingNewerStored'
  BY DEF HotTypeOK, RequestsInTime, NothingNewerStored, Requesters
<1>5. CachedInTime' /\ ContextInTime'
  BY DEF HotTypeOK, CachedInTime, ContextInTime
<1>6. QED
  BY <1>2, <1>3, <1>4, <1>5

(* The first answer of start(), or none. *)
LEMMA StartedKeeps ==
  ASSUME NEW answered \in BOOLEAN, HotIInv, Started(answered)
  PROVE  HotIInv'
<1> USE HotPathAssumption DEF HotIInv, Started, stateVars
<1>1. asked["start"] # -1 /\ "start" \in Requesters
  BY DEF OneFetcher, Requesters
<1>2. CASE answered
  <2>1. /\ cached' \in [hash : Nat, fetched : Nat]
        /\ newest' \in Nat /\ newest' = cached'.hash /\ newest' <= tick
        /\ cached'.fetched = tick /\ tick - cached'.hash <= PrefetchTimeout
    BY <1>1, <1>2, StoredIsNewest
  <2>2. HotTypeOK'
    BY <1>2, <2>1 DEF HotTypeOK, Requesters
  <2>3. OneFetcher'
    BY <1>2 DEF HotTypeOK, OneFetcher, Requesters
  <2>4. RequestsInTime' /\ NothingNewerStored'
    BY <2>1 DEF HotTypeOK, RequestsInTime, NothingNewerStored, Requesters, OneFetcher
  <2>5. CachedInTime' /\ ContextInTime'
    BY <2>1 DEF HotTypeOK, CachedInTime, ContextInTime
  <2>6. QED
    BY <2>2, <2>3, <2>4, <2>5
<1>3. CASE ~ answered
  <2>1. HotTypeOK'
    BY <1>3 DEF HotTypeOK, Requesters
  <2>2. OneFetcher'
    BY <1>3 DEF HotTypeOK, OneFetcher, Requesters
  <2>3. RequestsInTime' /\ NothingNewerStored' /\ CachedInTime' /\ ContextInTime'
    BY <1>3 DEF HotTypeOK, RequestsInTime, NothingNewerStored, CachedInTime, ContextInTime, Requesters
  <2>4. QED
    BY <2>1, <2>2, <2>3
<1>4. QED
  BY <1>2, <1>3

(* The loop's next request: no start() has one out while the task lives. *)
LEMMA LoopWakesKeeps == HotIInv /\ LoopWakes => HotIInv'
<1>1. SUFFICES ASSUME HotIInv, LoopWakes PROVE HotIInv'
  OBVIOUS
<1> USE <1>1, HotPathAssumption DEF HotIInv, LoopWakes, stateVars
<1>2. HotTypeOK'
  BY DEF HotTypeOK, Requesters
<1>3. OneFetcher'
  BY DEF HotTypeOK, OneFetcher, Requesters
<1>4. RequestsInTime' /\ NothingNewerStored'
  BY DEF HotTypeOK, RequestsInTime, NothingNewerStored, Requesters
<1>5. CachedInTime' /\ ContextInTime'
  BY DEF HotTypeOK, CachedInTime, ContextInTime
<1>6. QED
  BY <1>2, <1>3, <1>4, <1>5

(* The loop's answer, or none. *)
LEMMA LoopFetchesKeeps ==
  ASSUME NEW answered \in BOOLEAN, HotIInv, LoopFetches(answered)
  PROVE  HotIInv'
<1> USE HotPathAssumption DEF HotIInv, LoopFetches, stateVars
<1>1. asked["loop"] # -1 /\ "loop" \in Requesters /\ lifecycle = "none"
  BY DEF HotTypeOK, OneFetcher, Requesters
<1>2. CASE answered
  <2>1. /\ cached' \in [hash : Nat, fetched : Nat]
        /\ newest' \in Nat /\ newest' = cached'.hash /\ newest' <= tick
        /\ cached'.fetched = tick /\ tick - cached'.hash <= PrefetchTimeout
    BY <1>1, <1>2, StoredIsNewest
  <2>2. HotTypeOK'
    BY <1>2, <2>1 DEF HotTypeOK, Requesters
  <2>3. OneFetcher'
    BY <1>2 DEF HotTypeOK, OneFetcher, Requesters
  <2>4. RequestsInTime' /\ NothingNewerStored'
    BY <1>1, <2>1 DEF HotTypeOK, RequestsInTime, NothingNewerStored, Requesters, OneFetcher
  <2>5. CachedInTime' /\ ContextInTime'
    BY <2>1 DEF HotTypeOK, CachedInTime, ContextInTime
  <2>6. QED
    BY <2>2, <2>3, <2>4, <2>5
<1>3. CASE ~ answered
  <2>1. HotTypeOK'
    BY <1>3 DEF HotTypeOK, Requesters
  <2>2. OneFetcher'
    BY <1>3 DEF HotTypeOK, OneFetcher, Requesters
  <2>3. RequestsInTime' /\ NothingNewerStored' /\ CachedInTime' /\ ContextInTime'
    BY <1>3 DEF HotTypeOK, RequestsInTime, NothingNewerStored, CachedInTime, ContextInTime, Requesters
  <2>4. QED
    BY <2>1, <2>2, <2>3
<1>4. QED
  BY <1>2, <1>3

(* stop() cancels the task; its request may stay out. *)
LEMMA StopPrefetchKeeps == HotIInv /\ StopPrefetch => HotIInv'
<1>1. SUFFICES ASSUME HotIInv, StopPrefetch PROVE HotIInv'
  OBVIOUS
<1> USE <1>1 DEF HotIInv, StopPrefetch, stateVars
<1>2. HotTypeOK' /\ OneFetcher'
  BY DEF HotTypeOK, OneFetcher, Requesters
<1>3. RequestsInTime' /\ NothingNewerStored' /\ CachedInTime' /\ ContextInTime'
  BY DEF RequestsInTime, NothingNewerStored, CachedInTime, ContextInTime
<1>4. QED
  BY <1>2, <1>3

(* An answer that was there already is still stored; then the task is gone. *)
LEMMA StoppedKeeps ==
  ASSUME NEW answered \in BOOLEAN, HotIInv, Stopped(answered)
  PROVE  HotIInv'
<1> USE HotPathAssumption DEF HotIInv, Stopped, stateVars
<1>1. "loop" \in Requesters /\ asked["start"] = -1
  BY DEF HotTypeOK, OneFetcher, Requesters
<1>2. HotTypeOK' /\ OneFetcher'
  <2>1. CASE answered
    BY <1>1, <2>1, StoredIsNewest DEF HotTypeOK, OneFetcher, Requesters
  <2>2. CASE ~ answered
    BY <2>2 DEF HotTypeOK, OneFetcher, Requesters
  <2>3. QED
    BY <2>1, <2>2
<1>3. CASE answered
  <2>1. /\ newest' \in Nat /\ newest' = cached'.hash /\ newest' <= tick
        /\ cached'.fetched = tick /\ tick - cached'.hash <= PrefetchTimeout
    BY <1>1, <1>3, StoredIsNewest
  <2>2. RequestsInTime' /\ NothingNewerStored'
    BY <1>1, <2>1 DEF HotTypeOK, RequestsInTime, NothingNewerStored, Requesters
  <2>3. CachedInTime' /\ ContextInTime'
    BY <2>1 DEF HotTypeOK, CachedInTime, ContextInTime
  <2>4. QED
    BY <1>2, <2>2, <2>3
<1>4. CASE ~ answered
  <2>1. RequestsInTime' /\ NothingNewerStored' /\ CachedInTime' /\ ContextInTime'
    BY <1>4 DEF HotTypeOK, RequestsInTime, NothingNewerStored, CachedInTime, ContextInTime, Requesters
  <2>2. QED
    BY <1>2, <2>1
<1>5. QED
  BY <1>3, <1>4

(* Whoever gets the blockhash gets the newest one, made recently. *)
LEMMA HashIsRecent ==
  ASSUME HotIInv, NEW hash \in get_blockhash
  PROVE  hash \in Nat /\ hash = newest /\ tick - hash <= CacheTTL + PrefetchTimeout
  BY HotPathAssumption DEF HotIInv, HotTypeOK, CachedInTime, get_blockhash, IsFresh

(* The same of the states of accounts and pools. *)
LEMMA StateIsRecent ==
  ASSUME HotIInv, NEW k \in Stateful, NEW s \in get_state(k)
  PROVE  s \in CachedStates /\ s # NoData /\ tick - s.made <= CacheTTL + PrefetchTimeout
<1>1. s = states[k] /\ s # NoData /\ tick - s.fetched <= CacheTTL
  BY DEF get_state
<1>2. s \in [made : Int, fetched : Int] /\ s.fetched - s.made <= PrefetchTimeout
  BY <1>1 DEF HotIInv, HotTypeOK, CachedInTime, CachedStates
<1>3. QED
  BY <1>1, <1>2, HotPathAssumption DEF HotIInv, HotTypeOK, CachedStates

(* A trade is prepared: the context is as recent as what it is made from. *)
LEMMA CreateContextKeeps == HotIInv /\ CreateContext => HotIInv'
<1>1. SUFFICES ASSUME HotIInv, CreateContext PROVE HotIInv'
  OBVIOUS
<1>2. PICK hash \in get_blockhash :
          context' = [hash |-> hash, created |-> tick, states |-> [k \in Stateful |-> NoData]]
  BY <1>1 DEF CreateContext
<1>3. hash \in Nat /\ tick - hash <= CacheTTL + PrefetchTimeout
  BY <1>1, HashIsRecent
<1> USE <1>1 DEF HotIInv, CreateContext, stateVars
<1>4. HotTypeOK'
  BY <1>2, <1>3 DEF HotTypeOK, CachedStates
<1>5. ContextInTime'
  BY <1>2, <1>3 DEF HotTypeOK, ContextInTime
<1>6. OneFetcher' /\ RequestsInTime' /\ NothingNewerStored' /\ CachedInTime'
  BY DEF OneFetcher, RequestsInTime, NothingNewerStored, CachedInTime
<1>7. QED
  BY <1>4, <1>5, <1>6

(* add_account(), add_pool(): what is added is fresh now, and the context no
   younger. *)
LEMMA AddStateKeeps ==
  ASSUME NEW k \in Stateful, HotIInv, AddState(k)
  PROVE  HotIInv'
<1>1. PICK s \in get_state(k) : context' = [context EXCEPT !.states[k] = s]
  BY DEF AddState
<1>2. s \in CachedStates /\ s # NoData /\ tick - s.made <= CacheTTL + PrefetchTimeout
  BY StateIsRecent
<1> USE DEF HotIInv, AddState, stateVars
<1>3. context \in [hash : Nat, created : Nat, states : [Stateful -> CachedStates]]
  BY DEF HotTypeOK
<1>4. context' = [hash |-> context.hash, created |-> context.created,
                  states |-> [context.states EXCEPT ![k] = s]]
  BY <1>1, <1>3
<1>5. HotTypeOK'
  BY <1>2, <1>3, <1>4 DEF HotTypeOK
<1>6. ContextInTime'
  BY <1>2, <1>3, <1>4, HotPathAssumption DEF HotTypeOK, ContextInTime, CachedStates
<1>7. OneFetcher' /\ RequestsInTime' /\ NothingNewerStored' /\ CachedInTime'
  BY DEF OneFetcher, RequestsInTime, NothingNewerStored, CachedInTime
<1>8. QED
  BY <1>5, <1>6, <1>7

(* update_account(), update_pool(): as old as the caller says, and no older
   than it was when fetched. *)
LEMMA UpdateStateKeeps ==
  ASSUME NEW k \in Stateful, HotIInv, UpdateState(k)
  PROVE  HotIInv'
<1> USE HotPathAssumption DEF HotIInv, UpdateState, stateVars
<1>1. PICK age \in BroughtAges :
          states' = [states EXCEPT ![k] = [made |-> tick - age, fetched |-> tick - age]]
  OBVIOUS
<1>2. tick - age \in Int
  BY DEF HotTypeOK
<1>3. HotTypeOK'
  BY <1>1, <1>2 DEF HotTypeOK, CachedStates
<1>4. CachedInTime'
  BY <1>1, <1>2 DEF HotTypeOK, CachedInTime
<1>5. OneFetcher' /\ RequestsInTime' /\ NothingNewerStored' /\ ContextInTime'
  BY DEF OneFetcher, RequestsInTime, NothingNewerStored, ContextInTime
<1>6. QED
  BY <1>3, <1>4, <1>5

(* prefetch_accounts() asks. *)
LEMMA AskAccountsKeeps ==
  ASSUME NEW keys \in SUBSET Accounts, HotIInv, AskAccounts(keys)
  PROVE  HotIInv'
<1> USE HotPathAssumption DEF HotIInv, AskAccounts
<1>1. HotTypeOK' /\ RequestsInTime'
  BY DEF HotTypeOK, RequestsInTime
<1>2. OneFetcher' /\ NothingNewerStored' /\ CachedInTime' /\ ContextInTime'
  BY DEF OneFetcher, NothingNewerStored, CachedInTime, ContextInTime
<1>3. QED
  BY <1>1, <1>2

(* The answer to any of the requests, in any order: it was made since its
   request, however new what it replaces. *)
LEMMA AccountsAnsweredKeeps ==
  ASSUME NEW read \in reads, NEW found \in SUBSET read.keys, HotIInv,
         AccountsAnswered(read, found)
  PROVE  HotIInv'
<1> USE HotPathAssumption DEF HotIInv, AccountsAnswered
<1>1. PICK when \in read.at..tick :
          states' = [k \in Stateful |->
                        IF k \in found THEN [made |-> when, fetched |-> tick] ELSE states[k]]
  OBVIOUS
<1>2. when \in Int /\ tick - when <= PrefetchTimeout
  BY <1>1 DEF HotTypeOK, RequestsInTime
<1>3. HotTypeOK'
  BY <1>1, <1>2 DEF HotTypeOK, CachedStates
<1>4. CachedInTime'
  BY <1>1, <1>2 DEF HotTypeOK, CachedInTime
<1>5. OneFetcher' /\ RequestsInTime' /\ NothingNewerStored' /\ ContextInTime'
  BY DEF OneFetcher, RequestsInTime, NothingNewerStored, ContextInTime
<1>6. QED
  BY <1>3, <1>4, <1>5

(* No answer: nothing changes but that nobody waits for one. *)
LEMMA AccountsNotAnsweredKeeps ==
  ASSUME NEW read \in reads, HotIInv, AccountsNotAnswered(read)
  PROVE  HotIInv'
  BY DEF HotIInv, AccountsNotAnswered, HotTypeOK, OneFetcher, RequestsInTime,
         NothingNewerStored, CachedInTime, ContextInTime

LEMMA HotStutterKeeps == HotIInv /\ UNCHANGED hotVars => HotIInv'
  BY DEF HotIInv, hotVars, stateVars, HotTypeOK, OneFetcher, RequestsInTime,
         NothingNewerStored, CachedInTime, ContextInTime

LEMMA HotNextKeeps == HotIInv /\ [HotPathNext]_hotVars => HotIInv'
<1>1. SUFFICES ASSUME HotIInv, [HotPathNext]_hotVars PROVE HotIInv'
  OBVIOUS
<1>2. CASE Tick \/ StartPrefetch \/ LoopWakes \/ StopPrefetch \/ CreateContext
  BY <1>1, <1>2, TickKeeps, StartPrefetchKeeps, LoopWakesKeeps, StopPrefetchKeeps,
     CreateContextKeeps
<1>3. ASSUME NEW answered \in BOOLEAN,
             Started(answered) \/ LoopFetches(answered) \/ Stopped(answered)
      PROVE HotIInv'
  BY <1>1, <1>3, StartedKeeps, LoopFetchesKeeps, StoppedKeeps
<1>4. ASSUME NEW k \in Stateful, UpdateState(k) \/ AddState(k) PROVE HotIInv'
  BY <1>1, <1>4, UpdateStateKeeps, AddStateKeeps
<1>5. ASSUME NEW keys \in SUBSET Accounts, AskAccounts(keys) PROVE HotIInv'
  BY <1>1, <1>5, AskAccountsKeeps
<1>6. ASSUME NEW read \in reads,
             \/ AccountsNotAnswered(read)
             \/ \E found \in SUBSET read.keys : AccountsAnswered(read, found)
      PROVE HotIInv'
  BY <1>1, <1>6, AccountsNotAnsweredKeeps, AccountsAnsweredKeeps
<1>7. QED
  BY <1>1, <1>2, <1>3, <1>4, <1>5, <1>6, HotStutterKeeps DEF HotPathNext

(* The requesters stay apart and what they store is dated, in every reachable
   state. *)
THEOREM HotInductive == HotPathSpec => []HotIInv
  BY HotInitIInv, HotNextKeeps, PTL DEF HotPathSpec

(* Whatever starts, stops, failures and late answers interleave: what the hot
   path hands out is the newest blockhash it stored and no older than the
   lifetime of the cache and one request, likewise the states of accounts and
   pools, and the age of a valid context comes on top. *)
THEOREM HotPathIsRecent == HotPathSpec => []HandedOutIsRecent
<1>1. HotIInv => HandedOutIsRecent
  <2>1. SUFFICES ASSUME HotIInv PROVE HandedOutIsRecent
    OBVIOUS
  <2>2. \A hash \in get_blockhash : hash = newest /\ tick - hash <= CacheTTL + PrefetchTimeout
    BY <2>1, HashIsRecent
  <2>3. \A k \in Stateful : \A s \in get_state(k) : tick - s.made <= CacheTTL + PrefetchTimeout
    BY <2>1, StateIsRecent
  <2>4. ASSUME ContextValid
        PROVE  /\ tick - context.hash <= CacheTTL + PrefetchTimeout + ContextAge
               /\ \A k \in Stateful : context.states[k] # NoData =>
                      tick - context.states[k].made <= CacheTTL + PrefetchTimeout + ContextAge
    BY <2>1, <2>4, HotPathAssumption
    DEF ContextValid, HotIInv, HotTypeOK, ContextInTime, CachedStates
  <2>5. QED
    BY <2>2, <2>3, <2>4 DEF HandedOutIsRecent
<1>2. QED
  BY <1>1, HotInductive, PTL

---------------------------------------------------------------------------
(* SwqosRelays, for any calls, batches and configurations.  A call that is in
   the critical section holds the lock, and only one that opens a connection
   finds none: so no second connection is made beside the first.  A call some
   relay has refused is over. *)

Locked == {"connect", "opening", "send"}
Steps == {"idle", "ready", "end"} \cup Locked

(* The only clients with a fallback, and those that have answers to judge. *)
WithFallback ==
    {<<"temporal quic", "temporal http">>, <<"razor grpc", "razor http">>,
     <<"astralane quic", "astralane http">>}
Answering ==
    {"jito", "flash", "default", "bloxroute", "zeroslot", "helius", "node1", "stellium",
     "lightspeed", "temporal http", "razor http", "razor grpc", "astralane http",
     "node1 quic", "lunar http", "glaive http"}
Transports == Answering \cup Persistent \cup OneWay
LegsOf == {<<t>> : t \in Transports} \cup WithFallback

AtOK(l) == [Senders -> [step : Steps, leg : 1..Len(l), again : BOOLEAN]]

RelayTypeOK ==
    /\ legs \in LegsOf
    /\ at \in AtOK(legs)
    /\ link \in {Nobody, Open, 401, 503}
    /\ sent = [c \in Senders |-> sent[c]]
    /\ refused = [c \in Senders |-> refused[c]]

LockHeld == \A c \in Senders : at[c].step \in Locked => holder = c
OpeningHasNone == \A c \in Senders : at[c].step = "opening" => link = Nobody
RefusedIsOver == \A c \in Senders : refused[c] # {} => at[c].step = "end"

RelayIInv ==
    /\ RelayTypeOK
    /\ LockHeld
    /\ OpeningHasNone
    /\ OneConnection
    /\ RefusedIsOver

(* ClientFactory.create_client() makes clients of known transports. *)
LEMMA LegsAreKnown ==
  ASSUME NEW cfg \in Configs
  PROVE  Legs(cfg) \in LegsOf \cup {Refusal}
<1>1. cfg.type \in SwqosType /\ cfg.transport \in SwqosTransport /\ cfg.custom \in BOOLEAN
  BY RelayAssumption
<1>2. \A t \in Transports : <<t>> \in LegsOf
  BY DEF LegsOf
<1> USE DEF Transports, Answering, Persistent, OneWay
<1>3. CASE cfg.type = "temporal"
  BY <1>2, <1>3 DEF Legs, TemporalLegs, LegsOf, WithFallback
<1>4. CASE cfg.type = "razor"
  BY <1>2, <1>4 DEF Legs, BlockRazorLegs, LegsOf, WithFallback
<1>5. CASE cfg.type = "astralane"
  BY <1>2, <1>5 DEF Legs, AstralaneLegs, LegsOf, WithFallback
<1>6. CASE cfg.type = "node1"
  BY <1>2, <1>6 DEF Legs, Node1Legs
<1>7. CASE cfg.type = "lunar"
  BY <1>2, <1>7 DEF Legs, LunarLanderLegs
<1>8. CASE cfg.type = "glaive"
  BY <1>2, <1>8 DEF Legs, GlaiveLegs
<1>9. CASE cfg.type = "nextblock"
  BY <1>9 DEF Legs
<1>10. CASE cfg.type \in {"jito", "zeroslot", "bloxroute", "flash", "stellium", "lightspeed",
                          "soyas", "speedlanding", "helius", "solami", "default"}
  <2>1. Legs(cfg) = <<cfg.type>> /\ cfg.type \in Transports
    BY <1>10 DEF Legs
  <2>2. QED
    BY <1>2, <2>1
<1>11. QED
  BY <1>1, <1>3, <1>4, <1>5, <1>6, <1>7, <1>8, <1>9, <1>10 DEF SwqosType

LEMMA LegsHaveLength ==
  ASSUME NEW l \in LegsOf
  PROVE  /\ Len(l) \in {1, 2} /\ l # <<>>
         /\ \A i \in 1..Len(l) : l[i] \in Transports
         /\ Len(l) = 2 => l \in WithFallback
<1>1. CASE l \in WithFallback
  <2>1. ASSUME NEW a \in Transports, NEW b \in Transports, l = <<a, b>>
        PROVE  Len(l) = 2 /\ l # <<>> /\ \A i \in 1..Len(l) : l[i] \in Transports
    BY <2>1
  <2> USE DEF Transports, Answering, Persistent, OneWay
  <2>2. CASE l = <<"temporal quic", "temporal http">>
    BY <2>1, <2>2, <1>1
  <2>3. CASE l = <<"razor grpc", "razor http">>
    BY <2>1, <2>3, <1>1
  <2>4. CASE l = <<"astralane quic", "astralane http">>
    BY <2>1, <2>4, <1>1
  <2>5. QED
    BY <1>1, <2>2, <2>3, <2>4 DEF WithFallback
<1>2. ASSUME NEW t \in Transports, l = <<t>>
      PROVE  Len(l) = 1 /\ l # <<>> /\ \A i \in 1..Len(l) : l[i] \in Transports
  BY <1>2
<1>3. QED
  BY <1>1, <1>2 DEF LegsOf

(* The client is built, nobody has called it yet. *)
LEMMA RelayInitIInv == RelayInit => RelayIInv
<1>1. SUFFICES ASSUME RelayInit PROVE RelayIInv
  OBVIOUS
<1> USE <1>1 DEF RelayInit
<1>2. legs \in LegsOf
  BY LegsAreKnown
<1>3. 1 \in 1..Len(legs)
  BY <1>2, LegsHaveLength
<1>4. RelayTypeOK
  BY <1>2, <1>3 DEF RelayTypeOK, AtOK, Steps
<1>5. QED
  BY <1>4 DEF RelayIInv, LockHeld, OpeningHasNone, OneConnection, RefusedIsOver, Locked

(* A call moves; the others stand where they stood, and none of them is in the
   critical section if this one is or was. *)
Moves(c) == at' \in AtOK(legs) /\ \A d \in Senders \ {c} : at'[d] = at[d]

LEMMA RelayStepKeeps ==
  ASSUME NEW c \in Senders, RelayIInv, Moves(c), legs' = legs,
         sent' = [d \in Senders |-> sent'[d]],
         refused' = [d \in Senders |-> refused'[d]],
         \A d \in Senders \ {c} : refused'[d] = refused[d],
         refused'[c] # {} => at'[c].step = "end",
         at'[c].step \in Locked => holder' = c,
         holder' = holder \/ holder \in {Nobody, c},
         link' \in {Nobody, Open, 401, 503},
         link' = link \/ link' = Nobody \/ at[c].step \in Locked,
         at'[c].step = "opening" => link' = Nobody,
         opened' = IF link' = Nobody THEN 0 ELSE 1
  PROVE  RelayIInv'
<1> USE DEF RelayIInv
<1>1. RelayTypeOK'
  BY DEF RelayTypeOK, Moves
<1>2. \A d \in Senders \ {c} : at'[d].step \in Locked => holder' = d
  BY RelayAssumption DEF LockHeld, Moves
<1>3. LockHeld'
  BY <1>2 DEF LockHeld
<1>4. OpeningHasNone'
  <2>1. \A d \in Senders \ {c} : at[c].step \in Locked => at[d].step \notin Locked
    BY DEF LockHeld
  <2>2. \A d \in Senders \ {c} : at'[d].step = "opening" => link' = Nobody
    BY <2>1 DEF OpeningHasNone, Moves, Locked
  <2>3. QED
    BY <2>2 DEF OpeningHasNone
<1>5. OneConnection'
  BY DEF OneConnection
<1>6. RefusedIsOver'
  BY DEF RefusedIsOver, Moves
<1>7. QED
  BY <1>1, <1>3, <1>4, <1>5, <1>6

(* Where a call may go: a new step in the same transport, or the next one. *)
LEMMA StepMoves ==
  ASSUME NEW c \in Senders, RelayTypeOK, NEW s \in Steps, at' = [at EXCEPT ![c].step = s]
  PROVE  Moves(c) /\ at'[c].step = s /\ at'[c].leg = at[c].leg
<1>1. at[c] \in [step : Steps, leg : 1..Len(legs), again : BOOLEAN]
  BY DEF RelayTypeOK, AtOK
<1>2. [at[c] EXCEPT !.step = s] \in [step : Steps, leg : 1..Len(legs), again : BOOLEAN]
  BY <1>1
<1>3. QED
  BY <1>1, <1>2 DEF RelayTypeOK, AtOK, Moves

LEMMA TryMoves ==
  ASSUME NEW c \in Senders, RelayTypeOK, NEW s \in Steps, NEW b \in BOOLEAN,
         at' = [at EXCEPT ![c].step = s, ![c].again = b]
  PROVE  Moves(c) /\ at'[c].step = s /\ at'[c].leg = at[c].leg
<1> DEFINE m == [at EXCEPT ![c].step = s]
<1>1. /\ m \in AtOK(legs) /\ m[c].step = s /\ m[c].leg = at[c].leg
      /\ \A d \in Senders \ {c} : m[d] = at[d]
  <2>1. at[c] \in [step : Steps, leg : 1..Len(legs), again : BOOLEAN]
    BY DEF RelayTypeOK, AtOK
  <2>2. /\ [at[c] EXCEPT !.step = s] \in [step : Steps, leg : 1..Len(legs), again : BOOLEAN]
        /\ [at[c] EXCEPT !.step = s].step = s /\ [at[c] EXCEPT !.step = s].leg = at[c].leg
    BY <2>1
  <2>3. QED
    BY <2>1, <2>2 DEF RelayTypeOK, AtOK
<1>2. at' = [m EXCEPT ![c].again = b]
  OBVIOUS
<1> HIDE DEF m
<1>3. m[c] \in [step : Steps, leg : 1..Len(legs), again : BOOLEAN]
  BY <1>1 DEF AtOK
<1>4. /\ [m[c] EXCEPT !.again = b] \in [step : Steps, leg : 1..Len(legs), again : BOOLEAN]
      /\ [m[c] EXCEPT !.again = b].step = s /\ [m[c] EXCEPT !.again = b].leg = at[c].leg
  BY <1>1, <1>3
<1>5. QED
  BY <1>1, <1>2, <1>4 DEF AtOK, Moves

LEMMA LegMoves ==
  ASSUME NEW c \in Senders, RelayTypeOK, at[c].leg < Len(legs),
         at' = [at EXCEPT ![c] = [step |-> "ready", leg |-> @.leg + 1, again |-> FALSE]]
  PROVE  Moves(c) /\ at'[c].step = "ready"
<1>1. at[c] \in [step : Steps, leg : 1..Len(legs), again : BOOLEAN] /\ Len(legs) \in {1, 2}
  BY LegsHaveLength DEF RelayTypeOK, AtOK
<1> DEFINE r == [step |-> "ready", leg |-> at[c].leg + 1, again |-> FALSE]
<1>2. r \in [step : Steps, leg : 1..Len(legs), again : BOOLEAN] /\ r.step = "ready"
  BY <1>1 DEF Steps
<1>3. at' = [at EXCEPT ![c] = r]
  BY DEF RelayTypeOK, AtOK
<1> HIDE DEF r
<1>4. QED
  BY <1>2, <1>3 DEF RelayTypeOK, AtOK, Moves

(* A call that fails is over, unless another transport is left to try. *)
LEMMA FailingMoves ==
  ASSUME NEW c \in Senders, RelayTypeOK, NEW code, FailsWith(c, code)
  PROVE  /\ Moves(c) /\ at'[c].step \in {"ready", "end"}
         /\ ~WorthResending(code) \/ at[c].leg = Len(legs) => at'[c].step = "end"
<1>1. at[c].leg \in 1..Len(legs) /\ Len(legs) \in {1, 2}
  BY LegsHaveLength DEF RelayTypeOK, AtOK
<1>2. CASE WorthResending(code) /\ at[c].leg < Len(legs)
  BY <1>1, <1>2, LegMoves DEF FailsWith
<1>3. CASE ~(WorthResending(code) /\ at[c].leg < Len(legs))
  <2>1. "end" \in Steps /\ at' = [at EXCEPT ![c].step = "end"]
    BY <1>3 DEF FailsWith, Steps
  <2>2. QED
    BY <2>1, StepMoves
<1>4. QED
  BY <1>2, <1>3

LEMMA CollectingMoves ==
  ASSUME NEW c \in Senders, RelayTypeOK, NEW sig, Collects(c, sig)
  PROVE  Moves(c) /\ at'[c].step \in {"ready", "end"}
<1>1. "ready" \in Steps /\ "end" \in Steps /\ FALSE \in BOOLEAN
  BY DEF Steps
<1>2. \/ at' = [at EXCEPT ![c].step = "end"]
      \/ at' = [at EXCEPT ![c].step = "ready", ![c].again = FALSE]
  BY DEF Collects
<1>3. QED
  BY <1>1, <1>2, StepMoves, TryMoves

LEMMA ConcludingMoves ==
  ASSUME NEW c \in Senders, RelayTypeOK, NEW r, Concludes(c, r)
  PROVE  /\ Moves(c) /\ at'[c].step \in {"ready", "end"}
         /\ r.code # 0 /\ (~WorthResending(r.code) \/ at[c].leg = Len(legs))
                => at'[c].step = "end"
  BY FailingMoves, CollectingMoves DEF Concludes

(* Every client makes an exception of an answer that does not say that the
   transaction was taken. *)
LEMMA LeftOutcome ==
  ASSUME NEW c \in Senders, NEW t \in Answering, NEW a \in Answers(t), MayLeave(a),
         NEW confirms \in BOOLEAN
  PROVE  Outcome(t, a, c, confirms).code # 0
<1>0. SUFFICES ASSUME NEW o, o = Outcome(t, a, c, confirms)
      PROVE  o.code # 0
  OBVIOUS
<1> DEFINE Unsaid == {"error", "errortext", "reason"}
<1>1. \/ a.status = Broken /\ a.body = "lost"
      \/ a.status \in {400, 503} /\ a.body \in {"error", "text"}
      \/ a.status = 200 /\ a.body \in Unsaid /\ a.body \in Bodies(t)
  BY DEF Answers, MayLeave, Ok, Broken
<1>2. CASE a.body = "lost"
  BY <1>0, <1>2 DEF Outcome, Raised, Broken
<1>3. SUFFICES ASSUME a.body # "lost" PROVE o.code # 0
  BY <1>2
<1>4. Ok(a) <=> a.status = 200
  BY <1>1, <1>3 DEF Ok
<1>5. t # "bloxroute" /\ a.status = 200 => a.body # "reason"
  BY <1>1, <1>3 DEF Bodies
<1>6. ASSUME t \in StatusOnly \/ t = "razor grpc"
      PROVE  a.status \in {400, 503} /\ a.status # 200
  <2>1. Bodies(t) \cap Unsaid = {}
    BY <1>6 DEF Bodies, StatusOnly
  <2>2. ~(a.body \in Unsaid /\ a.body \in Bodies(t))
    BY <2>1
  <2>3. QED
    BY <1>1, <1>3, <2>2
<1>7. ~(a.status = 200 /\ a.body = "reason") => JsonRpcAnswer(a).code # 0
  BY <1>1, <1>3, <1>4 DEF JsonRpcAnswer, Raised, Broken
<1>8. CASE t = "jito"
  <2>1. o \in {JitoBundleAnswer(a), JitoAnswer(a)}
    BY <1>0, <1>3, <1>8 DEF Outcome
  <2>2. JitoAnswer(a).code # 0
    BY <1>5, <1>7, <1>8 DEF JitoAnswer, Raised, Unforeseen
  <2>3. QED
    BY <2>1, <2>2 DEF JitoBundleAnswer
<1>9. CASE t = "flash"
  <2>1. o \in {FlashBatchAnswer(a), FlashAnswer(a)}
    BY <1>0, <1>3, <1>9 DEF Outcome
  <2>2. FlashAnswer(a).code # 0
    BY <1>1, <1>3, <1>4, <1>5, <1>7, <1>9 DEF FlashAnswer
  <2>3. FlashBatchAnswer(a).code # 0
    BY <1>1, <1>3, <1>4, <1>5, <1>7, <1>9 DEF FlashBatchAnswer, Raised
  <2>4. QED
    BY <2>1, <2>2, <2>3
<1>10. CASE t = "default"
  <2>1. o = DefaultAnswer(a, confirms)
    BY <1>0, <1>3, <1>10 DEF Outcome
  <2>2. QED
    BY <1>5, <1>7, <1>10, <2>1 DEF DefaultAnswer, Raised
<1>11. CASE t = "bloxroute"
  <2>1. o = BloxrouteAnswer(a)
    BY <1>0, <1>3, <1>11 DEF Outcome
  <2>2. o = Raised(500) \/ (o = JsonRpcAnswer(a) /\ ~(a.status = 200 /\ a.body = "reason"))
    BY <1>4, <2>1 DEF BloxrouteAnswer, ReasonAnswer
  <2>3. QED
    BY <1>7, <2>2 DEF Raised
<1>12. CASE t \in {"zeroslot", "helius", "node1", "stellium", "lightspeed"}
  <2>1. o = JsonRpcAnswer(a)
    BY <1>0, <1>3, <1>12
    DEF Outcome, ZeroSlotAnswer, HeliusAnswer, Node1Answer, StelliumAnswer, LightspeedAnswer
  <2>2. QED
    BY <1>5, <1>7, <1>12, <2>1
<1>13. CASE t \in StatusOnly
  <2>1. o \in {TemporalAnswer(a, c), LunarLanderAnswer(a, c), Node1QuicAnswer(a, c)}
    BY <1>0, <1>3, <1>13 DEF Outcome, StatusOnly
  <2>2. o = Raised(a.status)
    BY <1>4, <1>6, <1>13, <2>1 DEF TemporalAnswer, LunarLanderAnswer, Node1QuicAnswer
  <2>3. QED
    BY <1>6, <1>13, <2>2 DEF Raised
<1>14. CASE t = "razor http"
  <2>1. o = BlockRazorAnswer(a, c)
    BY <1>0, <1>3, <1>14 DEF Outcome
  <2>2. CASE a.status = 200
    <3>1. o = JsonRpcAnswer(a)
      BY <1>1, <1>4, <2>1, <2>2 DEF BlockRazorAnswer
    <3>2. QED
      BY <1>5, <1>7, <1>14, <2>2, <3>1
  <2>3. CASE a.status \in {400, 503}
    <3>1. o = Raised(a.status)
      BY <1>4, <2>1, <2>3 DEF BlockRazorAnswer
    <3>2. QED
      BY <2>3, <3>1 DEF Raised
  <2>4. QED
    BY <1>1, <1>3, <2>2, <2>3
<1>15. CASE t = "razor grpc"
  <2>1. o = BlockRazorGrpcAnswer(a)
    BY <1>0, <1>3, <1>15 DEF Outcome
  <2>2. o \in {Raised(Broken), Raised(Unforeseen)}
    <3>1. ~Ok(a)
      BY <1>4, <1>6, <1>15
    <3>2. QED
      BY <2>1, <3>1 DEF BlockRazorGrpcAnswer
  <2>3. QED
    BY <2>2 DEF Raised, Broken, Unforeseen
<1>16. CASE t = "astralane http"
  <2>1. o = AstralaneAnswer(a, c)
    BY <1>0, <1>3, <1>16 DEF Outcome
  <2>2. CASE a.status = 200
    <3>1. a.body \in {"error", "errortext"}
      <4>1. a.body # "reason"
        BY <1>5, <1>16, <2>2
      <4>2. a.body \in Unsaid
        BY <1>1, <1>3, <2>2
      <4>3. QED
        BY <4>1, <4>2
    <3>2. o = JsonRpcAnswer(a)
      BY <1>4, <2>1, <2>2, <3>1 DEF AstralaneAnswer
    <3>3. QED
      BY <1>7, <3>1, <3>2
  <2>3. CASE a.status \in {400, 503}
    <3>1. o = Raised(a.status)
      BY <1>4, <2>1, <2>3 DEF AstralaneAnswer
    <3>2. QED
      BY <2>3, <3>1 DEF Raised
  <2>4. QED
    BY <1>1, <1>3, <2>2, <2>3
<1>17. CASE t = "glaive http"
  <2>1. o = GlaiveAnswer(a)
    BY <1>0, <1>3, <1>17 DEF Outcome
  <2>2. o = Raised(500)
    BY <1>1, <1>3, <1>5, <1>17, <2>1 DEF GlaiveAnswer
  <2>3. QED
    BY <2>2 DEF Raised
<1>18. QED
  BY <1>8, <1>9, <1>10, <1>11, <1>12, <1>13, <1>14, <1>15, <1>16, <1>17
  DEF Answering, StatusOnly

(* A refusal is such an answer, and no client with a fallback tries it then. *)
LEMMA RefusedOutcome ==
  ASSUME NEW c \in Senders, NEW t \in Answering, NEW a \in Answers(t), Refuses(a),
         NEW confirms \in BOOLEAN
  PROVE  /\ Outcome(t, a, c, confirms).code # 0
         /\ t = "razor grpc" => ~WorthResending(Outcome(t, a, c, confirms).code)
<1>1. MayLeave(a)
  BY DEF Refuses, MayLeave, Answers, Ok, Broken
<1>2. Outcome(t, a, c, confirms).code # 0
  BY <1>1, LeftOutcome
<1>3. ASSUME t = "razor grpc", NEW o, o = Outcome(t, a, c, confirms)
      PROVE  ~WorthResending(o.code)
  <2>1. a.status = 400 /\ a.body # "lost" /\ ~Ok(a)
    <3>1. Bodies(t) = {"own", "other", "none"}
      BY <1>3 DEF Bodies, StatusOnly
    <3>2. QED
      BY <3>1 DEF Answers, Refuses, Ok, Broken
  <2>2. ~WorthResending(400)
    BY DEF WorthResending
  <2>3. o = BlockRazorGrpcAnswer(a)
    BY <1>3, <2>1 DEF Outcome
  <2>4. o = Raised(Unforeseen)
    BY <2>1, <2>2, <2>3 DEF BlockRazorGrpcAnswer
  <2>5. o.code = Unforeseen
    BY <2>4 DEF Raised
  <2>6. QED
    BY <2>5 DEF Unforeseen, WorthResending
<1>4. QED
  BY <1>2, <1>3

(* A request puts the transactions of its own call on the wire. *)
LEMMA OthersNotSent ==
  ASSUME NEW c \in Senders, RelayTypeOK, GoesOut(c)
  PROVE  /\ sent' = [d \in Senders |-> sent'[d]]
         /\ \A d \in Senders \ {c} : sent'[d] = sent[d]
<1> DEFINE v == [i \in 1..MaxBatch |-> sent[c][i] + IF i \in Slice(c) THEN 1 ELSE 0]
<1>1. sent' = [sent EXCEPT ![c] = v]
  BY DEF GoesOut
<1> HIDE DEF v
<1>2. QED
  BY <1>1 DEF RelayTypeOK

LEMMA SubmitKeeps ==
  ASSUME NEW c \in Senders, NEW b \in Batches, RelayIInv, Submit(c, b)
  PROVE  RelayIInv'
<1>1. "ready" \in Steps /\ RelayTypeOK /\ at' = [at EXCEPT ![c].step = "ready"]
  BY DEF Submit, Steps, RelayIInv
<1>2. Moves(c) /\ at'[c].step = "ready"
  BY <1>1, StepMoves
<1>3. refused[c] = {} /\ UNCHANGED <<legs, sent, refused, holder, link, opened>>
  BY DEF RelayIInv, RefusedIsOver, Submit
<1>4. QED
  BY <1>2, <1>3, RelayStepKeeps DEF RelayIInv, RelayTypeOK, OneConnection, Locked

LEMMA RejectKeeps ==
  ASSUME NEW c \in Senders, RelayIInv, Reject(c)
  PROVE  RelayIInv'
<1>1. RelayTypeOK /\ FailsWith(c, 400)
  BY DEF Reject, RelayIInv
<1>2. Moves(c) /\ at'[c].step \in {"ready", "end"}
  BY <1>1, FailingMoves
<1>3. refused[c] = {} /\ UNCHANGED <<legs, sent, refused, holder, link, opened>>
  BY DEF RelayIInv, RefusedIsOver, Reject
<1>4. QED
  BY <1>2, <1>3, RelayStepKeeps DEF RelayIInv, RelayTypeOK, OneConnection, Locked

(* A relay's refusal ends the call: its client has no fallback left, or is
   BlockRazor's over gRPC, which does not use it. *)
LEMMA ExchangeKeeps ==
  ASSUME NEW c \in Senders, NEW a \in Answers(Transport(c)), NEW taken \in BOOLEAN,
         NEW confirms \in BOOLEAN, RelayIInv, Exchange(c, a, taken, confirms)
  PROVE  RelayIInv'
<1>1. PICK r \in {Outcome(Transport(c), a, c, confirms)} : Concludes(c, r)
  BY DEF Exchange
<1>2. /\ Moves(c) /\ at'[c].step \in {"ready", "end"}
      /\ r.code # 0 /\ (~WorthResending(r.code) \/ at[c].leg = Len(legs)) => at'[c].step = "end"
  BY <1>1, ConcludingMoves DEF RelayIInv
<1>3. /\ legs \in LegsOf /\ at[c].leg \in 1..Len(legs)
      /\ Transport(c) \in Transports /\ Transport(c) = legs[at[c].leg]
  BY LegsHaveLength DEF RelayIInv, RelayTypeOK, AtOK, Transport
<1>4. Transport(c) \in Answering
  BY <1>3 DEF Exchange, Transports
<1>5. at[c].leg = Len(legs) \/ Transport(c) = "razor grpc"
  <2>1. Len(legs) = 1 => at[c].leg = Len(legs)
    BY <1>3
  <2>2. ASSUME NEW x, NEW y, legs = <<x, y>>
        PROVE  Transport(c) = x \/ at[c].leg = Len(legs)
    <3>1. Len(legs) = 2 /\ legs[1] = x
      BY <2>2
    <3>2. QED
      BY <1>3, <3>1
  <2>3. Transport(c) \notin Persistent
    BY DEF Exchange
  <2>4. CASE legs \in WithFallback
    BY <2>2, <2>3, <2>4 DEF WithFallback, Persistent
  <2>5. Len(legs) = 1 \/ legs \in WithFallback
    BY <1>3, LegsHaveLength
  <2>6. QED
    BY <2>1, <2>4, <2>5
<1>6. Refuses(a) => at'[c].step = "end"
  BY <1>1, <1>2, <1>4, <1>5, RefusedOutcome
<1>7. refused[c] = {} /\ UNCHANGED <<legs, holder, link, opened>>
  BY DEF RelayIInv, RefusedIsOver, Exchange
<1>8. /\ refused' = [d \in Senders |-> refused'[d]]
      /\ \A d \in Senders \ {c} : refused'[d] = refused[d]
      /\ refused'[c] # {} => Refuses(a)
  <2>1. PICK v : refused' = [refused EXCEPT ![c] = v] /\ (v = refused[c] \/ Refuses(a))
    BY DEF Exchange
  <2>2. QED
    BY <1>7, <2>1 DEF RelayIInv, RelayTypeOK
<1>9. sent' = [d \in Senders |-> sent'[d]]
  BY OthersNotSent DEF RelayIInv, Exchange
<1>10. QED
  BY <1>2, <1>6, <1>7, <1>8, <1>9, RelayStepKeeps DEF RelayIInv, RelayTypeOK, OneConnection, Locked

LEMMA ShootKeeps ==
  ASSUME NEW c \in Senders, NEW connected \in BOOLEAN, NEW written \in BOOLEAN,
         NEW taken \in BOOLEAN, RelayIInv, Shoot(c, connected, written, taken)
  PROVE  RelayIInv'
<1>1. Moves(c) /\ at'[c].step \in {"ready", "end"}
  <2>1. RelayTypeOK /\ (Concludes(c, OwnSignature(c)) \/ FailsWith(c, Broken))
    BY DEF RelayIInv, Shoot
  <2>2. QED
    BY <2>1, FailingMoves, ConcludingMoves
<1>2. refused[c] = {} /\ UNCHANGED <<legs, refused, holder, link, opened>>
  BY DEF RelayIInv, RefusedIsOver, Shoot
<1>3. sent' = [d \in Senders |-> sent'[d]]
  <2>1. RelayTypeOK /\ (GoesOut(c) \/ sent' = sent)
    BY DEF RelayIInv, Shoot
  <2>2. CASE sent' = sent
    BY <2>1, <2>2 DEF RelayTypeOK
  <2>3. QED
    BY <2>1, <2>2, OthersNotSent
<1>4. QED
  BY <1>1, <1>2, <1>3, RelayStepKeeps DEF RelayIInv, RelayTypeOK, OneConnection, Locked

LEMMA NothingSent ==
  ASSUME RelayTypeOK, UNCHANGED <<sent, refused>>
  PROVE  /\ sent' = [d \in Senders |-> sent'[d]]
         /\ refused' = [d \in Senders |-> refused'[d]]
         /\ \A d \in Senders : refused'[d] = refused[d]
  BY DEF RelayTypeOK

(* The lock is taken by a call that was outside, when nobody has it. *)
LEMMA LockKeeps ==
  ASSUME NEW c \in Senders, RelayIInv, Lock(c)
  PROVE  RelayIInv'
<1>1. /\ "connect" \in Steps /\ FALSE \in BOOLEAN /\ RelayTypeOK
      /\ at' = [at EXCEPT ![c].step = "connect", ![c].again = FALSE]
  BY DEF Lock, Steps, Locked, RelayIInv
<1>2. Moves(c) /\ at'[c].step = "connect"
  BY <1>1, TryMoves
<1>3. /\ refused[c] = {} /\ holder = Nobody /\ holder' = c
      /\ UNCHANGED <<legs, sent, refused, link, opened>>
  BY DEF RelayIInv, RefusedIsOver, Lock
<1>4. QED
  BY <1>2, <1>3, RelayStepKeeps DEF RelayIInv, RelayTypeOK, OneConnection

LEMMA NotAStatus == Nobody \notin Int /\ Open # Nobody
<1>1. Nobody \in {Nobody, Open} /\ {Nobody, Open} \cap Int = {}
  BY Zenon, RelayAssumption
<1>2. Nobody \notin Int
  BY <1>1, Zenon
<1>3. QED
  BY <1>2, RelayAssumption

(* A connection that is dropped is left: there is none afterwards. *)
LEMMA LeavingOne ==
  ASSUME RelayIInv, link' = Nobody, opened' = opened - Leave
  PROVE  opened' = IF link' = Nobody THEN 0 ELSE 1
  BY DEF RelayIInv, OneConnection, Leave

LEMMA ConnectKeeps ==
  ASSUME NEW c \in Senders, RelayIInv, Connect(c)
  PROVE  RelayIInv'
<1>1. /\ refused[c] = {} /\ at[c].step \in Locked /\ holder = c
      /\ UNCHANGED <<legs, sent, refused, holder>>
  BY DEF RelayIInv, RefusedIsOver, LockHeld, Connect, Locked
<1>2. "send" \in Steps /\ "opening" \in Steps /\ RelayTypeOK
  BY DEF Steps, Locked, RelayIInv
<1>3. CASE at' = [at EXCEPT ![c].step = "send"] /\ UNCHANGED <<link, opened>>
  <2>1. Moves(c) /\ at'[c].step = "send"
    BY <1>2, <1>3, StepMoves
  <2>2. opened' = (IF link' = Nobody THEN 0 ELSE 1) /\ link' \in {Nobody, Open, 401, 503}
    BY <1>3 DEF RelayIInv, RelayTypeOK, OneConnection
  <2>3. QED
    BY <1>1, <1>3, <1>2, <2>1, <2>2, NothingSent, RelayStepKeeps
<1>4. CASE at' = [at EXCEPT ![c].step = "opening"] /\ link' = Nobody /\ opened' = opened - Leave
  <2>1. Moves(c) /\ at'[c].step = "opening"
    BY <1>2, <1>4, StepMoves
  <2>2. opened' = IF link' = Nobody THEN 0 ELSE 1
    BY <1>4, LeavingOne
  <2>3. QED
    BY <1>1, <1>2, <1>4, <2>1, <2>2, NothingSent, RelayStepKeeps
<1>5. QED
  BY <1>3, <1>4 DEF Connect

(* Only one that found no connection makes one. *)
LEMMA OpenedKeeps ==
  ASSUME NEW c \in Senders, RelayIInv, Opened(c)
  PROVE  RelayIInv'
<1>1. /\ refused[c] = {} /\ at[c].step \in Locked /\ holder = c /\ link = Nobody
      /\ UNCHANGED <<legs, sent, refused, holder>>
  BY DEF RelayIInv, RefusedIsOver, LockHeld, OpeningHasNone, Opened, Locked
<1>2. /\ "send" \in Steps /\ RelayTypeOK
      /\ at' = [at EXCEPT ![c].step = "send"] /\ link' = Open /\ opened' = opened + 1
  BY DEF Steps, Locked, RelayIInv, Opened
<1>3. Moves(c) /\ at'[c].step = "send"
  BY <1>2, StepMoves
<1>4. opened' = IF link' = Nobody THEN 0 ELSE 1
  BY <1>1, <1>2, RelayAssumption DEF RelayIInv, OneConnection
<1>5. QED
  BY <1>1, <1>2, <1>3, <1>4, NothingSent, RelayStepKeeps

(* A request over the shared connection failed: tried again under the lock,
   or given up and the lock left.  A refusal is given up at once. *)
LEMMA TroubleKeeps ==
  ASSUME NEW c \in Senders, RelayIInv, at[c].step \in Locked,
         NEW code, Trouble(c, code), legs' = legs,
         sent' = [d \in Senders |-> sent'[d]],
         refused' = [d \in Senders |-> refused'[d]],
         \A d \in Senders \ {c} : refused'[d] = refused[d],
         refused'[c] # {} => ~WorthResending(code)
  PROVE  RelayIInv'
<1>1. holder = c /\ RelayTypeOK
  BY DEF RelayIInv, LockHeld
<1>2. CASE WorthResending(code) /\ ~at[c].again
  <2>1. /\ "connect" \in Steps /\ TRUE \in BOOLEAN
        /\ at' = [at EXCEPT ![c].step = "connect", ![c].again = TRUE]
        /\ link' = Nobody /\ opened' = opened - Leave /\ holder' = holder
    BY <1>2 DEF Trouble, Steps, Locked
  <2>2. Moves(c) /\ at'[c].step = "connect"
    BY <1>1, <2>1, TryMoves
  <2>3. opened' = IF link' = Nobody THEN 0 ELSE 1
    BY <2>1, LeavingOne
  <2>4. refused'[c] = {}
    BY <1>2
  <2>5. QED
    BY <1>1, <2>1, <2>2, <2>3, <2>4, RelayStepKeeps
<1>3. CASE ~(WorthResending(code) /\ ~at[c].again)
  <2>1. FailsWith(c, code) /\ holder' = Nobody /\ UNCHANGED <<link, opened>>
    BY <1>3 DEF Trouble
  <2>2. /\ Moves(c) /\ at'[c].step \in {"ready", "end"}
        /\ refused'[c] # {} => at'[c].step = "end"
    BY <1>1, <2>1, FailingMoves
  <2>3. QED
    BY <1>1, <2>1, <2>2, RelayStepKeeps DEF RelayIInv, RelayTypeOK, OneConnection, Locked
<1>4. QED
  BY <1>2, <1>3

LEMMA CannotOpenKeeps ==
  ASSUME NEW c \in Senders, RelayIInv, CannotOpen(c)
  PROVE  RelayIInv'
<1>1. /\ at[c].step \in Locked /\ Trouble(c, Broken) /\ refused[c] = {}
      /\ UNCHANGED <<legs, sent, refused>>
  BY DEF RelayIInv, RefusedIsOver, CannotOpen, Locked
<1>2. QED
  BY <1>1, TroubleKeeps DEF RelayIInv, RelayTypeOK

LEMMA SendOnDeadKeeps ==
  ASSUME NEW c \in Senders, RelayIInv, SendOnDead(c)
  PROVE  RelayIInv'
<1> DEFINE code == IF Transport(c) = "temporal quic" \/ link = Nobody THEN Broken ELSE link
<1>1. /\ at[c].step \in Locked /\ Trouble(c, code) /\ refused[c] = {}
      /\ UNCHANGED <<legs, sent>>
  BY DEF RelayIInv, RefusedIsOver, SendOnDead, Locked
<1>2. PICK v : /\ refused' = [refused EXCEPT ![c] = v]
               /\ v = refused[c] \/ (Transport(c) = "astralane quic" /\ link \in 400..407)
  BY DEF SendOnDead
<1>3. ASSUME Transport(c) = "astralane quic", link \in 400..407
      PROVE  ~WorthResending(code)
  <2>1. link # Nobody
    <3>1. \A k \in 400..407 : k \in Int
      OBVIOUS
    <3>2. QED
      BY <1>3, <3>1, NotAStatus, Zenon
  <2>2. code = link
    BY <1>3, <2>1
  <2>3. \A k \in 400..407 : ~WorthResending(k)
    BY DEF WorthResending
  <2>4. QED
    BY <1>3, <2>2, <2>3
<1> HIDE DEF code
<1>4. /\ refused' = [d \in Senders |-> refused'[d]]
      /\ \A d \in Senders \ {c} : refused'[d] = refused[d]
      /\ refused'[c] # {} => ~WorthResending(code)
  BY <1>1, <1>2, <1>3 DEF RelayIInv, RelayTypeOK
<1>5. sent' = [d \in Senders |-> sent'[d]]
  BY <1>1 DEF RelayIInv, RelayTypeOK
<1>6. QED
  BY <1>1, <1>4, <1>5, TroubleKeeps

LEMMA SendOnOpenSends ==
  ASSUME NEW c \in Senders, NEW status \in {200, 401, 503}, NEW taken \in BOOLEAN,
         SendOnOpen(c, status, taken)
  PROVE  at[c].step = "send" /\ GoesOut(c)
  BY Zenon DEF SendOnOpen

LEMMA SendOnOpenKeeps ==
  ASSUME NEW c \in Senders, NEW status \in {200, 401, 503}, NEW taken \in BOOLEAN,
         RelayIInv, SendOnOpen(c, status, taken)
  PROVE  RelayIInv'
<1>1. at[c].step \in Locked /\ holder = c /\ refused[c] = {} /\ legs' = legs /\ RelayTypeOK
  BY DEF RelayIInv, RefusedIsOver, LockHeld, SendOnOpen, Locked
<1>2. PICK v : /\ refused' = [refused EXCEPT ![c] = v]
               /\ v = refused[c] \/ status \in 400..407
  <2> DEFINE v == IF status \in 400..407 THEN refused[c] \cup Slice(c) ELSE refused[c]
  <2>1. refused' = [refused EXCEPT ![c] = v]
    BY Zenon DEF SendOnOpen
  <2>2. v = refused[c] \/ status \in 400..407
    OBVIOUS
  <2> HIDE DEF v
  <2>3. QED
    BY <2>1, <2>2
<1>3. /\ refused' = [d \in Senders |-> refused'[d]]
      /\ \A d \in Senders \ {c} : refused'[d] = refused[d]
      /\ refused'[c] # {} => status = 401
  BY <1>1, <1>2 DEF RelayTypeOK
<1>4. sent' = [d \in Senders |-> sent'[d]]
  BY <1>1, OthersNotSent, SendOnOpenSends
<1>5. CASE status = 200
  <2>1. Concludes(c, OwnSignature(c)) /\ holder' = Nobody /\ UNCHANGED <<link, opened>>
    BY <1>5 DEF SendOnOpen
  <2>2. Moves(c) /\ at'[c].step \in {"ready", "end"}
    BY <1>1, <2>1, ConcludingMoves
  <2>3. refused'[c] = {}
    BY <1>3, <1>5
  <2>4. QED
    BY <1>1, <1>3, <1>4, <2>1, <2>2, <2>3, RelayStepKeeps
    DEF RelayIInv, RelayTypeOK, OneConnection, Locked
<1>6. CASE status # 200
  <2>1. Trouble(c, status)
    BY <1>6 DEF SendOnOpen
  <2>2. refused'[c] # {} => ~WorthResending(status)
    BY <1>3 DEF WorthResending
  <2>3. QED
    BY <1>1, <1>3, <1>4, <2>1, <2>2, TroubleKeeps
<1>7. QED
  BY <1>5, <1>6

(* The peer can only end a connection there is: nobody is opening one. *)
LEMMA PeerClosesKeeps ==
  ASSUME NEW code \in {401, 503}, RelayIInv, PeerCloses(code)
  PROVE  RelayIInv'
<1>1. /\ link = Open /\ link' = code /\ code # Nobody /\ Open # Nobody
      /\ UNCHANGED <<legs, at, sent, refused, holder, opened>>
  <2>1. code \in Int
    OBVIOUS
  <2>2. code # Nobody
    BY <2>1, NotAStatus, Zenon
  <2>3. QED
    BY <2>2, NotAStatus DEF PeerCloses
<1>2. RelayTypeOK'
  BY <1>1 DEF RelayIInv, RelayTypeOK
<1>3. LockHeld' /\ RefusedIsOver'
  BY <1>1 DEF RelayIInv, LockHeld, RefusedIsOver
<1>4. OpeningHasNone'
  BY <1>1 DEF RelayIInv, OpeningHasNone
<1>5. OneConnection'
  BY <1>1 DEF RelayIInv, OneConnection
<1>6. QED
  BY <1>2, <1>3, <1>4, <1>5 DEF RelayIInv

LEMMA RelayNextIInv ==
  ASSUME RelayIInv, [RelayNext]_relayVars
  PROVE  RelayIInv'
<1>1. CASE RelayNext
  BY <1>1, SubmitKeeps, RejectKeeps, ExchangeKeeps, ShootKeeps, LockKeeps, ConnectKeeps,
     OpenedKeeps, CannotOpenKeeps, SendOnDeadKeeps, SendOnOpenKeeps, PeerClosesKeeps
  DEF RelayNext
<1>2. CASE UNCHANGED relayVars
  BY <1>2
  DEF relayVars, RelayIInv, RelayTypeOK, LockHeld, OpeningHasNone, OneConnection, RefusedIsOver
<1>3. QED
  BY <1>1, <1>2

(* Who holds the lock, what is open and what was refused agree in every
   reachable state. *)
THEOREM RelayInductive == RelaySpec => []RelayIInv
  BY RelayInitIInv, RelayNextIInv, PTL DEF RelaySpec

(* The client of a relay holds at most one persistent connection, whatever
   calls, failures and reconnections interleave. *)
THEOREM ClientKeepsOneConnection == RelaySpec => []OneConnection
<1>1. RelayIInv => OneConnection
  BY DEF RelayIInv
<1>2. QED
  BY <1>1, RelayInductive, PTL

(* Only a call that is ready or sending puts anything on the wire, and only
   its own transactions. *)
LEMMA RefusedNotSent ==
  ASSUME RelayIInv, [RelayNext]_relayVars, NEW c \in Senders, NEW i \in refused[c]
  PROVE  sent'[c][i] = sent[c][i]
<1>1. at[c].step = "end" /\ RelayTypeOK
  BY DEF RelayIInv, RefusedIsOver
<1>2. SUFFICES sent'[c] = sent[c]
  OBVIOUS
<1>3. ASSUME NEW d \in Senders, at[d].step # "end", GoesOut(d)
      PROVE  sent'[c] = sent[c]
  BY <1>1, <1>3, OthersNotSent
<1>4. CASE \E d \in Senders, taken, confirms \in BOOLEAN : \E a \in Answers(Transport(d)) :
               Exchange(d, a, taken, confirms)
  BY <1>3, <1>4 DEF Exchange
<1>5. CASE \E d \in Senders, connected, written, taken \in BOOLEAN :
               Shoot(d, connected, written, taken)
  BY <1>3, <1>5 DEF Shoot
<1>6. CASE \E d \in Senders, status \in {200, 401, 503}, taken \in BOOLEAN :
               SendOnOpen(d, status, taken)
  BY <1>3, <1>6, SendOnOpenSends
<1>7. QED
  BY <1>4, <1>5, <1>6
  DEF RelayNext, relayVars, Submit, Reject, Lock, Connect, Opened, CannotOpen, SendOnDead,
      PeerCloses

(* What a relay refused is not sent again by that call, over no transport. *)
THEOREM RefusalsAreFinal == RelaySpec => RefusalIsFinal
<1>1. RelayIInv /\ [RelayNext]_relayVars =>
          [\A c \in Senders : \A i \in refused[c] : sent'[c][i] = sent[c][i]]_relayVars
  BY RefusedNotSent
<1>2. QED
  BY <1>1, RelayInductive, PTL DEF RelaySpec, RefusalIsFinal

(* What a call has collected, and what relays took of it: over a transport
   that answers, whatever has a signature was taken. *)
UnderWay == {"ready"} \cup Locked

Covered(s, t, b, d, k, r) ==
    /\ d \in Seq(Range(d))
    /\ s = "idle" => d = <<>> /\ k = {} /\ r = Nobody
    /\ s # "idle" => b \in Batches /\ k \subseteq 1..b.n
    /\ s \in Locked => t \in Persistent
    /\ s \in UnderWay =>
           /\ r = Nobody /\ Len(d) < b.n
           /\ Acknowledging(t) => 1..Len(d) \subseteq k
    /\ r = 0 =>
           /\ s = "end"
           /\ Acknowledging(t) => k = 1..b.n
           /\ t # "flash" => Len(d) = b.n
           /\ b.wire => d = <<"own">>

CallsCovered ==
    /\ batch = [c \in Senders |-> batch[c]] /\ done = [c \in Senders |-> done[c]]
    /\ took = [c \in Senders |-> took[c]] /\ result = [c \in Senders |-> result[c]]
    /\ \A c \in Senders :
           Covered(at[c].step, Transport(c), batch[c], done[c], took[c], result[c])

LEMMA NobodyNotZero == Nobody # 0
<1>1. 0 \in Int
  OBVIOUS
<1>2. QED
  BY <1>1, NotAStatus, Zenon

LEMMA CoveredInit == RelayInit => CallsCovered
<1>1. SUFFICES ASSUME RelayInit, NEW c \in Senders
      PROVE  Covered(at[c].step, Transport(c), batch[c], done[c], took[c], result[c])
  BY DEF RelayInit, CallsCovered
<1>2. at[c].step = "idle" /\ done[c] = <<>> /\ took[c] = {} /\ result[c] = Nobody
  BY <1>1 DEF RelayInit
<1>3. QED
  BY <1>2, NobodyNotZero DEF Covered, UnderWay, Locked

(* Only the call that moves is to be looked at. *)
LEMMA CoverKeeps ==
  ASSUME NEW c \in Senders, RelayIInv, CallsCovered, Moves(c), legs' = legs,
         batch' = [d \in Senders |-> batch'[d]], done' = [d \in Senders |-> done'[d]],
         took' = [d \in Senders |-> took'[d]], result' = [d \in Senders |-> result'[d]],
         \A d \in Senders \ {c} : /\ batch'[d] = batch[d] /\ done'[d] = done[d]
                                  /\ took'[d] = took[d] /\ result'[d] = result[d],
         Covered(at'[c].step, legs[at'[c].leg], batch'[c], done'[c], took'[c], result'[c])
  PROVE  CallsCovered'
<1>1. \A d \in Senders \ {c} :
          Covered(at'[d].step, legs[at'[d].leg], batch'[d], done'[d], took'[d], result'[d])
  BY DEF CallsCovered, Moves, Transport
<1>2. \A d \in Senders :
          Covered(at'[d].step, legs'[at'[d].leg], batch'[d], done'[d], took'[d], result'[d])
  BY <1>1
<1>3. ASSUME NEW d \in Senders
      PROVE  Covered(at[d].step, Transport(d), batch[d], done[d], took[d], result[d])'
             <=> Covered(at'[d].step, legs'[at'[d].leg], batch'[d], done'[d], took'[d], result'[d])
  BY DEF Covered, Transport
<1>4. QED
  BY <1>2, <1>3 DEF CallsCovered

(* A call that is not yet answered has something left to send: the next of
   its transactions, up to the last a request takes. *)
LEMMA SliceIsInterval ==
  ASSUME NEW c \in Senders, batch[c] \in Batches, Len(done[c]) \in Nat,
         Len(done[c]) < batch[c].n
  PROVE  \E k \in (Len(done[c]) + 1)..batch[c].n :
             /\ Slice(c) = (Len(done[c]) + 1)..k
             /\ batch[c].listed /\ Transport(c) \in Bundled => k = batch[c].n
<1>1. batch[c].n \in Nat /\ BatchLimit \in Nat \ {0}
  BY RelayAssumption DEF Batches
<1> DEFINE next == Len(done[c]) + 1
           n == batch[c].n
<1>2. next \in Nat /\ next <= n
  BY <1>1
<1> HIDE DEF next, n
<1>3. CASE batch[c].listed /\ Transport(c) \in Bundled
  <2>1. Slice(c) = next..n
    BY <1>3 DEF Slice, next, n, Bundled
  <2>2. QED
    BY <1>1, <1>2, <2>1 DEF next, n
<1>4. CASE Transport(c) \in {"temporal http", "temporal quic"}
  <2> DEFINE k == IF n < next + BatchLimit THEN n ELSE next + BatchLimit - 1
  <2>1. Slice(c) = {i \in next..n : i < next + BatchLimit}
    BY <1>4 DEF Slice, next, n, Bundled
  <2>2. k \in next..n /\ {i \in next..n : i < next + BatchLimit} = next..k
    BY <1>1, <1>2 DEF n
  <2>3. Transport(c) \notin Bundled
    BY <1>4 DEF Bundled
  <2>4. QED
    BY <2>1, <2>2, <2>3 DEF next, n
<1>5. CASE ~(batch[c].listed /\ Transport(c) \in Bundled)
             /\ Transport(c) \notin {"temporal http", "temporal quic"}
  <2>1. Slice(c) = {next}
    BY <1>5 DEF Slice, next
  <2>2. {next} = next..next /\ next \in next..n
    BY <1>1, <1>2 DEF n
  <2>3. QED
    BY <1>5, <2>1, <2>2 DEF next, n
<1>6. QED
  BY <1>3, <1>4, <1>5

Copies(m, sig) == [i \in 1..m |-> sig]

LEMMA Extended ==
  ASSUME NEW d, d \in Seq(Range(d)), NEW sig, NEW m \in Nat,
         NEW e, e = d \o Copies(m, sig)
  PROVE  /\ e \in Seq(Range(e)) /\ Len(e) = Len(d) + m
         /\ d = <<>> /\ m = 1 => e = <<sig>>
<1> DEFINE S == Range(d) \cup {sig}
           new == Copies(m, sig)
<1>1. d \in Seq(S)
  BY SeqMonotonic, Zenon
<1>2. new \in Seq(S) /\ Len(new) = m
  BY DEF Copies
<1>3. d = <<>> /\ m = 1 => e = <<sig>>
  <2>1. ASSUME d = <<>>, m = 1 PROVE e = <<sig>>
    <3>1. e = new
      BY <1>2, <2>1, ConcatEmptySeq
    <3>2. QED
      BY <2>1, <3>1 DEF Copies
  <2>2. QED
    BY <2>1
<1> HIDE DEF S, new
<1>4. e = d \o new
  BY DEF new
<1>5. e \in Seq(S) /\ Len(e) = Len(d) + m
  BY <1>1, <1>2, <1>4, ConcatProperties
<1>6. e \in Seq(Range(e))
  BY <1>5, SeqOfRange
<1>7. QED
  BY <1>3, <1>5, <1>6

(* A call that fails is over, or starts anew over the fallback with nothing
   collected. *)
LEMMA FailingCovered ==
  ASSUME NEW c \in Senders, RelayIInv, CallsCovered, at[c].step \in UnderWay,
         NEW code, code # 0, FailsWith(c, code), legs' = legs, batch' = batch,
         took' = [d \in Senders |-> took'[d]],
         \A d \in Senders \ {c} : took'[d] = took[d],
         took'[c] \subseteq 1..batch[c].n
  PROVE  CallsCovered'
<1>1. Covered(at[c].step, Transport(c), batch[c], done[c], took[c], result[c])
  BY DEF CallsCovered
<1>2. batch[c] \in Batches /\ result[c] = Nobody /\ batch[c].n \in Nat \ {0}
      /\ done[c] \in Seq(Range(done[c]))
  BY <1>1, RelayAssumption DEF Covered, UnderWay, Locked, Batches
<1>3. Moves(c)
  BY FailingMoves DEF RelayIInv
<1>4. /\ batch' = [d \in Senders |-> batch'[d]] /\ done' = [d \in Senders |-> done'[d]]
      /\ result' = [d \in Senders |-> result'[d]]
      /\ \A d \in Senders \ {c} : batch'[d] = batch[d] /\ done'[d] = done[d] /\ result'[d] = result[d]
  BY DEF CallsCovered, FailsWith
<1>5. CASE WorthResending(code) /\ at[c].leg < Len(legs)
  <2>1. at'[c].step = "ready" /\ done'[c] = <<>> /\ result'[c] = Nobody
    <3>1. /\ at' = [at EXCEPT ![c] = [step |-> "ready", leg |-> @.leg + 1, again |-> FALSE]]
          /\ done' = [done EXCEPT ![c] = <<>>] /\ result' = result
      BY <1>5 DEF FailsWith
    <3>2. at'[c].step = "ready"
      BY <3>1, LegMoves, <1>5 DEF RelayIInv
    <3>3. done'[c] = <<>>
      BY <3>1 DEF CallsCovered
    <3>4. QED
      BY <1>2, <3>1, <3>2, <3>3
  <2>2. Nobody # 0 /\ Len(<<>>) = 0 /\ 1..0 = {}
    BY NobodyNotZero
  <2>3. Covered(at'[c].step, legs[at'[c].leg], batch'[c], done'[c], took'[c], result'[c])
    BY <1>2, <2>1, <2>2 DEF Covered, UnderWay, Locked
  <2>4. QED
    BY <1>3, <1>4, <2>3, CoverKeeps
<1>6. CASE ~(WorthResending(code) /\ at[c].leg < Len(legs))
  <2>1. /\ at'[c].step = "end" /\ done'[c] = done[c] /\ result'[c] = code
    BY <1>6 DEF FailsWith, CallsCovered, RelayIInv, RelayTypeOK, AtOK
  <2>2. Covered(at'[c].step, legs[at'[c].leg], batch'[c], done'[c], took'[c], result'[c])
    BY <1>2, <2>1 DEF Covered, UnderWay, Locked
  <2>3. QED
    BY <1>3, <1>4, <2>2, CoverKeeps
<1>7. QED
  BY <1>5, <1>6

(* The signatures of a request that was answered are collected. *)
LEMMA CollectingCovered ==
  ASSUME NEW c \in Senders, RelayIInv, CallsCovered, at[c].step \in UnderWay,
         NEW sig, Collects(c, sig), legs' = legs, batch' = batch,
         took' = [d \in Senders |-> took'[d]],
         \A d \in Senders \ {c} : took'[d] = took[d],
         took[c] \subseteq took'[c], took'[c] \subseteq 1..batch[c].n,
         Acknowledging(Transport(c)) => Slice(c) \subseteq took'[c]
  PROVE  CallsCovered'
<1>1. Covered(at[c].step, Transport(c), batch[c], done[c], took[c], result[c])
  BY DEF CallsCovered
<1> DEFINE b == batch[c]
           d == done[c]
<1>2. /\ b \in Batches /\ result[c] = Nobody /\ b.n \in Nat \ {0}
      /\ d \in Seq(Range(d)) /\ Len(d) \in Nat /\ Len(d) < b.n
      /\ Acknowledging(Transport(c)) => 1..Len(d) \subseteq took[c]
  BY <1>1, RelayAssumption DEF Covered, UnderWay, Locked, Batches
<1>3. PICK k \in (Len(d) + 1)..b.n :
          /\ Slice(c) = (Len(d) + 1)..k
          /\ b.listed /\ Transport(c) \in Bundled => k = b.n
  BY <1>2, SliceIsInterval
<1>4. Cardinality(Slice(c)) = k - Len(d)
  <2>1. Len(d) + 1 \in Int /\ k \in Int /\ ~(Len(d) + 1 > k)
    BY <1>2, <1>3
  <2>2. Cardinality((Len(d) + 1)..k) = k - (Len(d) + 1) + 1
    BY <2>1, FS_Interval
  <2>3. QED
    BY <1>2, <1>3, <2>1, <2>2
<1>5. Moves(c) /\ at'[c].leg = at[c].leg
  <2>1. "ready" \in Steps /\ "end" \in Steps /\ FALSE \in BOOLEAN /\ RelayTypeOK
    BY DEF Steps, RelayIInv
  <2>2. \/ at' = [at EXCEPT ![c].step = "end"]
        \/ at' = [at EXCEPT ![c].step = "ready", ![c].again = FALSE]
    BY DEF Collects
  <2>3. QED
    BY <2>1, <2>2, StepMoves, TryMoves
<1> DEFINE dict == Transport(c) = "flash" /\ b.listed /\ sig = "text"
           m == IF dict THEN 1 ELSE Cardinality(Slice(c))
           all == d \o Copies(m, sig)
           last == dict \/ Len(all) = b.n
<1>6. /\ done' = [done EXCEPT ![c] = all]
      /\ IF last
         THEN /\ result' = [result EXCEPT ![c] = IF b.wire /\ sig # "own" THEN 400 ELSE 0]
              /\ at' = [at EXCEPT ![c].step = "end"]
         ELSE /\ at' = [at EXCEPT ![c].step = "ready", ![c].again = FALSE]
              /\ UNCHANGED result
  BY DEF Collects, Copies
<1>7. m \in Nat /\ (dict => m = 1) /\ (~dict => m = k - Len(d))
  BY <1>2, <1>3, <1>4
<1> HIDE DEF m, all
<1>8. /\ all \in Seq(Range(all)) /\ Len(all) = Len(d) + m
      /\ d = <<>> /\ m = 1 => all = <<sig>>
  <2>1. all = d \o Copies(m, sig)
    BY DEF all
  <2>2. d \in Seq(Range(d)) /\ m \in Nat
    BY <1>2, <1>7
  <2> HIDE DEF d
  <2>3. QED
    BY <2>1, <2>2, Extended
<1>9. /\ batch' = [e \in Senders |-> batch'[e]] /\ done' = [e \in Senders |-> done'[e]]
      /\ result' = [e \in Senders |-> result'[e]]
      /\ \A e \in Senders \ {c} : batch'[e] = batch[e] /\ done'[e] = done[e] /\ result'[e] = result[e]
      /\ done'[c] = all
  BY <1>6 DEF CallsCovered
<1>10. Acknowledging(Transport(c)) => 1..k \subseteq took'[c]
  BY <1>2, <1>3
<1>11. dict => k = b.n
  BY <1>3 DEF Bundled
<1>12. Transport(c) = legs[at'[c].leg]
  BY <1>5 DEF Transport
<1>13. Covered(at'[c].step, Transport(c), batch'[c], done'[c], took'[c], result'[c])
  <2>1. CASE last
    <3>1. at'[c].step = "end" /\ result'[c] = IF b.wire /\ sig # "own" THEN 400 ELSE 0
      BY <1>6, <2>1 DEF CallsCovered, RelayIInv, RelayTypeOK, AtOK
    <3>2. k = b.n /\ (~dict => Len(all) = b.n)
      BY <1>2, <1>3, <1>7, <1>8, <1>11, <2>1
    <3>3. Acknowledging(Transport(c)) => took'[c] = 1..b.n
      BY <1>10, <3>2
    <3>4. b.wire /\ result'[c] = 0 => all = <<"own">>
      <4>1. ASSUME b.wire, result'[c] = 0 PROVE all = <<"own">>
        <5>1. sig = "own" /\ ~b.listed /\ b.n = 1
          BY <1>2, <3>1, <4>1 DEF Batches
        <5>2. Len(d) = 0 /\ m = 1 /\ d = <<>>
          BY <1>2, <1>3, <1>7, <5>1, EmptySeq
        <5>3. QED
          BY <1>8, <5>1, <5>2
      <4>2. QED
        BY <4>1
    <3>5. Transport(c) # "flash" => Len(all) = b.n
      BY <3>2
    <3>6. QED
      BY <1>2, <1>8, <1>9, <3>1, <3>3, <3>4, <3>5 DEF Covered, UnderWay, Locked
  <2>2. CASE ~last
    <3>1. at'[c].step = "ready" /\ result'[c] = Nobody
      <4>1. /\ at' = [at EXCEPT ![c].step = "ready", ![c].again = FALSE] /\ result' = result
            /\ "ready" \in Steps /\ FALSE \in BOOLEAN /\ RelayTypeOK
        BY <1>6, <2>2 DEF Steps, RelayIInv
      <4>2. QED
        BY <1>2, <4>1, TryMoves
    <3>2. Len(all) = k /\ k < b.n
      BY <1>2, <1>3, <1>7, <1>8, <2>2
    <3>3. QED
      BY <1>2, <1>8, <1>9, <1>10, <3>1, <3>2, NobodyNotZero DEF Covered, UnderWay, Locked
  <2>3. QED
    BY <2>1, <2>2
<1>14. QED
  BY <1>5, <1>9, <1>12, <1>13, CoverKeeps

LEMMA ConcludingCovered ==
  ASSUME NEW c \in Senders, RelayIInv, CallsCovered, at[c].step \in UnderWay,
         NEW r, Concludes(c, r), legs' = legs, batch' = batch,
         took' = [d \in Senders |-> took'[d]],
         \A d \in Senders \ {c} : took'[d] = took[d],
         took[c] \subseteq took'[c], took'[c] \subseteq 1..batch[c].n,
         r.code = 0 /\ Acknowledging(Transport(c)) => Slice(c) \subseteq took'[c]
  PROVE  CallsCovered'
<1>1. CASE r.code = 0
  <2>1. Collects(c, r.sig)
    BY <1>1 DEF Concludes
  <2>2. QED
    BY <1>1, <2>1, CollectingCovered
<1>2. CASE r.code # 0
  <2>1. FailsWith(c, r.code)
    BY <1>2 DEF Concludes
  <2>2. QED
    BY <1>2, <2>1, FailingCovered
<1>3. QED
  BY <1>1, <1>2

(* What a request may add to what was taken. *)
LEMMA TakingMore ==
  ASSUME NEW c \in Senders, RelayIInv, CallsCovered, at[c].step \in UnderWay,
         NEW taken \in BOOLEAN,
         took' = [took EXCEPT ![c] = IF taken THEN @ \cup Slice(c) ELSE @]
  PROVE  /\ took' = [d \in Senders |-> took'[d]]
         /\ \A d \in Senders \ {c} : took'[d] = took[d]
         /\ took[c] \subseteq took'[c] /\ took'[c] \subseteq 1..batch[c].n
         /\ taken => Slice(c) \subseteq took'[c]
<1>1. Covered(at[c].step, Transport(c), batch[c], done[c], took[c], result[c])
  BY DEF CallsCovered
<1>2. /\ batch[c] \in Batches /\ Len(done[c]) \in Nat /\ Len(done[c]) < batch[c].n
      /\ took[c] \subseteq 1..batch[c].n /\ batch[c].n \in Nat
  BY <1>1, RelayAssumption DEF Covered, UnderWay, Locked, Batches
<1>3. Slice(c) \subseteq 1..batch[c].n
  BY <1>2, SliceIsInterval
<1> DEFINE k == IF taken THEN took[c] \cup Slice(c) ELSE took[c]
<1>4. /\ took[c] \subseteq k /\ k \subseteq 1..batch[c].n /\ (taken => Slice(c) \subseteq k)
  BY <1>2, <1>3
<1>5. took' = [took EXCEPT ![c] = k]
  OBVIOUS
<1> HIDE DEF k
<1>6. QED
  BY <1>4, <1>5 DEF CallsCovered

(* A call goes on, with nothing collected or taken. *)
LEMMA SteppingCovered ==
  ASSUME NEW c \in Senders, RelayIInv, CallsCovered, at[c].step \in UnderWay, Moves(c),
         Transport(c) \in Persistent,
         at'[c].step \in UnderWay, at'[c].leg = at[c].leg,
         UNCHANGED <<legs, batch, done, took, result>>
  PROVE  CallsCovered'
<1>1. Covered(at[c].step, Transport(c), batch[c], done[c], took[c], result[c])
  BY DEF CallsCovered
<1>2. Covered(at'[c].step, legs[at'[c].leg], batch'[c], done'[c], took'[c], result'[c])
  BY <1>1, NobodyNotZero DEF Covered, UnderWay, Locked, Transport
<1>3. /\ batch' = [d \in Senders |-> batch'[d]] /\ done' = [d \in Senders |-> done'[d]]
      /\ took' = [d \in Senders |-> took'[d]] /\ result' = [d \in Senders |-> result'[d]]
      /\ \A d \in Senders \ {c} : /\ batch'[d] = batch[d] /\ done'[d] = done[d]
                                  /\ took'[d] = took[d] /\ result'[d] = result[d]
  BY DEF CallsCovered
<1>4. QED
  BY <1>2, <1>3, CoverKeeps

LEMMA SubmitCovered ==
  ASSUME NEW c \in Senders, NEW b \in Batches, RelayIInv, CallsCovered, Submit(c, b)
  PROVE  CallsCovered'
<1>1. Covered(at[c].step, Transport(c), batch[c], done[c], took[c], result[c])
  BY DEF CallsCovered
<1>2. /\ "ready" \in Steps /\ RelayTypeOK /\ at' = [at EXCEPT ![c].step = "ready"]
      /\ legs' = legs /\ UNCHANGED <<done, took, result>>
      /\ batch' = [batch EXCEPT ![c] = b] /\ at[c].step = "idle"
  BY DEF Submit, Steps, RelayIInv
<1>3. Moves(c) /\ at'[c].step = "ready"
  BY <1>2, StepMoves
<1>4. done[c] = <<>> /\ took[c] = {} /\ result[c] = Nobody /\ Len(<<>>) = 0 /\ 1..0 = {}
  BY <1>1, <1>2 DEF Covered
<1>5. /\ batch' = [d \in Senders |-> batch'[d]] /\ done' = [d \in Senders |-> done'[d]]
      /\ took' = [d \in Senders |-> took'[d]] /\ result' = [d \in Senders |-> result'[d]]
      /\ \A d \in Senders \ {c} : /\ batch'[d] = batch[d] /\ done'[d] = done[d]
                                  /\ took'[d] = took[d] /\ result'[d] = result[d]
      /\ batch'[c] = b
  BY <1>2 DEF CallsCovered
<1>6. b.n \in Nat \ {0}
  BY RelayAssumption DEF Batches
<1>7. Covered(at'[c].step, legs[at'[c].leg], batch'[c], done'[c], took'[c], result'[c])
  BY <1>2, <1>3, <1>4, <1>5, <1>6, NobodyNotZero DEF Covered, UnderWay, Locked
<1>8. QED
  BY <1>2, <1>3, <1>5, <1>7, CoverKeeps

LEMMA RejectCovered ==
  ASSUME NEW c \in Senders, RelayIInv, CallsCovered, Reject(c)
  PROVE  CallsCovered'
<1>1. /\ at[c].step \in UnderWay /\ FailsWith(c, 400) /\ 400 # 0
      /\ legs' = legs /\ batch' = batch /\ took' = took
  BY DEF Reject, UnderWay
<1>2. /\ took' = [d \in Senders |-> took'[d]]
      /\ \A d \in Senders \ {c} : took'[d] = took[d]
      /\ took'[c] \subseteq 1..batch[c].n
  BY <1>1 DEF CallsCovered, Covered, UnderWay, Locked
<1>3. QED
  BY <1>1, <1>2, FailingCovered

(* A client that returns a signature for an answer had the transactions
   taken: an answer that leaves them is an exception. *)
LEMMA ExchangeCovered ==
  ASSUME NEW c \in Senders, NEW a \in Answers(Transport(c)), NEW taken \in BOOLEAN,
         NEW confirms \in BOOLEAN, RelayIInv, CallsCovered, Exchange(c, a, taken, confirms)
  PROVE  CallsCovered'
<1>1. PICK r : r = Outcome(Transport(c), a, c, confirms) /\ Concludes(c, r)
  BY DEF Exchange
<1>2. /\ at[c].step \in UnderWay /\ legs' = legs /\ batch' = batch
      /\ took' = [took EXCEPT ![c] = IF taken THEN @ \cup Slice(c) ELSE @]
      /\ Transport(c) \notin Persistent \cup OneWay /\ Honest(a, taken)
  BY DEF Exchange, UnderWay
<1>3. Transport(c) \in Answering
  BY <1>2, LegsHaveLength DEF RelayIInv, RelayTypeOK, AtOK, Transport, Transports
<1>4. r.code = 0 => taken
  BY <1>1, <1>2, <1>3, LeftOutcome DEF Honest
<1>5. QED
  BY <1>1, <1>2, <1>4, TakingMore, ConcludingCovered

LEMMA ShootCovered ==
  ASSUME NEW c \in Senders, NEW connected \in BOOLEAN, NEW written \in BOOLEAN,
         NEW taken \in BOOLEAN, RelayIInv, CallsCovered, Shoot(c, connected, written, taken)
  PROVE  CallsCovered'
<1>1. /\ at[c].step \in UnderWay /\ legs' = legs /\ batch' = batch
      /\ took' = [took EXCEPT ![c] = IF taken THEN @ \cup Slice(c) ELSE @]
      /\ Transport(c) \in OneWay
      /\ Concludes(c, OwnSignature(c)) \/ FailsWith(c, Broken)
  BY DEF Shoot, UnderWay
<1>2. ~Acknowledging(Transport(c))
  BY <1>1 DEF Acknowledging
<1>3. Broken # 0
  BY DEF Broken
<1>4. QED
  BY <1>1, <1>2, <1>3, TakingMore, ConcludingCovered, FailingCovered

LEMMA LockCovered ==
  ASSUME NEW c \in Senders, RelayIInv, CallsCovered, Lock(c)
  PROVE  CallsCovered'
<1>1. /\ "connect" \in Steps /\ FALSE \in BOOLEAN /\ RelayTypeOK
      /\ at' = [at EXCEPT ![c].step = "connect", ![c].again = FALSE]
      /\ at[c].step \in UnderWay /\ "connect" \in UnderWay /\ Transport(c) \in Persistent
      /\ UNCHANGED <<legs, batch, done, took, result>>
  BY DEF Lock, Steps, Locked, RelayIInv, UnderWay
<1>2. QED
  BY <1>1, TryMoves, SteppingCovered

LEMMA ConnectCovered ==
  ASSUME NEW c \in Senders, RelayIInv, CallsCovered, Connect(c) \/ Opened(c)
  PROVE  CallsCovered'
<1>1. /\ "send" \in Steps /\ "opening" \in Steps /\ RelayTypeOK
      /\ "send" \in UnderWay /\ "opening" \in UnderWay
      /\ at[c].step \in UnderWay /\ at[c].step \in Locked
  BY DEF Steps, Locked, RelayIInv, UnderWay, Connect, Opened
<1>2. /\ UNCHANGED <<legs, batch, done, took, result>>
      /\ at' = [at EXCEPT ![c].step = "send"] \/ at' = [at EXCEPT ![c].step = "opening"]
  BY DEF Connect, Opened
<1>3. Transport(c) \in Persistent
  BY <1>1 DEF CallsCovered, Covered
<1>4. QED
  BY <1>1, <1>2, <1>3, StepMoves, SteppingCovered

LEMMA TroubleCovered ==
  ASSUME NEW c \in Senders, RelayIInv, CallsCovered, at[c].step \in Locked,
         NEW code, code # 0, Trouble(c, code), legs' = legs, batch' = batch,
         took' = [d \in Senders |-> took'[d]],
         \A d \in Senders \ {c} : took'[d] = took[d],
         took[c] \subseteq took'[c], took'[c] \subseteq 1..batch[c].n
  PROVE  CallsCovered'
<1>1. CASE WorthResending(code) /\ ~at[c].again
  <2>1. /\ "connect" \in Steps /\ TRUE \in BOOLEAN /\ RelayTypeOK
        /\ at' = [at EXCEPT ![c].step = "connect", ![c].again = TRUE]
        /\ done' = done /\ result' = result
    BY <1>1 DEF Trouble, Steps, Locked, RelayIInv
  <2>2. Moves(c) /\ at'[c].step = "connect" /\ at'[c].leg = at[c].leg
    BY <2>1, TryMoves
  <2>3. Covered(at[c].step, Transport(c), batch[c], done[c], took[c], result[c])
    BY DEF CallsCovered
  <2>4. Covered(at'[c].step, legs[at'[c].leg], batch'[c], done'[c], took'[c], result'[c])
    BY <2>1, <2>2, <2>3, NobodyNotZero DEF Covered, UnderWay, Locked, Transport
  <2>5. /\ batch' = [d \in Senders |-> batch'[d]] /\ done' = [d \in Senders |-> done'[d]]
        /\ result' = [d \in Senders |-> result'[d]]
    BY <2>1 DEF CallsCovered
  <2>6. QED
    BY <2>1, <2>2, <2>4, <2>5, CoverKeeps
<1>2. CASE ~(WorthResending(code) /\ ~at[c].again)
  <2>1. FailsWith(c, code)
    BY <1>2 DEF Trouble
  <2>2. QED
    BY <2>1, FailingCovered DEF UnderWay
<1>3. QED
  BY <1>1, <1>2

LEMMA CannotOpenCovered ==
  ASSUME NEW c \in Senders, RelayIInv, CallsCovered, CannotOpen(c)
  PROVE  CallsCovered'
<1>1. /\ at[c].step \in Locked /\ Trouble(c, Broken)
      /\ legs' = legs /\ batch' = batch /\ took' = took
  BY DEF CannotOpen, Locked
<1>2. Broken # 0
  BY DEF Broken
<1>3. /\ took' = [d \in Senders |-> took'[d]]
      /\ \A d \in Senders \ {c} : took'[d] = took[d]
      /\ took[c] \subseteq took'[c] /\ took'[c] \subseteq 1..batch[c].n
  BY <1>1 DEF CallsCovered, Covered, Locked
<1>4. QED
  BY <1>1, <1>2, <1>3, TroubleCovered

LEMMA SendOnDeadCovered ==
  ASSUME NEW c \in Senders, RelayIInv, CallsCovered, SendOnDead(c)
  PROVE  CallsCovered'
<1> DEFINE code == IF Transport(c) = "temporal quic" \/ link = Nobody THEN Broken ELSE link
<1>1. /\ at[c].step \in Locked /\ Trouble(c, code)
      /\ legs' = legs /\ batch' = batch /\ took' = took /\ link # Open
  BY DEF SendOnDead, Locked
<1>2. code # 0
  <2>1. Broken # 0 /\ 401 # 0 /\ 503 # 0
    BY DEF Broken
  <2>2. link \in {Nobody, Open, 401, 503}
    BY DEF RelayIInv, RelayTypeOK
  <2>3. link \notin {Nobody, Open} => link # 0
    BY <2>1, <2>2, Zenon
  <2>4. CASE Transport(c) = "temporal quic" \/ link = Nobody
    BY <2>1, <2>4, Zenon
  <2>5. CASE ~(Transport(c) = "temporal quic" \/ link = Nobody)
    BY <1>1, <2>3, <2>5, Zenon
  <2>6. QED
    BY <2>4, <2>5, Zenon
<1> HIDE DEF code
<1>3. /\ took' = [d \in Senders |-> took'[d]]
      /\ \A d \in Senders \ {c} : took'[d] = took[d]
      /\ took[c] \subseteq took'[c] /\ took'[c] \subseteq 1..batch[c].n
  BY <1>1 DEF CallsCovered, Covered, Locked
<1>4. QED
  BY <1>1, <1>2, <1>3, TroubleCovered

(* Temporal's answer to a request over the shared connection. *)
LEMMA SendOnOpenCovered ==
  ASSUME NEW c \in Senders, NEW status \in {200, 401, 503}, NEW taken \in BOOLEAN,
         RelayIInv, CallsCovered, SendOnOpen(c, status, taken)
  PROVE  CallsCovered'
<1>1. at[c].step \in Locked /\ at[c].step \in UnderWay /\ status # 0
  BY SendOnOpenSends DEF Locked, UnderWay
<1>2. took' = [took EXCEPT ![c] = IF taken THEN @ \cup Slice(c) ELSE @]
  BY Zenon DEF SendOnOpen
<1>3. legs' = legs /\ batch' = batch
  BY Zenon DEF SendOnOpen
<1>4. Transport(c) \in Persistent
  BY <1>1 DEF CallsCovered, Covered
<1>5. status = 200 /\ Acknowledging(Transport(c)) => taken
  <2>1. ASSUME status = 200, Acknowledging(Transport(c)) PROVE taken
    <3>1. Transport(c) = "temporal quic"
      BY <1>4, <2>1 DEF Acknowledging, Persistent
    <3>2. ~MayLeave([status |-> status, body |-> "none"])
      BY <2>1 DEF MayLeave, Ok
    <3>3. Honest([status |-> status, body |-> "none"], taken)
      BY <3>1, Zenon DEF SendOnOpen
    <3>4. QED
      BY <3>2, <3>3, Zenon DEF Honest
  <2>2. QED
    BY <2>1
<1>6. /\ took' = [d \in Senders |-> took'[d]]
      /\ \A d \in Senders \ {c} : took'[d] = took[d]
      /\ took[c] \subseteq took'[c] /\ took'[c] \subseteq 1..batch[c].n
      /\ taken => Slice(c) \subseteq took'[c]
  <2>1. at[c].step \in UnderWay
    BY <1>1
  <2>2. CASE taken
    <3>1. took' = [took EXCEPT ![c] = IF TRUE THEN @ \cup Slice(c) ELSE @]
      BY <1>2, <2>2
    <3>2. QED
      BY <2>1, <3>1, TakingMore
  <2>3. CASE ~taken
    <3>1. took' = [took EXCEPT ![c] = took[c]]
      BY <1>2, <2>3
    <3>2. /\ took = [d \in Senders |-> took[d]] /\ took[c] \subseteq 1..batch[c].n
      BY <1>1 DEF CallsCovered, Covered, Locked
    <3>3. QED
      BY <2>3, <3>1, <3>2
  <2>4. QED
    BY <2>2, <2>3
<1>7. CASE status = 200
  <2>1. Concludes(c, OwnSignature(c))
    BY <1>7, Zenon DEF SendOnOpen
  <2>2. QED
    BY <1>1, <1>3, <1>5, <1>7, <1>6, <2>1, ConcludingCovered
<1>8. CASE status # 200
  <2>1. Trouble(c, status)
    BY <1>8, Zenon DEF SendOnOpen
  <2>2. QED
    BY <1>1, <1>3, <1>6, <2>1, TroubleCovered
<1>9. QED
  BY <1>7, <1>8

LEMMA UntouchedCovered ==
  ASSUME CallsCovered, UNCHANGED <<legs, batch, at, done, took, result>>
  PROVE  CallsCovered'
  BY DEF CallsCovered, Covered, Transport

LEMMA RelayNextCovered ==
  ASSUME RelayIInv, CallsCovered, [RelayNext]_relayVars
  PROVE  CallsCovered'
<1>1. CASE UNCHANGED relayVars
  BY <1>1, UntouchedCovered DEF relayVars
<1>2. CASE \E code \in {401, 503} : PeerCloses(code)
  BY <1>2, UntouchedCovered DEF PeerCloses
<1>3. QED
  BY <1>1, <1>2, SubmitCovered, RejectCovered, ExchangeCovered, ShootCovered, LockCovered,
     ConnectCovered, CannotOpenCovered, SendOnDeadCovered, SendOnOpenCovered
  DEF RelayNext

(* A call that returned had all its transactions taken by a relay, over every
   transport that answers, and reports one signature for each; a wire submit
   reports that of its own transaction. *)
THEOREM SuccessMeansTaken == RelaySpec => []SuccessCoversBatch
<1>1. CallsCovered => SuccessCoversBatch
  BY DEF CallsCovered, Covered, SuccessCoversBatch
<1>2. QED
  BY <1>1, RelayInductive, CoveredInit, RelayNextCovered, PTL DEF RelaySpec

---------------------------------------------------------------------------
(* WebSocketHandle, for any buffer and any number of reconnections, tasks,
   messages and breaks, whatever overlaps.  What holds of the lock and of the
   types holds always; the rest as long as no connect() began while a reader
   was alive. *)
Holders == {Unlocked, Connecting, Application}
               \cup {Reader(c) : c \in Tasks} \cup {Runner(c) : c \in Tasks}

ReaderAt ==
    {"none", "opening", "subscribing", "starting", "reading", "joining", "closing", "callback",
     "waiting", "ending"}
RunnerAt == {"none", "ready", "holding", "calling"}
Tallies == [arrived : Nat, delivered : Nat, dropped : Nat]

HandleTypeOK ==
    /\ handleState \in {"PENDING", "ACTIVE", "PAUSED", "ERROR", "CLOSED"}
    /\ ws \in Nat /\ session \in Nat /\ links \in Nat
    /\ current \in Readers /\ serving \in Readers
    /\ reader \in [Readers -> ReaderAt]
    /\ mine \in [Readers -> Nat]
    /\ runner \in [Tasks -> RunnerAt]
    /\ queue \in Nat /\ lock \in Holders /\ halfway \in BOOLEAN
    /\ told \in Tallies

Lives(c) == reader[c] # "none"

(* Who holds the lock stands where the lock is taken. *)
HolderStands ==
    /\ reader[0] \in {"none", "opening", "subscribing"}
    /\ lock = Connecting <=> Lives(0)
    /\ lock = Connecting => "stopped" \notin past
    /\ halfway => Stopping
    /\ \A c \in Tasks : lock = Reader(c) =>
           reader[c] = "ending" \/
           (reader[c] = "callback" /\ {"asked", "from error"} \subseteq past)
    /\ \A c \in Tasks : lock = Runner(c) => runner[c] = "calling" /\ "asked" \in past
    /\ lock = Application => "asked" \in past
    /\ "from error" \in past => "asked" \in past

(* One reader at a time, the one self._reader names until it stops itself. *)
OneReader ==
    /\ \A c, d \in Readers : Lives(c) /\ Lives(d) => c = d
    /\ \A c \in Tasks : Lives(c) => current = c \/ "from error" \in past

(* One runner, the one self._task names until it stops itself. *)
OneRunner ==
    /\ \A c \in Tasks : runner[c] \in {"ready", "holding"} => c = serving
    /\ \A c \in Tasks : runner[c] = "calling" /\ c # serving =>
           handleState = "CLOSED" /\ \A d \in Readers : ~Lives(d)
    /\ "from error" \in past =>
           \/ \E c \in Tasks : lock = Reader(c) /\ reader[c] = "callback"
           \/ \A c \in Tasks : runner[c] = "none"

(* Who can open the handle again. *)
StaysClosed ==
    /\ "from error" \in past => handleState = "CLOSED" \/ \E c \in Tasks : Lives(c)
    /\ halfway => handleState = "CLOSED" \/ \E c \in Tasks : Lives(c) /\ lock # Reader(c)
    /\ halfway /\ "from error" \notin past =>
           handleState = "CLOSED" /\ \A c \in Readers : Lives(c) => lock = Reader(c)
    /\ "stopped" \in past => current = 0 /\ serving = 0
    /\ "stopped" \in past /\ "from error" \notin past =>
           handleState = "CLOSED" /\ ws = 0 /\ session = 0 /\ \A c \in Readers : ~Lives(c)

(* Every open session is self._session or being closed. *)
SessionsOwned ==
    /\ 0 \notin open /\ (session # 0 => session \in open)
    /\ ws # 0 => ws = session
    /\ \A c \in Readers :
           /\ reader[c] \in {"closing", "callback", "waiting"} => session = 0
           /\ reader[c] = "opening" => ws = 0 /\ session # 0 /\ mine[c] = session
           /\ reader[c] = "subscribing" => ws # 0
    /\ session # 0 /\ ws = 0 => \E c \in Readers : reader[c] = "opening"
    /\ "cut" \notin past =>
           \A l \in open : l = session \/ \E c \in Tasks : reader[c] = "closing" /\ mine[c] = l
    /\ "cut" \in past =>
           /\ session = 0 /\ handleState = "CLOSED" /\ \A c \in Readers : ~Lives(c)
           /\ \A k, l \in open : k = l

OneByOne == OneReader /\ OneRunner /\ StaysClosed /\ ("from error" \notin past => SessionsOwned)

(* Until it is closed the handle has one runner, which keeps count. *)
KeptCount ==
    "closed" \notin past =>
        /\ handleState # "CLOSED" /\ ~halfway
        /\ \A c \in Tasks : runner[c] # "none" => c = serving
        /\ told.arrived = told.delivered + told.dropped + queue + InHand

(* A handle nobody stops, over a connection that does not break. *)
Unbroken ==
    "asked" \notin past /\ broken = {} =>
        /\ "overlap" \notin past
        /\ "closed" \in past => handleState = "CLOSED"
        /\ \A c \in Tasks :
               /\ reader[c] \in {"none", "starting", "reading", "joining", "ending"}
               /\ Lives(c) => ws # 0
               /\ reader[c] = "reading" => mine[c] = ws
        /\ handleState = "CLOSED" => \A c \in Tasks : reader[c] \in {"none", "ending"}
        /\ handleState = "CLOSED" \/ (\E c \in Tasks : reader[c] = "ending") =>
               /\ queue = 0 /\ \A c \in Tasks : runner[c] \notin {"holding", "calling"}
               /\ told.arrived = told.delivered + told.dropped

HandleIInv ==
    /\ HandleTypeOK
    /\ HolderStands
    /\ "overlap" \notin past => OneByOne
    /\ KeptCount
    /\ Unbroken

(* Who can hold the lock. *)
LEMMA Locks ==
    /\ Unlocked # Connecting /\ Unlocked # Application /\ Connecting # Application
    /\ Unlocked \in Holders /\ Connecting \in Holders /\ Application \in Holders
    /\ \A c \in Tasks :
           /\ Reader(c) \notin {Unlocked, Connecting, Application} /\ Reader(c) \in Holders
           /\ Runner(c) \notin {Unlocked, Connecting, Application} /\ Runner(c) \in Holders
           /\ \A d \in Tasks :
                  /\ Reader(c) # Runner(d)
                  /\ Reader(c) = Reader(d) => c = d
                  /\ Runner(c) = Runner(d) => c = d
<1>1. /\ Unlocked # Connecting /\ Unlocked # Application /\ Connecting # Application
      /\ Unlocked \in Holders /\ Connecting \in Holders /\ Application \in Holders
    BY DEF Unlocked, Connecting, Application, Holders
<1>2. ASSUME NEW c \in Tasks
      PROVE  /\ Reader(c) \notin {Unlocked, Connecting, Application} /\ Reader(c) \in Holders
             /\ Runner(c) \notin {Unlocked, Connecting, Application} /\ Runner(c) \in Holders
    BY <1>2 DEF Unlocked, Connecting, Application, Holders, Reader, Runner
<1>3. ASSUME NEW c \in Tasks, NEW d \in Tasks
      PROVE  /\ Reader(c) # Runner(d)
             /\ Reader(c) = Reader(d) => c = d
             /\ Runner(c) = Runner(d) => c = d
    BY <1>3 DEF Reader, Runner
<1> QED  BY <1>1, <1>2, <1>3

(* Reader 0 is connect() itself, which runs nothing. *)
LEMMA TheTasks ==
    /\ 0 \in Readers /\ 0 \notin Tasks
    /\ \A c \in Tasks : c \in Readers /\ c # 0
    /\ \A c \in Readers : c = 0 \/ c \in Tasks
<1> QED BY HandleAssumption DEF Tasks, Readers

(* A step of a reader that does not hold the lock: it ends on a closed handle
   only, and a closed handle becomes active through a living reader only. *)
ReaderStep(c) ==
    /\ Lives(c) /\ (c \in Tasks => lock # Reader(c))
    /\ c = 0 => /\ reader[c] \in {"opening", "subscribing"}
                /\ reader'[c] \in {"opening", "subscribing"}
    /\ \A e \in Readers : e # c => reader'[e] = reader[e]
    /\ UNCHANGED <<current, runner, serving, lock, halfway>>
    /\ \A x \in {"stopped", "asked", "from error", "cut", "overlap"} : x \in past' <=> x \in past
    /\ ~Lives(c)' => handleState' = "CLOSED"
    /\ handleState = "CLOSED" => handleState' = "CLOSED" \/ (Lives(c)' /\ c \in Tasks)

(* What such a step keeps; what it does to the transport comes below, reader by reader. *)
LEMMA ReaderStepKeeps ==
    ASSUME HolderStands, "overlap" \notin past => OneByOne, NEW c \in Readers, ReaderStep(c)
    PROVE  HolderStands' /\ ("overlap" \notin past => OneReader /\ OneRunner /\ StaysClosed)'
<1> USE TheTasks DEF Lives, ReaderAt, RunnerAt, Tallies
<1>1. \A e \in Readers : e # c => reader'[e] = reader[e]  BY DEF ReaderStep
<1>2. \A x \in {"stopped", "asked", "from error", "cut", "overlap"} : x \in past' <=> x \in past
    BY DEF ReaderStep
<1>3. UNCHANGED <<current, runner, serving, lock, halfway>> /\ reader[c] # "none"
    BY DEF ReaderStep
<1>4. HolderStands'
  <2>1. (reader[0] \in {"none", "opening", "subscribing"} /\ (lock = Connecting <=> Lives(0)))'
      BY <1>1, <1>3 DEF HolderStands, ReaderStep
  <2>2. (lock = Connecting => "stopped" \notin past)' /\ (halfway => Stopping)'
      BY <1>2, <1>3 DEF HolderStands, Stopping
  <2>3. (\A d \in Tasks : lock = Reader(d) =>
            reader[d] = "ending" \/
            (reader[d] = "callback" /\ {"asked", "from error"} \subseteq past))'
      BY <1>1, <1>2, <1>3 DEF HolderStands, ReaderStep
  <2>4. (\A d \in Tasks : lock = Runner(d) => runner[d] = "calling" /\ "asked" \in past)'
      BY <1>2, <1>3 DEF HolderStands
  <2>5. (lock = Application => "asked" \in past)' /\ ("from error" \in past => "asked" \in past)'
      BY <1>2, <1>3 DEF HolderStands
  <2> QED  BY <2>1, <2>2, <2>3, <2>4, <2>5 DEF HolderStands
<1> SUFFICES ASSUME "overlap" \notin past'  PROVE (OneReader /\ OneRunner /\ StaysClosed)'
    BY <1>4
<1>5. OneReader /\ OneRunner /\ StaysClosed  BY <1>2 DEF OneByOne
<1>6. OneReader'  BY <1>1, <1>2, <1>3, <1>5 DEF OneReader
<1>7. OneRunner'
  <2>1. (\A d \in Tasks : runner[d] \in {"ready", "holding"} => d = serving)'
      BY <1>3, <1>5 DEF OneRunner
  <2>2. (\A d \in Tasks : runner[d] = "calling" /\ d # serving =>
            handleState = "CLOSED" /\ \A e \in Readers : ~Lives(e))'
      BY <1>3, <1>5 DEF OneRunner
  <2>3. ("from error" \in past =>
             \/ \E d \in Tasks : lock = Reader(d) /\ reader[d] = "callback"
             \/ \A d \in Tasks : runner[d] = "none")'
      BY <1>1, <1>2, <1>3, <1>5 DEF OneRunner, ReaderStep
  <2> QED  BY <2>1, <2>2, <2>3 DEF OneRunner
<1>8. StaysClosed'
  <2>1. ("from error" \in past => handleState = "CLOSED" \/ \E d \in Tasks : Lives(d))'
      BY <1>1, <1>2, <1>5 DEF StaysClosed, ReaderStep
  <2>2. (halfway => handleState = "CLOSED" \/ \E d \in Tasks : Lives(d) /\ lock # Reader(d))'
    <3>1. ~Lives(c)' => handleState' = "CLOSED"  BY DEF ReaderStep
    <3>2. handleState = "CLOSED" => handleState' = "CLOSED" \/ (Lives(c)' /\ c \in Tasks)  BY DEF ReaderStep
    <3>3. c \in Tasks => lock # Reader(c)  BY DEF ReaderStep
    <3>4. halfway => handleState = "CLOSED" \/ \E d \in Tasks : Lives(d) /\ lock # Reader(d)
        BY <1>5 DEF StaysClosed
    <3>5. \A d \in Tasks : d # c => (Lives(d)' <=> Lives(d))  BY <1>1
    <3> QED  BY <1>3, <3>1, <3>2, <3>3, <3>4, <3>5
  <2>3. ~(halfway /\ "from error" \notin past)
      BY <1>3, <1>5 DEF StaysClosed, ReaderStep, HolderStands, Stopping
  <2>4. ~("stopped" \in past /\ "from error" \notin past)
      BY <1>3, <1>5 DEF StaysClosed
  <2>5. ("stopped" \in past => current = 0 /\ serving = 0)'
      BY <1>2, <1>3, <1>5 DEF StaysClosed
  <2> QED  BY <1>2, <1>3, <2>1, <2>2, <2>3, <2>4, <2>5 DEF StaysClosed
<1> QED  BY <1>6, <1>7, <1>8

(* Without an overlap a living reader lives alone. *)
LEMMA Alone ==
    ASSUME HandleIInv, "overlap" \notin past, NEW c \in Readers, reader[c] # "none"
    PROVE  \A e \in Readers : e # c => reader[e] = "none"
<1> QED  BY DEF HandleIInv, OneByOne, OneReader, Lives

(* _receive(): the reader starts, its connection breaks, it loses it. *)
LEMMA ReaderStartsKeeps ==
    ASSUME HandleIInv, NEW c \in Tasks, ReaderStarts(c)  PROVE HandleIInv'
<1> USE TheTasks DEF Lives, ReaderAt, RunnerAt, Tallies
<1>a. HandleTypeOK /\ HolderStands /\ KeptCount /\ Unbroken /\ ("overlap" \notin past => OneByOne)
    BY DEF HandleIInv
<1>t. /\ reader \in [Readers -> ReaderAt]
      /\ mine \in [Readers -> Nat] /\ ws \in Nat /\ session \in Nat
    BY <1>a DEF HandleTypeOK
<1>1. /\ reader[c] = "starting"
      /\ UNCHANGED <<handleState, runner, serving, queue, tries, lock, halfway, told, past>>
    BY DEF ReaderStarts, runners
<1>2. /\ \A e \in Readers : e # c => reader'[e] = reader[e] /\ mine'[e] = mine[e]
      /\ UNCHANGED <<current, open, links>>
    BY <1>t DEF ReaderStarts, LetsGo, Reads, transport
<1>3. \/ /\ handleState # "CLOSED" /\ ws = 0
         /\ reader'[c] = "closing" /\ mine'[c] = session /\ ws' = 0 /\ session' = 0
         /\ broken' = broken \cup ({ws} \ {0, session})
      \/ /\ ~(handleState # "CLOSED" /\ ws = 0)
         /\ reader'[c] = (IF handleState = "CLOSED" THEN "none" ELSE "reading") /\ mine'[c] = ws
         /\ UNCHANGED <<ws, session, broken>>
    BY <1>t DEF ReaderStarts, LetsGo, Reads, transport
<1>4. HandleTypeOK'
    BY <1>a, <1>1, <1>2, <1>3, <1>t DEF HandleTypeOK, ReaderStarts, LetsGo, Reads, transport
<1>5. ReaderStep(c)
    BY <1>a, <1>1, <1>2, <1>3 DEF ReaderStep, HolderStands
<1>6. HolderStands' /\ ("overlap" \notin past => OneReader /\ OneRunner /\ StaysClosed)'
    BY <1>a, <1>5, ReaderStepKeeps
<1>7. ASSUME "overlap" \notin past, "from error" \notin past  PROVE SessionsOwned'
  <2>1. OneReader /\ SessionsOwned  BY <1>a, <1>7 DEF OneByOne
  <2>2. \A e \in Readers : e # c => reader[e] = "none"  BY <1>1, <2>1 DEF OneReader
  <2> QED  BY <1>1, <1>2, <1>3, <1>7, <2>1, <2>2 DEF SessionsOwned
<1>8. KeptCount'  BY <1>a, <1>1 DEF KeptCount, InHand
<1>9. Unbroken'
  <2> SUFFICES ASSUME "asked" \notin past, broken' = {}  PROVE Unbroken'
      BY <1>1 DEF Unbroken
  <2>1. broken = {} /\ "overlap" \notin past /\ ws # 0
      BY <1>a, <1>1, <1>3 DEF Unbroken
  <2>2. OneReader  BY <1>a, <2>1 DEF OneByOne
  <2>3. \A e \in Readers : e # c => reader[e] = "none"  BY <1>1, <2>2 DEF OneReader
  <2> QED  BY <1>a, <1>1, <1>2, <1>3, <2>1, <2>3 DEF Unbroken
<1> QED  BY <1>1, <1>4, <1>6, <1>7, <1>8, <1>9 DEF HandleIInv, OneByOne

LEMMA BreaksKeeps ==
    ASSUME HandleIInv, NEW c \in Tasks, Breaks(c)  PROVE HandleIInv'
<1> USE TheTasks DEF Lives, ReaderAt, RunnerAt, Tallies
<1>a. HandleTypeOK /\ HolderStands /\ KeptCount /\ Unbroken /\ ("overlap" \notin past => OneByOne)
    BY DEF HandleIInv
<1>t. /\ reader \in [Readers -> ReaderAt]
      /\ mine \in [Readers -> Nat] /\ ws \in Nat /\ session \in Nat
    BY <1>a DEF HandleTypeOK
<1>1. /\ reader[c] = "reading"
      /\ UNCHANGED <<handleState, runner, serving, queue, tries, lock, halfway, told, past>>
    BY DEF Breaks, Up, readers, runners
<1>2. UNCHANGED <<reader, mine, current, open, links, ws, session>>
    BY <1>t DEF Breaks, Up, readers, runners
<1>3. mine[c] \in open /\ broken' = broken \cup {mine[c]}
    BY <1>t DEF Breaks, Up, readers, runners
<1>4. HandleTypeOK'
    BY <1>a, <1>1, <1>2, <1>3, <1>t DEF HandleTypeOK, Breaks, Up, readers, runners
<1>5. ReaderStep(c)
    BY <1>a, <1>1, <1>2, <1>3 DEF ReaderStep, HolderStands
<1>6. HolderStands' /\ ("overlap" \notin past => OneReader /\ OneRunner /\ StaysClosed)'
    BY <1>a, <1>5, ReaderStepKeeps
<1>7. ASSUME "overlap" \notin past, "from error" \notin past  PROVE SessionsOwned'
  <2>1. SessionsOwned  BY <1>a, <1>7 DEF OneByOne
  <2>2. \A e \in Readers : e # c => reader[e] = "none"  BY <1>1, <1>7, Alone
  <2> QED  BY <1>1, <1>2, <1>3, <1>7, <2>1, <2>2 DEF SessionsOwned
<1>8. KeptCount'  BY <1>a, <1>1 DEF KeptCount, InHand
<1>9. Unbroken'
    BY <1>a, <1>1, <1>2, <1>3 DEF Unbroken
<1> QED  BY <1>1, <1>2, <1>3, <1>4, <1>6, <1>7, <1>8, <1>9 DEF HandleIInv, OneByOne

LEMMA ReaderLosesItKeeps ==
    ASSUME HandleIInv, NEW c \in Tasks, ReaderLosesIt(c)  PROVE HandleIInv'
<1> USE TheTasks DEF Lives, ReaderAt, RunnerAt, Tallies
<1>a. HandleTypeOK /\ HolderStands /\ KeptCount /\ Unbroken /\ ("overlap" \notin past => OneByOne)
    BY DEF HandleIInv
<1>t. /\ reader \in [Readers -> ReaderAt]
      /\ mine \in [Readers -> Nat] /\ ws \in Nat /\ session \in Nat
    BY <1>a DEF HandleTypeOK
<1>1. /\ reader[c] = "reading"
      /\ UNCHANGED <<handleState, runner, serving, queue, tries, lock, halfway, told, past>>
    BY DEF ReaderLosesIt, LetsGo, transport, runners
<1>2. /\ \A e \in Readers : e # c => reader'[e] = reader[e] /\ mine'[e] = mine[e]
      /\ UNCHANGED <<current, open, links>>
    BY <1>t DEF ReaderLosesIt, LetsGo, transport, runners
<1>3. \/ /\ reader'[c] = "closing" /\ mine'[c] = session /\ ws' = 0 /\ session' = 0
         /\ broken' = broken \cup ({ws} \ {0, session})
      \/ /\ handleState = "CLOSED" /\ reader'[c] = "none" /\ mine'[c] = mine[c]
         /\ UNCHANGED <<ws, session, broken>>
    BY <1>t DEF ReaderLosesIt, LetsGo, transport, runners
<1>4. HandleTypeOK'
    BY <1>a, <1>1, <1>2, <1>3, <1>t DEF HandleTypeOK, ReaderLosesIt, LetsGo, transport, runners
<1>5. ReaderStep(c)
    BY <1>a, <1>1, <1>2, <1>3 DEF ReaderStep, HolderStands
<1>6. HolderStands' /\ ("overlap" \notin past => OneReader /\ OneRunner /\ StaysClosed)'
    BY <1>a, <1>5, ReaderStepKeeps
<1>7. ASSUME "overlap" \notin past, "from error" \notin past  PROVE SessionsOwned'
  <2>1. SessionsOwned  BY <1>a, <1>7 DEF OneByOne
  <2>2. \A e \in Readers : e # c => reader[e] = "none"  BY <1>1, <1>7, Alone
  <2> QED  BY <1>1, <1>2, <1>3, <1>7, <2>1, <2>2 DEF SessionsOwned
<1>8. KeptCount'  BY <1>a, <1>1 DEF KeptCount, InHand
<1>9. Unbroken'
  <2> SUFFICES ASSUME "asked" \notin past, broken' = {}  PROVE FALSE
      BY <1>1 DEF Unbroken
  <2>1. broken = {} /\ "overlap" \notin past /\ ws # 0 /\ mine[c] = ws /\ handleState # "CLOSED"
      BY <1>a, <1>1, <1>3 DEF Unbroken
  <2>2. \A e \in Readers : e # c => reader[e] = "none"  BY <1>1, <2>1, Alone
  <2>3. "from error" \notin past  BY <1>a DEF HolderStands
  <2>4. ws \in open  BY <1>a, <2>1, <2>3 DEF OneByOne, SessionsOwned
  <2> QED  BY <1>1, <2>1, <2>2, <2>4 DEF ReaderLosesIt, Up
<1> QED  BY <1>1, <1>2, <1>3, <1>4, <1>6, <1>7, <1>8, <1>9 DEF HandleIInv, OneByOne

(* A notification goes into the queue, or is counted as dropped. *)
LEMMA NotifiedKeeps ==
    ASSUME HandleIInv, NEW c \in Tasks, NEW final \in BOOLEAN, Notified(c, final)  PROVE HandleIInv'
<1> USE TheTasks DEF Lives, ReaderAt, RunnerAt, Tallies
<1>a. HandleTypeOK /\ HolderStands /\ KeptCount /\ Unbroken /\ ("overlap" \notin past => OneByOne)
    BY DEF HandleIInv
<1>t. /\ reader \in [Readers -> ReaderAt]
      /\ mine \in [Readers -> Nat] /\ ws \in Nat /\ session \in Nat
    BY <1>a DEF HandleTypeOK
<1>1. reader[c] = "reading" /\ UNCHANGED <<handleState, runner, serving, tries, lock, halfway, past>>
    BY DEF Notified, runners
<1>2. /\ \A e \in Readers : e # c => reader'[e] = reader[e]
      /\ UNCHANGED <<mine, current, open, links, ws, session, broken>>
    BY <1>t DEF Notified, transport
<1>3. reader'[c] \in {"reading", "joining"}
    BY <1>t DEF Notified, transport
<1>4. HandleTypeOK'
  <2>1. \A n, m \in Nat : [told EXCEPT !.arrived = n, !.dropped = m] \in Tallies
      BY <1>a DEF HandleTypeOK
  <2>2. told.arrived \in Nat /\ told.dropped \in Nat /\ queue' \in Nat
      BY <1>a DEF HandleTypeOK, Notified
  <2> DEFINE lost ==
        IF handleState = "CLOSED" \/ queue < BufferSize THEN told.dropped ELSE told.dropped + 1
  <2>3. told' = [told EXCEPT !.arrived = told.arrived + 1, !.dropped = lost]
      BY DEF Notified
  <2>5. lost \in Nat /\ told.arrived + 1 \in Nat  BY <2>2
  <2> HIDE DEF lost
  <2>4. told' \in Tallies
      BY <2>1, <2>3, <2>5
  <2> QED
    BY <2>2, <2>4, <1>a, <1>1, <1>2, <1>3, <1>t DEF HandleTypeOK, Notified, transport, runners
<1>5. ReaderStep(c)
    BY <1>a, <1>1, <1>2, <1>3 DEF ReaderStep, HolderStands
<1>6. HolderStands' /\ ("overlap" \notin past => OneReader /\ OneRunner /\ StaysClosed)'
    BY <1>a, <1>5, ReaderStepKeeps
<1>7. ASSUME "overlap" \notin past, "from error" \notin past  PROVE SessionsOwned'
  <2>1. SessionsOwned  BY <1>a, <1>7 DEF OneByOne
  <2>2. \A e \in Readers : e # c => reader[e] = "none"  BY <1>1, <1>7, Alone
  <2> QED  BY <1>1, <1>2, <1>3, <1>7, <2>1, <2>2 DEF SessionsOwned
<1>n. /\ told'.arrived = told.arrived + 1 /\ told'.delivered = told.delivered
      /\ handleState # "CLOSED" /\ queue < BufferSize =>
             queue' = queue + 1 /\ told'.dropped = told.dropped
      /\ handleState # "CLOSED" /\ ~(queue < BufferSize) =>
             queue' = queue /\ told'.dropped = told.dropped + 1
    BY <1>a DEF Notified, HandleTypeOK
<1>8. KeptCount'
    BY <1>a, <1>1, <1>n DEF KeptCount, InHand, HandleTypeOK
<1>9. Unbroken'
  <2> SUFFICES ASSUME "asked" \notin past, broken = {}  PROVE Unbroken'
      BY <1>1, <1>2 DEF Unbroken
  <2>1. "overlap" \notin past /\ handleState # "CLOSED"  BY <1>a, <1>1 DEF Unbroken
  <2>2. \A e \in Readers : e # c => reader[e] = "none"  BY <1>1, <2>1, Alone
  <2> QED  BY <1>a, <1>1, <1>2, <1>3, <2>1, <2>2 DEF Unbroken
<1> QED  BY <1>1, <1>2, <1>3, <1>4, <1>6, <1>7, <1>8, <1>9 DEF HandleIInv, OneByOne

(* _handle_error(): the transport closed, the callback, another attempt. *)
LEMMA HandleErrorKeeps ==
    ASSUME HandleIInv, NEW c \in Tasks, HandleError(c)  PROVE HandleIInv'
<1> USE TheTasks DEF Lives, ReaderAt, RunnerAt, Tallies
<1>a. HandleTypeOK /\ HolderStands /\ KeptCount /\ Unbroken /\ ("overlap" \notin past => OneByOne)
    BY DEF HandleIInv
<1>t. /\ reader \in [Readers -> ReaderAt]
      /\ mine \in [Readers -> Nat] /\ ws \in Nat /\ session \in Nat
    BY <1>a DEF HandleTypeOK
<1>1. /\ reader[c] = "closing"
      /\ UNCHANGED <<runner, serving, queue, tries, lock, halfway, told, past>>
    BY DEF HandleError, runners, transport
<1>2. /\ \A e \in Readers : e # c => reader'[e] = reader[e]
      /\ UNCHANGED <<mine, current, links, ws, session, broken>> /\ open' = open \ {mine[c]}
    BY <1>t DEF HandleError, runners, transport
<1>3. \/ handleState = "CLOSED" /\ reader'[c] = "none" /\ handleState' = "CLOSED"
      \/ handleState # "CLOSED" /\ reader'[c] = "callback" /\ handleState' = "ERROR"
    BY <1>t DEF HandleError, runners, transport
<1>4. HandleTypeOK'
    BY <1>a, <1>1, <1>2, <1>3, <1>t DEF HandleTypeOK, HandleError, runners, transport
<1>5. ReaderStep(c)
    BY <1>a, <1>1, <1>2, <1>3 DEF ReaderStep, HolderStands
<1>6. HolderStands' /\ ("overlap" \notin past => OneReader /\ OneRunner /\ StaysClosed)'
    BY <1>a, <1>5, ReaderStepKeeps
<1>7. ASSUME "overlap" \notin past, "from error" \notin past  PROVE SessionsOwned'
  <2>1. SessionsOwned  BY <1>a, <1>7 DEF OneByOne
  <2>2. \A e \in Readers : e # c => reader[e] = "none"  BY <1>1, <1>7, Alone
  <2> QED  BY <1>1, <1>2, <1>3, <1>7, <2>1, <2>2 DEF SessionsOwned
<1>8. KeptCount'  BY <1>a, <1>1, <1>3 DEF KeptCount, InHand
<1>9. Unbroken'
    BY <1>a, <1>1, <1>2, <1>3 DEF Unbroken
<1> QED  BY <1>1, <1>2, <1>3, <1>4, <1>6, <1>7, <1>8, <1>9 DEF HandleIInv, OneByOne

LEMMA CallbackReturnsKeeps ==
    ASSUME HandleIInv, NEW c \in Tasks, CallbackReturns(c)  PROVE HandleIInv'
<1> USE TheTasks DEF Lives, ReaderAt, RunnerAt, Tallies
<1>a. HandleTypeOK /\ HolderStands /\ KeptCount /\ Unbroken /\ ("overlap" \notin past => OneByOne)
    BY DEF HandleIInv
<1>t. /\ reader \in [Readers -> ReaderAt]
      /\ mine \in [Readers -> Nat] /\ ws \in Nat /\ session \in Nat
    BY <1>a DEF HandleTypeOK
<1>1. /\ reader[c] = "callback" /\ lock # Reader(c)
      /\ UNCHANGED <<runner, serving, queue, lock, halfway, told>>
    BY DEF CallbackReturns, runners, transport
<1>2. /\ \A e \in Readers : e # c => reader'[e] = reader[e]
      /\ UNCHANGED <<mine, current, links, ws, session, broken, open>>
    BY <1>t DEF CallbackReturns, runners, transport
<1>3. \/ reader'[c] = "waiting" /\ handleState' = handleState /\ past' = past
      \/ reader'[c] = "ending" /\ handleState' = "CLOSED" /\ past' = past \cup {"closed"}
    BY <1>t DEF CallbackReturns, runners, transport
<1>4. HandleTypeOK'
    BY <1>a, <1>1, <1>2, <1>3, <1>t DEF HandleTypeOK, CallbackReturns, runners, transport
<1>5. ReaderStep(c)
    BY <1>a, <1>1, <1>2, <1>3 DEF ReaderStep, HolderStands
<1>6. HolderStands' /\ ("overlap" \notin past => OneReader /\ OneRunner /\ StaysClosed)'
    BY <1>a, <1>5, ReaderStepKeeps
<1>7. ASSUME "overlap" \notin past, "from error" \notin past  PROVE SessionsOwned'
  <2>1. SessionsOwned  BY <1>a, <1>7 DEF OneByOne
  <2>2. \A e \in Readers : e # c => reader[e] = "none"  BY <1>1, <1>7, Alone
  <2> QED  BY <1>1, <1>2, <1>3, <1>7, <2>1, <2>2 DEF SessionsOwned
<1>8. KeptCount'  BY <1>a, <1>1, <1>3 DEF KeptCount, InHand
<1>9. Unbroken'
    BY <1>a, <1>1, <1>2, <1>3 DEF Unbroken
<1> QED  BY <1>1, <1>2, <1>3, <1>4, <1>6, <1>7, <1>8, <1>9 DEF HandleIInv, OneByOne

LEMMA ReopensKeeps ==
    ASSUME HandleIInv, NEW c \in Tasks, Reopens(c)  PROVE HandleIInv'
<1> USE TheTasks DEF Lives, ReaderAt, RunnerAt, Tallies
<1>a. HandleTypeOK /\ HolderStands /\ KeptCount /\ Unbroken /\ ("overlap" \notin past => OneByOne)
    BY DEF HandleIInv
<1>t. /\ reader \in [Readers -> ReaderAt]
      /\ mine \in [Readers -> Nat] /\ ws \in Nat /\ session \in Nat
    BY <1>a DEF HandleTypeOK
<1>1. /\ reader[c] = "waiting" /\ handleState' = "ACTIVE"
      /\ UNCHANGED <<runner, serving, queue, tries, lock, halfway, told, past>>
    BY DEF Reopens, Opens, runners, transport
<1>2. /\ \A e \in Readers : e # c => reader'[e] = reader[e] /\ mine'[e] = mine[e]
      /\ UNCHANGED <<current, ws, broken>>
    BY <1>t DEF Reopens, Opens, runners, transport
<1>3. /\ reader'[c] = "opening" /\ mine'[c] = links + 1 /\ session' = links + 1
      /\ open' = open \cup {links + 1}
    BY <1>t DEF Reopens, Opens, runners, transport
<1>4. HandleTypeOK'
    BY <1>a, <1>1, <1>2, <1>3, <1>t DEF HandleTypeOK, Reopens, Opens, runners, transport
<1>5. ReaderStep(c)
    BY <1>a, <1>1, <1>2, <1>3 DEF ReaderStep, HolderStands
<1>6. HolderStands' /\ ("overlap" \notin past => OneReader /\ OneRunner /\ StaysClosed)'
    BY <1>a, <1>5, ReaderStepKeeps
<1>7. ASSUME "overlap" \notin past, "from error" \notin past  PROVE SessionsOwned'
  <2>1. SessionsOwned  BY <1>a, <1>7 DEF OneByOne
  <2>2. \A e \in Readers : e # c => reader[e] = "none"  BY <1>1, <1>7, Alone
  <2>3. links + 1 # 0 /\ ws = 0 /\ session = 0
      BY <1>a, <1>1, <2>1 DEF HandleTypeOK, SessionsOwned
  <2> QED  BY <1>1, <1>2, <1>3, <1>7, <2>1, <2>2, <2>3 DEF SessionsOwned
<1>8. KeptCount'  BY <1>a, <1>1 DEF KeptCount, InHand
<1>9. Unbroken'
    BY <1>a, <1>1, <1>2, <1>3 DEF Unbroken
<1> QED  BY <1>1, <1>2, <1>3, <1>4, <1>6, <1>7, <1>8, <1>9 DEF HandleIInv, OneByOne

LEMMA ReopenedKeeps ==
    ASSUME HandleIInv, NEW c \in Tasks, Reopened(c)  PROVE HandleIInv'
<1> USE TheTasks DEF Lives, ReaderAt, RunnerAt, Tallies
<1>a. HandleTypeOK /\ HolderStands /\ KeptCount /\ Unbroken /\ ("overlap" \notin past => OneByOne)
    BY DEF HandleIInv
<1>t. /\ reader \in [Readers -> ReaderAt]
      /\ mine \in [Readers -> Nat] /\ ws \in Nat /\ session \in Nat
    BY <1>a DEF HandleTypeOK
<1>1. /\ reader[c] = "subscribing" /\ ws # 0
      /\ UNCHANGED <<handleState, runner, serving, queue, lock, halfway, told, past>>
    BY DEF Reopened, Reads, runners, transport
<1>2. /\ \A e \in Readers : e # c => reader'[e] = reader[e] /\ mine'[e] = mine[e]
      /\ UNCHANGED <<current, links, ws, session, broken, open>>
    BY <1>t DEF Reopened, Reads, runners, transport
<1>3. reader'[c] = (IF handleState = "CLOSED" THEN "none" ELSE "reading") /\ mine'[c] = ws
    BY <1>t DEF Reopened, Reads, runners, transport
<1>4. HandleTypeOK'
    BY <1>a, <1>1, <1>2, <1>3, <1>t DEF HandleTypeOK, Reopened, Reads, runners, transport
<1>5. ReaderStep(c)
    BY <1>a, <1>1, <1>2, <1>3 DEF ReaderStep, HolderStands
<1>6. HolderStands' /\ ("overlap" \notin past => OneReader /\ OneRunner /\ StaysClosed)'
    BY <1>a, <1>5, ReaderStepKeeps
<1>7. ASSUME "overlap" \notin past, "from error" \notin past  PROVE SessionsOwned'
  <2>1. SessionsOwned  BY <1>a, <1>7 DEF OneByOne
  <2>2. \A e \in Readers : e # c => reader[e] = "none"  BY <1>1, <1>7, Alone
  <2> QED  BY <1>1, <1>2, <1>3, <1>7, <2>1, <2>2 DEF SessionsOwned
<1>8. KeptCount'  BY <1>a, <1>1 DEF KeptCount, InHand
<1>9. Unbroken'
    BY <1>a, <1>1, <1>2, <1>3 DEF Unbroken
<1> QED  BY <1>1, <1>2, <1>3, <1>4, <1>6, <1>7, <1>8, <1>9 DEF HandleIInv, OneByOne

LEMMA ReopenFailsKeeps ==
    ASSUME HandleIInv, NEW c \in Tasks, ReopenFails(c)  PROVE HandleIInv'
<1> USE TheTasks DEF Lives, ReaderAt, RunnerAt, Tallies
<1>a. HandleTypeOK /\ HolderStands /\ KeptCount /\ Unbroken /\ ("overlap" \notin past => OneByOne)
    BY DEF HandleIInv
<1>t. /\ reader \in [Readers -> ReaderAt]
      /\ mine \in [Readers -> Nat] /\ ws \in Nat /\ session \in Nat
    BY <1>a DEF HandleTypeOK
<1>1. /\ reader[c] \in {"opening", "subscribing"}
      /\ UNCHANGED <<handleState, runner, serving, queue, tries, lock, halfway, told, past>>
    BY DEF ReopenFails, LetsGo, runners, transport
<1>2. /\ \A e \in Readers : e # c => reader'[e] = reader[e] /\ mine'[e] = mine[e]
      /\ UNCHANGED <<current, open, links>>
    BY <1>t DEF ReopenFails, LetsGo, runners, transport
<1>3. /\ reader'[c] = "closing" /\ mine'[c] = session /\ ws' = 0 /\ session' = 0
      /\ broken' = broken \cup ({ws} \ {0, session})
    BY <1>t DEF ReopenFails, LetsGo, runners, transport
<1>4. HandleTypeOK'
    BY <1>a, <1>1, <1>2, <1>3, <1>t DEF HandleTypeOK, ReopenFails, LetsGo, runners, transport
<1>5. ReaderStep(c)
    BY <1>a, <1>1, <1>2, <1>3 DEF ReaderStep, HolderStands
<1>6. HolderStands' /\ ("overlap" \notin past => OneReader /\ OneRunner /\ StaysClosed)'
    BY <1>a, <1>5, ReaderStepKeeps
<1>7. ASSUME "overlap" \notin past, "from error" \notin past  PROVE SessionsOwned'
  <2>1. SessionsOwned  BY <1>a, <1>7 DEF OneByOne
  <2>2. \A e \in Readers : e # c => reader[e] = "none"  BY <1>1, <1>7, Alone
  <2> QED  BY <1>1, <1>2, <1>3, <1>7, <2>1, <2>2 DEF SessionsOwned
<1>8. KeptCount'  BY <1>a, <1>1 DEF KeptCount, InHand
<1>9. Unbroken'
    BY <1>a, <1>1, <1>2, <1>3 DEF Unbroken
<1> QED  BY <1>1, <1>2, <1>3, <1>4, <1>6, <1>7, <1>8, <1>9 DEF HandleIInv, OneByOne

(* The final answer of a signature is handed out before the reader stops. *)
LEMMA JoinedKeeps ==
    ASSUME HandleIInv, NEW c \in Tasks, Joined(c)  PROVE HandleIInv'
<1> USE TheTasks DEF Lives, ReaderAt, RunnerAt, Tallies
<1>a. HandleTypeOK /\ HolderStands /\ KeptCount /\ Unbroken /\ ("overlap" \notin past => OneByOne)
    BY DEF HandleIInv
<1>t. /\ reader \in [Readers -> ReaderAt]
      /\ mine \in [Readers -> Nat] /\ ws \in Nat /\ session \in Nat
    BY <1>a DEF HandleTypeOK
<1>1. /\ reader[c] = "joining" /\ queue = 0
      /\ \A d \in Tasks : runner[d] \notin {"holding", "calling"}
      /\ UNCHANGED <<handleState, runner, serving, queue, tries, lock, halfway, told, past>>
    BY DEF Joined, runners, transport
<1>2. /\ \A e \in Readers : e # c => reader'[e] = reader[e]
      /\ UNCHANGED <<mine, current, links, ws, session, broken, open>>
    BY <1>t DEF Joined, runners, transport
<1>3. reader'[c] = "ending"
    BY <1>t DEF Joined, runners, transport
<1>4. HandleTypeOK'
    BY <1>a, <1>1, <1>2, <1>3, <1>t DEF HandleTypeOK, Joined, runners, transport
<1>5. ReaderStep(c)
    BY <1>a, <1>1, <1>2, <1>3 DEF ReaderStep, HolderStands
<1>6. HolderStands' /\ ("overlap" \notin past => OneReader /\ OneRunner /\ StaysClosed)'
    BY <1>a, <1>5, ReaderStepKeeps
<1>7. ASSUME "overlap" \notin past, "from error" \notin past  PROVE SessionsOwned'
  <2>1. SessionsOwned  BY <1>a, <1>7 DEF OneByOne
  <2>2. \A e \in Readers : e # c => reader[e] = "none"  BY <1>1, <1>7, Alone
  <2> QED  BY <1>1, <1>2, <1>3, <1>7, <2>1, <2>2 DEF SessionsOwned
<1>8. KeptCount'  BY <1>a, <1>1 DEF KeptCount, InHand
<1>9. Unbroken'
  <2> SUFFICES ASSUME "asked" \notin past, broken = {}  PROVE Unbroken'
      BY <1>1, <1>2 DEF Unbroken
  <2>1. "overlap" \notin past /\ handleState # "CLOSED" /\ "closed" \notin past
      BY <1>a, <1>1 DEF Unbroken
  <2>2. \A e \in Readers : e # c => reader[e] = "none"  BY <1>1, <2>1, Alone
  <2>3. told.arrived = told.delivered + told.dropped
      BY <1>a, <1>1, <2>1 DEF KeptCount, InHand, HandleTypeOK
  <2> QED  BY <1>a, <1>1, <1>2, <1>3, <2>1, <2>2, <2>3 DEF Unbroken
<1> QED  BY <1>1, <1>2, <1>3, <1>4, <1>6, <1>7, <1>8, <1>9 DEF HandleIInv, OneByOne

(* The connection of connect() or of a reader is there. *)
LEMMA WsConnectedKeeps ==
    ASSUME HandleIInv, NEW c \in Readers, WsConnected(c)  PROVE HandleIInv'
<1> USE TheTasks DEF Lives, ReaderAt, RunnerAt, Tallies
<1>a. HandleTypeOK /\ HolderStands /\ KeptCount /\ Unbroken /\ ("overlap" \notin past => OneByOne)
    BY DEF HandleIInv
<1>t. /\ reader \in [Readers -> ReaderAt]
      /\ mine \in [Readers -> Nat] /\ ws \in Nat /\ session \in Nat
    BY <1>a DEF HandleTypeOK
<1>1. /\ reader[c] = "opening"
      /\ UNCHANGED <<handleState, runner, serving, queue, tries, lock, halfway, told, past>>
    BY DEF WsConnected, runners, transport
<1>2. /\ \A e \in Readers : e # c => reader'[e] = reader[e]
      /\ UNCHANGED <<mine, current, links, session, broken, open>>
    BY <1>t DEF WsConnected, runners, transport
<1>3. reader'[c] = "subscribing" /\ ws' = mine[c] /\ mine[c] \in open
    BY <1>t DEF WsConnected, runners, transport
<1>4. HandleTypeOK'
    BY <1>a, <1>1, <1>2, <1>3, <1>t DEF HandleTypeOK, WsConnected, runners, transport
<1>5. ReaderStep(c)
    BY <1>a, <1>1, <1>2, <1>3 DEF ReaderStep, HolderStands
<1>6. HolderStands' /\ ("overlap" \notin past => OneReader /\ OneRunner /\ StaysClosed)'
    BY <1>a, <1>5, ReaderStepKeeps
<1>7. ASSUME "overlap" \notin past, "from error" \notin past  PROVE SessionsOwned'
  <2>1. SessionsOwned  BY <1>a, <1>7 DEF OneByOne
  <2>2. \A e \in Readers : e # c => reader[e] = "none"  BY <1>1, <1>7, Alone
  <2> QED  BY <1>1, <1>2, <1>3, <1>7, <2>1, <2>2 DEF SessionsOwned
<1>8. KeptCount'  BY <1>a, <1>1 DEF KeptCount, InHand
<1>9. Unbroken'
  <2> SUFFICES ASSUME "asked" \notin past, broken = {}  PROVE Unbroken'
      BY <1>1, <1>2 DEF Unbroken
  <2>1. "overlap" \notin past  BY <1>a DEF Unbroken
  <2>2. \A e \in Readers : e # c => reader[e] = "none"  BY <1>1, <2>1, Alone
  <2>3. c = 0  BY <1>a, <1>1 DEF Unbroken
  <2> QED  BY <1>a, <1>1, <1>2, <1>3, <2>1, <2>2, <2>3 DEF Unbroken
<1> QED  BY <1>1, <1>2, <1>3, <1>4, <1>6, <1>7, <1>8, <1>9 DEF HandleIInv, OneByOne

(* A step that leaves the readers, the transport and the lock alone. *)
RunnersStep ==
    /\ UNCHANGED <<reader, mine, current, ws, session, open, links, broken, serving, tries, lock,
                   halfway, past>>
    /\ handleState' = "CLOSED" <=> handleState = "CLOSED"
    /\ \A c \in Tasks : lock = Runner(c) => runner'[c] = runner[c]
    /\ \A c \in Tasks : runner'[c] # "none" => runner[c] # "none"
    /\ \A c \in Tasks : runner'[c] = "calling" => runner[c] \in {"calling", "holding"}
    /\ \A c \in Tasks : runner'[c] \in {"ready", "holding"} =>
           runner[c] \in {"ready", "holding"} \/ handleState # "CLOSED"

(* What such a step keeps, but for the count. *)
LEMMA RunnersStepKeeps ==
    ASSUME HandleTypeOK, HandleTypeOK', HolderStands, "overlap" \notin past => OneByOne, RunnersStep
    PROVE  HolderStands' /\ ("overlap" \notin past => OneByOne)'
<1> USE TheTasks DEF Lives, ReaderAt, RunnerAt, Tallies
<1>a. runner \in [Tasks -> RunnerAt]
      /\ runner' \in [Tasks -> RunnerAt]
    BY DEF HandleTypeOK
<1>1. UNCHANGED <<reader, mine, current, ws, session, open, links, broken, serving, tries, lock,
                  halfway, past>>
    BY DEF RunnersStep
<1>2. /\ handleState' = "CLOSED" <=> handleState = "CLOSED"
      /\ \A c \in Tasks : /\ lock = Runner(c) => runner'[c] = runner[c]
                          /\ runner'[c] # "none" => runner[c] # "none"
                          /\ runner'[c] = "calling" => runner[c] \in {"calling", "holding"}
                          /\ runner'[c] \in {"ready", "holding"} =>
                                runner[c] \in {"ready", "holding"} \/ handleState # "CLOSED"
    BY DEF RunnersStep
<1>3. HolderStands'
  <2>1. (\A c \in Tasks : lock = Runner(c) => runner[c] = "calling" /\ "asked" \in past)'
      BY <1>1, <1>2 DEF HolderStands
  <2> QED  BY <1>1, <2>1 DEF HolderStands, Stopping
<1>4. ASSUME "overlap" \notin past  PROVE OneByOne'
  <2>1. OneReader'  BY <1>1, <1>4 DEF OneByOne, OneReader
  <2>2. OneRunner'
    <3>1. OneRunner  BY <1>4 DEF OneByOne
    <3>2. \A c \in Tasks : runner[c] # "none" =>
             c = serving \/ (runner[c] = "calling" /\ handleState = "CLOSED")
        BY <1>a, <3>1 DEF OneRunner, HandleTypeOK
    <3>3. (\A c \in Tasks : runner[c] \in {"ready", "holding"} => c = serving)'
        BY <1>1, <1>2, <3>1, <3>2 DEF OneRunner
    <3>4. (\A c \in Tasks : runner[c] = "calling" /\ c # serving =>
              handleState = "CLOSED" /\ \A d \in Readers : ~Lives(d))'
        BY <1>1, <1>2, <3>1 DEF OneRunner
    <3>5. ("from error" \in past =>
               \/ \E c \in Tasks : lock = Reader(c) /\ reader[c] = "callback"
               \/ \A c \in Tasks : runner[c] = "none")'
        BY <1>1, <1>2, <1>a, <3>1 DEF OneRunner, HandleTypeOK
    <3> QED  BY <3>3, <3>4, <3>5 DEF OneRunner
  <2>3. StaysClosed'
    <3>1. StaysClosed  BY <1>4 DEF OneByOne
    <3> QED  BY <1>1, <1>2, <3>1 DEF StaysClosed
  <2>4. ("from error" \notin past => SessionsOwned)'
    <3> SUFFICES ASSUME "from error" \notin past  PROVE SessionsOwned'
        BY <1>1
    <3>1. SessionsOwned  BY <1>4 DEF OneByOne
    <3> QED  BY <1>1, <1>2, <3>1 DEF SessionsOwned
  <2> QED  BY <2>1, <2>2, <2>3, <2>4 DEF OneByOne
<1> QED  BY <1>1, <1>3, <1>4

(* pause() and resume(), and the runner's four steps. *)
LEMMA PauseKeeps ==
    ASSUME HandleIInv, Pause  PROVE HandleIInv'
<1> USE TheTasks DEF Lives, ReaderAt, RunnerAt, Tallies
<1>a. HandleTypeOK /\ HolderStands /\ KeptCount /\ Unbroken /\ ("overlap" \notin past => OneByOne)
    BY DEF HandleIInv
<1>1. /\ handleState # "CLOSED" /\ handleState' # "CLOSED"
      /\ UNCHANGED <<reader, mine, current, ws, session, open, links, broken, serving, tries, lock,
                  halfway, past, runner, queue, told>>
    BY <1>a DEF Pause, transport, readers, runners, HandleTypeOK
<1>2. HandleTypeOK'
    BY <1>a, <1>1 DEF Pause, HandleTypeOK
<1>3. RunnersStep  BY <1>a, <1>1 DEF RunnersStep, HolderStands
<1>4. HolderStands' /\ ("overlap" \notin past => OneByOne)'  BY <1>a, <1>2, <1>3, RunnersStepKeeps
<1>5. KeptCount'  BY <1>a, <1>1 DEF KeptCount, InHand
<1>6. Unbroken'  BY <1>a, <1>1 DEF Unbroken
<1> QED  BY <1>2, <1>4, <1>5, <1>6 DEF HandleIInv

LEMMA ResumeKeeps ==
    ASSUME HandleIInv, Resume  PROVE HandleIInv'
<1> USE TheTasks DEF Lives, ReaderAt, RunnerAt, Tallies
<1>a. HandleTypeOK /\ HolderStands /\ KeptCount /\ Unbroken /\ ("overlap" \notin past => OneByOne)
    BY DEF HandleIInv
<1>1. /\ handleState # "CLOSED" /\ handleState' # "CLOSED"
      /\ UNCHANGED <<reader, mine, current, ws, session, open, links, broken, serving, tries, lock,
                  halfway, past, runner, queue, told>>
    BY <1>a DEF Resume, transport, readers, runners, HandleTypeOK
<1>2. HandleTypeOK'
    BY <1>a, <1>1 DEF Resume, HandleTypeOK
<1>3. RunnersStep  BY <1>a, <1>1 DEF RunnersStep, HolderStands
<1>4. HolderStands' /\ ("overlap" \notin past => OneByOne)'  BY <1>a, <1>2, <1>3, RunnersStepKeeps
<1>5. KeptCount'  BY <1>a, <1>1 DEF KeptCount, InHand
<1>6. Unbroken'  BY <1>a, <1>1 DEF Unbroken
<1> QED  BY <1>2, <1>4, <1>5, <1>6 DEF HandleIInv

LEMMA TakesKeeps ==
    ASSUME HandleIInv, NEW c \in Tasks, Takes(c)  PROVE HandleIInv'
<1> USE TheTasks DEF Lives, ReaderAt, RunnerAt, Tallies
<1>a. HandleTypeOK /\ HolderStands /\ KeptCount /\ Unbroken /\ ("overlap" \notin past => OneByOne)
    BY DEF HandleIInv
<1>1. /\ runner[c] = "ready" /\ runner'[c] = "holding" /\ queue > 0 /\ queue' = queue - 1
      /\ \A e \in Tasks : e # c => runner'[e] = runner[e]
      /\ UNCHANGED <<reader, mine, current, ws, session, open, links, broken, serving, tries, lock,
                  halfway, past, handleState, told>>
    BY <1>a DEF Takes, transport, readers, runners, HandleTypeOK
<1>2. HandleTypeOK'
    BY <1>a, <1>1 DEF Takes, HandleTypeOK
<1>3. RunnersStep  BY <1>a, <1>1 DEF RunnersStep, HolderStands
<1>4. HolderStands' /\ ("overlap" \notin past => OneByOne)'  BY <1>a, <1>2, <1>3, RunnersStepKeeps
<1>5. KeptCount'
  <2> SUFFICES ASSUME "closed" \notin past  PROVE KeptCount'
      BY <1>1 DEF KeptCount
  <2>1. \A d \in Tasks : runner[d] # "none" => d = serving  BY <1>a DEF KeptCount
  <2>2. InHand = 0 /\ InHand' = 1  BY <1>1, <2>1 DEF InHand
  <2> QED  BY <1>a, <1>1, <2>1, <2>2 DEF KeptCount, HandleTypeOK
<1>6. Unbroken'  BY <1>a, <1>1 DEF Unbroken, HandleTypeOK
<1> QED  BY <1>2, <1>4, <1>5, <1>6 DEF HandleIInv

LEMMA DeliversKeeps ==
    ASSUME HandleIInv, NEW c \in Tasks, Delivers(c)  PROVE HandleIInv'
<1> USE TheTasks DEF Lives, ReaderAt, RunnerAt, Tallies
<1>a. HandleTypeOK /\ HolderStands /\ KeptCount /\ Unbroken /\ ("overlap" \notin past => OneByOne)
    BY DEF HandleIInv
<1>1. /\ runner[c] = "holding" /\ runner'[c] = "calling" /\ handleState # "CLOSED"
      /\ \A e \in Tasks : e # c => runner'[e] = runner[e]
      /\ UNCHANGED <<reader, mine, current, ws, session, open, links, broken, serving, tries, lock,
                  halfway, past, handleState, queue>>
    BY <1>a DEF Delivers, transport, readers, runners, HandleTypeOK
<1>2. HandleTypeOK'
  <2>1. \A n \in Nat : [told EXCEPT !.delivered = n] \in Tallies
      BY <1>a DEF HandleTypeOK
  <2>2. told' = [told EXCEPT !.delivered = told.delivered + 1] /\ told.delivered + 1 \in Nat
      BY <1>a DEF HandleTypeOK, Delivers
  <2>3. told' \in Tallies  BY <2>1, <2>2
  <2> QED  BY <1>a, <1>1, <2>3 DEF Delivers, HandleTypeOK
<1>3. RunnersStep  BY <1>a, <1>1 DEF RunnersStep, HolderStands
<1>4. HolderStands' /\ ("overlap" \notin past => OneByOne)'  BY <1>a, <1>2, <1>3, RunnersStepKeeps
<1>5. KeptCount'
  <2> SUFFICES ASSUME "closed" \notin past  PROVE KeptCount'
      BY <1>1 DEF KeptCount
  <2>1. \A d \in Tasks : runner[d] # "none" => d = serving  BY <1>a DEF KeptCount
  <2>2. InHand = 1 /\ InHand' = 0  BY <1>1, <2>1 DEF InHand
  <2>3. /\ told'.arrived = told.arrived /\ told'.delivered = told.delivered + 1
        /\ told'.dropped = told.dropped
      BY <1>a DEF Delivers, HandleTypeOK
  <2> QED  BY <1>a, <1>1, <2>1, <2>2, <2>3 DEF KeptCount, HandleTypeOK
<1>6. Unbroken'  BY <1>a, <1>1 DEF Unbroken
<1> QED  BY <1>2, <1>4, <1>5, <1>6 DEF HandleIInv

LEMMA ReturnsKeeps ==
    ASSUME HandleIInv, NEW c \in Tasks, Returns(c)  PROVE HandleIInv'
<1> USE TheTasks DEF Lives, ReaderAt, RunnerAt, Tallies
<1>a. HandleTypeOK /\ HolderStands /\ KeptCount /\ Unbroken /\ ("overlap" \notin past => OneByOne)
    BY DEF HandleIInv
<1>1. /\ runner[c] = "calling" /\ runner'[c] = (IF handleState = "CLOSED" THEN "none" ELSE "ready")
      /\ lock # Runner(c)
      /\ \A e \in Tasks : e # c => runner'[e] = runner[e]
      /\ UNCHANGED <<reader, mine, current, ws, session, open, links, broken, serving, tries, lock,
                  halfway, past, handleState, queue, told>>
    BY <1>a DEF Returns, transport, readers, runners, HandleTypeOK
<1>2. HandleTypeOK'
    BY <1>a, <1>1 DEF Returns, HandleTypeOK
<1>3. RunnersStep  BY <1>a, <1>1 DEF RunnersStep, HolderStands
<1>4. HolderStands' /\ ("overlap" \notin past => OneByOne)'  BY <1>a, <1>2, <1>3, RunnersStepKeeps
<1>5. KeptCount'  BY <1>a, <1>1 DEF KeptCount, InHand
<1>6. Unbroken'  BY <1>a, <1>1 DEF Unbroken
<1> QED  BY <1>2, <1>4, <1>5, <1>6 DEF HandleIInv

LEMMA RunnerEndsKeeps ==
    ASSUME HandleIInv, NEW c \in Tasks, RunnerEnds(c)  PROVE HandleIInv'
<1> USE TheTasks DEF Lives, ReaderAt, RunnerAt, Tallies
<1>a. HandleTypeOK /\ HolderStands /\ KeptCount /\ Unbroken /\ ("overlap" \notin past => OneByOne)
    BY DEF HandleIInv
<1>1. /\ runner[c] \in {"ready", "holding"} /\ runner'[c] = "none" /\ handleState = "CLOSED"
      /\ \A e \in Tasks : e # c => runner'[e] = runner[e]
      /\ UNCHANGED <<reader, mine, current, ws, session, open, links, broken, serving, tries, lock,
                  halfway, past, handleState, queue, told>>
    BY <1>a DEF RunnerEnds, transport, readers, runners, HandleTypeOK
<1>2. HandleTypeOK'
    BY <1>a, <1>1 DEF RunnerEnds, HandleTypeOK
<1>3. RunnersStep  BY <1>a, <1>1 DEF RunnersStep, HolderStands
<1>4. HolderStands' /\ ("overlap" \notin past => OneByOne)'  BY <1>a, <1>2, <1>3, RunnersStepKeeps
<1>5. KeptCount'  BY <1>a, <1>1 DEF KeptCount, InHand
<1>6. Unbroken'  BY <1>a, <1>1 DEF Unbroken
<1> QED  BY <1>2, <1>4, <1>5, <1>6 DEF HandleIInv

(* stop() takes the lock: w is who called it. *)
TakesLock(w) ==
    /\ lock = Unlocked /\ lock' = w /\ w \in Holders \ {Unlocked, Connecting}
    /\ UNCHANGED <<handleState, ws, session, open, links, broken, reader, mine, current, runner, serving,
                   queue, tries, halfway, told>>
    /\ \A x \in {"stopped", "closed", "cut", "overlap"} : x \in past' <=> x \in past
    /\ \A x \in {"asked", "from error"} : x \in past => x \in past'
    /\ w = Application => "asked" \in past'
    /\ "from error" \in past' /\ "from error" \notin past =>
           "asked" \in past' /\ \E c \in Tasks : w = Reader(c) /\ reader[c] = "callback"
    /\ \A c \in Tasks : w = Reader(c) =>
           reader[c] = "ending" \/
           (reader[c] = "callback" /\ {"asked", "from error"} \subseteq past')
    /\ \A c \in Tasks : w = Runner(c) => runner[c] = "calling" /\ "asked" \in past'

(* What taking it keeps. *)
LEMMA TakesLockKeeps ==
    ASSUME HandleIInv, NEW w, TakesLock(w)  PROVE HandleIInv'
<1> USE TheTasks DEF Lives, ReaderAt, RunnerAt, Tallies
<1>a. HandleTypeOK /\ HolderStands /\ KeptCount /\ Unbroken /\ ("overlap" \notin past => OneByOne)
    BY DEF HandleIInv
<1>1. /\ lock = Unlocked /\ lock' = w /\ w \in Holders \ {Unlocked, Connecting}
      /\ UNCHANGED <<handleState, ws, session, open, links, broken, reader, mine, current, runner,
                      serving, queue, tries, halfway, told>>
    BY DEF TakesLock
<1>2. /\ \A x \in {"stopped", "closed", "cut", "overlap"} : x \in past' <=> x \in past
      /\ \A x \in {"asked", "from error"} : x \in past => x \in past'
    BY DEF TakesLock
<1>3. "from error" \in past' /\ "from error" \notin past =>
          "asked" \in past' /\ \E c \in Tasks : lock' = Reader(c) /\ reader[c] = "callback"
    BY <1>1 DEF TakesLock
<1>4. halfway = FALSE /\ lock # Connecting /\ \A c \in Tasks : lock # Reader(c) /\ lock # Runner(c)
    BY <1>a, <1>1, Locks DEF HolderStands, Stopping, HandleTypeOK
<1>5. HandleTypeOK'  BY <1>a, <1>1 DEF HandleTypeOK
<1>6. HolderStands'
    BY <1>a, <1>1, <1>2, <1>3, <1>4, Locks DEF HolderStands, TakesLock
<1>7. ASSUME "overlap" \notin past  PROVE OneByOne'
  <2>1. OneReader'  BY <1>a, <1>1, <1>2, <1>7 DEF OneByOne, OneReader
  <2>2. OneRunner'
    <3>1. OneRunner  BY <1>a, <1>7 DEF OneByOne
    <3> QED  BY <1>1, <1>2, <1>3, <1>4, <3>1 DEF OneRunner
  <2>3. StaysClosed'
    <3>1. StaysClosed  BY <1>a, <1>7 DEF OneByOne
    <3> QED  BY <1>1, <1>2, <1>3, <1>4, <3>1 DEF StaysClosed
  <2>4. ("from error" \notin past => SessionsOwned)'
    <3> SUFFICES ASSUME "from error" \notin past  PROVE SessionsOwned'
        BY <1>2
    <3>1. SessionsOwned  BY <1>a, <1>7 DEF OneByOne
    <3> QED  BY <1>1, <1>2, <3>1 DEF SessionsOwned
  <2> QED  BY <2>1, <2>2, <2>3, <2>4 DEF OneByOne
<1>8. KeptCount'  BY <1>a, <1>1, <1>2 DEF KeptCount, InHand
<1>9. Unbroken'  BY <1>a, <1>1, <1>2 DEF Unbroken
<1> QED  BY <1>2, <1>5, <1>6, <1>7, <1>8, <1>9 DEF HandleIInv

(* stop() from the application, from the message callback, and by a reader. *)
LEMMA StopKeeps ==
    ASSUME HandleIInv, Stop  PROVE HandleIInv'
<1>3. Application.who = "application"  BY DEF Application
<1>1. past' = past \cup {"asked"}  BY <1>3 DEF Stop, StopBegins
<1>2. TakesLock(Application)
    BY <1>1, Locks DEF TakesLock, Stop, StopBegins, transport, readers, runners
<1> QED  BY <1>2, TakesLockKeeps

LEMMA CallbackStopsKeeps ==
    ASSUME HandleIInv, NEW c \in Tasks, CallbackStops(c)  PROVE HandleIInv'
<1>1. Runner(c).who = "runner"  BY DEF Runner
<1>2. past' = past \cup {"asked"}  BY <1>1 DEF CallbackStops, StopBegins
<1>3. TakesLock(Runner(c))
    BY <1>2, Locks DEF TakesLock, CallbackStops, StopBegins, transport, readers, runners
<1> QED  BY <1>3, TakesLockKeeps

LEMMA ReaderStopsKeeps ==
    ASSUME HandleIInv, NEW c \in Tasks, ReaderStops(c)  PROVE HandleIInv'
<1>1. Reader(c).who = "reader" /\ Reader(c).task = c  BY DEF Reader
<1>2. past' = past \cup (IF reader[c] = "callback" THEN {"asked", "from error"} ELSE {})
    BY <1>1, Locks DEF ReaderStops, StopBegins
<1>3. TakesLock(Reader(c))
    BY <1>2, Locks DEF TakesLock, ReaderStops, StopBegins, transport, readers, runners
<1> QED  BY <1>3, TakesLockKeeps

(* connect() begins, fails, or gets through. *)
LEMMA ConnectBeginsKeeps ==
    ASSUME HandleIInv, ConnectBegins  PROVE HandleIInv'
<1> USE TheTasks DEF Lives, ReaderAt, RunnerAt, Tallies
<1>a. HandleTypeOK /\ HolderStands /\ KeptCount /\ Unbroken /\ ("overlap" \notin past => OneByOne)
    BY DEF HandleIInv
<1>t. /\ reader \in [Readers -> ReaderAt]
      /\ mine \in [Readers -> Nat] /\ ws \in Nat /\ session \in Nat
    BY <1>a DEF HandleTypeOK
<1>1. /\ lock = Unlocked /\ lock' = Connecting /\ handleState # "CLOSED" /\ ws = 0
      /\ UNCHANGED <<handleState, ws, broken, current, runner, serving, queue, tries, halfway, told>>
    BY DEF ConnectBegins, Opens, runners
<1>2. /\ reader'[0] = "opening" /\ mine'[0] = links + 1
      /\ \A e \in Readers : e # 0 => reader'[e] = reader[e] /\ mine'[e] = mine[e]
      /\ links' = links + 1 /\ session' = links + 1 /\ open' = open \cup {links + 1}
    BY <1>t DEF ConnectBegins, Opens
<1>3. /\ "stopped" \notin past'
      /\ \A x \in {"asked", "from error", "closed", "cut"} : x \in past' <=> x \in past
      /\ "overlap" \in past' <=> "overlap" \in past \/ \E c \in Tasks : reader[c] # "none"
    BY DEF ConnectBegins
<1>4. /\ halfway = FALSE /\ reader[0] = "none"
      /\ \A c \in Tasks : /\ lock # Reader(c) /\ lock # Runner(c)
                          /\ lock' # Reader(c) /\ lock' # Runner(c)
    BY <1>a, <1>1, Locks DEF HolderStands, Stopping, HandleTypeOK
<1>5. HandleTypeOK'
    BY <1>a, <1>1, <1>2, <1>t, Locks DEF HandleTypeOK, ConnectBegins, Opens
<1>6. HolderStands'
    BY <1>a, <1>1, <1>2, <1>3, <1>4, Locks DEF HolderStands
<1>7. ASSUME "overlap" \notin past'  PROVE OneByOne'
  <2>1. OneByOne /\ "overlap" \notin past /\ \A c \in Tasks : reader[c] = "none"
      BY <1>a, <1>3, <1>7
  <2>2. OneReader'  BY <1>2, <2>1 DEF OneReader
  <2>3. "from error" \notin past'  BY <1>1, <1>3, <2>1 DEF OneByOne, StaysClosed
  <2>4. OneRunner'  BY <1>1, <2>1, <2>3 DEF OneByOne, OneRunner
  <2>5. StaysClosed'  BY <1>1, <1>3, <1>4, <2>3 DEF StaysClosed
  <2>6. SessionsOwned'
    <3>3. SessionsOwned  BY <1>3, <2>1, <2>3 DEF OneByOne
    <3>1. SessionsOwned /\ links + 1 # 0  BY <1>a, <3>3 DEF HandleTypeOK
    <3>2. session = 0 /\ "cut" \notin past  BY <1>1, <1>4, <2>1, <3>1 DEF SessionsOwned
    <3> QED  BY <1>1, <1>2, <1>3, <1>4, <2>1, <3>1, <3>2 DEF SessionsOwned
  <2> QED  BY <2>2, <2>4, <2>5, <2>6 DEF OneByOne
<1>8. KeptCount'  BY <1>a, <1>1, <1>3 DEF KeptCount, InHand
<1>9. Unbroken'  BY <1>a, <1>1, <1>2, <1>3 DEF Unbroken
<1> QED  BY <1>5, <1>6, <1>7, <1>8, <1>9 DEF HandleIInv

LEMMA ConnectFailsKeeps ==
    ASSUME HandleIInv, ConnectFails  PROVE HandleIInv'
<1> USE TheTasks DEF Lives, ReaderAt, RunnerAt, Tallies
<1>a. HandleTypeOK /\ HolderStands /\ KeptCount /\ Unbroken /\ ("overlap" \notin past => OneByOne)
    BY DEF HandleIInv
<1>t. /\ reader \in [Readers -> ReaderAt]
      /\ mine \in [Readers -> Nat] /\ ws \in Nat /\ session \in Nat
    BY <1>a DEF HandleTypeOK
<1>1. /\ reader[0] \in {"opening", "subscribing"} /\ lock' = Unlocked
      /\ UNCHANGED <<handleState, mine, links, current, runner, serving, queue, tries, halfway, told,
                     past>>
    BY DEF ConnectFails, ClosesTransport, runners
<1>2. /\ reader'[0] = "none" /\ \A e \in Readers : e # 0 => reader'[e] = reader[e]
      /\ ws' = 0 /\ session' = 0 /\ open' = open \ {session}
      /\ broken' = broken \cup ({ws} \ {0, session})
    BY <1>t DEF ConnectFails, ClosesTransport
<1>3. lock = Connecting /\ "stopped" \notin past /\ halfway = FALSE
    BY <1>a, <1>1, Locks DEF HolderStands, Stopping, HandleTypeOK
<1>4. \A c \in Tasks : /\ lock # Reader(c) /\ lock # Runner(c)
                       /\ lock' # Reader(c) /\ lock' # Runner(c)
    BY <1>1, <1>3, Locks
<1>5. HandleTypeOK'
    BY <1>a, <1>1, <1>2, <1>t, Locks DEF HandleTypeOK, ConnectFails, ClosesTransport
<1>6. HolderStands'
    BY <1>a, <1>1, <1>2, <1>3, <1>4, Locks DEF HolderStands
<1>7. ASSUME "overlap" \notin past  PROVE OneByOne'
  <2>1. OneByOne /\ \A c \in Readers : c # 0 => reader[c] = "none"
      BY <1>a, <1>1, <1>7, Alone
  <2>2. OneReader'  BY <1>2, <2>1 DEF OneReader
  <2>3. OneRunner'
      BY <1>1, <1>2, <1>3, <1>4, <2>1 DEF OneByOne, OneRunner
  <2>4. StaysClosed'  BY <1>1, <1>2, <1>3, <1>4, <2>1 DEF OneByOne, StaysClosed
  <2>5. ("from error" \notin past => SessionsOwned)'
      BY <1>1, <1>2, <2>1 DEF OneByOne, SessionsOwned
  <2> QED  BY <2>2, <2>3, <2>4, <2>5 DEF OneByOne
<1>8. KeptCount'  BY <1>a, <1>1 DEF KeptCount, InHand
<1>9. Unbroken'
  <2> SUFFICES ASSUME "asked" \notin past, broken' = {}  PROVE Unbroken'
      BY <1>1 DEF Unbroken
  <2>1. broken = {} /\ "overlap" \notin past  BY <1>a, <1>1, <1>2 DEF Unbroken
  <2>2. \A c \in Readers : c # 0 => reader[c] = "none"  BY <1>1, <2>1, Alone
  <2> QED  BY <1>a, <1>1, <1>2, <2>1, <2>2 DEF Unbroken
<1> QED  BY <1>1, <1>5, <1>6, <1>7, <1>8, <1>9 DEF HandleIInv

LEMMA ConnectedKeeps ==
    ASSUME HandleIInv, Connected  PROVE HandleIInv'
<1> USE TheTasks DEF Lives, ReaderAt, RunnerAt, Tallies
<1>a. HandleTypeOK /\ HolderStands /\ KeptCount /\ Unbroken /\ ("overlap" \notin past => OneByOne)
    BY DEF HandleIInv
<1>t. /\ reader \in [Readers -> ReaderAt]
      /\ mine \in [Readers -> Nat] /\ ws \in Nat /\ session \in Nat
    BY <1>a DEF HandleTypeOK
<1>1. /\ reader[0] = "subscribing" /\ ws # 0 /\ lock' = Unlocked
      /\ UNCHANGED <<ws, session, open, links, broken, mine, queue, halfway, told, past>>
    BY DEF Connected, transport
<1>3. lock = Connecting /\ "stopped" \notin past /\ halfway = FALSE
    BY <1>a, <1>1, Locks DEF HolderStands, Stopping, HandleTypeOK
<1>4. \A c \in Tasks : /\ lock # Reader(c) /\ lock # Runner(c)
                       /\ lock' # Reader(c) /\ lock' # Runner(c)
    BY <1>1, <1>3, Locks
<1>5. CASE handleState = "CLOSED"
  <2>1. /\ reader'[0] = "none" /\ \A e \in Readers : e # 0 => reader'[e] = reader[e]
        /\ UNCHANGED <<handleState, current, runner, serving>>
      BY <1>t, <1>5 DEF Connected, runners
  <2>2. HandleTypeOK'
      BY <1>a, <1>1, <1>5, <1>t, <2>1, Locks DEF HandleTypeOK, Connected
  <2>3. HolderStands'  BY <1>a, <1>1, <1>3, <1>4, <2>1, Locks DEF HolderStands
  <2>4. ASSUME "overlap" \notin past  PROVE OneByOne'
    <3>1. OneByOne /\ \A c \in Readers : c # 0 => reader[c] = "none"
        BY <1>a, <1>1, <2>4, Alone
    <3>2. OneReader'  BY <2>1, <3>1 DEF OneReader
    <3>3. OneRunner'  BY <1>1, <1>3, <1>4, <2>1, <3>1 DEF OneByOne, OneRunner
    <3>4. StaysClosed'  BY <1>1, <1>3, <1>4, <1>5, <2>1, <3>1 DEF OneByOne, StaysClosed
    <3>5. ("from error" \notin past => SessionsOwned)'
        BY <1>1, <2>1, <3>1 DEF OneByOne, SessionsOwned
    <3> QED  BY <3>2, <3>3, <3>4, <3>5 DEF OneByOne
  <2>5. KeptCount'  BY <1>a, <1>1, <2>1 DEF KeptCount, InHand
  <2>6. Unbroken'  BY <1>a, <1>1, <2>1 DEF Unbroken
  <2> QED  BY <1>1, <2>2, <2>3, <2>4, <2>5, <2>6 DEF HandleIInv
<1>6. CASE handleState # "CLOSED"
  <2>1. PICK c \in Tasks :
            /\ reader[c] = "none" /\ runner[c] = "none" /\ handleState' = "ACTIVE" /\ current' = c
            /\ reader' = [reader EXCEPT ![0] = "none", ![c] = "starting"]
            /\ IF serving # 0 /\ runner[serving] # "none"
               THEN UNCHANGED <<runner, serving>>
               ELSE runner' = [runner EXCEPT ![c] = "ready"] /\ serving' = c
      BY <1>6 DEF Connected, Free, runners
  <2>2. /\ reader'[0] = "none" /\ reader'[c] = "starting"
        /\ \A e \in Readers : e # 0 /\ e # c => reader'[e] = reader[e]
      BY <1>t, <2>1
  <2>3. HandleTypeOK'
      BY <1>a, <1>1, <1>t, <2>1, Locks DEF HandleTypeOK, Connected
  <2>4. HolderStands'
      BY <1>a, <1>1, <1>3, <1>4, <2>2, Locks DEF HolderStands
  <2>r. \/ /\ serving # 0 /\ runner[serving] # "none" /\ UNCHANGED <<runner, serving>>
        \/ /\ serving = 0 \/ runner[serving] = "none"
           /\ runner'[c] = "ready" /\ serving' = c
           /\ \A d \in Tasks : d # c => runner'[d] = runner[d]
      BY <1>a, <2>1 DEF HandleTypeOK
  <2>5. ASSUME "overlap" \notin past  PROVE OneByOne'
    <3>1. OneByOne /\ \A d \in Readers : d # 0 => reader[d] = "none"
        BY <1>a, <1>1, <2>5, Alone
    <3>2. "from error" \notin past  BY <1>6, <3>1 DEF OneByOne, StaysClosed
    <3>3. OneReader'  BY <2>1, <2>2, <3>1 DEF OneReader
    <3>4. \A d \in Tasks : runner[d] # "none" => d = serving
        BY <1>a, <1>6, <3>1 DEF OneByOne, OneRunner, HandleTypeOK
    <3>5. \A d \in Tasks : runner'[d] # "none" => d = serving'
        BY <2>r, <3>4
    <3>6. OneRunner'  BY <1>1, <3>2, <3>5 DEF OneRunner
    <3>7. StaysClosed'  BY <1>1, <1>3, <3>2 DEF StaysClosed
    <3>8. SessionsOwned'
        BY <1>1, <1>6, <2>1, <2>2, <3>1, <3>2 DEF OneByOne, SessionsOwned
    <3> QED  BY <3>3, <3>6, <3>7, <3>8 DEF OneByOne
  <2>6. KeptCount'
    <3> SUFFICES ASSUME "closed" \notin past  PROVE KeptCount'
        BY <1>1 DEF KeptCount
    <3>1. \A d \in Tasks : runner[d] # "none" => d = serving  BY <1>a DEF KeptCount
    <3>2. \A d \in Tasks : (runner'[d] = "holding") <=> (runner[d] = "holding")
        BY <2>1, <2>r
    <3>3. InHand' = InHand  BY <3>2 DEF InHand
    <3> QED  BY <1>a, <1>1, <1>3, <2>1, <2>r, <3>1, <3>3 DEF KeptCount
  <2>7. Unbroken'
    <3> SUFFICES ASSUME "asked" \notin past, broken = {}  PROVE Unbroken'
        BY <1>1 DEF Unbroken
    <3>1. "overlap" \notin past /\ "closed" \notin past  BY <1>a, <1>6 DEF Unbroken
    <3>2. \A d \in Readers : d # 0 => reader[d] = "none"  BY <1>1, <3>1, Alone
    <3> QED  BY <1>1, <2>1, <2>2, <3>1, <3>2 DEF Unbroken
  <2> QED  BY <1>1, <2>3, <2>4, <2>5, <2>6, <2>7 DEF HandleIInv
<1> QED  BY <1>5, <1>6

(* stop() closes the handle and cancels the reader, then the runner. *)
LEMMA StopClosesKeeps ==
    ASSUME HandleIInv, StopCloses  PROVE HandleIInv'
<1> USE TheTasks DEF Lives, ReaderAt, RunnerAt, Tallies
<1>a. HandleTypeOK /\ HolderStands /\ KeptCount /\ Unbroken /\ ("overlap" \notin past => OneByOne)
    BY DEF HandleIInv
<1>t. /\ reader \in [Readers -> ReaderAt]
      /\ mine \in [Readers -> Nat] /\ ws \in Nat /\ session \in Nat
    BY <1>a DEF HandleTypeOK
<1>1. /\ Stopping /\ ~halfway /\ halfway' = TRUE /\ handleState' = "CLOSED"
      /\ UNCHANGED <<links, mine, current, runner, serving, queue, tries, lock, told>>
    BY DEF StopCloses, runners, ClosesTransport, transport
<1>2. lock # Unlocked /\ lock # Connecting /\ reader[0] = "none" /\ current \in Readers
    BY <1>a, <1>1 DEF Stopping, HolderStands, HandleTypeOK
<1>3. /\ \A x \in {"asked", "from error", "overlap", "stopped"} : x \in past' <=> x \in past
      /\ "closed" \in past'
      /\ "cut" \in past' <=>
             "cut" \in past \/ (current # 0 /\ lock # Reader(current) /\ reader[current] = "closing")
  <2>1. CASE current = 0 \/ lock = Reader(current)
    <3>1. past' = past \cup {"closed"}  BY <2>1 DEF StopCloses
    <3> QED  BY <2>1, <3>1
  <2>2. CASE ~(current = 0 \/ lock = Reader(current))
    <3>1. past' = past \cup {"closed"} \cup (IF reader[current] = "closing" THEN {"cut"} ELSE {})
        BY <2>2 DEF StopCloses
    <3> QED  BY <2>2, <3>1
  <2> QED  BY <2>1, <2>2
<1>4. \/ /\ current = 0 \/ lock = Reader(current)
         /\ UNCHANGED <<reader, ws, session, open, broken>>
      \/ /\ current \in Tasks /\ lock # Reader(current) /\ reader'[current] = "none"
         /\ \A e \in Readers : e # current => reader'[e] = reader[e]
         /\ \/ /\ reader[current] \notin {"opening", "subscribing"}
               /\ UNCHANGED <<ws, session, open, broken>>
            \/ /\ reader[current] \in {"opening", "subscribing"}
               /\ ws' = 0 /\ session' = 0 /\ open' = open \ {session}
               /\ broken' = broken \cup ({ws} \ {0, session})
    BY <1>t, <1>2 DEF StopCloses, ClosesTransport, transport
<1>5. /\ \A e \in Readers : reader'[e] # "none" => reader'[e] = reader[e]
      /\ \A e \in Tasks : lock = Reader(e) => reader'[e] = reader[e]
    BY <1>4, Locks
<1>6. HandleTypeOK'
    BY <1>a, <1>1, <1>2, <1>t DEF HandleTypeOK, StopCloses, ClosesTransport, transport
<1>7. HolderStands'
    BY <1>a, <1>1, <1>2, <1>3, <1>5 DEF HolderStands, Stopping
<1>8. ASSUME "overlap" \notin past  PROVE OneByOne'
  <2>1. OneReader /\ OneRunner /\ StaysClosed /\ ("from error" \notin past => SessionsOwned)
      BY <1>a, <1>8 DEF OneByOne
  <2>2. OneReader'  BY <1>1, <1>3, <1>5, <2>1 DEF OneReader
  <2>3. OneRunner'  BY <1>1, <1>3, <1>5, <2>1 DEF OneRunner
  <2>4. "from error" \notin past => \A e \in Readers : reader'[e] # "none" => lock = Reader(e)
      BY <1>2, <1>4, <1>5, <2>1 DEF OneReader
  <2>5. StaysClosed'
    <3>1. (ws = 0 => ws' = 0) /\ (session = 0 => session' = 0)  BY <1>4
    <3>2. \A e \in Readers : reader'[e] # "none" => reader[e] # "none"  BY <1>5
    <3>3. ("stopped" \in past => current = 0 /\ serving = 0)'
        BY <1>1, <1>3, <2>1 DEF StaysClosed
    <3>4. ("stopped" \in past /\ "from error" \notin past =>
              handleState = "CLOSED" /\ ws = 0 /\ session = 0 /\ \A e \in Readers : ~Lives(e))'
        BY <1>1, <1>3, <2>1, <3>1, <3>2 DEF StaysClosed
    <3> QED  BY <1>1, <1>3, <2>4, <3>3, <3>4 DEF StaysClosed
  <2>6. ASSUME "from error" \notin past  PROVE SessionsOwned'
    <3>1. SessionsOwned  BY <2>1, <2>6
    <3>2. \A e \in Tasks : lock = Reader(e) => reader[e] = "ending"
        BY <1>a, <2>6 DEF HolderStands
    <3>3. \A e \in Readers : reader'[e] # "none" => reader'[e] = "ending"
        BY <1>2, <1>5, <2>4, <2>6, <3>2
    <3>4. \A e \in Readers : reader[e] # "none" /\ e # current => FALSE
        BY <1>2, <2>1, <2>6 DEF OneReader
    <3>5. session' # 0 => ws' # 0
        BY <1>2, <1>4, <3>1, <3>2, <3>4 DEF SessionsOwned
    <3>6. CASE "cut" \in past
        BY <1>1, <1>3, <1>4, <3>1, <3>3, <3>6 DEF SessionsOwned
    <3>7. CASE "cut" \notin past /\ reader[current] = "closing"
      <4>1. current \in Tasks /\ lock # Reader(current)  BY <1>2, <3>2, <3>7
      <4>2. reader'[current] = "none" /\ UNCHANGED <<ws, session, open, broken>>
          BY <1>4, <3>7, <4>1
      <4>3. \A e \in Readers : reader'[e] = "none"  BY <1>5, <3>4, <4>2
      <4>4. session = 0 /\ \A l \in open : l = mine[current]
          BY <3>1, <3>4, <3>7, <4>1 DEF SessionsOwned
      <4>5. ws = 0 /\ 0 \notin open  BY <3>1, <4>4 DEF SessionsOwned
      <4> QED  BY <1>1, <1>3, <3>7, <4>1, <4>2, <4>3, <4>4, <4>5 DEF SessionsOwned
    <3>8. CASE "cut" \notin past /\ reader[current] # "closing"
        BY <1>1, <1>2, <1>3, <1>4, <3>1, <3>3, <3>4, <3>5, <3>8 DEF SessionsOwned
    <3> QED  BY <3>6, <3>7, <3>8
  <2> QED  BY <1>3, <2>2, <2>3, <2>5, <2>6 DEF OneByOne
<1>9. KeptCount'  BY <1>3 DEF KeptCount
<1>10. Unbroken'
  <2> SUFFICES ASSUME "asked" \notin past, broken' = {}  PROVE Unbroken'
      BY <1>3 DEF Unbroken
  <2>1. broken = {} /\ "overlap" \notin past  BY <1>a, <1>4 DEF Unbroken
  <2>2. PICK c \in Tasks : lock = Reader(c) /\ reader[c] = "ending"
      BY <1>a, <1>1 DEF HolderStands, Stopping, HandleTypeOK, Holders
  <2>3. \A e \in Readers : e # c => reader[e] = "none"  BY <2>1, <2>2, Alone
  <2>4. current = c
      BY <1>a, <2>1, <2>2 DEF HolderStands, OneByOne, OneReader
  <2>5. UNCHANGED <<reader, ws, session, open, broken>>  BY <1>4, <2>2, <2>4
  <2>6. \A e \in Tasks : reader[e] \in {"none", "ending"}  BY <2>2, <2>3
  <2>7. queue = 0 /\ (\A e \in Tasks : runner[e] \notin {"holding", "calling"})
        /\ told.arrived = told.delivered + told.dropped
      BY <1>a, <2>1, <2>2 DEF Unbroken
  <2>8. \A e \in Tasks : reader[e] # "none" => ws # 0
      BY <1>a, <2>1 DEF Unbroken
  <2> QED  BY <1>1, <1>3, <2>1, <2>5, <2>6, <2>7, <2>8 DEF Unbroken
<1> QED  BY <1>3, <1>6, <1>7, <1>8, <1>9, <1>10 DEF HandleIInv

LEMMA StopEndsKeeps ==
    ASSUME HandleIInv, StopEnds  PROVE HandleIInv'
<1> USE TheTasks DEF Lives, ReaderAt, RunnerAt, Tallies
<1>a. HandleTypeOK /\ HolderStands /\ KeptCount /\ Unbroken /\ ("overlap" \notin past => OneByOne)
    BY DEF HandleIInv
<1>t. /\ reader \in [Readers -> ReaderAt]
      /\ mine \in [Readers -> Nat] /\ ws \in Nat /\ session \in Nat
    BY <1>a DEF HandleTypeOK
<1>1. /\ Stopping /\ halfway /\ halfway' = FALSE /\ lock' = Unlocked
      /\ current' = 0 /\ serving' = 0
      /\ ws' = 0 /\ session' = 0 /\ open' = open \ {session}
      /\ broken' = broken \cup ({ws} \ {0, session})
      /\ UNCHANGED <<handleState, links, mine, queue, tries, told>>
    BY DEF StopEnds, ClosesTransport
<1>2. lock # Unlocked /\ lock # Connecting /\ reader[0] = "none"
    BY <1>a, <1>1 DEF Stopping, HolderStands
<1>3. \A d \in Tasks : runner'[d] # "none" =>
          runner'[d] = runner[d] /\ (d # serving \/ lock = Runner(d))
    BY <1>a, <1>2 DEF StopEnds, HandleTypeOK
<1>w. /\ \A c \in Tasks : Reader(c).who = "reader" /\ Reader(c).task = c /\ Runner(c).who # "reader"
      /\ Application.who # "reader"
    BY DEF Reader, Runner, Application
<1>4. \/ lock = Application
      \/ \E c \in Tasks : lock = Runner(c)
      \/ \E c \in Tasks : lock = Reader(c)
    BY <1>a, <1>2 DEF HandleTypeOK, Holders
<1>5. \/ \E c \in Tasks : /\ lock = Reader(c) /\ reader[c] = "ending" /\ reader'[c] = "none"
                          /\ \A e \in Readers : e # c => reader'[e] = reader[e]
                          /\ past' = past
      \/ /\ \A c \in Tasks : lock = Reader(c) => reader[c] # "ending"
         /\ past' = past \cup {"stopped"} /\ reader' = reader
    BY <1>t, <1>4, <1>w, Locks DEF StopEnds
<1>6. /\ \A x \in {"asked", "from error", "overlap", "closed", "cut"} : x \in past' <=> x \in past
      /\ \A e \in Readers : reader'[e] # "none" => reader'[e] = reader[e]
    BY <1>5
<1>7. HandleTypeOK'
  <2>1. runner' \in [Tasks -> RunnerAt]
      BY <1>a DEF HandleTypeOK, StopEnds
  <2>2. reader' \in [Readers -> ReaderAt]
      BY <1>t DEF StopEnds
  <2> QED  BY <1>a, <1>1, <2>1, <2>2, Locks DEF HandleTypeOK
<1>n. \A c \in Tasks : lock' # Reader(c) /\ lock' # Runner(c)  BY <1>1, Locks
<1>8. HolderStands'
    BY <1>a, <1>1, <1>2, <1>6, <1>n, Locks DEF HolderStands
<1>9. ASSUME "overlap" \notin past  PROVE OneByOne'
  <2>1. OneReader /\ OneRunner /\ StaysClosed /\ ("from error" \notin past => SessionsOwned)
      BY <1>a, <1>9 DEF OneByOne
  <2>2. \A c \in Tasks : lock = Reader(c) =>
            reader[c] = "ending" \/ (reader[c] = "callback" /\ "from error" \in past)
      BY <1>a DEF HolderStands
  <2>3. "from error" \notin past =>
            handleState = "CLOSED" /\ \A e \in Readers : reader'[e] = "none"
    <3>1. "from error" \notin past =>
              handleState = "CLOSED" /\ \A e \in Readers : reader[e] # "none" => lock = Reader(e)
        BY <1>1, <2>1 DEF StaysClosed
    <3> QED  BY <1>2, <1>5, <1>6, <2>2, <3>1, Locks
  <2>r. \A d \in Tasks : runner'[d] # "none" =>
            runner'[d] = "calling" /\ "from error" \notin past
    <3>1. \A d \in Tasks : runner'[d] # "none" /\ lock = Runner(d) => runner'[d] = "calling"
        BY <1>3, <1>a DEF HolderStands
    <3>2. \A d \in Tasks : runner'[d] # "none" /\ lock # Runner(d) =>
              runner'[d] = "calling" /\ d # serving
        BY <1>3, <1>a, <2>1 DEF OneRunner, HandleTypeOK
    <3>3. ASSUME "from error" \in past, NEW d \in Tasks, runner'[d] # "none"  PROVE FALSE
      <4>1. PICK c \in Tasks : lock = Reader(c) /\ reader[c] = "callback"
          BY <1>3, <2>1, <3>3 DEF OneRunner
      <4>2. runner[d] = "calling" /\ d # serving  BY <1>3, <3>2, <3>3, <4>1, Locks
      <4> QED  BY <2>1, <4>1, <4>2 DEF OneRunner
    <3> QED  BY <3>1, <3>2, <3>3
  <2>4. OneReader'
    <3>1. (\A c, d \in Readers : Lives(c) /\ Lives(d) => c = d)'
        BY <1>6, <2>1 DEF OneReader
    <3> QED  BY <1>6, <2>3, <3>1 DEF OneReader
  <2>5. OneRunner'
      BY <1>1, <1>6, <2>3, <2>r DEF OneRunner
  <2>6. StaysClosed'
    <3>1. "from error" \in past => handleState = "CLOSED" \/ \E d \in Tasks : reader'[d] # "none"
      <4>1. handleState = "CLOSED" \/ \E d \in Tasks : Lives(d) /\ lock # Reader(d)
          BY <1>1, <2>1 DEF StaysClosed
      <4> QED  BY <1>5, <4>1
    <3> QED  BY <1>1, <1>6, <2>3, <3>1 DEF StaysClosed
  <2>7. ASSUME "from error" \notin past  PROVE SessionsOwned'
    <3>1. SessionsOwned  BY <2>1, <2>7
    <3>2. \A e \in Tasks : reader[e] # "closing"
        BY <1>1, <2>1, <2>2, <2>7 DEF StaysClosed
    <3> QED  BY <1>1, <1>6, <2>3, <2>7, <3>1, <3>2 DEF SessionsOwned
  <2> QED  BY <1>6, <2>4, <2>5, <2>6, <2>7 DEF OneByOne
<1>10. KeptCount'  BY <1>a, <1>1, <1>6 DEF KeptCount
<1>11. Unbroken'
  <2> SUFFICES ASSUME "asked" \notin past, broken' = {}  PROVE Unbroken'
      BY <1>6 DEF Unbroken
  <2>1. broken = {} /\ "overlap" \notin past  BY <1>a, <1>1 DEF Unbroken
  <2>2. PICK c \in Tasks : lock = Reader(c) /\ reader[c] = "ending"
      BY <1>a, <1>4 DEF HolderStands
  <2>3. \A e \in Readers : e # c => reader[e] = "none"  BY <2>1, <2>2, Alone
  <2>4. \A e \in Tasks : reader'[e] = "none"
      BY <1>5, <2>2, <2>3, Locks
  <2>5. queue = 0 /\ (\A e \in Tasks : runner[e] \notin {"holding", "calling"})
        /\ told.arrived = told.delivered + told.dropped
      BY <1>a, <2>1, <2>2 DEF Unbroken
  <2>6. \A e \in Tasks : runner'[e] \notin {"holding", "calling"}  BY <1>3, <2>5
  <2>7. "closed" \in past => handleState = "CLOSED"  BY <1>a, <2>1 DEF Unbroken
  <2> QED  BY <1>1, <1>6, <2>1, <2>4, <2>5, <2>6, <2>7 DEF Unbroken
<1> QED  BY <1>6, <1>7, <1>8, <1>9, <1>10, <1>11 DEF HandleIInv

(* What holds always, held in the beginning. *)
LEMMA HandleInitHolds == HandleInit => HandleIInv
<1> SUFFICES ASSUME HandleInit  PROVE HandleIInv
    OBVIOUS
<1> USE TheTasks DEF HandleInit, Lives, ReaderAt, RunnerAt, Tallies
<1>1. \A c \in Tasks : lock # Reader(c) /\ lock # Runner(c)  BY Locks
<1>2. HandleTypeOK  BY Locks DEF HandleTypeOK
<1>3. HolderStands  BY <1>1, Locks DEF HolderStands
<1>4. OneByOne
    BY <1>1 DEF OneByOne, OneReader, OneRunner, StaysClosed, SessionsOwned
<1>5. KeptCount  BY DEF KeptCount, InHand
<1>6. Unbroken  BY DEF Unbroken
<1> QED  BY <1>2, <1>3, <1>4, <1>5, <1>6 DEF HandleIInv

(* Every step keeps it. *)
LEMMA HandleSteps == HandleIInv /\ [HandleNext]_handleVars => HandleIInv'
<1> SUFFICES ASSUME HandleIInv, [HandleNext]_handleVars  PROVE HandleIInv'
    OBVIOUS
<1>1. CASE ConnectBegins \/ Connected \/ ConnectFails \/ Pause \/ Resume
    BY <1>1, ConnectBeginsKeeps, ConnectedKeeps, ConnectFailsKeeps, PauseKeeps, ResumeKeeps
<1>2. CASE \E c \in Readers : WsConnected(c)
    BY <1>2, WsConnectedKeeps
<1>3. ASSUME NEW c \in Tasks,
             \/ ReaderStarts(c) \/ Breaks(c) \/ ReaderLosesIt(c)
             \/ \E final \in BOOLEAN : Notified(c, final)
             \/ HandleError(c) \/ CallbackReturns(c)
      PROVE HandleIInv'
    BY <1>3, ReaderStartsKeeps, BreaksKeeps, ReaderLosesItKeeps, NotifiedKeeps, HandleErrorKeeps,
       CallbackReturnsKeeps
<1>4. ASSUME NEW c \in Tasks, Reopens(c) \/ Reopened(c) \/ ReopenFails(c) \/ Joined(c)
      PROVE HandleIInv'
    BY <1>4, ReopensKeeps, ReopenedKeeps, ReopenFailsKeeps, JoinedKeeps
<1>5. ASSUME NEW c \in Tasks,
             \/ Takes(c) \/ Delivers(c) \/ Returns(c) \/ RunnerEnds(c)
             \/ CallbackStops(c) \/ ReaderStops(c)
      PROVE HandleIInv'
    BY <1>5, TakesKeeps, DeliversKeeps, ReturnsKeeps, RunnerEndsKeeps, CallbackStopsKeeps,
       ReaderStopsKeeps
<1>6. CASE Stop \/ StopCloses \/ StopEnds
    BY <1>6, StopKeeps, StopClosesKeeps, StopEndsKeeps
<1>7. CASE UNCHANGED handleVars
  <2>1. UNCHANGED <<handleState, ws, session, open, links, broken, reader, mine, current, runner, serving,
                    queue, tries, lock, halfway, told, past>>
      BY <1>7 DEF handleVars, transport, readers, runners
  <2>2. UNCHANGED HandleTypeOK /\ UNCHANGED HolderStands
      BY <2>1 DEF HandleTypeOK, HolderStands, Stopping, Lives
  <2>3. UNCHANGED OneReader /\ UNCHANGED OneRunner
      BY <2>1 DEF OneReader, OneRunner, Lives
  <2>4. UNCHANGED StaysClosed /\ UNCHANGED SessionsOwned
      BY <2>1 DEF StaysClosed, SessionsOwned, Lives
  <2>5. UNCHANGED KeptCount /\ UNCHANGED Unbroken
      BY <2>1 DEF KeptCount, Unbroken, InHand, Lives
  <2> QED  BY <2>1, <2>2, <2>3, <2>4, <2>5 DEF HandleIInv, OneByOne
<1> QED  BY <1>1, <1>2, <1>3, <1>4, <1>5, <1>6, <1>7 DEF HandleNext

(* It says what the handle promises. *)
LEMMA HandleKeeps == HandleIInv => HandleKeepsItsWord
<1> SUFFICES ASSUME HandleIInv  PROVE HandleKeepsItsWord
    OBVIOUS
<1> USE TheTasks DEF Lives, ReaderAt, RunnerAt, Tallies
<1>1. StoppedForGood
  <2> SUFFICES ASSUME "stopped" \in past, "overlap" \notin past  PROVE StoppedForGood
      BY DEF StoppedForGood
  <2>1. OneReader /\ OneRunner /\ StaysClosed /\ ("from error" \notin past => SessionsOwned)
      BY DEF HandleIInv, OneByOne
  <2>2. \A c \in Tasks : runner[c] \notin {"ready", "holding"}
      BY <2>1 DEF OneRunner, StaysClosed
  <2>3. ASSUME "from error" \notin past
        PROVE  /\ handleState = "CLOSED" /\ ws = 0 /\ session = 0
               /\ \A c \in Readers : reader[c] = "none"
               /\ "cut" \notin past => open = {}
               /\ \A k, l \in open : k = l
    <3>1. handleState = "CLOSED" /\ ws = 0 /\ session = 0 /\ \A c \in Readers : reader[c] = "none"
        BY <2>1, <2>3 DEF StaysClosed
    <3>2. "cut" \notin past => open = {}
        BY <2>1, <2>3, <3>1 DEF SessionsOwned
    <3>3. \A k, l \in open : k = l
        BY <2>1, <2>3, <3>2 DEF SessionsOwned
    <3> QED  BY <3>1, <3>2, <3>3
  <2> QED  BY <2>2, <2>3 DEF StoppedForGood
<1>2. NothingLostSilently
    BY DEF HandleIInv, HandleTypeOK, KeptCount, Unbroken, HolderStands, NothingLostSilently
<1> QED  BY <1>1, <1>2 DEF HandleKeepsItsWord

(* Whatever the size of the buffer and the number of reconnections, and in
   whatever order the application, the readers, the runners and the callbacks
   of a subscription move: a stop() that has returned leaves no message to hand
   out and, as far as stop() can, no reader and no connection; and no
   notification is lost without being counted. *)
THEOREM HandleIsTrue == HandleSpec => []HandleKeepsItsWord
<1>1. HandleInit => HandleIInv  BY HandleInitHolds
<1>2. HandleIInv /\ [HandleNext]_handleVars => HandleIInv'  BY HandleSteps
<1>3. HandleIInv => HandleKeepsItsWord  BY HandleKeeps
<1> QED  BY <1>1, <1>2, <1>3, PTL DEF HandleSpec

---------------------------------------------------------------------------
(* Pools, for any threads, sizes and rates.  First the token bucket: what was
   allowed since a tick and what is still in the bucket came from a full one
   and what flowed in up to the last refill. *)
Full == Burst * Part
Cost(n) == Part * n
Inflow(n) == n * Rate

BucketOK ==
    /\ clock \in 0..MaxClock /\ granted \in [0..MaxClock -> Nat]
    /\ bucket \in [tokens : Nat, last : 0..MaxClock] /\ bucket.last <= clock

Flow ==
    \A from \in 0..clock :
        /\ from <= bucket.last =>
               Cost(granted[clock] - Before(from)) + bucket.tokens
                   <= Full + Inflow(bucket.last - from)
        /\ from > bucket.last => granted[clock] = Before(from)

Kept(from, to) == Cost(granted[to] - Before(from)) <= Full + Inflow(to - from)

RateIInv == BucketOK /\ Flow /\ \A from, to \in 0..clock : from <= to => Kept(from, to)

LEMMA Products ==
  /\ Full \in Nat /\ Part \in Nat
  /\ Inflow(0) = 0 /\ Cost(0) = 0
  /\ \A n \in Int : Inflow(n) \in Int /\ Cost(n) \in Int /\ Cost(n + 1) = Cost(n) + Part
  /\ \A m, n \in Int : Inflow(m) + Inflow(n) = Inflow(m + n)
  /\ \A m, n \in Int : m <= n => Inflow(m) <= Inflow(n)
<1>1. Burst \in Nat /\ Part \in Nat /\ Rate \in Nat
  BY PoolsAssumption
<1>2. QED
  BY <1>1 DEF Full, Cost, Inflow

LEMMA RateInit == PoolsInit => RateIInv
<1>1. SUFFICES ASSUME PoolsInit PROVE RateIInv
  OBVIOUS
<1>2. BucketOK
  BY <1>1, Products, PoolsAssumption DEF PoolsInit, BucketOK, Full
<1>3. clock = 0 /\ bucket.last = 0 /\ bucket.tokens = Full /\ granted[0] = 0 /\ Before(0) = 0
  BY <1>1, PoolsAssumption DEF PoolsInit, Before, Full
<1>4. Flow
  BY <1>3, Products DEF Flow
<1>5. Kept(0, 0)
  BY <1>3, Products DEF Kept
<1>6. QED
  BY <1>2, <1>3, <1>4, <1>5 DEF RateIInv

(* A tick brings nothing allowed. *)
LEMMA TickKeepsRate ==
  ASSUME RateIInv, ClockTicks
  PROVE  RateIInv'
<1>1. /\ clock \in Nat /\ clock' = clock + 1 /\ clock' \in 0..MaxClock /\ clock \in 0..MaxClock
      /\ granted' = [granted EXCEPT ![clock + 1] = granted[clock]] /\ bucket' = bucket
      /\ bucket.last \in Nat /\ bucket.last <= clock /\ MaxClock \in Nat
      /\ granted \in [0..MaxClock -> Nat]
  BY PoolsAssumption DEF ClockTicks, BucketOK, RateIInv
<1>2. /\ \A t \in 0..clock : granted'[t] = granted[t] /\ granted[t] \in Nat
      /\ granted'[clock + 1] = granted[clock]
  BY <1>1
<1>3. BucketOK'
  BY <1>1 DEF BucketOK, RateIInv
<1>4. /\ \A from \in 0..clock : Before(from)' = Before(from) /\ Before(from) \in Nat
      /\ \A t \in 0..(clock + 1) : t = clock + 1 => Before(t)' = granted[clock] /\ Before(t)' \in Nat
  BY <1>1, <1>2 DEF Before
<1>5. Flow'
  <2>1. ASSUME NEW from \in 0..clock
        PROVE  /\ from <= bucket.last =>
                      Cost(granted[clock] - Before(from)) + bucket.tokens
                          <= Full + Inflow(bucket.last - from)
               /\ from > bucket.last => granted[clock] = Before(from)
    BY DEF Flow, RateIInv
  <2>2. ASSUME NEW from \in 0..(clock + 1)
        PROVE  /\ from <= bucket.last =>
                      Cost(granted'[clock + 1] - Before(from)') + bucket.tokens
                          <= Full + Inflow(bucket.last - from)
               /\ from > bucket.last => granted'[clock + 1] = Before(from)'
    <3>1. CASE from \in 0..clock
      BY <1>2, <1>4, <2>1, <3>1
    <3>2. CASE from = clock + 1
      BY <1>1, <1>2, <1>4, <3>2
    <3>3. QED
      BY <1>1, <3>1, <3>2
  <2>3. QED
    BY <1>1, <2>2 DEF Flow, Full, Cost, Inflow
<1>6. ASSUME NEW from \in 0..(clock + 1), NEW to \in 0..(clock + 1), from <= to
      PROVE  Cost(granted'[to] - Before(from)') <= Full + Inflow(to - from)
  <2>1. CASE to <= clock
    <3>1. Kept(from, to) /\ to \in 0..clock /\ from \in 0..clock
      BY <1>1, <1>6, <2>1 DEF RateIInv
    <3>2. QED
      BY <1>2, <1>4, <3>1 DEF Kept
  <2>2. CASE to = clock + 1 /\ from <= clock
    <3>1. Kept(from, clock) /\ from \in 0..clock
      BY <1>1, <1>6, <2>2 DEF RateIInv
    <3>2. /\ clock - from \in Int /\ to - from \in Int /\ clock - from <= to - from
          /\ granted[clock] - Before(from) \in Int
      BY <1>1, <1>2, <1>4, <2>2, <3>1
    <3>3. Inflow(clock - from) <= Inflow(to - from)
      BY <3>2, Products
    <3>4. granted'[to] - Before(from)' = granted[clock] - Before(from)
      BY <1>2, <1>4, <2>2, <3>1
    <3>5. Cost(granted[clock] - Before(from)) <= Full + Inflow(clock - from)
      BY <3>1 DEF Kept
    <3>6. Cost(granted'[to] - Before(from)') <= Full + Inflow(clock - from)
      BY <3>4, <3>5
    <3>7. /\ Cost(granted'[to] - Before(from)') \in Int /\ Full \in Nat
          /\ Inflow(clock - from) \in Int /\ Inflow(to - from) \in Int
      <4>1. granted'[to] - Before(from)' \in Int
        BY <3>2, <3>4
      <4>2. QED
        BY <3>2, <4>1, Products, Zenon
    <3>8. QED
      BY <3>3, <3>6, <3>7
  <2>3. CASE to = clock + 1 /\ from = clock + 1
    <3>1. granted'[to] - Before(from)' = 0 /\ to - from = 0
      BY <1>1, <1>2, <1>4, <2>3
    <3>2. Cost(granted'[to] - Before(from)') = 0 /\ Inflow(to - from) = 0
      BY <3>1, Products
    <3>3. QED
      BY <3>2, Products
  <2>4. QED
    BY <1>1, <1>6, <2>1, <2>2, <2>3
<1>7. (\A from, to \in 0..clock : from <= to => Kept(from, to))'
  BY <1>1, <1>6 DEF Kept, Full, Cost, Inflow
<1>8. QED
  BY <1>3, <1>5, <1>7 DEF RateIInv

(* What a refill leaves in the bucket. *)
LEMMA RefillBounded ==
  ASSUME RateIInv
  PROVE  /\ Refilled \in Nat /\ Refilled <= Full
         /\ Refilled <= bucket.tokens + Inflow(clock - bucket.last)
<1>1. bucket.tokens \in Nat /\ clock - bucket.last \in Int /\ 0 <= clock - bucket.last
  BY PoolsAssumption DEF RateIInv, BucketOK
<1>2. Inflow(clock - bucket.last) \in Int /\ Full \in Nat
  BY <1>1, Products, Zenon
<1>a. 0 <= Inflow(clock - bucket.last)
  <2>1. Inflow(0) = 0 /\ Inflow(0) <= Inflow(clock - bucket.last)
    <3>1. \A m, n \in Int : m <= n => Inflow(m) <= Inflow(n)
      BY Products
    <3>2. 0 \in Int
      OBVIOUS
    <3>3. Inflow(0) = 0
      BY Products, Zenon
    <3>4. QED
      BY <1>1, <3>1, <3>2, <3>3, Zenon
  <2>2. QED
    BY <1>2, <2>1
<1>3. Refilled = LET full == bucket.tokens + Inflow(clock - bucket.last)
                 IN IF full > Full THEN Full ELSE full
  BY DEF Refilled, Inflow, Full
<1>4. QED
  BY <1>1, <1>2, <1>a, <1>3

(* Refilled, the bucket still accounts for what was allowed since a tick. *)
LEMMA RefillAccounted ==
  ASSUME RateIInv, NEW from \in 0..clock
  PROVE  Cost(granted[clock] - Before(from)) + Refilled <= Full + Inflow(clock - from)
<1>1. /\ clock \in Nat /\ bucket.last \in Nat /\ bucket.last <= clock /\ from \in Nat /\ from <= clock
      /\ bucket.tokens \in Nat /\ granted[clock] \in Nat
  BY PoolsAssumption DEF RateIInv, BucketOK
<1>2. Before(from) \in Nat
  BY PoolsAssumption DEF RateIInv, BucketOK, Before
<1>3. /\ granted[clock] - Before(from) \in Int /\ clock - from \in Int /\ 0 <= clock - from
      /\ clock - bucket.last \in Int /\ bucket.last - from \in Int
      /\ (clock - bucket.last) + (bucket.last - from) = clock - from
  BY <1>1, <1>2
<1>4. /\ Cost(granted[clock] - Before(from)) \in Int /\ Inflow(clock - from) \in Int
      /\ Inflow(clock - bucket.last) \in Int /\ Inflow(bucket.last - from) \in Int /\ Full \in Nat
  BY <1>3, Products, Zenon
<1>5. CASE from <= bucket.last
  <2>1. Cost(granted[clock] - Before(from)) + bucket.tokens <= Full + Inflow(bucket.last - from)
    BY <1>5 DEF RateIInv, Flow
  <2>2. Inflow(clock - bucket.last) + Inflow(bucket.last - from) = Inflow(clock - from)
    <3>1. Inflow(clock - bucket.last) + Inflow(bucket.last - from)
              = Inflow((clock - bucket.last) + (bucket.last - from))
      BY <1>3, Products, Zenon
    <3>2. QED
      BY <1>3, <3>1
  <2>3. QED
    BY <1>1, <1>4, <2>1, <2>2, RefillBounded
<1>6. CASE from > bucket.last
  <2>1. granted[clock] - Before(from) = 0
    BY <1>1, <1>6 DEF RateIInv, Flow
  <2>2. Cost(granted[clock] - Before(from)) = 0
    BY <2>1, Products
  <2>3. 0 <= Inflow(clock - from)
    BY <1>3, Products
  <2>4. QED
    BY <1>4, <2>2, <2>3, RefillBounded
<1>7. QED
  BY <1>1, <1>5, <1>6

(* allow() takes what it allows out of the bucket. *)
LEMMA AllowKeepsRate ==
  ASSUME RateIInv, Allow
  PROVE  RateIInv'
<1>1. /\ clock \in Nat /\ clock' = clock /\ clock \in 0..MaxClock /\ MaxClock \in Nat
      /\ bucket' = [tokens |-> IF Refilled >= Part THEN Refilled - Part ELSE Refilled, last |-> clock]
      /\ granted' = IF Refilled >= Part THEN [granted EXCEPT ![clock] = @ + 1] ELSE granted
      /\ granted \in [0..MaxClock -> Nat] /\ Part \in Nat
  BY PoolsAssumption DEF Allow, BucketOK, RateIInv
<1>2. Refilled \in Nat
  BY RefillBounded
<1>3. /\ \A t \in 0..clock : t # clock => granted'[t] = granted[t]
      /\ \A t \in 0..clock : granted[t] \in Nat
      /\ granted'[clock] = IF Refilled >= Part THEN granted[clock] + 1 ELSE granted[clock]
      /\ granted' \in [0..MaxClock -> Nat]
  BY <1>1
<1>4. bucket'.tokens \in Nat /\ bucket'.last = clock
  BY <1>1, <1>2
<1>5. BucketOK'
  BY <1>1, <1>2, <1>3 DEF BucketOK
<1>6. \A from \in 0..clock : Before(from)' = Before(from) /\ Before(from) \in Nat
  BY <1>1, <1>3 DEF Before
<1>7. ASSUME NEW from \in 0..clock
      PROVE  /\ Cost(granted'[clock] - Before(from)') + bucket'.tokens <= Full + Inflow(clock - from)
             /\ Cost(granted'[clock] - Before(from)') \in Int /\ Inflow(clock - from) \in Int
  <2> DEFINE b == granted[clock] - Before(from)
  <2>1. b \in Int /\ clock - from \in Int
    BY <1>1, <1>3, <1>6
  <2>2. Cost(b) \in Int /\ Inflow(clock - from) \in Int /\ Full \in Nat /\ Cost(b + 1) = Cost(b) + Part
    BY <2>1, Products, Zenon
  <2>3. Cost(b) + Refilled <= Full + Inflow(clock - from)
    BY RefillAccounted
  <2>4. CASE Refilled >= Part
    <3>1. granted'[clock] - Before(from)' = b + 1 /\ bucket'.tokens = Refilled - Part
      BY <1>1, <1>3, <1>6, <2>4
    <3>2. Cost(granted'[clock] - Before(from)') = Cost(b) + Part
      <4>1. Cost(granted'[clock] - Before(from)') = Cost(b + 1)
        BY <3>1
      <4>2. QED
        BY <2>2, <4>1, Zenon
    <3> HIDE DEF b
    <3>3. bucket'.tokens = Refilled - Part /\ Part \in Nat
      BY <1>1, <3>1
    <3>4. Cost(b) + Part + (Refilled - Part) <= Full + Inflow(clock - from) /\ Cost(b) + Part \in Int
      BY <1>2, <2>2, <2>3, <3>3
    <3>5. QED
      BY <2>2, <3>2, <3>3, <3>4, Zenon
  <2>5. CASE ~(Refilled >= Part)
    <3>1. granted'[clock] - Before(from)' = b /\ bucket'.tokens = Refilled
      BY <1>1, <1>3, <1>6, <2>5
    <3> HIDE DEF b
    <3>2. QED
      BY <2>2, <2>3, <3>1
  <2>6. QED
    BY <2>4, <2>5
<1>8. Flow'
  BY <1>1, <1>4, <1>7 DEF Flow, Full, Cost, Inflow
<1>9. ASSUME NEW from \in 0..clock, NEW to \in 0..clock, from <= to
      PROVE  Cost(granted'[to] - Before(from)') <= Full + Inflow(to - from)
  <2>1. CASE to = clock
    <3>1. /\ Cost(granted'[to] - Before(from)') + bucket'.tokens <= Full + Inflow(to - from)
          /\ Cost(granted'[to] - Before(from)') \in Int /\ Inflow(to - from) \in Int
      BY <1>7, <2>1, Zenon
    <3>2. Full \in Nat
      BY Products
    <3>3. QED
      BY <1>4, <3>1, <3>2
  <2>2. CASE to # clock
    <3>1. Kept(from, to)
      BY <1>9 DEF RateIInv
    <3>2. QED
      BY <1>3, <1>6, <2>2, <3>1 DEF Kept
  <2>3. QED
    BY <2>1, <2>2
<1>10. (\A from, to \in 0..clock : from <= to => Kept(from, to))'
  BY <1>1, <1>9 DEF Kept, Full, Cost, Inflow
<1>11. QED
  BY <1>5, <1>8, <1>10 DEF RateIInv

(* The bucket's accounts are kept by every step. *)
LEMMA RateStep ==
  ASSUME RateIInv, [PoolsNext]_poolsVars
  PROVE  RateIInv'
<1>1. CASE UNCHANGED rateVars
  BY <1>1 DEF rateVars, RateIInv, BucketOK, Flow, Kept, Before
<1>2. ASSUME NEW u \in Users, TakesPermit(u) \/ Releases(u) \/ GivesPermit(u)
      PROVE  UNCHANGED rateVars
  BY <1>2 DEF TakesPermit, Releases, GivesPermit
<1>3. ASSUME NEW u \in Users, NEW works \in BOOLEAN, Acquires(u, works)
      PROVE  UNCHANGED rateVars
  BY <1>3 DEF Acquires
<1>4. CASE close_all \/ \E c \in 1..MaxMade : ConnectionDies(c)
  <2>1. UNCHANGED rateVars
    BY <1>4 DEF close_all, ConnectionDies
  <2>2. QED
    BY <1>1, <2>1
<1>5. CASE ClockTicks
  BY <1>5, TickKeepsRate
<1>6. CASE Allow
  BY <1>6, AllowKeepsRate
<1>7. CASE UNCHANGED poolsVars
  BY <1>1, <1>7 DEF poolsVars
<1>8. QED
  BY <1>1, <1>2, <1>3, <1>4, <1>5, <1>6, <1>7 DEF PoolsNext

LEMMA RateInductive == PoolsSpec => []RateIInv
<1>1. PoolsInit => RateIInv
  BY RateInit
<1>2. RateIInv /\ [PoolsNext]_poolsVars => RateIInv'
  BY RateStep
<1>3. QED
  BY <1>1, <1>2, PTL DEF PoolsSpec

(* The connection pool.  Who holds a connection is "holds", a connection is in
   one place, those alive are in one; and three counts: permits and active
   threads with the failed factories make max_size, the connections there are
   with the failed factories do not exceed it, and _created counts no more
   than those. *)
Active == {u \in Users : user[u].at # "out"}
UserState == [at : {"out", "permitted", "holds", "leaving"}, conn : 0..MaxMade]

ConnTypeOK ==
    /\ permit \in Nat /\ made \in Int /\ failures \in Nat
    /\ idle \in Seq(1..MaxMade)
    /\ user \in [Users -> UserState]
    /\ living \subseteq Existing

HoldersHold == \A u \in Users : user[u].conn # NoConn <=> user[u].at = "holds"

Apart ==
    /\ \A u, v \in Users : user[u].conn # NoConn /\ user[u].conn = user[v].conn => u = v
    /\ \A i, j \in 1..Len(idle) : idle[i] = idle[j] => i = j
    /\ \A u \in Users, i \in 1..Len(idle) : user[u].conn # idle[i]

PoolCounted ==
    /\ permit + Cardinality(Active) + failures = MaxSize
    /\ Cardinality(Holding) + Len(idle) + failures <= MaxSize
    /\ made <= Cardinality(Holding) + Len(idle) + failures

ConnIInv == ConnTypeOK /\ HoldersHold /\ Apart /\ PoolCounted /\ ~turnedDown

(* Two sets that differ in one element at most. *)
LEMMA Recount ==
  ASSUME NEW S, NEW T, IsFiniteSet(S), NEW u, S \ {u} = T \ {u}
  PROVE  /\ IsFiniteSet(T) /\ Cardinality(S) \in Nat /\ Cardinality(T) \in Nat
         /\ Cardinality(T) = Cardinality(S) - (IF u \in S THEN 1 ELSE 0) + (IF u \in T THEN 1 ELSE 0)
<1>1. S \ {u} = T \ {u}
  OBVIOUS
<1>2. IsFiniteSet(S \ {u}) /\ Cardinality(S \ {u}) = IF u \in S THEN Cardinality(S) - 1 ELSE Cardinality(S)
  BY FS_RemoveElement
<1>3. CASE u \in T
  <2>1. T = (S \ {u}) \cup {u} /\ u \notin S \ {u}
    BY <1>1, <1>3
  <2>2. IsFiniteSet(T) /\ Cardinality(T) = Cardinality(S \ {u}) + 1
    BY <1>2, <2>1, FS_AddElement
  <2>3. QED
    BY <1>2, <1>3, <2>2, FS_CardinalityType
<1>4. CASE u \notin T
  <2>1. T = S \ {u}
    BY <1>1, <1>4
  <2>2. QED
    BY <1>2, <1>4, <2>1, FS_CardinalityType
<1>5. QED
  BY <1>3, <1>4

(* One thread's step changes the two counts of threads by that thread. *)
LEMMA ThreadCounts ==
  ASSUME ConnTypeOK, NEW u \in Users, NEW r, user' = [user EXCEPT ![u] = r]
  PROVE  /\ Cardinality(Active) \in Nat /\ Cardinality(Active)' \in Nat
         /\ Cardinality(Holding) \in Nat /\ Cardinality(Holding)' \in Nat
         /\ Cardinality(Active)' = Cardinality(Active) - (IF user[u].at # "out" THEN 1 ELSE 0)
                                                       + (IF r.at # "out" THEN 1 ELSE 0)
         /\ Cardinality(Holding)' = Cardinality(Holding) - (IF user[u].conn # NoConn THEN 1 ELSE 0)
                                                         + (IF r.conn # NoConn THEN 1 ELSE 0)
<1>1. /\ \A x \in Users : x # u => user'[x] = user[x]
      /\ user'[u] = r
  BY DEF ConnTypeOK
<1>2. IsFiniteSet(Active) /\ IsFiniteSet(Holding)
  BY PoolsAssumption, FS_Subset DEF Active, Holding
<1>3. /\ Active \ {u} = Active' \ {u}
      /\ (u \in Active <=> user[u].at # "out") /\ (u \in Active' <=> r.at # "out")
  BY <1>1 DEF Active
<1>4. /\ Holding \ {u} = Holding' \ {u}
      /\ (u \in Holding <=> user[u].conn # NoConn) /\ (u \in Holding' <=> r.conn # NoConn)
  BY <1>1 DEF Holding, NoConn
<1>5. /\ Cardinality(Active) \in Nat /\ Cardinality(Active') \in Nat
      /\ Cardinality(Active') = Cardinality(Active) - (IF u \in Active THEN 1 ELSE 0)
                                                    + (IF u \in Active' THEN 1 ELSE 0)
  BY <1>2, <1>3, Recount
<1>6. /\ Cardinality(Holding) \in Nat /\ Cardinality(Holding') \in Nat
      /\ Cardinality(Holding') = Cardinality(Holding) - (IF u \in Holding THEN 1 ELSE 0)
                                                      + (IF u \in Holding' THEN 1 ELSE 0)
  BY <1>2, <1>4, Recount
<1>7. QED
  BY <1>3, <1>4, <1>5, <1>6

(* Every connection is counted where it is. *)
LEMMA ExistingCounted ==
  ASSUME ConnTypeOK, Apart
  PROVE  /\ IsFiniteSet(Existing)
         /\ Cardinality(Existing) = Cardinality(Holding) + Len(idle)
<1> DEFINE held == {user[u].conn : u \in Holding}
           kept == {idle[i] : i \in 1..Len(idle)}
           f == [u \in Holding |-> user[u].conn]
           g == [i \in 1..Len(idle) |-> idle[i]]
<1>1. Len(idle) \in Nat /\ DOMAIN idle = 1..Len(idle)
  BY DEF ConnTypeOK
<1>2. IsFiniteSet(held) /\ Cardinality(held) = Cardinality(Holding)
  <2>1. f \in Surjection(Holding, held)
    BY DEF Surjection
  <2>2. f \in Injection(Holding, held)
    BY <2>1 DEF Injection, IsInjective, Apart, Holding
  <2>3. IsFiniteSet(Holding)
    BY PoolsAssumption, FS_Subset DEF Holding
  <2>4. QED
    BY <2>1, <2>2, <2>3, FS_Surjection
<1>3. IsFiniteSet(kept) /\ Cardinality(kept) = Len(idle)
  <2>1. g \in Surjection(1..Len(idle), kept)
    BY DEF Surjection
  <2>2. g \in Injection(1..Len(idle), kept)
    BY <2>1 DEF Injection, IsInjective, Apart
  <2>3. IsFiniteSet(1..Len(idle)) /\ Cardinality(1..Len(idle)) = Len(idle)
    <3>1. \A n \in Nat : IsFiniteSet(1..n) /\ Cardinality(1..n) = n
      BY FS_Interval
    <3>2. QED
      BY <1>1, <3>1, Zenon
  <2>4. QED
    BY <2>1, <2>2, <2>3, FS_Surjection
<1>4. held \cap kept = {}
  BY DEF Apart, Holding
<1>5. Existing = held \cup kept
  BY <1>1 DEF Existing
<1>6. IsFiniteSet(held \cup kept) /\ Cardinality(held \cup kept) = Cardinality(held) + Cardinality(kept) - 0
  <2> HIDE DEF held, kept
  <2>1. QED
    BY <1>2, <1>3, <1>4, FS_Union, FS_EmptySet
<1>7. Cardinality(Holding) \in Nat
  BY PoolsAssumption, FS_Subset, FS_CardinalityType DEF Holding
<1>8. QED
  <2> HIDE DEF held, kept
  <2>1. QED
    BY <1>1, <1>2, <1>3, <1>5, <1>6, <1>7

(* There is always a connection that was not there. *)
LEMMA FreshIsNew ==
  ASSUME ConnIInv
  PROVE  Fresh \in 1..MaxMade /\ Fresh \notin living /\ Fresh \notin Existing
<1>1. IsFiniteSet(Existing) /\ Cardinality(Existing) = Cardinality(Holding) + Len(idle)
  BY ExistingCounted DEF ConnIInv
<1>2. Cardinality(Holding) \in Nat
  BY PoolsAssumption, FS_Subset, FS_CardinalityType DEF Holding
<1>3. Cardinality(Existing) < MaxMade
  BY <1>1, <1>2, PoolsAssumption DEF ConnIInv, PoolCounted, ConnTypeOK
<1>4. IsFiniteSet(1..MaxMade) /\ Cardinality(1..MaxMade) = MaxMade
  BY PoolsAssumption, FS_Interval
<1>5. ~(1..MaxMade \subseteq Existing)
  <2>1. SUFFICES ASSUME 1..MaxMade \subseteq Existing PROVE FALSE
    OBVIOUS
  <2>2. Cardinality(1..MaxMade) <= Cardinality(Existing)
    BY <1>1, <2>1, FS_Subset
  <2>3. Cardinality(Existing) \in Nat
    BY <1>1, FS_CardinalityType
  <2>4. QED
    BY <1>3, <1>4, <2>2, <2>3, PoolsAssumption
<1>6. living \cup Existing = Existing
  BY DEF ConnIInv, ConnTypeOK
<1>7. PICK c \in 1..MaxMade : c \notin living \cup Existing
  BY <1>5, <1>6
<1>8. Fresh \in 1..MaxMade /\ Fresh \notin living \cup Existing
  BY <1>7 DEF Fresh
<1>9. QED
  BY <1>8

(* The pool without the connection that is taken out of it. *)
LEMMA Popped ==
  ASSUME ConnTypeOK, idle # <<>>
  PROVE  /\ Len(idle) \in Nat \ {0} /\ idle[Len(idle)] \in 1..MaxMade
         /\ SubSeq(idle, 1, Len(idle) - 1) \in Seq(1..MaxMade)
         /\ Len(SubSeq(idle, 1, Len(idle) - 1)) = Len(idle) - 1
         /\ \A i \in 1..(Len(idle) - 1) : SubSeq(idle, 1, Len(idle) - 1)[i] = idle[i]
<1>1. Len(idle) \in Nat \ {0} /\ \A i \in 1..Len(idle) : idle[i] \in 1..MaxMade
  <2>1. idle \in Seq(1..MaxMade) /\ Len(idle) \in Nat
    BY DEF ConnTypeOK
  <2>2. Len(idle) # 0
    BY <2>1, EmptySeq
  <2>3. \A i \in 1..Len(idle) : idle[i] \in 1..MaxMade
    BY <2>1, ElementOfSeq
  <2>4. QED
    BY <2>1, <2>2, <2>3
<1>2. ASSUME NEW n \in Nat, \A i \in 1..n : idle[i] \in 1..MaxMade
      PROVE  /\ SubSeq(idle, 1, n) \in Seq(1..MaxMade) /\ Len(SubSeq(idle, 1, n)) = n
             /\ \A i \in 1..n : SubSeq(idle, 1, n)[i] = idle[i]
  BY <1>2, SubSeqProperties
<1>3. Len(idle) - 1 \in Nat /\ \A i \in 1..(Len(idle) - 1) : idle[i] \in 1..MaxMade
  BY <1>1
<1>4. idle[Len(idle)] \in 1..MaxMade
  BY <1>1
<1>5. QED
  BY <1>1, <1>2, <1>3, <1>4

(* A step that leaves the pool, and what the thread holds, as they are. *)
LEMMA SameConnections ==
  ASSUME ConnIInv, NEW u \in Users, NEW r \in UserState, user' = [user EXCEPT ![u] = r],
         r.conn = user[u].conn, r.conn # NoConn <=> r.at = "holds",
         permit' \in Nat, UNCHANGED <<idle, made, living, turnedDown>>, failures' = failures,
         permit' + Cardinality(Active)' = permit + Cardinality(Active)
  PROVE  ConnIInv'
<1>1. user' \in [Users -> UserState] /\ user'[u] = r /\ \A x \in Users : x # u => user'[x] = user[x]
  BY DEF ConnIInv, ConnTypeOK
<1>2. \A x \in Users : user'[x].conn = user[x].conn
  BY <1>1
<1>3. Holding' = Holding /\ Existing' = Existing
  BY <1>2 DEF Holding, Existing
<1>4. ConnTypeOK'
  BY <1>1, <1>3 DEF ConnIInv, ConnTypeOK, UserState
<1>5. HoldersHold'
  BY <1>1 DEF ConnIInv, HoldersHold, NoConn
<1>6. Apart'
  BY <1>2 DEF ConnIInv, Apart, NoConn
<1>7. PoolCounted'
  <2>1. /\ permit' + Cardinality(Active)' + failures' = MaxSize
    BY ThreadCounts DEF ConnIInv, PoolCounted, ConnTypeOK
  <2>2. QED
    BY <1>3, <2>1 DEF ConnIInv, PoolCounted
<1>8. QED
  BY <1>4, <1>5, <1>6, <1>7 DEF ConnIInv

(* Taking a permit and giving it back. *)
LEMMA PermitKeeps ==
  ASSUME ConnIInv, NEW u \in Users, TakesPermit(u) \/ GivesPermit(u)
  PROVE  ConnIInv'
<1>1. permit \in Nat /\ user[u] \in UserState /\ user \in [Users -> UserState]
  BY DEF ConnIInv, ConnTypeOK
<1>2. user[u].at # "holds" => user[u].conn = NoConn
  BY DEF ConnIInv, HoldersHold
<1>3. CASE TakesPermit(u)
  <2> DEFINE r == [at |-> "permitted", conn |-> NoConn]
  <2>1. user[u].at = "out" /\ permit > 0 /\ permit' = permit - 1
    BY <1>3 DEF TakesPermit
  <2>2. user' = [user EXCEPT ![u] = r]
    <3>1. [user[u] EXCEPT !.at = "permitted"] = r
      BY <1>1, <1>2, <2>1 DEF UserState
    <3>2. user' = [user EXCEPT ![u] = [user[u] EXCEPT !.at = "permitted"]]
      BY <1>1, <1>3 DEF TakesPermit
    <3>3. QED
      BY <3>1, <3>2
  <2>3. r \in UserState /\ r.conn = user[u].conn /\ (r.conn # NoConn <=> r.at = "holds")
    BY <1>2, <2>1, PoolsAssumption DEF UserState, NoConn
  <2>4. Cardinality(Active)' = Cardinality(Active) + 1 /\ Cardinality(Active) \in Nat
    <3>1. r.at # "out"
      OBVIOUS
    <3> HIDE DEF r
    <3>2. ConnTypeOK
      BY DEF ConnIInv
    <3>3. /\ Cardinality(Active) \in Nat
          /\ Cardinality(Active)' = Cardinality(Active) - (IF user[u].at # "out" THEN 1 ELSE 0)
                                                        + (IF r.at # "out" THEN 1 ELSE 0)
      BY <2>2, <3>2, ThreadCounts
    <3>4. QED
      BY <2>1, <3>1, <3>3
  <2>5. permit' \in Nat /\ permit' + Cardinality(Active)' = permit + Cardinality(Active)
    BY <1>1, <2>1, <2>4
  <2>6. UNCHANGED <<idle, made, living, turnedDown>> /\ failures' = failures
    BY <1>3 DEF TakesPermit
  <2> HIDE DEF r
  <2>7. QED
    BY <2>2, <2>3, <2>5, <2>6, SameConnections
<1>4. CASE GivesPermit(u)
  <2>1. user[u].at = "leaving" /\ permit' = permit + 1 /\ user' = [user EXCEPT ![u] = Out]
    BY <1>4 DEF GivesPermit
  <2>2. Out \in UserState /\ Out.conn = user[u].conn /\ (Out.conn # NoConn <=> Out.at = "holds")
    BY <1>2, <2>1, PoolsAssumption DEF UserState, NoConn, Out
  <2>3. Cardinality(Active)' = Cardinality(Active) - 1 /\ Cardinality(Active) \in Nat
    <3>1. Out.at = "out"
      BY DEF Out
    <3>2. ConnTypeOK
      BY DEF ConnIInv
    <3>3. /\ Cardinality(Active) \in Nat
          /\ Cardinality(Active)' = Cardinality(Active) - (IF user[u].at # "out" THEN 1 ELSE 0)
                                                        + (IF Out.at # "out" THEN 1 ELSE 0)
      BY <2>1, <3>2, ThreadCounts
    <3>4. QED
      BY <2>1, <3>1, <3>3
  <2>4. permit' \in Nat /\ permit' + Cardinality(Active)' = permit + Cardinality(Active)
    BY <1>1, <2>1, <2>3
  <2>5. UNCHANGED <<idle, made, living, turnedDown>> /\ failures' = failures
    BY <1>4 DEF GivesPermit
  <2>6. QED
    BY <2>1, <2>2, <2>4, <2>5, SameConnections
<1>5. QED
  BY <1>3, <1>4

(* Where connections are once a thread with a permit came out of _acquire():
   with r.conn, which was nowhere or last in the pool, and the pool without
   its last connection, if any. *)
Acquired(u, r) ==
    /\ user[u].at = "permitted"
    /\ user' = [user EXCEPT ![u] = r] /\ (r.conn # NoConn <=> r.at = "holds")
    /\ idle' \in Seq(1..MaxMade) /\ Len(idle') \in {Len(idle), Len(idle) - 1}
    /\ \A i \in 1..Len(idle') : idle'[i] = idle[i]
    /\ r.conn # NoConn => \/ r.conn \notin Existing
                          \/ Len(idle') = Len(idle) - 1 /\ r.conn = idle[Len(idle)]
    /\ \A c \in living' : c \in living \/ (c = r.conn /\ c # NoConn)
    /\ Len(idle') = Len(idle) - 1 /\ idle[Len(idle)] \in living => idle[Len(idle)] = r.conn

LEMMA AcquirePlaces ==
  ASSUME ConnIInv, NEW u \in Users, NEW r \in UserState, Acquired(u, r),
         permit' \in Nat, made' \in Int, failures' \in Nat
  PROVE  ConnTypeOK' /\ HoldersHold' /\ Apart'
<1>1. /\ user' \in [Users -> UserState] /\ user'[u] = r
      /\ \A x \in Users : x # u => user'[x] = user[x]
      /\ user[u].conn = NoConn /\ idle \in Seq(1..MaxMade)
      /\ \A x \in Users : user[x].conn \in 0..MaxMade
  BY DEF ConnIInv, ConnTypeOK, HoldersHold, UserState, Acquired
<1>2. /\ Len(idle) \in Nat /\ Len(idle') \in Nat /\ DOMAIN idle = 1..Len(idle) /\ DOMAIN idle' = 1..Len(idle')
      /\ \A i \in 1..Len(idle) : idle[i] \in 1..MaxMade /\ idle[i] # NoConn
  <2>1. idle' \in Seq(1..MaxMade)
    BY DEF Acquired
  <2>2. \A i \in 1..Len(idle) : idle[i] \in 1..MaxMade
    BY <1>1, ElementOfSeq
  <2>3. \A c \in 1..MaxMade : c # NoConn
    BY PoolsAssumption DEF NoConn
  <2>4. QED
    BY <1>1, <2>1, <2>2, <2>3
<1>a. /\ \A i \in 1..Len(idle') : i \in 1..Len(idle)
      /\ \A i \in 1..Len(idle) : i \notin 1..Len(idle') => Len(idle') = Len(idle) - 1 /\ i = Len(idle)
      /\ Len(idle') = Len(idle) - 1 => Len(idle) \in 1..Len(idle) /\ Len(idle) \notin 1..Len(idle')
  <2>1. Len(idle') \in {Len(idle), Len(idle) - 1}
    BY DEF Acquired
  <2>2. \A n, m \in Nat : m \in {n, n - 1} =>
            /\ \A i \in 1..m : i \in 1..n
            /\ \A i \in 1..n : i \notin 1..m => m = n - 1 /\ i = n
            /\ m = n - 1 => n \in 1..n /\ n \notin 1..m
    OBVIOUS
  <2>3. QED
    BY <1>2, <2>1, <2>2
<1>3. /\ \A x \in Users : user[x].conn # NoConn => user[x].conn \in Existing
      /\ \A i \in 1..Len(idle) : idle[i] \in Existing
      /\ \A c \in Existing : \/ \E x \in Users : user[x].conn = c /\ c # NoConn
                             \/ \E i \in 1..Len(idle) : idle[i] = c
  BY <1>2 DEF Existing, Holding
<1>4. HoldersHold'
  BY <1>1 DEF Acquired, ConnIInv, HoldersHold, NoConn
<1>5. Apart'
  <2>1. ASSUME NEW i \in 1..Len(idle') PROVE i \in 1..Len(idle) /\ idle'[i] = idle[i] /\ idle'[i] # r.conn
    <3>1. i \in 1..Len(idle) /\ idle'[i] = idle[i]
      BY <1>a DEF Acquired
    <3>2. idle[i] # NoConn /\ idle[i] \in Existing
      BY <1>2, <1>3, <3>1
    <3>3. ASSUME Len(idle') = Len(idle) - 1 PROVE idle[i] # idle[Len(idle)]
      <4>1. Len(idle) \in 1..Len(idle) /\ i # Len(idle)
        BY <1>a, <3>3
      <4>2. QED
        BY <3>1, <4>1 DEF ConnIInv, Apart
    <3>4. QED
      BY <3>1, <3>2, <3>3 DEF Acquired
  <2>2. ASSUME NEW v \in Users, v # u, r.conn # NoConn PROVE user[v].conn # r.conn
    <3>1. CASE r.conn \notin Existing
      BY <1>3, <2>2, <3>1
    <3>2. CASE Len(idle') = Len(idle) - 1 /\ r.conn = idle[Len(idle)]
      <4>1. Len(idle) \in 1..Len(idle)
        BY <1>a, <3>2
      <4>2. QED
        BY <3>2, <4>1 DEF ConnIInv, Apart
    <3>3. QED
      BY <2>2, <3>1, <3>2 DEF Acquired
  <2>3. ASSUME NEW v \in Users, NEW w \in Users, user'[v].conn # NoConn, user'[v].conn = user'[w].conn
        PROVE  v = w
    BY <1>1, <2>2, <2>3 DEF ConnIInv, Apart, NoConn
  <2>4. \A i, j \in 1..Len(idle') : idle'[i] = idle'[j] => i = j
    BY <2>1 DEF ConnIInv, Apart
  <2>5. \A v \in Users, i \in 1..Len(idle') : user'[v].conn # idle'[i]
    BY <1>1, <2>1 DEF ConnIInv, Apart
  <2>6. QED
    BY <2>3, <2>4, <2>5 DEF Apart, NoConn
<1>6. living' \subseteq Existing'
  <2>1. /\ \A x \in Users : user'[x].conn # NoConn => user'[x].conn \in Existing'
        /\ \A i \in 1..Len(idle') : idle'[i] \in Existing'
    BY <1>2 DEF Existing, Holding, NoConn
  <2>2. ASSUME NEW c \in living' PROVE c \in Existing'
    <3>1. CASE c = r.conn /\ c # NoConn
      BY <1>1, <2>1, <3>1
    <3>2. CASE c \in living /\ ~(c = r.conn /\ c # NoConn)
      <4>1. c \in Existing
        BY <3>2 DEF ConnIInv, ConnTypeOK
      <4>2. CASE \E x \in Users : user[x].conn = c /\ c # NoConn
        BY <1>1, <2>1, <4>2
      <4>3. ASSUME NEW i \in 1..Len(idle), idle[i] = c PROVE c \in Existing'
        <5>1. CASE i \in 1..Len(idle')
          BY <2>1, <4>3, <5>1 DEF Acquired
        <5>2. CASE i \notin 1..Len(idle')
          <6>1. Len(idle') = Len(idle) - 1 /\ i = Len(idle)
            BY <1>a, <5>2
          <6>2. c = r.conn
            BY <3>2, <4>3, <6>1 DEF Acquired
          <6>3. c # NoConn
            BY <1>2, <4>3
          <6>4. QED
            BY <3>2, <6>2, <6>3
        <5>3. QED
          BY <5>1, <5>2
      <4>4. QED
        BY <1>3, <4>1, <4>2, <4>3
    <3>3. QED
      BY <3>1, <3>2 DEF Acquired
  <2>3. QED
    BY <2>2
<1>7. ConnTypeOK'
  BY <1>1, <1>6 DEF ConnTypeOK, UserState, Acquired
<1>8. QED
  BY <1>4, <1>5, <1>7

(* The counts before _acquire() leave room: a thread with a permit does not
   hold a connection yet. *)
LEMMA RoomForOne ==
  ASSUME ConnIInv, NEW u \in Users, user[u].at = "permitted"
  PROVE  /\ Cardinality(Holding) \in Nat /\ Cardinality(Active) \in Nat
         /\ Cardinality(Holding) + 1 <= Cardinality(Active)
         /\ Cardinality(Holding) + 1 + failures <= MaxSize
<1>1. IsFiniteSet(Active) /\ IsFiniteSet(Holding)
  BY PoolsAssumption, FS_Subset DEF Active, Holding
<1>2. u \notin Holding /\ Holding \cup {u} \subseteq Active
  BY DEF ConnIInv, HoldersHold, Holding, Active
<1>3. Cardinality(Holding \cup {u}) = Cardinality(Holding) + 1
  BY <1>1, <1>2, FS_AddElement
<1>4. Cardinality(Holding \cup {u}) <= Cardinality(Active)
  BY <1>1, <1>2, FS_Subset
<1>5. Cardinality(Holding) \in Nat /\ Cardinality(Active) \in Nat
  BY <1>1, FS_CardinalityType
<1>6. permit + Cardinality(Active) + failures = MaxSize /\ permit \in Nat /\ failures \in Nat
  BY DEF ConnIInv, PoolCounted, ConnTypeOK
<1>7. QED
  BY <1>3, <1>4, <1>5, <1>6, PoolsAssumption

(* The counts after _acquire(): one thread more with a connection, or one
   thread less and a failed factory more. *)
LEMMA AcquireCounts ==
  ASSUME ConnIInv, NEW u \in Users, NEW r \in UserState, Acquired(u, r), permit' = permit, made' \in Int,
         \/ r.at = "holds" /\ failures' = failures
         \/ r.at = "out" /\ failures' = failures + 1,
         \/ idle = <<>> /\ idle' = <<>> /\ made' = made + 1
         \/ Len(idle') = Len(idle) - 1 /\ made' <= made
  PROVE  PoolCounted'
<1> DEFINE h == Cardinality(Holding)
           a == Cardinality(Active)
           h2 == Cardinality(Holding)'
           a2 == Cardinality(Active)'
           k == Len(idle)
           k2 == Len(idle')
<1>1. /\ user[u].at = "permitted" /\ user' = [user EXCEPT ![u] = r] /\ (r.conn # NoConn <=> r.at = "holds")
      /\ idle' \in Seq(1..MaxMade) /\ idle \in Seq(1..MaxMade) /\ ConnTypeOK /\ user[u].conn = NoConn
      /\ permit \in Nat /\ failures \in Nat /\ made \in Int
  BY DEF Acquired, ConnIInv, ConnTypeOK, HoldersHold
<1>2. /\ h \in Nat /\ a \in Nat /\ h + 1 + failures <= MaxSize
  BY <1>1, RoomForOne
<1>3. /\ a \in Nat /\ a2 \in Nat /\ h \in Nat /\ h2 \in Nat
      /\ a2 = a - (IF user[u].at # "out" THEN 1 ELSE 0) + (IF r.at # "out" THEN 1 ELSE 0)
      /\ h2 = h - (IF user[u].conn # NoConn THEN 1 ELSE 0) + (IF r.conn # NoConn THEN 1 ELSE 0)
  BY <1>1, ThreadCounts
<1>4. /\ permit + a + failures = MaxSize /\ h + k + failures <= MaxSize /\ made <= h + k + failures
  BY DEF ConnIInv, PoolCounted
<1>5. k \in Nat /\ k2 \in Nat /\ (idle = <<>> => k = 0) /\ (idle' = <<>> => k2 = 0)
  BY <1>1
<1>6. \/ h2 = h + 1 /\ a2 = a /\ failures' = failures
      \/ h2 = h /\ a2 = a - 1 /\ failures' = failures + 1
  <2> HIDE DEF h, a, h2, a2
  <2>1. CASE r.at = "holds" /\ failures' = failures
    BY <1>1, <1>3, <2>1
  <2>2. CASE r.at = "out" /\ failures' = failures + 1
    BY <1>1, <1>3, <2>2
  <2>3. QED
    BY <2>1, <2>2
<1>7. \/ k = 0 /\ k2 = 0 /\ made' = made + 1
      \/ k2 = k - 1 /\ made' <= made
  BY <1>5
<1> HIDE DEF h, a, h2, a2, k, k2
<1>8. /\ permit' + a2 + failures' = MaxSize
      /\ h2 + k2 + failures' <= MaxSize
      /\ made' <= h2 + k2 + failures'
  <2>1. /\ permit \in Nat /\ permit' = permit /\ failures \in Nat /\ made \in Int /\ made' \in Int /\ MaxSize \in Nat
        /\ h \in Nat /\ a \in Nat /\ h2 \in Nat /\ a2 \in Nat /\ k \in Nat /\ k2 \in Nat
    BY <1>1, <1>3, <1>5, PoolsAssumption
  <2>2. CASE h2 = h + 1 /\ a2 = a /\ failures' = failures
    BY <1>2, <1>4, <1>7, <2>1, <2>2
  <2>3. CASE h2 = h /\ a2 = a - 1 /\ failures' = failures + 1
    BY <1>2, <1>4, <1>7, <2>1, <2>3
  <2>4. QED
    BY <1>6, <2>2, <2>3
<1>9. QED
  BY <1>8 DEF PoolCounted, h2, a2, k2

(* _created leaves room too, so nobody with a permit is turned down; and the
   three ways out of _acquire() put connections where Acquired says. *)
LEMMA AcquireKeeps ==
  ASSUME ConnIInv, NEW u \in Users, NEW works \in BOOLEAN, Acquires(u, works)
  PROVE  ConnIInv'
<1>1. /\ user[u].at = "permitted" /\ permit' = permit /\ permit \in Nat /\ failures \in Nat /\ made \in Int
      /\ idle \in Seq(1..MaxMade) /\ ConnTypeOK /\ user \in [Users -> UserState] /\ ~turnedDown
      /\ Len(idle) \in Nat
  BY DEF ConnIInv, ConnTypeOK, Acquires
<1>2. /\ Cardinality(Holding) \in Nat /\ Cardinality(Holding) + 1 + failures <= MaxSize
      /\ Cardinality(Holding) + Len(idle) + failures <= MaxSize
      /\ made <= Cardinality(Holding) + Len(idle) + failures
  BY <1>1, RoomForOne DEF ConnIInv, PoolCounted
<1>3. ASSUME NEW r \in UserState, Acquired(u, r), made' \in Int, turnedDown' = turnedDown,
             \/ r.at = "holds" /\ failures' = failures
             \/ r.at = "out" /\ failures' = failures + 1,
             \/ idle = <<>> /\ idle' = <<>> /\ made' = made + 1
             \/ Len(idle') = Len(idle) - 1 /\ made' <= made
      PROVE  ConnIInv'
  <2>1. permit' \in Nat /\ failures' \in Nat
    BY <1>1, <1>3
  <2>2. ConnTypeOK' /\ HoldersHold' /\ Apart'
    BY <1>3, <2>1, AcquirePlaces
  <2>3. PoolCounted'
    BY <1>1, <1>3, AcquireCounts
  <2>4. QED
    BY <1>1, <1>3, <2>2, <2>3 DEF ConnIInv
<1>4. Out \in UserState /\ Out.conn = NoConn /\ Out.at = "out"
  BY PoolsAssumption DEF Out, UserState, NoConn
<1>5. ASSUME NEW c \in 1..MaxMade
      PROVE  [at |-> "holds", conn |-> c] \in UserState /\ c # NoConn
  BY PoolsAssumption DEF UserState, NoConn
<1>6. ASSUME NEW count \in Int, count < MaxSize, CreateNew(u, count, works),
             idle' \in Seq(1..MaxMade), Len(idle') \in {Len(idle), Len(idle) - 1},
             \A i \in 1..Len(idle') : idle'[i] = idle[i],
             Len(idle') = Len(idle) - 1 => idle[Len(idle)] \notin living,
             \/ idle = <<>> /\ idle' = <<>> /\ count = made
             \/ Len(idle') = Len(idle) - 1 /\ count = made - 1
      PROVE  ConnIInv'
  <2>1. made' = count + 1 /\ turnedDown' = turnedDown
    BY <1>6, PoolsAssumption DEF CreateNew
  <2>2. /\ made' \in Int
        /\ \/ idle = <<>> /\ idle' = <<>> /\ made' = made + 1
           \/ Len(idle') = Len(idle) - 1 /\ made' <= made
    BY <1>1, <1>6, <2>1
  <2>3. CASE works
    <3> DEFINE r == [at |-> "holds", conn |-> Fresh]
    <3>1. user' = [user EXCEPT ![u] = r] /\ living' = living \cup {Fresh} /\ failures' = failures
      BY <1>6, <2>3, PoolsAssumption DEF CreateNew
    <3>2. Fresh \in 1..MaxMade /\ Fresh \notin Existing
      BY FreshIsNew
    <3>3. r \in UserState /\ r.conn = Fresh /\ r.at = "holds" /\ Fresh # NoConn
      BY <1>5, <3>2
    <3> HIDE DEF r
    <3>4. Acquired(u, r)
      BY <1>1, <1>6, <3>1, <3>2, <3>3 DEF Acquired
    <3>5. QED
      BY <1>3, <2>1, <2>2, <3>1, <3>3, <3>4
  <2>4. CASE ~works
    <3>1. user' = [user EXCEPT ![u] = Out] /\ living' = living /\ failures' = failures + 1
      BY <1>6, <2>4, PoolsAssumption DEF CreateNew
    <3>2. Acquired(u, Out)
      BY <1>1, <1>4, <1>6, <3>1 DEF Acquired
    <3>3. QED
      BY <1>3, <1>4, <2>1, <2>2, <3>1, <3>2
  <2>5. QED
    BY <2>3, <2>4
<1>7. CASE idle = <<>>
  <2>1. CreateNew(u, made, works) /\ idle' = idle
    BY <1>7 DEF Acquires
  <2>2. Len(idle) = 0 /\ made < MaxSize
    BY <1>1, <1>2, <1>7, PoolsAssumption
  <2>3. /\ idle' \in Seq(1..MaxMade) /\ Len(idle') \in {Len(idle), Len(idle) - 1} /\ idle' = <<>>
        /\ \A i \in 1..Len(idle') : idle'[i] = idle[i]
        /\ Len(idle') = Len(idle) - 1 => idle[Len(idle)] \notin living
    BY <1>1, <1>7, <2>1, <2>2
  <2>4. QED
    BY <1>1, <1>6, <1>7, <2>1, <2>2, <2>3
<1>8. CASE idle # <<>>
  <2>1. /\ Len(idle) \in Nat \ {0} /\ idle[Len(idle)] \in 1..MaxMade
        /\ idle' \in Seq(1..MaxMade) /\ Len(idle') = Len(idle) - 1
        /\ \A i \in 1..Len(idle') : idle'[i] = idle[i]
    <3>1. idle' = SubSeq(idle, 1, Len(idle) - 1)
      BY <1>8 DEF Acquires
    <3>2. QED
      BY <1>1, <1>8, <3>1, Popped
  <2>2. CASE idle[Len(idle)] \in living
    <3> DEFINE r == [at |-> "holds", conn |-> idle[Len(idle)]]
    <3>1. user' = [user EXCEPT ![u] = r] /\ UNCHANGED <<made, living, failures, turnedDown>>
      BY <1>8, <2>2 DEF Acquires
    <3>2. r \in UserState /\ r.conn = idle[Len(idle)] /\ r.at = "holds" /\ r.conn # NoConn
      BY <1>5, <2>1
    <3> HIDE DEF r
    <3>3. Acquired(u, r)
      BY <1>1, <2>1, <3>1, <3>2 DEF Acquired
    <3>4. made' \in Int /\ made' <= made /\ failures' = failures /\ turnedDown' = turnedDown
      BY <1>1, <3>1
    <3>5. QED
      BY <1>3, <2>1, <3>2, <3>3, <3>4
  <2>3. CASE idle[Len(idle)] \notin living
    <3>1. CreateNew(u, made - 1, works)
      BY <1>8, <2>3 DEF Acquires
    <3>2. made - 1 \in Int /\ made - 1 < MaxSize
      BY <1>1, <1>2, PoolsAssumption
    <3>3. Len(idle') \in {Len(idle), Len(idle) - 1}
      BY <2>1
    <3>4. QED
      BY <1>6, <2>1, <2>3, <3>1, <3>2, <3>3
  <2>4. QED
    BY <2>2, <2>3
<1>9. QED
  BY <1>7, <1>8

(* _release(): the connection goes back, or is counted out. *)
LEMMA ReleaseKeeps ==
  ASSUME ConnIInv, NEW u \in Users, Releases(u)
  PROVE  ConnIInv'
<1> DEFINE r == [at |-> "leaving", conn |-> NoConn]
           c == user[u].conn
<1>1. /\ user[u].at = "holds" /\ user' = [user EXCEPT ![u] = r] /\ permit' = permit /\ failures' = failures
      /\ living' = living /\ turnedDown' = turnedDown
  BY DEF Releases
<1>2. /\ permit \in Nat /\ failures \in Nat /\ made \in Int /\ idle \in Seq(1..MaxMade) /\ Len(idle) \in Nat
      /\ user \in [Users -> UserState] /\ ~turnedDown /\ ConnTypeOK /\ c # NoConn /\ c \in 0..MaxMade
  BY <1>1 DEF ConnIInv, ConnTypeOK, HoldersHold, UserState
<1>3. c \in 1..MaxMade
  BY <1>2, PoolsAssumption DEF NoConn
<1>4. r \in UserState /\ r.conn = NoConn /\ r.at = "leaving"
  BY PoolsAssumption DEF UserState, NoConn
<1> HIDE DEF r
<1>5. /\ user' \in [Users -> UserState] /\ user'[u] = r
      /\ \A x \in Users : x # u => user'[x] = user[x]
  BY <1>1, <1>2, <1>4
<1>6. HoldersHold'
  BY <1>4, <1>5 DEF ConnIInv, HoldersHold, NoConn
<1>7. /\ Cardinality(Active) \in Nat /\ Cardinality(Active)' = Cardinality(Active)
      /\ Cardinality(Holding) \in Nat /\ Cardinality(Holding)' = Cardinality(Holding) - 1
      /\ Cardinality(Holding)' \in Nat
  <2>1. /\ Cardinality(Active) \in Nat /\ Cardinality(Holding) \in Nat /\ Cardinality(Holding)' \in Nat
        /\ Cardinality(Active)' = Cardinality(Active) - (IF user[u].at # "out" THEN 1 ELSE 0)
                                                       + (IF r.at # "out" THEN 1 ELSE 0)
        /\ Cardinality(Holding)' = Cardinality(Holding) - (IF user[u].conn # NoConn THEN 1 ELSE 0)
                                                         + (IF r.conn # NoConn THEN 1 ELSE 0)
    BY <1>1, <1>2, ThreadCounts
  <2>2. QED
    BY <1>1, <1>2, <1>4, <2>1
<1>8. /\ \A x \in Users : user'[x].conn # NoConn => x # u /\ user'[x].conn = user[x].conn /\ user[x].conn # c
  BY <1>2, <1>4, <1>5 DEF ConnIInv, Apart
<1>9. /\ permit + Cardinality(Active) + failures = MaxSize
      /\ Cardinality(Holding) + Len(idle) + failures <= MaxSize
      /\ made <= Cardinality(Holding) + Len(idle) + failures
  BY DEF ConnIInv, PoolCounted
<1>10. /\ \A d \in Existing : \/ d = c
                              \/ \E x \in Users : x # u /\ user[x].conn = d /\ d # NoConn
                              \/ \E i \in 1..Len(idle) : idle[i] = d
  BY <1>2 DEF Existing, Holding
<1>11. CASE c \in living
  <2>1. idle' = Append(idle, c) /\ made' = made
    BY <1>11 DEF Releases
  <2>2. /\ idle' \in Seq(1..MaxMade) /\ Len(idle') = Len(idle) + 1 /\ idle'[Len(idle) + 1] = c
        /\ \A i \in 1..Len(idle) : idle'[i] = idle[i]
    BY <1>2, <1>3, <2>1, AppendProperties
  <2>3. \A i \in 1..Len(idle') : i \in 1..Len(idle) \/ i = Len(idle) + 1
    BY <1>2, <2>2
  <2>4. Apart'
    <3>1. \A v, w \in Users : user'[v].conn # NoConn /\ user'[v].conn = user'[w].conn => v = w
      BY <1>8 DEF ConnIInv, Apart
    <3>2. \A i \in 1..Len(idle) : idle[i] # c
      BY DEF ConnIInv, Apart
    <3>3. \A i, j \in 1..Len(idle') : idle'[i] = idle'[j] => i = j
      BY <2>2, <2>3, <3>2 DEF ConnIInv, Apart
    <3>4. \A i \in 1..Len(idle') : idle'[i] # NoConn
      BY <2>2, ElementOfSeq, PoolsAssumption DEF NoConn
    <3>5. ASSUME NEW x \in Users, NEW i \in 1..Len(idle') PROVE user'[x].conn # idle'[i]
      <4>1. CASE user'[x].conn = NoConn
        BY <3>4, <4>1
      <4>2. CASE user'[x].conn # NoConn
        <5>1. user'[x].conn = user[x].conn /\ user[x].conn # c
          BY <1>8, <4>2
        <5>2. CASE i \in 1..Len(idle)
          BY <2>2, <5>1, <5>2 DEF ConnIInv, Apart
        <5>3. CASE i = Len(idle) + 1
          BY <2>2, <5>1, <5>3
        <5>4. QED
          BY <2>3, <5>2, <5>3
      <4>3. QED
        BY <4>1, <4>2
    <3>6. QED
      BY <3>1, <3>3, <3>5 DEF Apart, NoConn
  <2>5. living' \subseteq Existing'
    <3>1. /\ \A x \in Users : user'[x].conn # NoConn => user'[x].conn \in Existing'
          /\ \A i \in 1..Len(idle') : idle'[i] \in Existing'
      BY <2>2 DEF Existing, Holding, NoConn
    <3>2. /\ Len(idle) + 1 \in 1..Len(idle') /\ \A i \in 1..Len(idle) : i \in 1..Len(idle')
      BY <1>2, <2>2
    <3>3. ASSUME NEW d \in living PROVE d \in Existing'
      <4>1. d \in Existing
        BY DEF ConnIInv, ConnTypeOK
      <4>2. CASE d = c
        BY <2>2, <3>1, <3>2, <4>2
      <4>3. CASE \E x \in Users : x # u /\ user[x].conn = d /\ d # NoConn
        BY <1>5, <3>1, <4>3
      <4>4. CASE \E i \in 1..Len(idle) : idle[i] = d
        BY <2>2, <3>1, <3>2, <4>4
      <4>5. QED
        BY <1>10, <4>1, <4>2, <4>3, <4>4
    <3>4. QED
      BY <1>1, <3>3
  <2>6. PoolCounted'
    <3> DEFINE active == Cardinality(Active)
               holding == Cardinality(Holding)
               spare == Len(idle)
    <3>1. /\ active \in Nat /\ holding \in Nat /\ spare \in Nat
          /\ permit \in Nat /\ failures \in Nat /\ made \in Int /\ MaxSize \in Nat
      BY <1>2, <1>7, PoolsAssumption
    <3>2. /\ active' = active /\ holding' = holding - 1 /\ spare' = spare + 1
          /\ permit' = permit /\ failures' = failures /\ made' = made
      BY <1>1, <1>2, <1>7, <2>1, <2>2
    <3>3. /\ permit + active + failures = MaxSize
          /\ holding + spare + failures <= MaxSize /\ made <= holding + spare + failures
      BY <1>9
    <3>4. PoolCounted' = /\ permit' + active' + failures' = MaxSize
                         /\ holding' + spare' + failures' <= MaxSize
                         /\ made' <= holding' + spare' + failures'
      BY DEF PoolCounted
    <3> HIDE DEF active, holding, spare
    <3>5. QED
      BY <3>1, <3>2, <3>3, <3>4
  <2>7. ConnTypeOK'
    BY <1>1, <1>2, <1>5, <2>1, <2>2, <2>5 DEF ConnTypeOK, UserState
  <2>8. QED
    BY <1>1, <1>2, <1>6, <2>4, <2>6, <2>7 DEF ConnIInv
<1>12. CASE c \notin living
  <2>1. idle' = idle /\ made' = made - 1
    BY <1>12 DEF Releases
  <2>2. Apart'
    <3>1. \A v, w \in Users : user'[v].conn # NoConn /\ user'[v].conn = user'[w].conn => v = w
      BY <1>8 DEF ConnIInv, Apart
    <3>2. \A i \in 1..Len(idle) : idle[i] # NoConn
      BY <1>2, ElementOfSeq, PoolsAssumption DEF NoConn
    <3>3. \A x \in Users, i \in 1..Len(idle) : user'[x].conn # idle[i]
      BY <1>8, <3>2 DEF ConnIInv, Apart
    <3>4. QED
      BY <2>1, <3>1, <3>3 DEF ConnIInv, Apart, NoConn
  <2>3. living' \subseteq Existing'
    <3>1. /\ \A x \in Users : user'[x].conn # NoConn => user'[x].conn \in Existing'
          /\ \A i \in 1..Len(idle) : idle[i] \in Existing'
      BY <1>2, <2>1 DEF Existing, Holding, NoConn
    <3>2. ASSUME NEW d \in living PROVE d \in Existing'
      <4>1. d \in Existing /\ d # c
        BY <1>12 DEF ConnIInv, ConnTypeOK
      <4>2. CASE \E x \in Users : x # u /\ user[x].conn = d /\ d # NoConn
        BY <1>5, <3>1, <4>2
      <4>3. CASE \E i \in 1..Len(idle) : idle[i] = d
        BY <3>1, <4>3
      <4>4. QED
        BY <1>10, <4>1, <4>2, <4>3
    <3>3. QED
      BY <1>1, <3>2
  <2>4. PoolCounted'
    <3> DEFINE active == Cardinality(Active)
               holding == Cardinality(Holding)
               spare == Len(idle)
    <3>1. /\ active \in Nat /\ holding \in Nat /\ spare \in Nat
          /\ permit \in Nat /\ failures \in Nat /\ made \in Int /\ MaxSize \in Nat
      BY <1>2, <1>7, PoolsAssumption
    <3>2. /\ active' = active /\ holding' = holding - 1 /\ spare' = spare
          /\ permit' = permit /\ failures' = failures /\ made' = made - 1
      BY <1>1, <1>2, <1>7, <2>1
    <3>3. /\ permit + active + failures = MaxSize
          /\ holding + spare + failures <= MaxSize /\ made <= holding + spare + failures
      BY <1>9
    <3>4. PoolCounted' = /\ permit' + active' + failures' = MaxSize
                         /\ holding' + spare' + failures' <= MaxSize
                         /\ made' <= holding' + spare' + failures'
      BY DEF PoolCounted
    <3> HIDE DEF active, holding, spare
    <3>5. QED
      BY <3>1, <3>2, <3>3, <3>4
  <2>5. ConnTypeOK'
    BY <1>1, <1>2, <1>5, <2>1, <2>3 DEF ConnTypeOK, UserState
  <2>6. QED
    BY <1>1, <1>2, <1>6, <2>2, <2>4, <2>5 DEF ConnIInv
<1>13. QED
  BY <1>11, <1>12

(* close_all() forgets the idle ones; a connection that dies stays where it
   is. *)
LEMMA ClosingKeeps ==
  ASSUME ConnIInv, close_all
  PROVE  ConnIInv'
<1>1. /\ living' = living \ {idle[i] : i \in DOMAIN idle} /\ idle' = <<>> /\ made' = 0
      /\ UNCHANGED <<permit, user, failures, turnedDown>>
  BY DEF close_all
<1>2. /\ permit \in Nat /\ failures \in Nat /\ Len(idle) \in Nat /\ idle \in Seq(1..MaxMade)
      /\ user \in [Users -> UserState] /\ living \subseteq Existing
  BY DEF ConnIInv, ConnTypeOK
<1>3. Holding' = Holding /\ Active' = Active /\ Len(idle') = 0 /\ idle' \in Seq(1..MaxMade)
  BY <1>1 DEF Holding, Active
<1>4. living' \subseteq Existing'
  BY <1>1, <1>2 DEF Existing, Holding
<1>5. ConnTypeOK'
  BY <1>1, <1>2, <1>3, <1>4 DEF ConnTypeOK, UserState
<1>6. HoldersHold'
  BY <1>1 DEF ConnIInv, HoldersHold
<1>7. Apart'
  BY <1>1, <1>3 DEF ConnIInv, Apart
<1>8. PoolCounted'
  <2>1. Cardinality(Holding) \in Nat
    BY PoolsAssumption, FS_Subset, FS_CardinalityType DEF Holding
  <2>2. /\ permit + Cardinality(Active) + failures = MaxSize
        /\ Cardinality(Holding) + Len(idle) + failures <= MaxSize
    BY DEF ConnIInv, PoolCounted
  <2>3. /\ Cardinality(Holding) + 0 + failures <= MaxSize
        /\ 0 <= Cardinality(Holding) + 0 + failures
    BY <1>2, <2>1, <2>2, PoolsAssumption
  <2>4. QED
    BY <1>1, <1>3, <2>2, <2>3 DEF PoolCounted
<1>9. QED
  BY <1>1, <1>5, <1>6, <1>7, <1>8 DEF ConnIInv

LEMMA DeathKeeps ==
  ASSUME ConnIInv, NEW c \in 1..MaxMade, ConnectionDies(c)
  PROVE  ConnIInv'
<1>1. living' \subseteq living /\ UNCHANGED <<permit, idle, made, user, failures, turnedDown>>
  BY DEF ConnectionDies
<1>2. Existing' = Existing /\ Holding' = Holding /\ Active' = Active
  BY <1>1 DEF Existing, Holding, Active
<1>3. ConnTypeOK'
  BY <1>1, <1>2 DEF ConnIInv, ConnTypeOK, UserState
<1>4. HoldersHold' /\ Apart'
  BY <1>1 DEF ConnIInv, HoldersHold, Apart
<1>5. PoolCounted'
  BY <1>1, <1>2 DEF ConnIInv, PoolCounted
<1>6. QED
  BY <1>1, <1>3, <1>4, <1>5 DEF ConnIInv

LEMMA ConnInit == PoolsInit => ConnIInv
<1>1. SUFFICES ASSUME PoolsInit PROVE ConnIInv
  OBVIOUS
<1>2. /\ permit = MaxSize /\ idle = <<>> /\ made = 0 /\ user = [u \in Users |-> Out]
      /\ living = {} /\ failures = 0 /\ ~turnedDown
  BY <1>1 DEF PoolsInit
<1>3. Out \in UserState /\ Out.at = "out" /\ Out.conn = NoConn
  BY PoolsAssumption DEF Out, UserState, NoConn
<1>4. Holding = {} /\ Active = {} /\ Len(idle) = 0
  BY <1>2, <1>3 DEF Holding, Active
<1>5. ConnTypeOK
  BY <1>2, <1>3, PoolsAssumption DEF ConnTypeOK
<1>6. HoldersHold /\ Apart
  BY <1>2, <1>3, <1>4 DEF HoldersHold, Apart
<1>7. PoolCounted
  BY <1>2, <1>4, FS_EmptySet, PoolsAssumption DEF PoolCounted
<1>8. QED
  BY <1>2, <1>5, <1>6, <1>7 DEF ConnIInv

LEMMA ConnStep ==
  ASSUME ConnIInv, [PoolsNext]_poolsVars
  PROVE  ConnIInv'
<1>1. ASSUME NEW u \in Users, TakesPermit(u) \/ Releases(u) \/ GivesPermit(u)
      PROVE  ConnIInv'
  BY <1>1, PermitKeeps, ReleaseKeeps
<1>2. ASSUME NEW u \in Users, NEW works \in BOOLEAN, Acquires(u, works)
      PROVE  ConnIInv'
  BY <1>2, AcquireKeeps
<1>3. CASE close_all
  BY <1>3, ClosingKeeps
<1>4. ASSUME NEW c \in 1..MaxMade, ConnectionDies(c)
      PROVE  ConnIInv'
  BY <1>4, DeathKeeps
<1>5. CASE UNCHANGED connVars
  <2>1. /\ permit' = permit /\ idle' = idle /\ made' = made /\ user' = user
        /\ living' = living /\ failures' = failures /\ turnedDown' = turnedDown
    BY <1>5 DEF connVars
  <2>2. Existing' = Existing /\ Holding' = Holding /\ Active' = Active
    BY <2>1 DEF Existing, Holding, Active
  <2>3. ConnTypeOK' /\ HoldersHold' /\ Apart'
    BY <2>1, <2>2 DEF ConnIInv, ConnTypeOK, HoldersHold, Apart
  <2>4. PoolCounted'
    BY <2>1, <2>2 DEF ConnIInv, PoolCounted
  <2>5. QED
    BY <2>1, <2>3, <2>4 DEF ConnIInv
<1>6. CASE ClockTicks \/ Allow
  <2>1. UNCHANGED connVars
    BY <1>6 DEF ClockTicks, Allow
  <2>2. QED
    BY <1>5, <2>1
<1>7. CASE UNCHANGED poolsVars
  BY <1>5, <1>7 DEF poolsVars
<1>8. QED
  BY <1>1, <1>2, <1>3, <1>4, <1>6, <1>7 DEF PoolsNext

(* Threads, deaths, failed factories and close_all() in any order keep the
   pool's books, and the bucket its accounts. *)
THEOREM PoolsInductive == PoolsSpec => [](ConnIInv /\ RateIInv)
<1>1. PoolsInit => ConnIInv
  BY ConnInit
<1>2. ConnIInv /\ [PoolsNext]_poolsVars => ConnIInv'
  BY ConnStep
<1>3. QED
  BY <1>1, <1>2, RateInductive, PTL DEF PoolsSpec

(* ConnectionPool and RateLimiter, for any threads, sizes and rates: a
   connection is in one place, there are at most max_size, who has a permit
   is not turned down, a permit is lost only with a failed factory; and no
   stretch of time sees more requests than a full bucket and what flowed in. *)
THEOREM PoolsKeepTheirBounds == PoolsSpec => []PoolsHold
<1>1. ConnIInv => ConnectionsAccounted
  <2>1. SUFFICES ASSUME ConnIInv PROVE ConnectionsAccounted
    OBVIOUS
  <2>2. Cardinality(Existing) = Cardinality(Holding) + Len(idle)
    BY <2>1, ExistingCounted DEF ConnIInv
  <2>3. Cardinality(Holding) \in Nat
    BY PoolsAssumption, FS_Subset, FS_CardinalityType DEF Holding
  <2>4. Cardinality(Existing) <= MaxSize
    BY <2>1, <2>2, <2>3, PoolsAssumption DEF ConnIInv, PoolCounted, ConnTypeOK
  <2>5. permit + Cardinality({u \in Users : user[u].at # "out"}) + failures = MaxSize
    BY <2>1 DEF ConnIInv, PoolCounted, Active
  <2>6. \A u, v \in Holding : u # v => user[u].conn # user[v].conn
    BY <2>1 DEF ConnIInv, Apart, Holding
  <2>7. ~turnedDown
    BY <2>1 DEF ConnIInv
  <2>8. QED
    BY <2>2, <2>4, <2>5, <2>6, <2>7 DEF ConnectionsAccounted
<1>2. RateIInv => RateKept
  BY DEF RateIInv, RateKept, Kept, Cost, Full, Inflow
<1>3. ConnIInv /\ RateIInv => PoolsHold
  BY <1>1, <1>2 DEF PoolsHold
<1>4. QED
  BY <1>3, PoolsInductive, PTL

---------------------------------------------------------------------------

(* TradeDispatch, for any jobs and providers.  First what a job has: what is
   said is taken, before it is asked nothing is, a result comes at its end, and
   a success is one. *)
AllModes == {"none", "single", "parallel", "fallback", "broadcast", "trade", "race"}
JobRecs ==
    [mode : AllModes,
     step : {"idle", "waiting", "running", "resting", "end"}, attempt : Nat,
     list : Seq(Providers) \cup {Unset}, at : Nat,
     flight : SUBSET Providers, asked : SUBSET Providers, took : SUBSET Providers,
     said : SUBSET Providers, stayed : SUBSET Providers, removed : Nat,
     result : {Unset, "success", "failed", "raised"}]

Untouched(r) == r.flight = {} /\ r.asked = {} /\ r.took = {} /\ r.said = {} /\ r.stayed = {}

Successful(r) ==
    /\ r.took # {}
    /\ r.mode = "broadcast" => 2 * Cardinality(r.took) > Cardinality(r.asked)

JobOK(r) ==
    /\ r.said \subseteq r.took
    /\ r.step \in {"idle", "waiting"} => Untouched(r)
    /\ r.step # "end" => r.result = Unset
    /\ r.result = "success" => Successful(r)

DispatchTypeOK ==
    /\ facade \in {"manager", "executor", "hotpath"}
    /\ clients \in Seq(Providers) /\ order \in Seq(Providers)
    /\ job \in [Jobs -> JobRecs]

DispatchIInv == DispatchTypeOK /\ \A j \in Jobs : JobOK(job[j])

LEMMA DroppedIsSeq ==
  ASSUME NEW s \in Seq(Providers), NEW p
  PROVE  Dropped(s, p) \in Seq(Providers)
<1>1. CASE p \in Seqs!ToSet(s)
  <2> DEFINE i == CHOOSE i \in DOMAIN s : s[i] = p
  <2>1. i \in DOMAIN s
    BY <1>1 DEF Seqs!ToSet
  <2>2. Len(s) \in Nat /\ i \in 1..Len(s) /\ \A k \in 1..Len(s) : s[k] \in Providers
    BY <2>1, ElementOfSeq
  <2> HIDE DEF i
  <2>3. SubSeq(s, 1, i - 1) \in Seq(Providers)
    <3>1. i - 1 \in Int /\ \A k \in 1..(i - 1) : s[k] \in Providers
      BY <2>2
    <3>2. QED
      BY <3>1, SubSeqProperties
  <2>4. SubSeq(s, i + 1, Len(s)) \in Seq(Providers)
    <3>1. i + 1 \in Int /\ Len(s) \in Int /\ \A k \in (i + 1)..Len(s) : s[k] \in Providers
      BY <2>2
    <3>2. QED
      BY <3>1, SubSeqProperties
  <2>5. SubSeq(s, 1, i - 1) \o SubSeq(s, i + 1, Len(s)) \in Seq(Providers)
    BY <2>3, <2>4, ConcatProperties
  <2>6. QED
    BY <1>1, <2>5 DEF Dropped, Seqs!RemoveAt, i
<1>2. CASE p \notin Seqs!ToSet(s)
  BY <1>2 DEF Dropped
<1>3. QED
  BY <1>1, <1>2

LEMMA ArrangedIsSeq ==
  ASSUME NEW S \in SUBSET Providers, NEW s \in Seqs!SetToSeqs(S)
  PROVE  s \in Seq(Providers)
<1>1. IsFiniteSet(S)
  BY DispatchAssumption, FS_Subset
<1>2. Cardinality(S) \in Nat
  BY <1>1, FS_CardinalityType
<1>3. Seqs!Cardinality(S) = Cardinality(S)
  BY Zenon DEF Seqs!Cardinality, Cardinality, Seqs!IsFiniteSet, IsFiniteSet
<1>4. s \in [1..Cardinality(S) -> S]
  BY <1>2, <1>3 DEF Seqs!SetToSeqs
<1>5. QED
  BY <1>2, <1>4

LEMMA ConfiguredIsSeq ==
  ASSUME NEW s \in Seq(Providers)
  PROVE  Configured(s) \in Seq(Providers)
<1>1. Append(s, DefaultProvider) \in Seq(Providers)
  BY DispatchAssumption, AppendProperties
<1>2. QED
  BY <1>1 DEF Configured

LEMMA ElementsAreProviders ==
  ASSUME NEW s \in Seq(Providers)
  PROVE  Seqs!ToSet(s) \in SUBSET Providers
BY ElementOfSeq DEF Seqs!ToSet

LEMMA DispatchTypesInit == DispatchInit => DispatchIInv
<1>1. SUFFICES ASSUME DispatchInit PROVE DispatchIInv
  OBVIOUS
<1>2. PICK chosen \in Seqs!SetToSeqs(Providers \ {DefaultProvider}) :
          clients = IF facade = "executor" THEN Configured(chosen) ELSE chosen
  BY <1>1 DEF DispatchInit
<1>3. chosen \in Seq(Providers)
  BY ArrangedIsSeq
<1>4. clients \in Seq(Providers)
  BY <1>2, <1>3, ConfiguredIsSeq
<1>5. order \in Seq(Providers) /\ facade \in {"manager", "executor", "hotpath"}
  <2>1. facade \in {"manager", "executor", "hotpath"} /\ order = IF facade = "manager" THEN clients ELSE <<>>
    BY <1>1 DEF DispatchInit
  <2>2. QED
    BY <1>4, <2>1
<1>6. Idle \in JobRecs /\ JobOK(Idle)
  BY DispatchAssumption DEF Idle, JobRecs, AllModes, JobOK, Untouched
<1>7. job = [j \in Jobs |-> Idle]
  BY <1>1 DEF DispatchInit
<1>8. QED
  BY <1>4, <1>5, <1>6, <1>7 DEF DispatchIInv, DispatchTypeOK

(* One job changes. *)
LEMMA OneJobChanges ==
  ASSUME DispatchIInv, NEW j \in Jobs, NEW r \in JobRecs, JobOK(r), job' = [job EXCEPT ![j] = r],
         facade' = facade, clients' \in Seq(Providers), order' = order
  PROVE  DispatchIInv'
<1>1. job \in [Jobs -> JobRecs] /\ order \in Seq(Providers) /\ facade \in {"manager", "executor", "hotpath"}
      /\ \A k \in Jobs : JobOK(job[k])
  BY DEF DispatchIInv, DispatchTypeOK
<1>2. job' \in [Jobs -> JobRecs] /\ \A k \in Jobs : job'[k] = IF k = j THEN r ELSE job[k]
  BY <1>1
<1>3. DispatchTypeOK'
  BY <1>1, <1>2 DEF DispatchTypeOK, JobRecs
<1>4. \A k \in Jobs : JobOK(job'[k])
  BY <1>1, <1>2
<1>5. QED
  BY <1>3, <1>4 DEF DispatchIInv, JobOK, Untouched, Successful

(* What the steps write. *)
LEMMA BegunRecord ==
  ASSUME NEW q \in JobRecs, q.step = "waiting", JobOK(q),
         NEW mode \in AllModes,
         NEW list \in Seq(Providers) \cup {Unset},
         NEW targets \in SUBSET Providers, NEW due \in SUBSET Providers
  PROVE  LET r == [q EXCEPT !.step = "running", !.mode = mode, !.list = list,
                            !.at = 0, !.asked = targets, !.flight = targets, !.stayed = due,
                            !.removed = 0]
         IN  r \in JobRecs /\ JobOK(r)
<1> DEFINE r == [q EXCEPT !.step = "running", !.mode = mode, !.list = list,
                          !.at = 0, !.asked = targets, !.flight = targets, !.stayed = due,
                            !.removed = 0]
<1>1. r \in JobRecs
  BY DEF JobRecs
<1>2. r.step = "running" /\ r.took = q.took /\ r.said = q.said /\ r.result = q.result
  BY DEF JobRecs
<1>3. r.said \subseteq r.took /\ r.result = Unset
  BY <1>2 DEF JobOK
<1> HIDE DEF r
<1>4. JobOK(r)
  BY <1>2, <1>3, DispatchAssumption DEF JobOK
<1>5. QED
  BY <1>1, <1>4 DEF r

LEMMA EndedRecord ==
  ASSUME NEW q \in JobRecs, JobOK(q)
  PROVE  LET r == [q EXCEPT !.step = "end", !.result = "failed"]
         IN  r \in JobRecs /\ JobOK(r)
BY DispatchAssumption DEF JobRecs, JobOK, Untouched

LEMMA ExecutedRecord ==
  ASSUME NEW q \in JobRecs, JobOK(q), q.step = "idle", NEW mode \in AllModes
  PROVE  LET r == [q EXCEPT !.mode = mode, !.step = "waiting"]
         IN  r \in JobRecs /\ JobOK(r)
BY DispatchAssumption DEF JobRecs, JobOK, Untouched

LEMMA AskingRecord ==
  ASSUME NEW q \in JobRecs, JobOK(q), q.step = "running", q.mode # "broadcast", NEW asks \in SUBSET Providers
  PROVE  LET r == [q EXCEPT !.at = @ + 1, !.flight = asks, !.asked = @ \cup asks]
         IN  r \in JobRecs /\ JobOK(r)
<1> DEFINE r == [q EXCEPT !.at = @ + 1, !.flight = asks, !.asked = @ \cup asks]
<1>1. r \in JobRecs
  <2>1. q.at + 1 \in Nat /\ q.asked \cup asks \in SUBSET Providers
    BY DEF JobRecs
  <2>2. \A n \in Nat, k \in SUBSET Providers : [q EXCEPT !.at = n, !.flight = asks, !.asked = k] \in JobRecs
    BY DEF JobRecs
  <2>3. QED
    BY <2>1, <2>2
<1>2. r.step = q.step /\ r.took = q.took /\ r.said = q.said /\ r.result = q.result
  BY DEF JobRecs
<1>3. r.said \subseteq r.took /\ r.result = Unset
  BY <1>2 DEF JobOK
<1> HIDE DEF r
<1>4. JobOK(r)
  BY <1>2, <1>3, DispatchAssumption DEF JobOK
<1>5. QED
  BY <1>1, <1>4 DEF r

LEMMA RestingRecord ==
  ASSUME NEW q \in JobRecs, JobOK(q), q.step = "running"
  PROVE  LET r == [q EXCEPT !.step = "resting", !.attempt = q.attempt + 1]
         IN  r \in JobRecs /\ JobOK(r)
<1> DEFINE n == q.attempt + 1
           r == [q EXCEPT !.step = "resting", !.attempt = n]
<1>1. n \in Nat
  BY DEF JobRecs
<1> HIDE DEF n
<1>2. r \in JobRecs
  BY <1>1 DEF JobRecs
<1>3. r.step = "resting" /\ r.took = q.took /\ r.said = q.said /\ r.result = q.result
  BY DEF JobRecs
<1>4. r.said \subseteq r.took /\ r.result = Unset
  BY <1>3 DEF JobOK
<1> HIDE DEF r
<1>5. JobOK(r)
  BY <1>3, <1>4, DispatchAssumption DEF JobOK
<1>6. QED
  BY <1>2, <1>5 DEF r, n

LEMMA ResumedRecord ==
  ASSUME NEW q \in JobRecs, JobOK(q), q.step = "resting",
         NEW list \in Seq(Providers) \cup {Unset}, NEW due \in SUBSET Providers
  PROVE  LET r == [q EXCEPT !.step = "running", !.at = 0, !.asked = {}, !.list = list,
                            !.stayed = due, !.removed = 0]
         IN  r \in JobRecs /\ JobOK(r)
<1> DEFINE r == [q EXCEPT !.step = "running", !.at = 0, !.asked = {}, !.list = list,
                          !.stayed = due, !.removed = 0]
<1>1. r \in JobRecs
  BY DEF JobRecs
<1>2. r.step = "running" /\ r.took = q.took /\ r.said = q.said /\ r.result = q.result
  BY DEF JobRecs
<1>3. r.said \subseteq r.took /\ r.result = Unset
  BY <1>2 DEF JobOK
<1> HIDE DEF r
<1>4. JobOK(r)
  BY <1>2, <1>3, DispatchAssumption DEF JobOK
<1>5. QED
  BY <1>1, <1>4 DEF r

LEMMA RaisedRecord ==
  ASSUME NEW q \in JobRecs, JobOK(q), NEW takes \in SUBSET Providers
  PROVE  LET r == [q EXCEPT !.flight = {}, !.step = "end", !.result = "raised",
                            !.took = q.took \cup takes]
         IN  r \in JobRecs /\ JobOK(r)
<1> DEFINE k == q.took \cup takes
           r == [q EXCEPT !.flight = {}, !.step = "end", !.result = "raised", !.took = k]
<1>1. k \in SUBSET Providers /\ q.said \subseteq k
  BY DEF JobRecs, JobOK
<1> HIDE DEF k
<1>2. r \in JobRecs
  BY <1>1 DEF JobRecs
<1>3. r.step = "end" /\ r.took = k /\ r.said = q.said /\ r.result = "raised"
  BY DEF JobRecs
<1> HIDE DEF r
<1>4. JobOK(r)
  BY <1>1, <1>3 DEF JobOK
<1>5. QED
  BY <1>2, <1>4 DEF r, k

(* What more providers took makes no success less of one. *)
LEMMA MoreTaken ==
  ASSUME NEW q \in JobRecs, Successful(q), NEW r \in JobRecs, q.took \subseteq r.took,
         r.mode = q.mode, r.asked = q.asked
  PROVE  Successful(r)
<1>1. q.took \subseteq Providers /\ r.took \subseteq Providers /\ q.asked \subseteq Providers
  BY DEF JobRecs
<1>2. IsFiniteSet(r.took) /\ IsFiniteSet(q.asked)
  BY <1>1, DispatchAssumption, FS_Subset
<1>3. IsFiniteSet(q.took) /\ Cardinality(q.took) <= Cardinality(r.took)
  BY <1>2, FS_Subset
<1>4. Cardinality(q.took) \in Nat /\ Cardinality(r.took) \in Nat /\ Cardinality(q.asked) \in Nat
  BY <1>2, <1>3, FS_CardinalityType
<1>5. r.took # {}
  BY DEF Successful
<1>6. ASSUME r.mode = "broadcast" PROVE 2 * Cardinality(r.took) > Cardinality(r.asked)
  <2>1. 2 * Cardinality(q.took) > Cardinality(q.asked)
    BY <1>6 DEF Successful
  <2>2. QED
    BY <1>3, <1>4, <2>1
<1>7. QED
  BY <1>5, <1>6 DEF Successful

LEMMA TimedOutRecord ==
  ASSUME NEW q \in JobRecs, JobOK(q), q.step = "running", NEW takes \in SUBSET Providers
  PROVE  LET r == [q EXCEPT !.flight = {}, !.took = @ \cup takes]
             e == [q EXCEPT !.flight = {}, !.took = @ \cup takes, !.step = "end", !.result = "failed"]
         IN  r \in JobRecs /\ JobOK(r) /\ e \in JobRecs /\ JobOK(e)
<1> DEFINE r == [q EXCEPT !.flight = {}, !.took = @ \cup takes]
           e == [q EXCEPT !.flight = {}, !.took = @ \cup takes, !.step = "end", !.result = "failed"]
<1>1. r \in JobRecs
  BY DEF JobRecs
<1>2. r.step = q.step /\ r.took = q.took \cup takes /\ r.said = q.said /\ r.result = q.result
  BY DEF JobRecs
<1>3. r.said \subseteq r.took /\ r.result = Unset
  BY <1>2 DEF JobOK
<1>4. e \in JobRecs
  BY DEF JobRecs
<1>5. e.step = "end" /\ e.took = q.took \cup takes /\ e.said = q.said /\ e.result = "failed"
  BY DEF JobRecs
<1>6. e.said \subseteq e.took
  BY <1>5 DEF JobOK
<1> HIDE DEF r, e
<1>7. JobOK(r)
  BY <1>2, <1>3, DispatchAssumption DEF JobOK
<1>8. JobOK(e)
  BY <1>5, <1>6 DEF JobOK
<1>9. QED
  BY <1>1, <1>4, <1>7, <1>8 DEF r, e

(* A list that is let go of, and a provider that did not stay. *)
LEMMA FollowedRecord ==
  ASSUME NEW q \in JobRecs, JobOK(q), NEW list \in Seq(Providers), NEW p, NEW n \in Nat
  PROVE  LET r == [q EXCEPT !.list = list]
             e == [q EXCEPT !.stayed = @ \ {p}]
             f == [q EXCEPT !.stayed = @ \ {p}, !.removed = n]
         IN  r \in JobRecs /\ JobOK(r) /\ e \in JobRecs /\ JobOK(e) /\ f \in JobRecs /\ JobOK(f)
<1> DEFINE r == [q EXCEPT !.list = list]
           e == [q EXCEPT !.stayed = @ \ {p}]
           f == [q EXCEPT !.stayed = @ \ {p}, !.removed = n]
<1>1. r \in JobRecs /\ e \in JobRecs /\ f \in JobRecs
  BY DEF JobRecs
<1>2. /\ r.step = q.step /\ r.took = q.took /\ r.said = q.said /\ r.result = q.result
      /\ r.asked = q.asked /\ r.flight = q.flight /\ r.stayed = q.stayed /\ r.mode = q.mode
  BY DEF JobRecs
<1>3. /\ e.step = q.step /\ e.took = q.took /\ e.said = q.said /\ e.result = q.result
      /\ e.asked = q.asked /\ e.flight = q.flight /\ e.stayed = q.stayed \ {p} /\ e.mode = q.mode
  BY DEF JobRecs
<1>4. /\ f.step = q.step /\ f.took = q.took /\ f.said = q.said /\ f.result = q.result
      /\ f.asked = q.asked /\ f.flight = q.flight /\ f.stayed = q.stayed \ {p} /\ f.mode = q.mode
  BY DEF JobRecs
<1> HIDE DEF r, e, f
<1>5. JobOK(r)
  BY <1>2 DEF JobOK, Untouched, Successful
<1>6. JobOK(e)
  BY <1>3 DEF JobOK, Untouched, Successful
<1>7. JobOK(f)
  BY <1>4 DEF JobOK, Untouched, Successful
<1>8. QED
  BY <1>1, <1>5, <1>6, <1>7 DEF r, e, f

(* An answer.  Who says so has taken the transaction; a verdict of success is
   over those who say so. *)
LEMMA AnsweredRecord ==
  ASSUME NEW q \in JobRecs, JobOK(q), q.flight # {},
         NEW said \in SUBSET Providers, NEW takes \in SUBSET Providers, NEW flight \in SUBSET Providers,
         said \subseteq takes, q.took \subseteq takes,
         NEW over \in BOOLEAN, over => q.step = "running",
         NEW verdict \in {"success", "failed"},
         verdict = "success" => IF q.mode = "broadcast" THEN 2 * Cardinality(said) > Cardinality(q.asked)
                                                         ELSE said # {}
  PROVE  LET r == [q EXCEPT !.flight = flight, !.said = said, !.took = takes,
                            !.step = IF over THEN "end" ELSE q.step, !.result = IF over THEN verdict ELSE q.result]
         IN  r \in JobRecs /\ JobOK(r)
<1> DEFINE st == IF over THEN "end" ELSE q.step
           res == IF over THEN verdict ELSE q.result
           r == [q EXCEPT !.flight = flight, !.said = said, !.took = takes, !.step = st, !.result = res]
<1>1. /\ st \in {"idle", "waiting", "running", "resting", "end"}
      /\ res \in {Unset, "success", "failed", "raised"}
  BY DEF JobRecs
<1>2. q.step \notin {"idle", "waiting"} /\ st \notin {"idle", "waiting"}
  BY DEF JobOK, Untouched
<1>3. st # "end" => res = Unset
  BY DEF JobOK
<1>4. r \in JobRecs
  <2> HIDE DEF st, res
  <2>1. QED
    BY <1>1 DEF JobRecs
<1>5. /\ r.step = st /\ r.took = takes /\ r.said = said /\ r.result = res
      /\ r.mode = q.mode /\ r.asked = q.asked
  BY DEF JobRecs
<1> HIDE DEF r
<1>6. ASSUME res = "success" PROVE Successful(r)
  <2>1. CASE ~over
    <3>1. Successful(q)
      BY <1>6, <2>1 DEF JobOK
    <3>2. QED
      BY <1>4, <1>5, <3>1, MoreTaken
  <2>2. CASE over
    <3>1. IsFiniteSet(takes) /\ IsFiniteSet(q.asked) /\ IsFiniteSet(said) /\ Cardinality(said) <= Cardinality(takes)
      <4>1. IsFiniteSet(takes) /\ IsFiniteSet(q.asked)
        BY DispatchAssumption, FS_Subset DEF JobRecs
      <4>2. QED
        BY <4>1, FS_Subset
    <3>2. /\ Cardinality(said) \in Nat /\ Cardinality(takes) \in Nat /\ Cardinality(q.asked) \in Nat
          /\ (Cardinality(said) = 0 <=> said = {})
      BY <3>1, FS_CardinalityType, FS_EmptySet
    <3>3. CASE q.mode = "broadcast"
      <4>1. 2 * Cardinality(said) > Cardinality(q.asked)
        BY <1>6, <2>2, <3>3
      <4>2. said # {} /\ 2 * Cardinality(takes) > Cardinality(q.asked)
        BY <3>1, <3>2, <4>1
      <4>3. QED
        BY <1>5, <4>2 DEF Successful
    <3>4. CASE q.mode # "broadcast"
      <4>1. said # {}
        BY <1>6, <2>2, <3>4
      <4>2. QED
        BY <1>5, <3>4, <4>1 DEF Successful
    <3>5. QED
      BY <3>3, <3>4
  <2>3. QED
    BY <2>1, <2>2
<1>7. JobOK(r)
  BY <1>2, <1>3, <1>5, <1>6 DEF JobOK
<1>8. QED
  BY <1>4, <1>7 DEF r, st, res

---------------------------------------------------------------------------
(* The steps. *)
LEMMA DispatchFacts ==
  ASSUME DispatchIInv
  PROVE  /\ clients \in Seq(Providers) /\ order \in Seq(Providers) /\ job \in [Jobs -> JobRecs]
         /\ \A j \in Jobs : job[j] \in JobRecs /\ JobOK(job[j])
         /\ Present \in SUBSET Providers /\ Enabled \in SUBSET Providers
         /\ \A j \in Jobs : List(j) \in Seq(Providers)
<1>1. /\ clients \in Seq(Providers) /\ order \in Seq(Providers) /\ job \in [Jobs -> JobRecs]
      /\ \A j \in Jobs : job[j] \in JobRecs /\ JobOK(job[j])
  BY DEF DispatchIInv, DispatchTypeOK
<1>2. Present \in SUBSET Providers /\ Enabled \in SUBSET Providers
  BY <1>1, ElementsAreProviders DEF Present, Enabled
<1>3. \A j \in Jobs : job[j].list \in Seq(Providers) \cup {Unset}
  BY <1>1 DEF JobRecs
<1>4. QED
  BY <1>1, <1>2, <1>3 DEF List

LEMMA AnswerKeeps ==
  ASSUME DispatchIInv, NEW j \in Jobs, NEW p \in Providers, NEW takes \in BOOLEAN, NEW ok \in BOOLEAN,
         Answer(j, p, takes, ok)
  PROVE  DispatchIInv'
<1> DEFINE q == job[j]
           said == q.said \cup (IF Reported(p, ok) THEN {p} ELSE {})
           flight == q.flight \ {p}
           over == q.step = "running" /\ Decides(j, said, flight)
           taken == q.took \cup (IF takes THEN {p} ELSE {})
           verdict == Verdict(j, said)
           r == [q EXCEPT !.flight = flight, !.said = said, !.took = taken,
                          !.step = IF over THEN "end" ELSE q.step, !.result = IF over THEN verdict ELSE q.result]
<1>1. q \in JobRecs /\ JobOK(q) /\ job \in [Jobs -> JobRecs]
  BY DispatchFacts
<1>2. q.flight # {} /\ (ok => takes \/ p \in Placeholders)
  BY DEF Answer
<1>3. said \in SUBSET Providers /\ flight \in SUBSET Providers /\ taken \in SUBSET Providers
  BY <1>1 DEF JobRecs
<1>4. said \subseteq taken /\ q.took \subseteq taken
  BY <1>1, <1>2 DEF JobOK, Reported
<1>5. verdict \in {"success", "failed"}
  BY DEF Verdict
<1>6. verdict = "success" => IF q.mode = "broadcast" THEN 2 * Cardinality(said) > Cardinality(q.asked)
                                                      ELSE said # {}
  BY DEF Verdict
<1>7. over \in BOOLEAN /\ (over => q.step = "running")
  BY DEF Decides
<1>8. job' = [job EXCEPT ![j] = r] /\ facade' = facade /\ clients' = clients /\ order' = order
  BY Zenon DEF Answer
<1>9. r \in JobRecs /\ JobOK(r)
  <2> HIDE DEF said, flight, taken, verdict, over
  <2>1. QED
    BY <1>1, <1>2, <1>3, <1>4, <1>5, <1>6, <1>7, AnsweredRecord
<1> HIDE DEF r
<1>10. clients' \in Seq(Providers)
  BY <1>8, DispatchFacts
<1>11. QED
  BY <1>8, <1>9, <1>10, OneJobChanges

LEMMA BestIsThere ==
  ASSUME DispatchIInv
  PROVE  Best \subseteq Providers
<1>1. Enabled \in SUBSET Providers
  BY DispatchFacts
<1>2. QED
  BY <1>1 DEF Best

(* The list and the targets a job begins with. *)
LEMMA BeginsKeeps ==
  ASSUME DispatchIInv, NEW j \in Jobs, job[j].step = "waiting",
         NEW mode \in AllModes,
         NEW list \in Seq(Providers) \cup {Unset}, NEW targets \in SUBSET Providers,
         Begins(j, mode, list, targets),
         facade' = facade, clients' \in Seq(Providers), order' = order
  PROVE  DispatchIInv'
<1> DEFINE due == Due(list)
           r == [job[j] EXCEPT !.step = "running", !.mode = mode, !.list = list,
                               !.at = 0, !.asked = targets, !.flight = targets, !.stayed = due,
                            !.removed = 0]
<1>1. job[j] \in JobRecs /\ JobOK(job[j])
  BY DispatchFacts
<1>2. due \in SUBSET Providers
  BY DispatchFacts, ElementsAreProviders DEF Due
<1>3. job' = [job EXCEPT ![j] = r]
  BY DEF Begins
<1>4. r \in JobRecs /\ JobOK(r)
  <2> HIDE DEF due
  <2>1. QED
    BY <1>1, <1>2, BegunRecord
<1> HIDE DEF r
<1>5. QED
  BY <1>3, <1>4, OneJobChanges

LEMMA AdmitKeeps ==
  ASSUME DispatchIInv, NEW j \in Jobs, Admit(j)
  PROVE  DispatchIInv'
<1>1. /\ clients \in Seq(Providers) /\ Enabled \in SUBSET Providers /\ job[j] \in JobRecs
      /\ <<>> \in Seq(Providers) /\ {} \in SUBSET Providers
  BY DispatchFacts
<1>2. Initialised \in Seq(Providers)
  BY <1>1, DispatchAssumption DEF Initialised
<1>3. /\ job[j].step = "waiting" /\ facade' = facade /\ order' = order
      /\ clients' \in Seq(Providers)
  BY <1>1, <1>2 DEF Admit
<1>4. \E mode \in AllModes :
        \E list \in Seq(Providers) \cup {Unset}, targets \in SUBSET Providers : Begins(j, mode, list, targets)
  <2> DEFINE mode == job[j].mode
  <2>0. mode \in AllModes /\ "race" \in AllModes /\ "trade" \in AllModes
    BY <1>1 DEF JobRecs, AllModes
  <2>1. CASE mode = "fallback"
    <3>1. Begins(j, mode, Unset, {})
      BY <2>1 DEF Admit
    <3>2. QED
      BY <1>1, <2>0, <3>1
  <2>2. CASE mode = "single" /\ Enabled # {}
    <3>1. PICK p \in Best : Begins(j, mode, <<p>>, {})
      BY <2>2 DEF Admit
    <3>2. <<p>> \in Seq(Providers)
      BY BestIsThere
    <3>3. QED
      BY <1>1, <2>0, <3>1, <3>2
  <2>3. CASE mode \in {"parallel", "broadcast"}
    <3>1. Begins(j, mode, Unset, Enabled)
      BY <2>3 DEF Admit
    <3>2. QED
      BY <1>1, <2>0, <3>1
  <2>4. CASE mode = "race" /\ Races
    <3>1. Begins(j, "race", Unset, Seqs!ToSet(Initialised))
      BY <2>4 DEF Admit, RaceBegins
    <3>2. QED
      BY <1>2, <2>0, <3>1, ElementsAreProviders
  <2>5. CASE mode = "trade" \/ (mode = "race" /\ ~Races)
    <3>1. Begins(j, "trade", Initialised, {})
      BY <2>5 DEF Admit, TradeBegins
    <3>2. QED
      BY <1>1, <1>2, <2>0, <3>1
  <2>6. CASE mode \notin {"fallback", "parallel", "broadcast", "race", "trade"} /\ ~(mode = "single" /\ Enabled # {})
    <3>1. Begins(j, mode, <<>>, {})
      BY <2>6 DEF Admit
    <3>2. QED
      BY <1>1, <2>0, <3>1
  <2>7. QED
    BY <2>1, <2>2, <2>3, <2>4, <2>5, <2>6
<1>5. QED
  BY <1>3, <1>4, BeginsKeeps

(* The steps that write one job and leave the clients. *)
LEMMA JobStepKeeps ==
  ASSUME DispatchIInv, NEW j \in Jobs,
         \/ \E mode \in Modes : Execute(j, mode)
         \/ AskNext(j) \/ RoundOver(j) \/ Resumes(j) \/ StaleBlockhash(j) \/ NobodyToAsk(j)
         \/ \E p \in Providers, takes \in BOOLEAN : Raises(j, p, takes)
         \/ \E takes \in SUBSET job[j].flight : TimesOut(j, takes)
  PROVE  DispatchIInv'
<1> DEFINE q == job[j]
<1>1. /\ q \in JobRecs /\ JobOK(q) /\ clients \in Seq(Providers) /\ List(j) \in Seq(Providers)
      /\ q.flight \in SUBSET Providers /\ q.list \in Seq(Providers) \cup {Unset} /\ q.stayed \in SUBSET Providers
      /\ q.at \in Nat
  BY DispatchFacts DEF JobRecs
<1>2. ASSUME NEW r \in JobRecs, JobOK(r), job' = [job EXCEPT ![j] = r],
             facade' = facade, clients' = clients, order' = order
      PROVE  DispatchIInv'
  BY <1>1, <1>2, OneJobChanges
<1>3. ASSUME NEW mode \in Modes, Execute(j, mode) PROVE DispatchIInv'
  <2> DEFINE r == [q EXCEPT !.mode = mode, !.step = "waiting"]
  <2>1. q.step = "idle" /\ job' = [job EXCEPT ![j] = r] /\ facade' = facade /\ clients' = clients /\ order' = order
    BY <1>3 DEF Execute
  <2>2. mode \in AllModes
    BY DEF Modes, AllModes
  <2>3. r \in JobRecs /\ JobOK(r)
    BY <1>1, <2>1, <2>2, ExecutedRecord
  <2> HIDE DEF r
  <2>4. QED
    BY <1>2, <2>1, <2>3
<1>4. ASSUME AskNext(j) PROVE DispatchIInv'
  <2> DEFINE p == List(j)[q.at + 1]
             asks == IF q.mode = "fallback" /\ p \notin Enabled THEN {} ELSE {p}
             r == [q EXCEPT !.at = q.at + 1, !.flight = asks, !.asked = q.asked \cup asks]
  <2>1. /\ q.step = "running" /\ InTurn(q.mode) /\ q.at < Len(List(j))
        /\ job' = [job EXCEPT ![j] = r] /\ facade' = facade /\ clients' = clients /\ order' = order
    BY <1>4 DEF AskNext
  <2>2. p \in Providers
    <3>1. q.at + 1 \in 1..Len(List(j))
      BY <1>1, <2>1
    <3>2. QED
      BY <1>1, <3>1, ElementOfSeq
  <2>3. asks \in SUBSET Providers
    BY <2>2
  <2>4. q.mode # "broadcast"
    BY <2>1 DEF InTurn
  <2>5. r \in JobRecs /\ JobOK(r)
    <3> HIDE DEF asks
    <3>1. QED
      BY <1>1, <2>1, <2>3, <2>4, AskingRecord
  <2> HIDE DEF r
  <2>6. QED
    BY <1>2, <2>1, <2>5
<1>5. ASSUME NEW res \in {"failed"}, job' = Ends(j, res), facade' = facade, clients' = clients, order' = order
      PROVE  DispatchIInv'
  <2> DEFINE r == [q EXCEPT !.step = "end", !.result = "failed"]
  <2>1. job' = [job EXCEPT ![j] = r]
    BY <1>5 DEF Ends
  <2>2. r \in JobRecs /\ JobOK(r)
    BY <1>1, EndedRecord
  <2> HIDE DEF r
  <2>3. QED
    BY <1>2, <1>5, <2>1, <2>2
<1>6. ASSUME RoundOver(j) PROVE DispatchIInv'
  <2>1. q.step = "running" /\ facade' = facade /\ clients' = clients /\ order' = order
    BY <1>6 DEF RoundOver
  <2> DEFINE r == [q EXCEPT !.step = "resting", !.attempt = q.attempt + 1]
  <2>2. job' = [job EXCEPT ![j] = r] \/ job' = Ends(j, "failed")
    BY <1>6 DEF RoundOver
  <2>3. r \in JobRecs /\ JobOK(r)
    BY <1>1, <2>1, RestingRecord
  <2> HIDE DEF r
  <2>4. QED
    BY <1>2, <1>5, <2>1, <2>2, <2>3
<1>10. ASSUME Resumes(j) PROVE DispatchIInv'
  <2> DEFINE list == IF q.mode = "fallback" THEN Unset ELSE q.list
             due == Due(list)
             r == [q EXCEPT !.step = "running", !.at = 0, !.asked = {}, !.list = list,
                            !.stayed = due, !.removed = 0]
  <2>1. /\ q.step = "resting" /\ facade' = facade /\ clients' = clients /\ order' = order
        /\ job' = [job EXCEPT ![j] = r]
    BY <1>10 DEF Resumes
  <2>2. list \in Seq(Providers) \cup {Unset}
    BY <1>1
  <2> HIDE DEF list
  <2>3. due \in SUBSET Providers
    BY <2>2, DispatchFacts, ElementsAreProviders DEF Due
  <2>4. r \in JobRecs /\ JobOK(r)
    <3> HIDE DEF due
    <3>1. QED
      BY <1>1, <2>1, <2>2, <2>3, ResumedRecord
  <2> HIDE DEF r
  <2>5. QED
    BY <1>2, <2>1, <2>4
<1>11. ASSUME NEW p \in Providers, NEW takes \in BOOLEAN, Raises(j, p, takes) PROVE DispatchIInv'
  <2> DEFINE t == IF takes THEN {p} ELSE {}
             r == [q EXCEPT !.flight = {}, !.step = "end", !.result = "raised", !.took = q.took \cup t]
  <2>1. /\ p \in q.flight /\ facade' = facade /\ clients' = clients /\ order' = order
        /\ job' = [job EXCEPT ![j] = r]
    BY <1>11, Zenon DEF Raises
  <2>2. t \in SUBSET Providers
    OBVIOUS
  <2> HIDE DEF t
  <2>3. r \in JobRecs /\ JobOK(r)
    BY <1>1, <2>1, <2>2, RaisedRecord
  <2> HIDE DEF r
  <2>4. QED
    BY <1>2, <2>1, <2>3
<1>7. ASSUME StaleBlockhash(j) \/ NobodyToAsk(j) PROVE DispatchIInv'
  BY <1>5, <1>7 DEF StaleBlockhash, NobodyToAsk
<1>8. ASSUME NEW takes \in SUBSET q.flight, TimesOut(j, takes) PROVE DispatchIInv'
  <2> DEFINE r == [q EXCEPT !.flight = {}, !.took = q.took \cup takes]
             e == [q EXCEPT !.flight = {}, !.took = q.took \cup takes, !.step = "end", !.result = "failed"]
  <2>1. /\ q.step = "running" /\ facade' = facade /\ clients' = clients /\ order' = order
        /\ job' = [job EXCEPT ![j] = r] \/ job' = [job EXCEPT ![j] = e]
    BY <1>8 DEF TimesOut
  <2>2. takes \in SUBSET Providers
    BY <1>1
  <2>3. r \in JobRecs /\ JobOK(r) /\ e \in JobRecs /\ JobOK(e)
    BY <1>1, <2>1, <2>2, TimedOutRecord
  <2> HIDE DEF r, e
  <2>4. QED
    BY <1>2, <2>1, <2>3
<1>9. QED
  BY <1>3, <1>4, <1>6, <1>7, <1>8, <1>10, <1>11

(* Clients come and go; the jobs follow. *)
LEMMA ClientsKeep ==
  ASSUME DispatchIInv,
         \/ \E p \in Providers : AddClient(p) \/ RemoveClient(p) \/ ExecutorAdds(p) \/ ExecutorRemoves(p)
         \/ \E wanted \in Wanted : SetFallbackOrder(wanted)
  PROVE  DispatchIInv'
<1>1. /\ clients \in Seq(Providers) /\ order \in Seq(Providers) /\ job \in [Jobs -> JobRecs]
      /\ \A j \in Jobs : job[j] \in JobRecs /\ JobOK(job[j])
      /\ Present \in SUBSET Providers
      /\ facade \in {"manager", "executor", "hotpath"}
  BY DispatchFacts DEF DispatchIInv, DispatchTypeOK
<1>2. ASSUME clients' \in Seq(Providers), order' \in Seq(Providers), facade' = facade,
             job' \in [Jobs -> JobRecs], \A j \in Jobs : JobOK(job'[j])
      PROVE  DispatchIInv'
  BY <1>1, <1>2 DEF DispatchIInv, DispatchTypeOK, JobRecs, AllModes, JobOK, Untouched, Successful
<1>3. \A p \in Providers : /\ Append(clients, p) \in Seq(Providers) /\ Append(order, p) \in Seq(Providers)
                           /\ Dropped(clients, p) \in Seq(Providers) /\ Dropped(order, p) \in Seq(Providers)
                           /\ Configured(Append(clients, p)) \in Seq(Providers)
  <2>1. TAKE p \in Providers
  <2>2. Append(clients, p) \in Seq(Providers) /\ Append(order, p) \in Seq(Providers)
    BY <1>1, AppendProperties
  <2>3. QED
    BY <1>1, <2>2, DroppedIsSeq, ConfiguredIsSeq
<1>4. ASSUME NEW p \in Providers, AddClient(p) \/ ExecutorAdds(p) \/ ExecutorRemoves(p) PROVE DispatchIInv'
  <2>1. clients' \in Seq(Providers) /\ order' \in Seq(Providers) /\ facade' = facade /\ job' = job
    BY <1>1, <1>3, <1>4 DEF AddClient, ExecutorAdds, ExecutorRemoves
  <2>2. QED
    BY <1>1, <1>2, <2>1
<1>5. ASSUME NEW p \in Providers, RemoveClient(p) PROVE DispatchIInv'
  <2>1. clients' \in Seq(Providers) /\ order' \in Seq(Providers) /\ facade' = facade /\ job' = Gone(p)
    BY <1>3, <1>5 DEF RemoveClient
  <2>2. ASSUME NEW j \in Jobs PROVE Gone(p)[j] \in JobRecs /\ JobOK(Gone(p)[j])
    <3> DEFINE n == job[j].removed + 1
               e == [job[j] EXCEPT !.stayed = @ \ {p}]
               f == [job[j] EXCEPT !.stayed = @ \ {p}, !.removed = n]
    <3>1. n \in Nat /\ <<>> \in Seq(Providers)
      BY <1>1 DEF JobRecs
    <3>2. Gone(p)[j] \in {e, f}
      BY DEF Gone
    <3> HIDE DEF n
    <3>3. e \in JobRecs /\ JobOK(e) /\ f \in JobRecs /\ JobOK(f)
      BY <1>1, <3>1, FollowedRecord
    <3> HIDE DEF e, f
    <3>4. QED
      BY <3>2, <3>3
  <2>3. Gone(p) \in [Jobs -> JobRecs]
    BY <2>2 DEF Gone
  <2>4. QED
    BY <1>2, <2>1, <2>2, <2>3
<1>6. ASSUME NEW wanted \in Wanted, SetFallbackOrder(wanted) PROVE DispatchIInv'
  <2> DEFINE jobs == [j \in Jobs |-> IF j \in Sharing THEN [job[j] EXCEPT !.list = order] ELSE job[j]]
  <2>1. order' \in ThoseThere(wanted) /\ facade' = facade /\ clients' = clients /\ job' = jobs
    BY <1>6 DEF SetFallbackOrder
  <2>2. order' \in Seq(Providers)
    <3>1. order' \in Seqs!SetToSeqs(Seqs!ToSet(wanted) \cap Present)
      BY <2>1 DEF ThoseThere
    <3>2. Seqs!ToSet(wanted) \cap Present \in SUBSET Providers
      BY <1>1
    <3>3. QED
      BY <3>1, <3>2, ArrangedIsSeq
  <2>3. ASSUME NEW j \in Jobs PROVE jobs[j] \in JobRecs /\ JobOK(jobs[j])
    <3>1. [job[j] EXCEPT !.list = order] \in JobRecs /\ JobOK([job[j] EXCEPT !.list = order])
      BY <1>1, 0 \in Nat, FollowedRecord
    <3>2. QED
      BY <1>1, <3>1
  <2>4. jobs \in [Jobs -> JobRecs]
    BY <2>3
  <2> HIDE DEF jobs
  <2>5. QED
    BY <1>1, <1>2, <2>1, <2>2, <2>3, <2>4
<1>7. QED
  BY <1>4, <1>5, <1>6

LEMMA DispatchStep ==
  ASSUME DispatchIInv, [DispatchNext]_dispatchVars
  PROVE  DispatchIInv'
<1>1. CASE UNCHANGED dispatchVars
  BY <1>1 DEF dispatchVars, DispatchIInv, DispatchTypeOK, JobRecs, AllModes, JobOK, Untouched, Successful
<1>2. ASSUME NEW j \in Jobs, Admit(j) PROVE DispatchIInv'
  BY <1>2, AdmitKeeps
<1>3. ASSUME NEW j \in Jobs, NEW p \in Providers, NEW takes \in BOOLEAN, NEW ok \in BOOLEAN, Answer(j, p, takes, ok)
      PROVE  DispatchIInv'
  BY <1>3, AnswerKeeps
<1>4. ASSUME NEW j \in Jobs,
             AskNext(j) \/ RoundOver(j) \/ Resumes(j) \/ StaleBlockhash(j) \/ NobodyToAsk(j)
      PROVE  DispatchIInv'
  BY <1>4, JobStepKeeps
<1>8. ASSUME NEW j \in Jobs, NEW mode \in Modes, Execute(j, mode) PROVE DispatchIInv'
  BY <1>8, JobStepKeeps
<1>9. ASSUME NEW j \in Jobs, NEW takes \in SUBSET job[j].flight, TimesOut(j, takes)
      PROVE  DispatchIInv'
  BY <1>9, JobStepKeeps
<1>5. CASE \/ \E p \in Providers : AddClient(p) \/ RemoveClient(p) \/ ExecutorAdds(p) \/ ExecutorRemoves(p)
           \/ \E wanted \in Wanted : SetFallbackOrder(wanted)
  BY <1>5, ClientsKeep
<1>6. ASSUME NEW j \in Jobs, NEW p \in Providers, NEW takes \in BOOLEAN, Raises(j, p, takes)
      PROVE  DispatchIInv'
  BY <1>6, JobStepKeeps
<1>7. QED
  BY <1>1, <1>2, <1>3, <1>4, <1>5, <1>6, <1>8, <1>9 DEF DispatchNext

(* What a job was told and what it reports agree in every reachable state. *)
THEOREM DispatchInductive == DispatchSpec => []DispatchIInv
<1>1. DispatchInit => DispatchIInv
  BY DispatchTypesInit
<1>2. DispatchIInv /\ [DispatchNext]_dispatchVars => DispatchIInv'
  BY DispatchStep
<1>3. QED
  BY <1>1, <1>2, PTL DEF DispatchSpec

(* SwqosManager, TradeExecutor and HotPathExecutor, for any providers, jobs
   and retries: a success is reported only for a transaction that a provider
   took, by a broadcast only when more than half of those asked took it. *)
THEOREM SuccessesAreReal == DispatchSpec => []DispatchSuccessIsReal
<1>1. DispatchIInv => DispatchSuccessIsReal
  BY DEF DispatchIInv, DispatchSuccessIsReal, JobOK, Successful
<1>2. QED
  BY <1>1, DispatchInductive, PTL

---------------------------------------------------------------------------

(* A walk over a list overlooks whom it has passed without asking although he
   stayed: nobody, but for one at most for each client removed from the list
   under it; and who stayed in the fallback list is enabled. *)
InAWalk(r) == r.mode \in {"fallback", "trade"}
Listed(r, ord) == IF r.list = Unset THEN ord ELSE r.list
Ahead(list, n) == {list[i] : i \in (n + 1)..Len(list)}
Overlooked(r, ord) == r.stayed \ (r.asked \cup Ahead(Listed(r, ord), r.at))

WalkOK(r, who, ord, enabled) ==
    /\ r.mode = "fallback" => who = "manager"
    /\ InAWalk(r) /\ r.step = "running" => Cardinality(Overlooked(r, ord)) <= r.removed
    /\ r.mode = "fallback" /\ r.step = "running" => r.stayed \subseteq enabled
    /\ r.mode = "trade" /\ r.step \in {"running", "resting"} => r.list # Unset
    /\ InAWalk(r) /\ r.result = "failed" => Cardinality(r.stayed \ r.asked) <= r.removed

WalksOK == \A j \in Jobs : WalkOK(job[j], facade, order, Enabled)

(* Fewer are overlooked, or one more. *)
LEMMA FewerOverlooked ==
  ASSUME NEW S \in SUBSET Providers, NEW T, T \subseteq S, NEW n \in Nat, Cardinality(S) <= n
  PROVE  Cardinality(T) <= n
<1>1. IsFiniteSet(S)
  BY DispatchAssumption, FS_Subset
<1>2. IsFiniteSet(T) /\ Cardinality(T) <= Cardinality(S)
  BY <1>1, FS_Subset
<1>3. Cardinality(S) \in Nat /\ Cardinality(T) \in Nat
  BY <1>1, <1>2, FS_CardinalityType
<1>4. QED
  BY <1>2, <1>3

LEMMA OneMoreOverlooked ==
  ASSUME NEW S \in SUBSET Providers, NEW x \in Providers, NEW T, T \subseteq S \cup {x}, NEW n \in Nat,
         Cardinality(S) <= n
  PROVE  Cardinality(T) <= n + 1
<1>1. IsFiniteSet(S)
  BY DispatchAssumption, FS_Subset
<1>2. IsFiniteSet(S \cup {x}) /\ Cardinality(S) \in Nat
      /\ (Cardinality(S \cup {x}) = Cardinality(S) \/ Cardinality(S \cup {x}) = Cardinality(S) + 1)
  BY <1>1, FS_AddElement, FS_CardinalityType
<1>3. Cardinality(S \cup {x}) <= n + 1
  BY <1>2
<1>4. S \cup {x} \in SUBSET Providers /\ n + 1 \in Nat
  OBVIOUS
<1>5. QED
  BY <1>3, <1>4, FewerOverlooked

(* Of a list nothing is ahead at its end, and all of it in the beginning. *)
LEMMA AheadOf ==
  ASSUME NEW list \in Seq(Providers), NEW n \in Nat
  PROVE  /\ Len(list) \in Nat
         /\ n >= Len(list) => Ahead(list, n) = {}
         /\ Ahead(list, 0) = Seqs!ToSet(list)
         /\ Ahead(list, n) \subseteq Providers
         /\ n < Len(list) => /\ list[n + 1] \in Providers
                              /\ Ahead(list, n) = Ahead(list, n + 1) \cup {list[n + 1]}
<1>1. Len(list) \in Nat /\ \A i \in 1..Len(list) : list[i] \in Providers
  BY ElementOfSeq
<1>2. DOMAIN list = 1..Len(list)
  OBVIOUS
<1> QED
  BY <1>1, <1>2 DEF Ahead, Seqs!ToSet

(* Dropping a client moves the others up by one at most. *)
LEMMA DroppedAhead ==
  ASSUME NEW s \in Seq(Providers), NEW p, NEW n \in Nat
  PROVE  \A x \in Ahead(s, n) :
             \/ x = p \/ x \in Ahead(Dropped(s, p), n)
             \/ n > 0 /\ n < Len(s) /\ x = s[n + 1]
<1>1. CASE p \in Seqs!ToSet(s)
  <2> DEFINE k == CHOOSE i \in DOMAIN s : s[i] = p
             a == SubSeq(s, 1, k - 1)
             b == SubSeq(s, k + 1, Len(s))
             t == a \o b
  <2>1. k \in DOMAIN s /\ s[k] = p
    BY <1>1 DEF Seqs!ToSet
  <2>2. Len(s) \in Nat /\ k \in 1..Len(s) /\ \A i \in 1..Len(s) : s[i] \in Providers
    BY <2>1, ElementOfSeq
  <2>3. Dropped(s, p) = t
    BY <1>1 DEF Dropped, Seqs!RemoveAt
  <2> HIDE DEF k
  <2>4. a \in Seq(Providers) /\ Len(a) = k - 1 /\ \A i \in 1..(k - 1) : a[i] = s[i]
    <3>1. k - 1 \in Int /\ 1 \in Int /\ \A i \in 1..(k - 1) : s[i] \in Providers
      BY <2>2
    <3>2. a \in Seq(Providers) /\ Len(a) = (IF 1 <= k - 1 THEN k - 1 - 1 + 1 ELSE 0)
          /\ \A i \in 1..(k - 1 - 1 + 1) : a[i] = s[1 + i - 1]
      BY <3>1, SubSeqProperties
    <3>3. QED
      BY <2>2, <3>2
  <2>5. b \in Seq(Providers) /\ Len(b) = Len(s) - k /\ \A i \in 1..(Len(s) - k) : b[i] = s[k + i]
    <3>1. k + 1 \in Int /\ Len(s) \in Int /\ \A i \in (k + 1)..Len(s) : s[i] \in Providers
      BY <2>2
    <3>2. b \in Seq(Providers) /\ Len(b) = (IF k + 1 <= Len(s) THEN Len(s) - (k + 1) + 1 ELSE 0)
          /\ \A i \in 1..(Len(s) - (k + 1) + 1) : b[i] = s[k + 1 + i - 1]
      BY <3>1, SubSeqProperties
    <3>3. QED
      BY <2>2, <3>2
  <2> HIDE DEF a, b
  <2>6. Len(t) = Len(s) - 1 /\ \A i \in 1..(Len(s) - 1) : t[i] = IF i < k THEN s[i] ELSE s[i + 1]
    <3>1. Len(t) = Len(a) + Len(b) /\ \A i \in 1..(Len(a) + Len(b)) :
              t[i] = IF i <= Len(a) THEN a[i] ELSE b[i - Len(a)]
      BY <2>4, <2>5, ConcatProperties
    <3>2. Len(t) = Len(s) - 1
      BY <2>2, <2>4, <2>5, <3>1
    <3>3. ASSUME NEW i \in 1..(Len(s) - 1) PROVE t[i] = IF i < k THEN s[i] ELSE s[i + 1]
      <4>1. i \in 1..(Len(a) + Len(b))
        BY <2>2, <2>4, <2>5
      <4>2. CASE i < k
        BY <2>2, <2>4, <3>1, <4>1, <4>2
      <4>3. CASE ~(i < k)
        <5>1. i - (k - 1) \in 1..(Len(s) - k) /\ k + (i - (k - 1)) = i + 1 /\ ~(i <= k - 1)
          BY <2>2, <4>3
        <5>2. t[i] = b[i - (k - 1)]
          BY <2>4, <3>1, <4>1, <5>1
        <5>3. QED
          BY <2>5, <4>3, <5>1, <5>2
      <4>4. QED
        BY <4>2, <4>3
    <3>4. QED
      BY <3>2, <3>3
  <2> HIDE DEF t
  <2>7. ASSUME NEW x \in Ahead(s, n), x # p, ~(n > 0 /\ n < Len(s) /\ x = s[n + 1])
        PROVE  x \in Ahead(t, n)
    <3>1. PICK i \in (n + 1)..Len(s) : x = s[i]
      BY DEF Ahead
    <3>2. (n > 0 => i # n + 1) /\ i # k
      BY <2>1, <2>2, <2>7, <3>1
    <3>3. CASE i < k
      <4>1. i \in (n + 1)..Len(t) /\ t[i] = x
        BY <2>2, <2>6, <3>1, <3>3
      <4>2. QED
        BY <4>1 DEF Ahead
    <3>4. CASE ~(i < k)
      <4>1. i - 1 \in (n + 1)..Len(t) /\ i - 1 \in 1..(Len(s) - 1) /\ ~(i - 1 < k) /\ i - 1 + 1 = i
        BY <2>2, <2>6, <3>1, <3>2, <3>4
      <4>2. t[i - 1] = x
        BY <2>6, <3>1, <4>1
      <4>3. QED
        BY <4>1, <4>2 DEF Ahead
    <3>5. QED
      BY <3>3, <3>4
  <2>8. QED
    BY <2>3, <2>7
<1>2. CASE p \notin Seqs!ToSet(s)
  BY <1>2 DEF Dropped
<1>3. QED
  BY <1>1, <1>2

LEMMA DroppedKeepsOthers ==
  ASSUME NEW s \in Seq(Providers), NEW p
  PROVE  \A x \in Seqs!ToSet(s) : x = p \/ x \in Seqs!ToSet(Dropped(s, p))
<1>1. Dropped(s, p) \in Seq(Providers)
  BY DroppedIsSeq
<1>2. Seqs!ToSet(Dropped(s, p)) = Ahead(Dropped(s, p), 0) /\ Seqs!ToSet(s) = Ahead(s, 0)
  BY <1>1, AheadOf
<1>3. \A x \in Ahead(s, 0) : x = p \/ x \in Ahead(Dropped(s, p), 0)
  BY DroppedAhead
<1> QED
  BY <1>2, <1>3

(* One job changes, and of the manager's clients none goes. *)
LEMMA OneWalkChanges ==
  ASSUME DispatchIInv, WalksOK, NEW j \in Jobs, NEW r, job' = [job EXCEPT ![j] = r],
         facade' = facade, order' = order, facade = "manager" => Enabled \subseteq Enabled',
         WalkOK(r, facade, order, Enabled')
  PROVE  WalksOK'
<1>1. \A k \in Jobs : job'[k] = IF k = j THEN r ELSE job[k]
  BY DispatchFacts
<1>2. ASSUME NEW k \in Jobs PROVE WalkOK(job'[k], facade, order, Enabled')
  <2>1. CASE k = j
    BY <1>1, <2>1
  <2>2. CASE k # j
    <3>1. WalkOK(job[k], facade, order, Enabled)
      BY DEF WalksOK
    <3>2. WalkOK(job[k], facade, order, Enabled')
      BY <3>1 DEF WalkOK, InAWalk
    <3>3. QED
      BY <1>1, <2>2, <3>2
  <2>3. QED
    BY <2>1, <2>2
<1>3. QED
  BY <1>2 DEF WalksOK

LEMMA ExecuteWalks ==
  ASSUME DispatchIInv, WalksOK, NEW j \in Jobs, NEW mode \in Modes, Execute(j, mode)
  PROVE  WalksOK'
<1> DEFINE q == job[j]
           r == [q EXCEPT !.mode = mode, !.step = "waiting"]
<1>1. /\ q.step = "idle" /\ job' = [job EXCEPT ![j] = r] /\ facade' = facade /\ order' = order
      /\ clients' = clients /\ disabled' = disabled
  BY DEF Execute
<1>2. Enabled' = Enabled
  BY <1>1 DEF Enabled, Present
<1>3. q \in JobRecs /\ q.result = Unset
  BY <1>1, DispatchFacts DEF JobOK
<1>4. r.mode = mode /\ r.step = "waiting" /\ r.result = Unset
  BY <1>3 DEF JobRecs
<1>5. mode = "fallback" => facade = "manager"
  BY DEF Modes
<1> HIDE DEF r
<1>6. WalkOK(r, facade, order, Enabled')
  BY <1>4, <1>5, DispatchAssumption DEF WalkOK
<1>7. QED
  BY <1>1, <1>2, <1>6, OneWalkChanges

LEMMA AdmitWalks ==
  ASSUME DispatchIInv, WalksOK, NEW j \in Jobs, Admit(j)
  PROVE  WalksOK'
<1> DEFINE q == job[j]
<1>1. /\ clients \in Seq(Providers) /\ q \in JobRecs /\ Initialised \in Seq(Providers)
      /\ <<>> \in Seq(Providers)
  BY DispatchFacts, DispatchAssumption DEF Initialised
<1>2. /\ q.step = "waiting" /\ facade' = facade /\ order' = order /\ disabled' = disabled
      /\ facade = "manager" => clients' = clients
  BY DEF Admit
<1>3. facade = "manager" => Enabled' = Enabled
  BY <1>2 DEF Enabled, Present
<1>4. q.result = Unset /\ (q.mode = "fallback" => facade = "manager")
  BY <1>2, DispatchFacts DEF JobOK, WalksOK, WalkOK
<1>5. ASSUME NEW mode, NEW list \in Seq(Providers) \cup {Unset}, NEW targets,
             Begins(j, mode, list, targets),
             mode = "fallback" => facade = "manager" /\ list = Unset,
             mode = "trade" => list # Unset
      PROVE  WalksOK'
  <2> DEFINE due == Due(list)
             r == [q EXCEPT !.step = "running", !.mode = mode, !.list = list,
                            !.at = 0, !.asked = targets, !.flight = targets, !.stayed = due,
                            !.removed = 0]
  <2>1. job' = [job EXCEPT ![j] = r]
    BY <1>5 DEF Begins
  <2>2. /\ r.step = "running" /\ r.mode = mode /\ r.list = list /\ r.at = 0 /\ r.stayed = due
        /\ r.result = Unset /\ r.removed = 0
    BY <1>1, <1>4 DEF JobRecs
  <2>3. mode \in {"fallback", "trade"} => Overlooked(r, order) = {}
    <3>1. ASSUME mode \in {"fallback", "trade"}
          PROVE  Listed(r, order) \in Seq(Providers) /\ due \subseteq Seqs!ToSet(Listed(r, order))
      BY <1>1, <1>5, <2>2, <3>1, DispatchFacts DEF Due, Listed
    <3>2. QED
      BY <2>2, <3>1, AheadOf DEF Overlooked
  <2>4. mode = "fallback" => due \subseteq Enabled'
    BY <1>3, <1>5 DEF Due
  <2> HIDE DEF r, due
  <2>5. mode \in {"fallback", "trade"} => Cardinality(Overlooked(r, order)) <= r.removed
    <3>1. Cardinality({}) = 0 /\ r.removed = 0
      BY <2>2, FS_EmptySet
    <3>2. ASSUME mode \in {"fallback", "trade"} PROVE Cardinality(Overlooked(r, order)) <= r.removed
      <4>1. Overlooked(r, order) = {}
        BY <2>3, <3>2
      <4>2. Cardinality(Overlooked(r, order)) = 0
        BY <3>1, <4>1
      <4>3. QED
        BY <3>1, <4>2
    <3>3. QED
      BY <3>2
  <2>6. WalkOK(r, facade, order, Enabled')
    BY <1>5, <2>2, <2>4, <2>5, DispatchAssumption DEF WalkOK, InAWalk
  <2>7. QED
    BY <1>2, <1>3, <2>1, <2>6, OneWalkChanges
<1>6. CASE q.mode = "fallback"
  <2>1. Begins(j, "fallback", Unset, {})
    BY <1>6 DEF Admit
  <2>2. QED
    BY <1>4, <1>5, <1>6, <2>1
<1>7. CASE q.mode = "single" /\ Enabled # {}
  <2>1. PICK p \in Best : Begins(j, "single", <<p>>, {})
    BY <1>7 DEF Admit
  <2>2. <<p>> \in Seq(Providers)
    BY BestIsThere
  <2>3. QED
    BY <1>5, <2>1, <2>2
<1>8. CASE q.mode \in {"parallel", "broadcast"}
  <2>1. Begins(j, q.mode, Unset, Enabled)
    BY <1>8 DEF Admit
  <2>2. QED
    BY <1>5, <1>8, <2>1
<1>9. CASE q.mode = "race" /\ Races
  <2>1. Begins(j, "race", Unset, Seqs!ToSet(Initialised))
    BY <1>9 DEF Admit, RaceBegins
  <2>2. QED
    BY <1>5, <2>1
<1>10. CASE q.mode = "trade" \/ (q.mode = "race" /\ ~Races)
  <2>1. Begins(j, "trade", Initialised, {})
    BY <1>10 DEF Admit, TradeBegins
  <2>2. Initialised # Unset
    BY <1>1, DispatchAssumption
  <2>3. QED
    BY <1>1, <1>5, <2>1, <2>2
<1>11. CASE q.mode \notin {"fallback", "parallel", "broadcast", "race", "trade"} /\ ~(q.mode = "single" /\ Enabled # {})
  <2>1. Begins(j, q.mode, <<>>, {})
    BY <1>11 DEF Admit
  <2>2. QED
    BY <1>1, <1>5, <1>11, <2>1
<1>12. QED
  BY <1>6, <1>7, <1>8, <1>9, <1>10, <1>11

(* The next of the list is asked, unless it is not enabled: then it did not
   stay. *)
LEMMA AskNextWalks ==
  ASSUME DispatchIInv, WalksOK, NEW j \in Jobs, AskNext(j)
  PROVE  WalksOK'
<1> DEFINE q == job[j]
           p == List(j)[q.at + 1]
           asks == IF q.mode = "fallback" /\ p \notin Enabled THEN {} ELSE {p}
           n == q.at + 1
           k == q.asked \cup asks
           r == [q EXCEPT !.at = n, !.flight = asks, !.asked = k]
<1>1. /\ q.step = "running" /\ job' = [job EXCEPT ![j] = r] /\ facade' = facade /\ order' = order
      /\ clients' = clients /\ disabled' = disabled
  BY DEF AskNext
<1>2. Enabled' = Enabled
  BY <1>1 DEF Enabled, Present
<1>3. /\ q \in JobRecs /\ q.at \in Nat /\ q.result = Unset /\ q.removed \in Nat
      /\ q.stayed \in SUBSET Providers /\ WalkOK(q, facade, order, Enabled)
  BY <1>1, DispatchFacts DEF JobOK, JobRecs, WalksOK
<1>4. /\ r.mode = q.mode /\ r.step = q.step /\ r.list = q.list /\ r.at = n /\ r.asked = k
      /\ r.stayed = q.stayed /\ r.result = Unset /\ r.removed = q.removed
  BY <1>3 DEF JobRecs
<1>5. List(j) = Listed(q, order) /\ Listed(r, order) = Listed(q, order)
  BY <1>4 DEF List, Listed
<1> HIDE DEF r
<1>6. InAWalk(q) => Overlooked(r, order) \subseteq Overlooked(q, order)
  <2>1. List(j) \in Seq(Providers) /\ q.at < Len(List(j))
    BY DispatchFacts DEF AskNext
  <2>2. Ahead(List(j), q.at) = Ahead(List(j), n) \cup {p}
    BY <1>3, <2>1, AheadOf
  <2>3. q.mode = "fallback" => q.stayed \subseteq Enabled
    BY <1>1, <1>3 DEF WalkOK
  <2>4. QED
    BY <1>4, <1>5, <2>2, <2>3 DEF Overlooked
<1> HIDE DEF k, n, p
<1>7. (InAWalk(r) <=> InAWalk(q)) /\ Overlooked(q, order) \in SUBSET Providers
  BY <1>3, <1>4 DEF InAWalk, Overlooked
<1>10. InAWalk(q) => Cardinality(Overlooked(r, order)) <= q.removed
  BY <1>1, <1>3, <1>6, <1>7, FewerOverlooked DEF WalkOK
<1>8. WalkOK(r, facade, order, Enabled')
  BY <1>1, <1>2, <1>3, <1>4, <1>7, <1>10, DispatchAssumption DEF WalkOK
<1>9. QED
  BY <1>1, <1>2, <1>8, OneWalkChanges

(* The end of the list: nothing is ahead of the walk. *)
LEMMA RoundOverWalks ==
  ASSUME DispatchIInv, WalksOK, NEW j \in Jobs, RoundOver(j)
  PROVE  WalksOK'
<1> DEFINE q == job[j]
<1>1. /\ q.step = "running" /\ facade' = facade /\ order' = order /\ q.at >= Len(List(j))
      /\ clients' = clients /\ disabled' = disabled
  BY DEF RoundOver
<1>2. Enabled' = Enabled
  BY <1>1 DEF Enabled, Present
<1>3. /\ q \in JobRecs /\ q.at \in Nat /\ q.attempt \in Nat /\ q.result = Unset
      /\ WalkOK(q, facade, order, Enabled) /\ List(j) \in Seq(Providers) /\ List(j) = Listed(q, order)
  BY <1>1, DispatchFacts DEF JobOK, JobRecs, WalksOK, List, Listed
<1> DEFINE r == [q EXCEPT !.step = "resting", !.attempt = q.attempt + 1]
           e == [q EXCEPT !.step = "end", !.result = "failed"]
<1>4. job' = [job EXCEPT ![j] = r] \/ job' = [job EXCEPT ![j] = e]
  BY DEF RoundOver, Ends
<1>5. /\ r.step = "resting" /\ r.mode = q.mode /\ r.list = q.list /\ r.result = q.result
      /\ e.step = "end" /\ e.mode = q.mode /\ e.stayed = q.stayed /\ e.asked = q.asked
      /\ e.removed = q.removed
  BY <1>3 DEF JobRecs
<1> HIDE DEF r, e
<1>6. WalkOK(r, facade, order, Enabled')
  BY <1>1, <1>3, <1>5, DispatchAssumption DEF WalkOK, InAWalk
<1>7. WalkOK(e, facade, order, Enabled')
  <2>1. Ahead(Listed(q, order), q.at) = {}
    BY <1>1, <1>3, AheadOf
  <2>2. Overlooked(q, order) = q.stayed \ q.asked
    BY <2>1 DEF Overlooked
  <2>3. QED
    BY <1>1, <1>3, <1>5, <2>2 DEF WalkOK, InAWalk
<1>8. QED
  BY <1>1, <1>2, <1>4, <1>6, <1>7, OneWalkChanges

(* The next round begins, over the list as it is by then. *)
LEMMA ResumesWalks ==
  ASSUME DispatchIInv, WalksOK, NEW j \in Jobs, Resumes(j)
  PROVE  WalksOK'
<1> DEFINE q == job[j]
           list == IF q.mode = "fallback" THEN Unset ELSE q.list
           due == Due(list)
           r == [q EXCEPT !.step = "running", !.at = 0, !.asked = {}, !.list = list,
                          !.stayed = due, !.removed = 0]
<1>1. /\ q.step = "resting" /\ facade' = facade /\ order' = order
      /\ clients' = clients /\ disabled' = disabled /\ job' = [job EXCEPT ![j] = r]
  BY DEF Resumes
<1>2. Enabled' = Enabled
  BY <1>1 DEF Enabled, Present
<1>3. /\ q \in JobRecs /\ q.result = Unset /\ WalkOK(q, facade, order, Enabled)
      /\ order \in Seq(Providers) /\ q.list \in Seq(Providers) \cup {Unset}
  BY <1>1, DispatchFacts DEF JobOK, JobRecs, WalksOK
<1>4. /\ r.step = "running" /\ r.mode = q.mode /\ r.list = list /\ r.at = 0 /\ r.stayed = due
      /\ r.result = Unset /\ r.removed = 0
  BY <1>3 DEF JobRecs
<1>5. q.mode = "trade" => q.list # Unset
  BY <1>1, <1>3 DEF WalkOK
<1>6. /\ q.mode = "trade" => list # Unset
      /\ q.mode = "fallback" => due \subseteq Enabled
  BY <1>5 DEF Due
<1>7. InAWalk(q) => Overlooked(r, order) = {}
  <2>1. ASSUME InAWalk(q)
        PROVE  Listed(r, order) \in Seq(Providers) /\ due \subseteq Seqs!ToSet(Listed(r, order))
    BY <1>3, <1>4, <1>5, <2>1 DEF Due, Listed, InAWalk
  <2>2. QED
    BY <1>4, <2>1, AheadOf DEF Overlooked
<1> HIDE DEF r, list, due
<1>8. InAWalk(q) => Cardinality(Overlooked(r, order)) <= r.removed
  BY <1>4, <1>7, FS_EmptySet
<1>9. WalkOK(r, facade, order, Enabled')
  BY <1>2, <1>3, <1>4, <1>6, <1>8, DispatchAssumption DEF WalkOK, InAWalk
<1>10. QED
  BY <1>1, <1>2, <1>9, OneWalkChanges

(* An exception ends a walk without a verdict. *)
LEMMA RaisesWalks ==
  ASSUME DispatchIInv, WalksOK, NEW j \in Jobs, NEW p \in Providers, NEW takes \in BOOLEAN,
         Raises(j, p, takes)
  PROVE  WalksOK'
<1> DEFINE q == job[j]
           t == q.took \cup (IF takes THEN {p} ELSE {})
           r == [q EXCEPT !.flight = {}, !.step = "end", !.result = "raised", !.took = t]
<1>1. /\ facade' = facade /\ order' = order /\ clients' = clients /\ disabled' = disabled
      /\ job' = [job EXCEPT ![j] = r]
  BY DEF Raises
<1>2. Enabled' = Enabled
  BY <1>1 DEF Enabled, Present
<1>3. q \in JobRecs /\ WalkOK(q, facade, order, Enabled)
  BY DispatchFacts DEF WalksOK
<1>4. r.step = "end" /\ r.mode = q.mode /\ r.result = "raised"
  BY <1>3 DEF JobRecs
<1> HIDE DEF r
<1>5. WalkOK(r, facade, order, Enabled')
  BY <1>3, <1>4 DEF WalkOK
<1>6. QED
  BY <1>1, <1>2, <1>5, OneWalkChanges

(* Ends that are no walk's: before it begins, or of another mode. *)
LEMMA OtherEndsWalk ==
  ASSUME DispatchIInv, WalksOK, NEW j \in Jobs,
         \/ StaleBlockhash(j) \/ NobodyToAsk(j)
         \/ \E takes \in SUBSET job[j].flight : TimesOut(j, takes)
  PROVE  WalksOK'
<1> DEFINE q == job[j]
<1>1. /\ facade' = facade /\ order' = order /\ clients' = clients /\ disabled' = disabled
  BY DEF StaleBlockhash, NobodyToAsk, TimesOut
<1>2. Enabled' = Enabled
  BY <1>1 DEF Enabled, Present
<1>3. q \in JobRecs /\ JobOK(q) /\ WalkOK(q, facade, order, Enabled)
  BY DispatchFacts DEF WalksOK
<1>4. q.step = "waiting" \/ ~InAWalk(q)
  BY DEF StaleBlockhash, NobodyToAsk, TimesOut, InAWalk, InTurn
<1>5. ASSUME NEW r, job' = [job EXCEPT ![j] = r], r.mode = q.mode, r.step = "end" \/ ~InAWalk(q),
             InAWalk(q) => r.stayed = q.stayed /\ r.removed = q.removed
      PROVE  WalksOK'
  <2>1. InAWalk(q) => r.stayed \ r.asked = {} /\ r.removed \in Nat
    BY <1>3, <1>4, <1>5 DEF JobOK, Untouched, JobRecs
  <2>4. InAWalk(q) => Cardinality(r.stayed \ r.asked) <= r.removed
    BY <2>1, FS_EmptySet
  <2>2. WalkOK(r, facade, order, Enabled')
    BY <1>3, <1>5, <2>4 DEF WalkOK, InAWalk
  <2>3. QED
    BY <1>1, <1>2, <1>5, <2>2, OneWalkChanges
<1>6. CASE StaleBlockhash(j) \/ NobodyToAsk(j)
  <2> DEFINE r == [q EXCEPT !.step = "end", !.result = "failed"]
  <2>1. job' = [job EXCEPT ![j] = r]
    BY <1>6 DEF StaleBlockhash, NobodyToAsk, Ends
  <2>2. r.step = "end" /\ r.mode = q.mode /\ r.stayed = q.stayed /\ r.removed = q.removed
    BY <1>3 DEF JobRecs
  <2> HIDE DEF r
  <2>3. QED
    BY <1>5, <2>1, <2>2
<1>7. ASSUME NEW takes, TimesOut(j, takes) PROVE WalksOK'
  <2> DEFINE r == [q EXCEPT !.flight = {}, !.took = q.took \cup takes]
             e == [q EXCEPT !.flight = {}, !.took = q.took \cup takes, !.step = "end", !.result = "failed"]
  <2>1. job' = [job EXCEPT ![j] = r] \/ job' = [job EXCEPT ![j] = e]
    BY <1>7 DEF TimesOut
  <2>2. r.mode = q.mode /\ e.mode = q.mode /\ ~InAWalk(q)
    BY <1>3, <1>7 DEF JobRecs, TimesOut, InAWalk
  <2> HIDE DEF r, e
  <2>3. QED
    BY <1>5, <2>1, <2>2
<1>8. QED
  BY <1>6, <1>7

(* An answer ends a walk only with a success. *)
LEMMA AnswerWalks ==
  ASSUME DispatchIInv, WalksOK, NEW j \in Jobs, NEW p \in Providers, NEW takes \in BOOLEAN, NEW ok \in BOOLEAN,
         Answer(j, p, takes, ok)
  PROVE  WalksOK'
<1> DEFINE q == job[j]
           said == q.said \cup (IF Reported(p, ok) THEN {p} ELSE {})
           flight == q.flight \ {p}
           over == q.step = "running" /\ Decides(j, said, flight)
           taken == q.took \cup (IF takes THEN {p} ELSE {})
           st == IF over THEN "end" ELSE q.step
           res == IF over THEN Verdict(j, said) ELSE q.result
           r == [q EXCEPT !.flight = flight, !.said = said, !.took = taken, !.step = st, !.result = res]
<1>1. /\ job' = [job EXCEPT ![j] = r] /\ facade' = facade /\ order' = order
      /\ clients' = clients /\ disabled' = disabled
  BY DEF Answer
<1>2. Enabled' = Enabled
  BY <1>1 DEF Enabled, Present
<1>3. q \in JobRecs /\ WalkOK(q, facade, order, Enabled)
  BY DispatchFacts DEF WalksOK
<1>4. /\ r.mode = q.mode /\ r.step = st /\ r.list = q.list /\ r.at = q.at /\ r.asked = q.asked
      /\ r.stayed = q.stayed /\ r.result = res /\ r.removed = q.removed
  BY <1>3 DEF JobRecs
<1>5. st \in {"running", "resting"} => st = q.step
  OBVIOUS
<1>6. InAWalk(q) /\ res = "failed" => q.result = "failed"
  <2>1. ASSUME InAWalk(q), over PROVE res = "success"
    <3>1. InTurn(job[j].mode) /\ q.mode # "broadcast" /\ job[j].mode \notin {"parallel", "race"}
      BY <2>1 DEF InAWalk, InTurn
    <3>2. said # {}
      <4> HIDE DEF said, flight
      <4>1. Decides(j, said, flight) <=> said # {}
        BY <3>1, Zenon DEF Decides
      <4>2. QED
        BY <2>1, <4>1
    <3>3. Verdict(j, said) = "success"
      BY <3>1, <3>2 DEF Verdict
    <3>4. QED
      BY <2>1, <3>3
  <2>2. CASE over
    BY <2>1, <2>2
  <2>3. CASE ~over
    BY <2>3
  <2>4. QED
    BY <2>2, <2>3
<1> HIDE DEF r, st, res
<1>7. (InAWalk(r) <=> InAWalk(q)) /\ Overlooked(r, order) = Overlooked(q, order)
  BY <1>4 DEF InAWalk, Listed, Overlooked
<1>8. WalkOK(r, facade, order, Enabled')
  BY <1>2, <1>3, <1>4, <1>5, <1>6, <1>7 DEF WalkOK
<1>9. QED
  BY <1>1, <1>2, <1>8, OneWalkChanges

(* A client more, behind the others: a walk goes on where it was. *)
LEMMA AddWalks ==
  ASSUME DispatchIInv, WalksOK, NEW p \in Providers, AddClient(p)
  PROVE  WalksOK'
<1>1. /\ clients' = Append(clients, p) /\ facade' = facade /\ disabled' = disabled /\ job' = job
      /\ order' = IF p \in Seqs!ToSet(order) THEN order ELSE Append(order, p)
  BY DEF AddClient
<1>2. clients \in Seq(Providers) /\ order \in Seq(Providers)
  BY DispatchFacts
<1>3. ASSUME NEW s \in Seq(Providers)
      PROVE  /\ Seqs!ToSet(s) \subseteq Seqs!ToSet(Append(s, p))
             /\ \A n \in Nat : Ahead(s, n) \subseteq Ahead(Append(s, p), n)
  BY DEF Seqs!ToSet, Ahead
<1>4. Enabled \subseteq Enabled'
  BY <1>1, <1>2, <1>3 DEF Enabled, Present
<1>5. ASSUME NEW j \in Jobs PROVE WalkOK(job[j], facade, order', Enabled')
  <2> DEFINE q == job[j]
  <2>1. /\ WalkOK(q, facade, order, Enabled) /\ q.at \in Nat /\ q.removed \in Nat
        /\ q.stayed \in SUBSET Providers
    BY DispatchFacts DEF WalksOK, JobRecs
  <2>2. Listed(q, order') = Listed(q, order)
        \/ (Listed(q, order) = order /\ Listed(q, order') = Append(order, p))
    BY <1>1 DEF Listed
  <2>3. Overlooked(q, order') \subseteq Overlooked(q, order)
    BY <1>2, <1>3, <2>1, <2>2 DEF Overlooked
  <2>4. Overlooked(q, order) \in SUBSET Providers
    BY <2>1 DEF Overlooked
  <2>5. Cardinality(Overlooked(q, order)) <= q.removed => Cardinality(Overlooked(q, order')) <= q.removed
    BY <2>1, <2>3, <2>4, FewerOverlooked
  <2>6. QED
    BY <1>4, <2>1, <2>5 DEF WalkOK
<1>6. QED
  BY <1>1, <1>5 DEF WalksOK

(* A client less: a walk over the manager's own list passes over the next one
   at most; other walks have a list of their own. *)
LEMMA RemoveWalks ==
  ASSUME DispatchIInv, WalksOK, NEW p \in Providers, RemoveClient(p)
  PROVE  WalksOK'
<1>1. /\ facade = "manager" /\ facade' = facade /\ job' = Gone(p) /\ disabled' = disabled
      /\ clients' = Dropped(clients, p) /\ order' = Dropped(order, p)
  BY DEF RemoveClient
<1>2. clients \in Seq(Providers) /\ order \in Seq(Providers)
  BY DispatchFacts
<1>3. Enabled \ {p} \subseteq Enabled'
  <2>1. \A x \in Seqs!ToSet(clients) : x = p \/ x \in Seqs!ToSet(Dropped(clients, p))
    BY <1>2, DroppedKeepsOthers
  <2>2. QED
    BY <1>1, <2>1 DEF Enabled, Present
<1>4. ASSUME NEW j \in Jobs PROVE WalkOK(Gone(p)[j], facade, order', Enabled')
  <2> DEFINE q == job[j]
             n == q.removed + 1
             e == [q EXCEPT !.stayed = @ \ {p}]
             f == [q EXCEPT !.stayed = @ \ {p}, !.removed = n]
  <2>1. /\ q \in JobRecs /\ WalkOK(q, facade, order, Enabled) /\ q.at \in Nat /\ q.removed \in Nat
        /\ q.stayed \in SUBSET Providers /\ JobOK(q)
    BY DispatchFacts DEF WalksOK, JobRecs
  <2>2. Gone(p)[j] = IF j \in Sharing THEN f ELSE e
    BY DEF Gone
  <2>3. /\ e.mode = q.mode /\ e.step = q.step /\ e.list = q.list /\ e.at = q.at /\ e.asked = q.asked
        /\ e.stayed = q.stayed \ {p} /\ e.result = q.result /\ e.removed = q.removed
        /\ f.mode = q.mode /\ f.step = q.step /\ f.list = q.list /\ f.at = q.at /\ f.asked = q.asked
        /\ f.stayed = q.stayed \ {p} /\ f.result = q.result /\ f.removed = n
    BY <2>1 DEF JobRecs
  <2> HIDE DEF e, f
  <2>4. CASE j \in Sharing
    <3>1. q.mode = "fallback" /\ q.step = "running" /\ q.list = Unset /\ q.result = Unset
      BY <2>1, <2>4 DEF Sharing, Walking, JobOK
    <3>2. Listed(q, order) = order /\ Listed(f, order') = Dropped(order, p)
      BY <1>1, <2>3, <3>1 DEF Listed
    <3>3. Overlooked(q, order) \in SUBSET Providers /\ Cardinality(Overlooked(q, order)) <= q.removed
      BY <2>1, <3>1 DEF Overlooked, WalkOK, InAWalk
    <3>4. Cardinality(Overlooked(f, order')) <= n
      <4>1. \A x \in Ahead(order, q.at) :
                \/ x = p \/ x \in Ahead(Dropped(order, p), q.at)
                \/ q.at < Len(order) /\ x = order[q.at + 1]
        BY <1>2, <2>1, DroppedAhead
      <4>2. CASE q.at < Len(order)
        <5>1. order[q.at + 1] \in Providers
          BY <1>2, <2>1, <4>2, AheadOf
        <5>2. Overlooked(f, order') \subseteq Overlooked(q, order) \cup {order[q.at + 1]}
          BY <2>3, <3>2, <4>1 DEF Overlooked
        <5>3. QED
          BY <2>1, <3>3, <5>1, <5>2, OneMoreOverlooked
      <4>3. CASE ~(q.at < Len(order))
        <5>1. Overlooked(f, order') \subseteq Overlooked(q, order) \cup {p}
          BY <2>3, <3>2, <4>1, <4>3 DEF Overlooked
        <5>2. QED
          BY <2>1, <3>3, <5>1, OneMoreOverlooked
      <4>4. QED
        BY <4>2, <4>3
    <3>5. f.stayed \subseteq Enabled'
      BY <1>3, <2>1, <2>3, <3>1 DEF WalkOK
    <3>6. WalkOK(f, facade, order', Enabled')
      BY <1>1, <2>3, <3>1, <3>4, <3>5, DispatchAssumption DEF WalkOK
    <3>7. QED
      BY <2>2, <2>4, <3>6
  <2>5. CASE j \notin Sharing
    <3>1. InAWalk(q) /\ q.step = "running" => q.list # Unset
      BY <2>1, <2>5 DEF WalkOK, InAWalk, Sharing, Walking
    <3>2. InAWalk(q) /\ q.step = "running" => Overlooked(e, order') \subseteq Overlooked(q, order)
      BY <2>3, <3>1 DEF Overlooked, Listed
    <3>3. Overlooked(q, order) \in SUBSET Providers /\ q.stayed \ q.asked \in SUBSET Providers
      BY <2>1 DEF Overlooked
    <3>4. InAWalk(q) /\ q.step = "running" => Cardinality(Overlooked(e, order')) <= q.removed
      <4>1. ASSUME InAWalk(q), q.step = "running" PROVE Cardinality(Overlooked(q, order)) <= q.removed
        BY <2>1, <4>1 DEF WalkOK
      <4>2. QED
        BY <2>1, <3>2, <3>3, <4>1, FewerOverlooked
    <3>5. InAWalk(q) /\ q.result = "failed" => Cardinality(e.stayed \ e.asked) <= q.removed
      <4>1. e.stayed \ e.asked \subseteq q.stayed \ q.asked
        BY <2>3
      <4>2. ASSUME InAWalk(q), q.result = "failed" PROVE Cardinality(q.stayed \ q.asked) <= q.removed
        BY <2>1, <4>2 DEF WalkOK
      <4>3. QED
        BY <2>1, <3>3, <4>1, <4>2, FewerOverlooked
    <3>6. q.mode = "fallback" /\ q.step = "running" => e.stayed \subseteq Enabled'
      BY <1>3, <2>1, <2>3 DEF WalkOK
    <3>7. (InAWalk(e) <=> InAWalk(q)) /\ (q.mode = "trade" /\ q.step \in {"running", "resting"} => q.list # Unset)
      BY <2>1, <2>3 DEF InAWalk, WalkOK
    <3>8. WalkOK(e, facade, order', Enabled')
      BY <1>1, <2>3, <3>4, <3>5, <3>6, <3>7 DEF WalkOK
    <3>9. QED
      BY <2>2, <2>5, <3>8
  <2>6. QED
    BY <2>4, <2>5
<1>5. QED
  BY <1>1, <1>4 DEF WalksOK

(* A new order: a walk under way keeps the list it had. *)
LEMMA OrderWalks ==
  ASSUME DispatchIInv, WalksOK, NEW wanted, SetFallbackOrder(wanted)
  PROVE  WalksOK'
<1> DEFINE jobs == [j \in Jobs |-> IF j \in Sharing THEN [job[j] EXCEPT !.list = order] ELSE job[j]]
<1>1. facade' = facade /\ clients' = clients /\ disabled' = disabled /\ job' = jobs
  BY DEF SetFallbackOrder
<1>2. Enabled' = Enabled
  BY <1>1 DEF Enabled, Present
<1>3. order \in Seq(Providers) /\ order # Unset
  BY DispatchFacts, DispatchAssumption
<1>4. ASSUME NEW j \in Jobs PROVE WalkOK(jobs[j], facade, order', Enabled')
  <2> DEFINE q == job[j]
             r == [q EXCEPT !.list = order]
  <2>1. q \in JobRecs /\ WalkOK(q, facade, order, Enabled)
    BY DispatchFacts DEF WalksOK
  <2>2. CASE j \in Sharing
    <3>1. jobs[j] = r
      BY <2>2
    <3>2. /\ r.mode = q.mode /\ r.step = q.step /\ r.list = order /\ r.at = q.at /\ r.asked = q.asked
          /\ r.stayed = q.stayed /\ r.result = q.result /\ r.removed = q.removed
      BY <2>1 DEF JobRecs
    <3> HIDE DEF r
    <3>3. (InAWalk(r) <=> InAWalk(q)) /\ Overlooked(r, order') = Overlooked(q, order)
      BY <1>3, <2>2, <3>2 DEF InAWalk, Listed, Overlooked, Sharing
    <3>4. WalkOK(r, facade, order', Enabled')
      BY <1>2, <1>3, <2>1, <3>2, <3>3 DEF WalkOK
    <3>5. QED
      BY <3>1, <3>4
  <2>3. CASE j \notin Sharing
    <3>1. jobs[j] = q
      BY <2>3
    <3>2. InAWalk(q) /\ q.step = "running" => Overlooked(q, order') = Overlooked(q, order)
      BY <2>1, <2>3 DEF WalkOK, InAWalk, Sharing, Walking, Listed, Overlooked
    <3>3. WalkOK(q, facade, order', Enabled')
      BY <1>2, <2>1, <3>2 DEF WalkOK
    <3>4. QED
      BY <3>1, <3>3
  <2>4. QED
    BY <2>2, <2>3
<1>5. QED
  BY <1>1, <1>4 DEF WalksOK

LEMMA WalkStep ==
  ASSUME DispatchIInv, WalksOK, [DispatchNext]_dispatchVars
  PROVE  WalksOK'
<1>1. CASE UNCHANGED dispatchVars
  <2>1. /\ facade' = facade /\ clients' = clients /\ disabled' = disabled /\ order' = order /\ job' = job
    BY <1>1 DEF dispatchVars
  <2>2. Enabled' = Enabled
    BY <2>1 DEF Enabled, Present
  <2>3. QED
    BY <2>1, <2>2 DEF WalksOK
<1>2. ASSUME NEW p \in Providers, ExecutorAdds(p) \/ ExecutorRemoves(p) PROVE WalksOK'
  <2>1. facade # "manager" /\ facade' = facade /\ order' = order /\ job' = job
    BY <1>2 DEF ExecutorAdds, ExecutorRemoves
  <2>2. \A j \in Jobs : WalkOK(job[j], facade, order, Enabled')
    BY <2>1 DEF WalksOK, WalkOK
  <2>3. QED
    BY <2>1, <2>2 DEF WalksOK
<1>3. ASSUME NEW p \in Providers, AddClient(p) \/ RemoveClient(p) PROVE WalksOK'
  BY <1>3, AddWalks, RemoveWalks
<1>4. ASSUME NEW wanted \in Wanted, SetFallbackOrder(wanted) PROVE WalksOK'
  BY <1>4, OrderWalks
<1>5. ASSUME NEW j \in Jobs, NEW mode \in Modes, Execute(j, mode) PROVE WalksOK'
  BY <1>5, ExecuteWalks
<1>6. ASSUME NEW j \in Jobs, Admit(j) \/ AskNext(j) \/ RoundOver(j) \/ Resumes(j) PROVE WalksOK'
  BY <1>6, AdmitWalks, AskNextWalks, RoundOverWalks, ResumesWalks
<1>7. ASSUME NEW j \in Jobs, NEW p \in Providers, NEW takes \in BOOLEAN, NEW ok \in BOOLEAN, Answer(j, p, takes, ok)
      PROVE  WalksOK'
  BY <1>7, AnswerWalks
<1>8. ASSUME NEW j \in Jobs, StaleBlockhash(j) \/ NobodyToAsk(j) PROVE WalksOK'
  BY <1>8, OtherEndsWalk
<1>10. ASSUME NEW j \in Jobs, NEW takes \in SUBSET job[j].flight, TimesOut(j, takes)
      PROVE  WalksOK'
  BY <1>10, OtherEndsWalk
<1>11. ASSUME NEW j \in Jobs, NEW p \in Providers, NEW takes \in BOOLEAN, Raises(j, p, takes)
      PROVE  WalksOK'
  BY <1>11, RaisesWalks
<1>9. QED
  BY <1>1, <1>2, <1>3, <1>4, <1>5, <1>6, <1>7, <1>8, <1>10, <1>11 DEF DispatchNext

(* For any providers, jobs, retries and changes of the clients: besides, a
   walk gives up only after asking every provider that stayed, but for one at
   most for each client removed from under it. *)
THEOREM DispatchIsTrue == DispatchSpec => []DispatchTellsTruth
<1>1. DispatchInit => WalksOK
  <2>1. SUFFICES ASSUME DispatchInit PROVE WalksOK
    OBVIOUS
  <2>2. job = [j \in Jobs |-> Idle] /\ Idle.mode = "none"
    BY <2>1 DEF DispatchInit, Idle
  <2>3. QED
    BY <2>2 DEF WalksOK, WalkOK, InAWalk
<1>2. DispatchIInv /\ WalksOK /\ [DispatchNext]_dispatchVars => WalksOK'
  BY WalkStep
<1>3. DispatchIInv /\ WalksOK => DispatchTellsTruth
  <2>1. DispatchIInv => DispatchSuccessIsReal
    BY DEF DispatchIInv, DispatchSuccessIsReal, JobOK, Successful
  <2>2. WalksOK => GivesUpAfterAll
    BY DEF WalksOK, WalkOK, InAWalk, GivesUpAfterAll
  <2>3. QED
    BY <2>1, <2>2 DEF DispatchTellsTruth
<1>4. QED
  BY <1>1, <1>2, <1>3, DispatchInductive, PTL DEF DispatchSpec

---------------------------------------------------------------------------

(* SharedTables, for any callers, lanes and tips.  A look-up under way knew
   no more than is known now, nor than it can bring. *)
NonceIInv ==
    /\ nonceOnChain \in Nat /\ nonceCached \in Nat /\ nonceKnown \in Nat /\ nonceKnown <= nonceOnChain
    /\ \A f \in fetch : /\ f.asked \in Nat /\ f.known \in Nat
                        /\ f.known <= f.asked /\ f.known <= nonceKnown
    /\ NonceNotTurnedBack

(* An answer that nothing overtook is the newest value there is. *)
LEMMA AnswerKeepsNonce ==
  ASSUME NonceIInv, NEW f \in fetch, NEW value, NonceFetched(f, value)
  PROVE  NonceIInv'
<1>1. /\ fetch' = fetch \ {f} /\ nonceCached' = value /\ nonceOnChain' = nonceOnChain
      /\ nonceKnown' = IF value > nonceKnown THEN value ELSE nonceKnown
      /\ overtaken' = (nonceKnown > f.known)
      /\ value \in f.asked..nonceOnChain
  BY DEF NonceFetched, Knows
<1>2. /\ nonceOnChain \in Nat /\ nonceKnown \in Nat /\ nonceKnown <= nonceOnChain
      /\ \A g \in fetch : g.asked \in Nat /\ g.known \in Nat /\ g.known <= g.asked /\ g.known <= nonceKnown
  BY DEF NonceIInv
<1>3. value \in Nat /\ value <= nonceOnChain /\ f.asked <= value
  BY <1>1, <1>2
<1>4. /\ nonceOnChain' \in Nat /\ nonceCached' \in Nat /\ nonceKnown' \in Nat
      /\ nonceKnown' <= nonceOnChain' /\ nonceKnown <= nonceKnown'
  BY <1>1, <1>2, <1>3
<1>5. \A g \in fetch' : g.asked \in Nat /\ g.known \in Nat /\ g.known <= g.asked /\ g.known <= nonceKnown'
  BY <1>1, <1>2, <1>4
<1>6. NonceNotTurnedBack'
  <2>1. CASE nonceKnown > f.known
    BY <1>1, <2>1, Zenon DEF NonceNotTurnedBack
  <2>2. CASE ~(nonceKnown > f.known)
    <3>1. nonceCached' = nonceKnown'
      BY <1>1, <1>2, <1>3, <2>2
    <3>2. QED
      BY <3>1 DEF NonceNotTurnedBack
  <2>3. QED
    BY <2>1, <2>2
<1>7. QED
  BY <1>4, <1>5, <1>6 DEF NonceIInv

(* The other steps of the nonce cache. *)
LEMMA NonceStep ==
  ASSUME NonceIInv, [TablesNext]_tableVars
  PROVE  NonceIInv'
<1>1. /\ nonceOnChain \in Nat /\ nonceCached \in Nat /\ nonceKnown \in Nat /\ nonceKnown <= nonceOnChain
      /\ \A f \in fetch : f.asked \in Nat /\ f.known \in Nat /\ f.known <= f.asked /\ f.known <= nonceKnown
      /\ NonceNotTurnedBack
  BY DEF NonceIInv
<1>2. CASE UNCHANGED nonceVars
  BY <1>1, <1>2 DEF nonceVars, NonceIInv, NonceNotTurnedBack
<1>3. CASE NonceAdvances
  <2>1. /\ nonceOnChain' = nonceOnChain + 1 /\ UNCHANGED <<nonceCached, nonceKnown, fetch, overtaken>>
    BY <1>3 DEF NonceAdvances
  <2>2. nonceOnChain' \in Nat /\ nonceKnown' <= nonceOnChain'
    BY <1>1, <2>1
  <2>3. NonceNotTurnedBack'
    BY <1>1, <2>1 DEF NonceNotTurnedBack
  <2>4. QED
    BY <1>1, <2>1, <2>2, <2>3 DEF NonceIInv
<1>4. ASSUME NEW force \in BOOLEAN, GetNonce(force) PROVE NonceIInv'
  <2>1. /\ fetch' = fetch \cup {[asked |-> nonceOnChain, known |-> nonceKnown]}
        /\ UNCHANGED <<nonceOnChain, nonceCached, nonceKnown, overtaken>>
    BY <1>4 DEF GetNonce
  <2>2. \A f \in fetch' : f.asked \in Nat /\ f.known \in Nat /\ f.known <= f.asked /\ f.known <= nonceKnown
    BY <1>1, <2>1
  <2>3. NonceNotTurnedBack'
    BY <1>1, <2>1 DEF NonceNotTurnedBack
  <2>4. QED
    BY <1>1, <2>1, <2>2, <2>3 DEF NonceIInv
<1>5. CASE UpdateNonce
  <2>1. /\ nonceCached' = nonceOnChain /\ UNCHANGED <<nonceOnChain, fetch>>
        /\ nonceKnown' = IF nonceOnChain > nonceKnown THEN nonceOnChain ELSE nonceKnown
    BY <1>5 DEF UpdateNonce, Knows
  <2>2. nonceKnown' = nonceOnChain /\ nonceKnown <= nonceOnChain
    BY <1>1, <2>1
  <2>3. NonceNotTurnedBack'
    BY <2>1, <2>2 DEF NonceNotTurnedBack
  <2>4. \A f \in fetch' : f.asked \in Nat /\ f.known \in Nat /\ f.known <= f.asked /\ f.known <= nonceKnown'
    BY <1>1, <2>1, <2>2
  <2>5. QED
    BY <1>1, <2>1, <2>2, <2>3, <2>4 DEF NonceIInv
<1>6. CASE RemoveNonce
  <2>1. /\ nonceCached' = NoNonce /\ UNCHANGED <<nonceOnChain, nonceKnown, fetch, overtaken>>
    BY <1>6 DEF RemoveNonce
  <2>2. NonceNotTurnedBack' /\ nonceCached' \in Nat
    BY <2>1 DEF NonceNotTurnedBack, NoNonce
  <2>3. QED
    BY <1>1, <2>1, <2>2 DEF NonceIInv
<1>7. ASSUME NEW f \in fetch, NonceNotFetched(f) PROVE NonceIInv'
  <2>1. /\ fetch' = fetch \ {f} /\ UNCHANGED <<nonceOnChain, nonceCached, nonceKnown, overtaken>>
    BY <1>7 DEF NonceNotFetched
  <2>2. NonceNotTurnedBack'
    BY <1>1, <2>1 DEF NonceNotTurnedBack
  <2>3. QED
    BY <1>1, <2>1, <2>2 DEF NonceIInv
<1>8. ASSUME NEW f \in fetch, NEW value \in 1..MaxNonce, NonceFetched(f, value) PROVE NonceIInv'
  BY <1>8, AnswerKeepsNonce
<1>9. ASSUME \/ Time \/ Cleanup
             \/ \E a \in Askers, key \in Keys : Get(a, key) \/ GetMisses(a, key)
             \/ \E a \in Askers, value \in 0..MaxTime : Computed(a, value)
             \/ \E key \in Keys : Delete(key)
      PROVE  UNCHANGED nonceVars /\ UNCHANGED fees
  BY <1>9 DEF Time, Cleanup, Get, GetMisses, Computed, Delete
<1>10. ASSUME \/ \E lane \in Lanes, kind \in Kinds, tip \in Tips : set(lane, kind, tip)
              \/ \E tip \in Tips : set_global_fee_strategy(tip) \/ update_tip(tip)
              \/ \E lane \in Lanes, low, high \in Tips : set_high_low_fee_strategies(lane, low, high)
              \/ \E lane \in Lanes, kinds \in {{k} : k \in Kinds} \cup {Kinds} : delete(lane, kinds)
       PROVE  UNCHANGED nonceVars
  BY <1>10 DEF set, set_global_fee_strategy, update_tip, set_high_low_fee_strategies, delete, Changes
<1>11. CASE UNCHANGED tableVars
  BY <1>2, <1>11 DEF tableVars
<1>12. QED
  BY <1>2, <1>3, <1>4, <1>5, <1>6, <1>7, <1>8, <1>9, <1>10, <1>11 DEF TablesNext

(* NonceCache, for any nonces: it goes back to an older one only with an
   answer that was overtaken on its way. *)
THEOREM NonceGoesForward == TablesSpec => []NonceNotTurnedBack
<1>1. TablesInit => NonceIInv
  BY DEF TablesInit, NonceIInv, NonceNotTurnedBack, NoNonce
<1>2. NonceIInv /\ [TablesNext]_tableVars => NonceIInv'
  BY NonceStep
<1>3. NonceIInv => NonceNotTurnedBack
  BY DEF NonceIInv
<1>4. QED
  BY <1>1, <1>2, <1>3, PTL DEF TablesSpec

(* A table of fees over the lanes and kinds in which NORMAL excludes the two
   others. *)
Exclusive(table) ==
    /\ DOMAIN table = Lanes \X Kinds
    /\ \A lane \in Lanes, kind \in Kinds : kind # "NORMAL" /\ table[<<lane, "NORMAL">>] # NoTip
                                               => table[<<lane, kind>>] = NoTip

LEMMA SetKeepsExclusive ==
  ASSUME NEW table, Exclusive(table), NEW lane \in Lanes, NEW kind \in Kinds, NEW tip
  PROVE  Exclusive(SetInternal(table, lane, kind, tip))
<1> DEFINE t == SetInternal(table, lane, kind, tip)
<1>1. DOMAIN t = Lanes \X Kinds
  BY DEF SetInternal, Exclusive
<1>2. ASSUME NEW l \in Lanes, NEW k \in Kinds
      PROVE  t[<<l, k>>] = IF l = lane /\ k = kind THEN tip
                           ELSE IF l = lane /\ (kind = "NORMAL" \/ k = "NORMAL") THEN NoTip
                           ELSE table[<<l, k>>]
  <2>1. <<l, k>> \in DOMAIN table /\ (<<l, k>> = <<lane, kind>> <=> l = lane /\ k = kind)
    BY DEF Exclusive
  <2>2. QED
    BY <2>1 DEF SetInternal
<1>3. "NORMAL" \in Kinds
  BY DEF Kinds
<1> HIDE DEF t
<1>4. ASSUME NEW l \in Lanes, NEW k \in Kinds, k # "NORMAL", t[<<l, "NORMAL">>] # NoTip
      PROVE  t[<<l, k>>] = NoTip
  <2>1. CASE l = lane
    BY <1>2, <1>3, <1>4, <2>1
  <2>2. CASE l # lane
    BY <1>2, <1>3, <1>4, <2>2 DEF Exclusive
  <2>3. QED
    BY <2>1, <2>2
<1>5. QED
  BY <1>1, <1>4 DEF Exclusive, t

(* GasFeeStrategy, for any lanes, tips and order of calls: NORMAL and the
   pair of the other two exclude each other. *)
THEOREM FeesAreExclusive == TablesSpec => []FeesExcludeEachOther
<1>1. TablesInit => Exclusive(fees)
  BY DEF TablesInit, Exclusive
<1>2. Exclusive(fees) /\ [TablesNext]_tableVars => Exclusive(fees)'
  <2>1. SUFFICES ASSUME Exclusive(fees), [TablesNext]_tableVars PROVE Exclusive(fees')
    BY DEF Exclusive
  <2>2. CASE UNCHANGED fees
    BY <2>1, <2>2
  <2>3. ASSUME NEW lane \in Lanes, NEW kind \in Kinds, NEW tip \in Tips, set(lane, kind, tip)
        PROVE  Exclusive(fees')
    BY <2>1, <2>3, SetKeepsExclusive DEF set, Changes
  <2>4. ASSUME NEW lane \in Lanes, NEW low \in Tips, NEW high \in Tips,
               set_high_low_fee_strategies(lane, low, high)
        PROVE  Exclusive(fees')
    <3>1. "LOW_TIP_HIGH_CU_PRICE" \in Kinds /\ "HIGH_TIP_LOW_CU_PRICE" \in Kinds
      BY DEF Kinds
    <3>2. Exclusive(SetInternal(fees, lane, "LOW_TIP_HIGH_CU_PRICE", low))
      BY <2>1, <3>1, SetKeepsExclusive
    <3>3. QED
      BY <2>4, <3>1, <3>2, SetKeepsExclusive DEF set_high_low_fee_strategies, Changes
  <2>5. ASSUME NEW tip \in Tips, set_global_fee_strategy(tip) PROVE Exclusive(fees')
    <3>1. fees' = [f \in DOMAIN fees |-> IF f[2] # "NORMAL" THEN NoTip
                                         ELSE IF f[1] = DefaultLane THEN 0 ELSE tip]
      BY <2>5 DEF set_global_fee_strategy, Changes
    <3>2. \A lane \in Lanes, kind \in Kinds : kind # "NORMAL" => fees'[<<lane, kind>>] = NoTip
      BY <2>1, <3>1 DEF Exclusive
    <3>3. QED
      BY <2>1, <3>1, <3>2 DEF Exclusive
  <2>6. ASSUME NEW tip \in Tips, update_tip(tip) PROVE Exclusive(fees')
    <3>1. fees' = [f \in DOMAIN fees |-> IF fees[f] = NoTip THEN NoTip ELSE tip]
      BY <2>6 DEF update_tip, Changes
    <3>2. "NORMAL" \in Kinds
      BY DEF Kinds
    <3>3. \A lane \in Lanes, kind \in Kinds : fees[<<lane, kind>>] = NoTip => fees'[<<lane, kind>>] = NoTip
      BY <2>1, <3>1 DEF Exclusive
    <3>4. QED
      BY <2>1, <3>1, <3>2, <3>3 DEF Exclusive
  <2>7. ASSUME NEW lane \in Lanes, NEW kinds, delete(lane, kinds) PROVE Exclusive(fees')
    <3>1. fees' = [f \in DOMAIN fees |-> IF f[1] = lane /\ f[2] \in kinds THEN NoTip ELSE fees[f]]
      BY <2>7 DEF delete, Changes
    <3>2. "NORMAL" \in Kinds
      BY DEF Kinds
    <3>3. \A l \in Lanes, k \in Kinds : fees'[<<l, k>>] \in {fees[<<l, k>>], NoTip}
      BY <2>1, <3>1 DEF Exclusive
    <3>4. QED
      BY <2>1, <3>1, <3>2, <3>3 DEF Exclusive
  <2>8. ASSUME \/ Time \/ Cleanup
               \/ \E a \in Askers, key \in Keys : Get(a, key) \/ GetMisses(a, key)
               \/ \E a \in Askers, value \in 0..MaxTime : Computed(a, value)
               \/ \E key \in Keys : Delete(key)
               \/ NonceAdvances \/ (\E force \in BOOLEAN : GetNonce(force)) \/ UpdateNonce \/ RemoveNonce
               \/ \E f \in fetch : NonceNotFetched(f) \/ \E value \in 1..MaxNonce : NonceFetched(f, value)
        PROVE  UNCHANGED fees
    BY <2>8 DEF Time, Cleanup, Get, GetMisses, Computed, Delete, NonceAdvances, GetNonce, UpdateNonce,
                RemoveNonce, NonceNotFetched, NonceFetched
  <2>9. CASE UNCHANGED tableVars
    BY <2>2, <2>9 DEF tableVars
  <2>10. QED
    BY <2>1, <2>2, <2>3, <2>4, <2>5, <2>6, <2>7, <2>8, <2>9 DEF TablesNext
<1>3. Exclusive(fees) => FeesExcludeEachOther
  BY DEF Exclusive, FeesExcludeEachOther
<1>4. QED
  BY <1>1, <1>2, <1>3, PTL DEF TablesSpec

(* The LRU cache.  Counting up to a place finds every place that stays. *)
LEMMA CountedPlace ==
  ASSUME NEW size \in Nat, NEW places \in SUBSET (1 .. size), NEW n \in 1 .. Cardinality(places)
  PROVE  \E i \in places : Cardinality({j \in places : j <= i}) = n
<1> DEFINE Upto(i) == {j \in places : j <= i}
           Reached == {i \in Nat : i <= size /\ n <= Cardinality(Upto(i))}
           Less == {ss \in Nat \X Nat : ss[1] < ss[2]}
<1>1. IsFiniteSet(places) /\ Cardinality(places) \in Nat /\ \A j \in places : j \in 1 .. size
  <2>1. IsFiniteSet(1 .. size) /\ \A j \in places : j \in 1 .. size
    BY FS_Interval
  <2>2. IsFiniteSet(places)
    BY <2>1, FS_Subset
  <2>3. QED
    BY <2>1, <2>2, FS_CardinalityType
<1>2. ASSUME NEW i \in Nat PROVE IsFiniteSet(Upto(i)) /\ Cardinality(Upto(i)) \in Nat
  BY <1>1, FS_Subset, FS_CardinalityType
<1>3. Upto(size) = places /\ Upto(0) = {}
  <2>1. \A j \in places : j <= size /\ ~ (j <= 0)
    BY <1>1
  <2>2. QED
    BY <2>1
<1>4. size \in Reached /\ Reached \subseteq Nat
  BY <1>3
<1>5. PICK i \in Reached : \A h \in Reached : ~ (h < i)
  <2>1. IsWellFoundedOn(Less, Nat)
    BY NatLessThanWellFounded DEF OpToRel
  <2> HIDE DEF Reached, Less
  <2>2. PICK i \in Reached : \A h \in Reached : ~ (<<h, i>> \in Less)
    BY <1>4, <2>1, WFMin
  <2>3. QED
    BY <1>4, <2>2 DEF Less
<1>6. i \in Nat /\ i <= size /\ n <= Cardinality(Upto(i)) /\ n > 0
  BY <1>5
<1>7. i # 0
  <2>1. Cardinality(Upto(0)) = 0
    BY <1>3, FS_EmptySet
  <2>2. QED
    BY <1>6, <2>1
<1>8. i - 1 \in Nat /\ Cardinality(Upto(i - 1)) < n
  <2>1. i - 1 \in Nat /\ i - 1 <= size /\ i - 1 < i
    BY <1>6, <1>7
  <2>2. ~ (i - 1 \in Reached)
    BY <1>5, <2>1
  <2>3. Cardinality(Upto(i - 1)) \in Nat
    BY <1>2, <2>1
  <2> HIDE DEF Upto
  <2>4. QED
    BY <2>1, <2>2, <2>3
<1>9. i \in places
  <2>1. ASSUME i \notin places PROVE Upto(i) = Upto(i - 1)
    <3>1. \A j \in places : j <= i <=> j <= i - 1
      BY <1>1, <1>6, <2>1
    <3>2. QED
      BY <3>1
  <2>2. Cardinality(Upto(i)) \in Nat /\ Cardinality(Upto(i - 1)) \in Nat
    BY <1>2, <1>6, <1>8
  <2> HIDE DEF Upto
  <2>3. QED
    BY <1>6, <1>8, <2>1, <2>2
<1>10. Upto(i) = Upto(i - 1) \cup {i} /\ i \notin Upto(i - 1)
  <2>1. (\A j \in places : j <= i <=> j <= i - 1 \/ j = i) /\ ~ (i <= i - 1)
    BY <1>1, <1>6
  <2>2. QED
    BY <1>9, <2>1
<1>11. Cardinality(Upto(i)) = Cardinality(Upto(i - 1)) + 1
  BY <1>2, <1>8, <1>10, FS_AddElement
<1>12. Cardinality(Upto(i)) = n
  <2>1. Cardinality(Upto(i - 1)) \in Nat
    BY <1>2, <1>8
  <2> HIDE DEF Upto
  <2>2. QED
    BY <1>6, <1>8, <1>11, <2>1
<1>13. QED
  BY <1>9, <1>12

(* What stays is as long as its places are many, and each was at one of them. *)
LEMMA StayingIs ==
  ASSUME NEW size \in Nat, NEW places \in SUBSET (1 .. size)
  PROVE  /\ Cardinality(places) \in 0 .. size
         /\ \E place \in [1 .. Cardinality(places) -> places] :
              /\ \A n, m \in 1 .. Cardinality(places) : place[n] = place[m] => n = m
              /\ \A s : Staying(s, places) = [n \in 1 .. Cardinality(places) |-> s[place[n]]]
<1> DEFINE place == [n \in 1 .. Cardinality(places) |->
                        CHOOSE i \in places : Cardinality({j \in places : j <= i}) = n]
<1>1. Cardinality(places) \in 0 .. size
  <2>1. IsFiniteSet(1 .. size) /\ Cardinality(1 .. size) = size
    BY FS_Interval
  <2>2. IsFiniteSet(places) /\ Cardinality(places) <= size
    BY <2>1, FS_Subset
  <2>3. QED
    BY <2>2, FS_CardinalityType
<1>2. \A n \in 1 .. Cardinality(places) :
        place[n] \in places /\ Cardinality({j \in places : j <= place[n]}) = n
  <2>1. \A n \in 1 .. Cardinality(places) :
          \E i \in places : Cardinality({j \in places : j <= i}) = n
    BY CountedPlace
  <2>2. QED
    BY <2>1
<1>3. \A s : Staying(s, places) = [n \in 1 .. Cardinality(places) |-> s[place[n]]]
  BY DEF Staying
<1>4. place \in [1 .. Cardinality(places) -> places]
  BY <1>2
<1> HIDE DEF place
<1>5. \A n, m \in 1 .. Cardinality(places) : place[n] = place[m] => n = m
  BY <1>2
<1>6. QED
  BY <1>1, <1>3, <1>4, <1>5

(* Two sequences that agree go on agreeing in what stays of them. *)
Cells == [key : Keys, value : Int, until : Int]

(* Every key has one entry, in the order of the uses. *)
Orderly(cells, ranks) ==
    /\ cells \in Seq(Cells) /\ ranks \in Seq(Keys)
    /\ Len(cells) = Len(ranks) /\ Len(cells) <= CacheSize
    /\ \A i \in 1 .. Len(cells) : cells[i].key = ranks[i]
    /\ \A i, j \in 1 .. Len(cells) : ranks[i] = ranks[j] => i = j
    /\ \A i \in 1 .. Len(cells) : cells[i].until <= cells[i].value + CacheLife + Computing

LEMMA StayingIsOrderly ==
  ASSUME NEW STATE cells, NEW STATE ranks, Orderly(cells, ranks), NEW STATE places,
         places \in SUBSET (1 .. Len(cells))
  PROVE  /\ Orderly(Staying(cells, places), Staying(ranks, places))
         /\ Len(Staying(cells, places)) = Cardinality(places)
<1> DEFINE count == Cardinality(places)
           left == Staying(cells, places)
           used == Staying(ranks, places)
<1>1. /\ cells \in Seq(Cells) /\ ranks \in Seq(Keys)
      /\ Len(cells) = Len(ranks) /\ Len(cells) <= CacheSize
  BY DEF Orderly
<1>2. Len(cells) \in Nat /\ CacheSize \in Nat
  BY <1>1, CacheAssumption
<1>3. /\ count \in 0 .. Len(cells)
      /\ \E place \in [1 .. count -> places] :
              /\ \A n, m \in 1 .. count : place[n] = place[m] => n = m
              /\ \A s : Staying(s, places) = [n \in 1 .. count |-> s[place[n]]]
  BY <1>2, StayingIs
<1>4. PICK place \in [1 .. count -> places] :
              /\ \A n, m \in 1 .. count : place[n] = place[m] => n = m
              /\ \A s : Staying(s, places) = [n \in 1 .. count |-> s[place[n]]]
  BY <1>3
<1>5. \A n \in 1 .. count : /\ place[n] \in 1 .. Len(cells) /\ place[n] \in places
                            /\ left[n] = cells[place[n]] /\ used[n] = ranks[place[n]]
  <2>1. /\ left = [n \in 1 .. count |-> cells[place[n]]]
        /\ used = [n \in 1 .. count |-> ranks[place[n]]]
    BY <1>4
  <2>2. \A n \in 1 .. count : place[n] \in places /\ place[n] \in 1 .. Len(cells)
    BY <1>4
  <2> HIDE DEF left, used, count
  <2>3. QED
    BY <2>1, <2>2
<1>6. left \in Seq(Cells) /\ used \in Seq(Keys) /\ Len(left) = count /\ Len(used) = count
  <2>1. /\ left = [n \in 1 .. count |-> cells[place[n]]]
        /\ used = [n \in 1 .. count |-> ranks[place[n]]]
    BY <1>4
  <2>2. \A i \in 1 .. Len(cells) : cells[i] \in Cells /\ ranks[i] \in Keys
    BY <1>1
  <2> HIDE DEF left, used, count
  <2>3. count \in Nat /\ \A n \in 1 .. count : cells[place[n]] \in Cells /\ ranks[place[n]] \in Keys
    BY <1>2, <1>3, <1>5, <2>2
  <2>4. QED
    BY <2>1, <2>3, IsASeq, LenProperties
<1> HIDE DEF left, used, count
<1>7. \A n \in 1 .. count : left[n].key = used[n] /\ left[n].until <= left[n].value + CacheLife + Computing
  BY <1>5 DEF Orderly
<1>8. \A n, m \in 1 .. count : used[n] = used[m] => n = m
  BY <1>4, <1>5 DEF Orderly
<1>9. Len(left) <= CacheSize
  BY <1>1, <1>2, <1>3, <1>6
<1>10. Orderly(left, used)
  BY <1>6, <1>7, <1>8, <1>9 DEF Orderly
<1>11. QED
  BY <1>6, <1>10 DEF left, used, count

(* A key that was used last is the newest; one entry more is pushed out at
   the front. *)
LEMMA AppendIsOrderly ==
  ASSUME NEW STATE cells, NEW STATE ranks, Orderly(cells, ranks), NEW STATE cell, cell \in Cells,
         cell.until <= cell.value + CacheLife + Computing,
         \A i \in 1 .. Len(cells) : ranks[i] # cell.key
  PROVE  LET c == Append(cells, cell)
             o == Append(ranks, cell.key)
         IN /\ Len(c) = Len(o) /\ Len(c) = Len(cells) + 1
            /\ Len(c) <= CacheSize => Orderly(c, o)
            /\ Len(c) > CacheSize => Orderly(Tail(c), Tail(o))
<1> DEFINE c == Append(cells, cell)
           o == Append(ranks, cell.key)
<1>1. /\ cells \in Seq(Cells) /\ ranks \in Seq(Keys)
      /\ Len(cells) = Len(ranks) /\ Len(cells) <= CacheSize
  BY DEF Orderly
<1>2. Len(cells) \in Nat /\ CacheSize \in Nat
  BY <1>1, CacheAssumption
<1>3. cell.key \in Keys
  BY DEF Cells
<1>4. /\ c \in Seq(Cells) /\ o \in Seq(Keys)
      /\ Len(c) = Len(cells) + 1 /\ Len(o) = Len(cells) + 1
  BY <1>1, <1>2, <1>3
<1>5. /\ \A i \in 1 .. Len(cells) : c[i] = cells[i] /\ o[i] = ranks[i]
      /\ c[Len(cells) + 1] = cell /\ o[Len(cells) + 1] = cell.key
  BY <1>1, <1>2, <1>3
<1> HIDE DEF c, o
<1>6. \A i \in 1 .. Len(c) : i \in 1 .. Len(cells) \/ i = Len(cells) + 1
  BY <1>2, <1>4
<1>7. \A i \in 1 .. Len(c) : c[i].key = o[i] /\ c[i].until <= c[i].value + CacheLife + Computing
  BY <1>5, <1>6 DEF Orderly
<1>8. \A i, j \in 1 .. Len(c) : o[i] = o[j] => i = j
  BY <1>5, <1>6 DEF Orderly
<1>9. Len(c) <= CacheSize => Orderly(c, o)
  BY <1>4, <1>7, <1>8 DEF Orderly
<1>10. Orderly(Tail(c), Tail(o)) \/ ~ (Len(c) > CacheSize)
  <2>1. Len(c) = Len(o) /\ Len(c) \in Nat /\ Len(c) # 0 /\ c # <<>> /\ o # <<>>
    BY <1>2, <1>4
  <2>2. /\ Tail(c) \in Seq(Cells) /\ Len(Tail(c)) = Len(c) - 1
        /\ Tail(o) \in Seq(Keys) /\ Len(Tail(o)) = Len(c) - 1
        /\ \A i \in 1 .. Len(c) - 1 : Tail(c)[i] = c[i + 1] /\ Tail(o)[i] = o[i + 1]
    BY <1>4, <2>1, HeadTailProperties
  <2>3. \A i \in 1 .. Len(c) - 1 : i + 1 \in 1 .. Len(c)
    BY <2>1
  <2> DEFINE t == Tail(c)
             u == Tail(o)
  <2>4. \A i \in 1 .. Len(t) : t[i].key = u[i] /\ t[i].until <= t[i].value + CacheLife + Computing
    BY <1>7, <2>2, <2>3
  <2>5. \A i, j \in 1 .. Len(t) : u[i] = u[j] => i = j
    <3> SUFFICES ASSUME NEW i \in 1 .. Len(c) - 1, NEW j \in 1 .. Len(c) - 1, u[i] = u[j] PROVE i = j
      BY <2>2
    <3>1. i + 1 = j + 1
      BY <1>8, <2>2, <2>3
    <3>2. QED
      BY <2>1, <3>1
  <2>6. Len(t) <= CacheSize
    BY <1>1, <1>2, <1>4, <2>2
  <2>7. QED
    BY <2>2, <2>4, <2>5, <2>6 DEF Orderly
<1>11. QED
  BY <1>2, <1>4, <1>9, <1>10 DEF c, o

(* What a call of the cached function finds there and what it leaves. *)
Calls == {Away} \cup [at : {"computes"}, key : Keys, since : Int]

CacheIInv ==
    /\ now \in Int /\ oldest \in Int /\ asker \in [Askers -> Calls]
    /\ Orderly(entries, uses)
    /\ oldest <= CacheLife + Computing
    /\ \A a \in Askers : asker[a].at = "computes" =>
          asker[a].since <= now /\ now <= asker[a].since + Computing

(* Taking a key out of the cache. *)
LEMMA WithoutIsOrderly ==
  ASSUME CacheIInv, NEW key \in Keys
  PROVE  /\ Orderly(Without(key), Unused(key))
         /\ \A i \in 1 .. Len(Without(key)) : Unused(key)[i] # key
         /\ Entry(key) # {} => Len(Without(key)) < Len(entries)
<1> DEFINE places == {i \in 1 .. Len(entries) : uses[i] # key}
<1>1. /\ Orderly(entries, uses) /\ Len(entries) \in Nat
      /\ DOMAIN entries = 1 .. Len(entries) /\ DOMAIN uses = 1 .. Len(entries)
      /\ \A i \in 1 .. Len(entries) : entries[i].key = uses[i]
  BY DEF CacheIInv, Orderly
<1>2. {i \in DOMAIN entries : entries[i].key # key} = places
  BY <1>1
<1>3. {i \in DOMAIN uses : uses[i] # key} = places
  BY <1>1
<1>4. Without(key) = Staying(entries, places) /\ Unused(key) = Staying(uses, places)
  BY <1>2, <1>3 DEF Without, Unused
<1>5. /\ Orderly(Without(key), Unused(key)) /\ Len(Without(key)) = Cardinality(places)
      /\ \A n \in 1 .. Cardinality(places) : \E i \in places : Unused(key)[n] = uses[i]
  <2>1. places \in SUBSET (1 .. Len(entries))
    OBVIOUS
  <2>2. Orderly(entries, uses)
    BY <1>1
  <2> HIDE DEF places
  <2>3. /\ Orderly(Staying(entries, places), Staying(uses, places))
        /\ Len(Staying(entries, places)) = Cardinality(places)
    BY <2>1, <2>2, StayingIsOrderly
  <2> DEFINE size == Len(entries)
  <2>4. size \in Nat /\ places \in SUBSET (1 .. size)
    BY <1>1, <2>1
  <2> HIDE DEF size
  <2>5. /\ Cardinality(places) \in 0 .. size
        /\ \E place \in [1 .. Cardinality(places) -> places] :
             /\ \A n, m \in 1 .. Cardinality(places) : place[n] = place[m] => n = m
             /\ \A s : Staying(s, places) = [n \in 1 .. Cardinality(places) |-> s[place[n]]]
    BY <2>4, StayingIs
  <2>6. \A n \in 1 .. Cardinality(places) : Staying(uses, places)[n] \in {uses[i] : i \in places}
    BY <2>5
  <2>7. QED
    BY <1>4, <2>3, <2>6
<1>6. \A i \in 1 .. Len(Without(key)) : Unused(key)[i] # key
  BY <1>5
<1>7. ASSUME Entry(key) # {} PROVE Cardinality(places) < Len(entries)
  <2>1. PICK i \in 1 .. Len(entries) : entries[i].key = key
    BY <1>1, <1>7 DEF Entry
  <2>2. places \in SUBSET ((1 .. Len(entries)) \ {i})
    BY <1>1, <2>1
  <2>3. IsFiniteSet(1 .. Len(entries)) /\ Cardinality(1 .. Len(entries)) = Len(entries)
    BY <1>1, FS_Interval
  <2>4. /\ IsFiniteSet((1 .. Len(entries)) \ {i})
        /\ Cardinality((1 .. Len(entries)) \ {i}) = Len(entries) - 1
    BY <2>1, <2>3, FS_RemoveElement
  <2>5. Cardinality(places) <= Len(entries) - 1 /\ IsFiniteSet(places)
    BY <2>2, <2>4, FS_Subset
  <2>6. Cardinality(places) \in Nat
    BY <2>5, FS_CardinalityType
  <2> HIDE DEF places
  <2>7. QED
    BY <1>1, <2>5, <2>6
<1>8. QED
  BY <1>5, <1>6, <1>7

(* An entry belongs to its key, and is no older than it may be. *)
LEMMA EntryIsRecent ==
  ASSUME CacheIInv, NEW key \in Keys, NEW e \in Entry(key)
  PROVE  /\ e \in Cells /\ e.key = key /\ Entry(key) # {}
         /\ e.until <= e.value + CacheLife + Computing
<1>1. /\ entries \in Seq(Cells) /\ DOMAIN entries = 1 .. Len(entries)
      /\ \A i \in 1 .. Len(entries) : entries[i].until <= entries[i].value + CacheLife + Computing
  BY DEF CacheIInv, Orderly
<1>2. PICK i \in 1 .. Len(entries) : e = entries[i] /\ entries[i].key = key
  BY <1>1 DEF Entry
<1>3. QED
  BY <1>1, <1>2

(* A hit: what is handed out has been there for its lifetime at most, and was
   computed in time. *)
LEMMA GetKeepsCache ==
  ASSUME CacheIInv, NEW a \in Askers, NEW key \in Keys, Get(a, key)
  PROVE  CacheIInv'
<1>1. PICK e \in Entry(key) : /\ ~IsExpired(e) /\ entries' = Append(Without(key), e)
                              /\ oldest' = IF now - e.value > oldest THEN now - e.value ELSE oldest
  BY DEF Get
<1>2. uses' = Append(Unused(key), key) /\ UNCHANGED <<now, asker>>
  BY DEF Get, UsedNow
<1>3. /\ e \in Cells /\ e.key = key /\ Entry(key) # {}
      /\ e.until <= e.value + CacheLife + Computing
  BY EntryIsRecent
<1>4. /\ Orderly(Without(key), Unused(key))
      /\ \A i \in 1 .. Len(Without(key)) : Unused(key)[i] # key
      /\ Len(Without(key)) < Len(entries)
  BY <1>3, WithoutIsOrderly
<1>5. /\ Len(entries) \in Nat /\ Len(entries) <= CacheSize /\ Len(Without(key)) \in Nat
      /\ CacheSize \in Nat /\ CacheLife \in Nat /\ Computing \in Nat
  BY <1>4, CacheAssumption DEF CacheIInv, Orderly
<1>6. LET c == Append(Without(key), e)
          o == Append(Unused(key), e.key)
      IN Len(c) = Len(Without(key)) + 1 /\ (Len(c) <= CacheSize => Orderly(c, o))
  BY <1>3, <1>4, AppendIsOrderly
<1>7. Orderly(entries', uses')
  BY <1>1, <1>2, <1>3, <1>4, <1>5, <1>6
<1>8. oldest' \in Int /\ oldest' <= CacheLife + Computing
  <2>1. /\ now \in Int /\ oldest \in Int /\ oldest <= CacheLife + Computing
        /\ e.value \in Int /\ e.until \in Int /\ now <= e.until
    BY <1>1, <1>3 DEF CacheIInv, Cells, IsExpired
  <2> DEFINE age == now - e.value
  <2>2. age \in Int /\ age <= CacheLife + Computing
    BY <1>3, <1>5, <2>1
  <2>3. oldest' = IF age > oldest THEN age ELSE oldest
    BY <1>1
  <2> HIDE DEF age
  <2>4. QED
    BY <2>1, <2>2, <2>3
<1>9. QED
  BY <1>2, <1>7, <1>8 DEF CacheIInv, Orderly

(* The function ends: what it brings is as old as its call at most. *)
LEMMA ComputedKeepsCache ==
  ASSUME CacheIInv, NEW a \in Askers, NEW value, Computed(a, value)
  PROVE  CacheIInv'
<1> DEFINE key == asker[a].key
           cell == [key |-> key, value |-> value, until |-> now + CacheLife]
           c == Append(Without(key), cell)
           o == Append(Unused(key), key)
<1>1. /\ asker[a].at = "computes" /\ value \in asker[a].since .. now
      /\ asker' = [asker EXCEPT ![a] = Away] /\ UNCHANGED <<now, oldest>>
      /\ entries' = IF Len(c) > CacheSize THEN Tail(c) ELSE c
      /\ uses' = IF Len(o) > CacheSize THEN Tail(o) ELSE o
  BY DEF Computed, Stores, UsedNow
<1>2. /\ asker[a] \in Calls /\ now \in Int /\ oldest \in Int /\ asker \in [Askers -> Calls]
      /\ asker[a].since <= now /\ now <= asker[a].since + Computing
      /\ CacheSize \in Nat /\ CacheLife \in Nat /\ Computing \in Nat
  BY <1>1, CacheAssumption DEF CacheIInv
<1>3. key \in Keys /\ asker[a].since \in Int
  <2>1. asker[a] # Away
    BY <1>1 DEF Away
  <2>2. asker[a] \in [at : {"computes"}, key : Keys, since : Int]
    BY <1>2, <2>1 DEF Calls
  <2>3. QED
    BY <2>2
<1>4. /\ cell \in Cells /\ cell.key = key
      /\ cell.until <= cell.value + CacheLife + Computing
  <2> DEFINE begun == asker[a].since
  <2>1. begun \in Int /\ now <= begun + Computing /\ value \in begun .. now
    BY <1>1, <1>2, <1>3
  <2> HIDE DEF begun
  <2>2. value \in Int /\ now + CacheLife \in Int /\ now + CacheLife <= value + CacheLife + Computing
    BY <1>2, <2>1
  <2>3. QED
    BY <1>3, <2>2 DEF Cells
<1>5. /\ Orderly(Without(key), Unused(key))
      /\ \A i \in 1 .. Len(Without(key)) : Unused(key)[i] # key
  BY <1>3, WithoutIsOrderly
<1>6. /\ Len(c) = Len(o) /\ Len(c) = Len(Without(key)) + 1 /\ Len(Without(key)) \in Nat
      /\ Len(c) <= CacheSize => Orderly(c, o)
      /\ Len(c) > CacheSize => Orderly(Tail(c), Tail(o))
  <2> HIDE DEF key, cell
  <2>1. LET cc == Append(Without(key), cell)
            oo == Append(Unused(key), cell.key)
         IN /\ Len(cc) = Len(oo) /\ Len(cc) = Len(Without(key)) + 1
            /\ Len(cc) <= CacheSize => Orderly(cc, oo)
            /\ Len(cc) > CacheSize => Orderly(Tail(cc), Tail(oo))
    BY <1>4, <1>5, AppendIsOrderly
  <2>2. Len(Without(key)) \in Nat
    BY <1>5 DEF Orderly
  <2>3. QED
    BY <1>4, <2>1, <2>2
<1>7. Orderly(entries', uses')
  <2> HIDE DEF c, o
  <2>1. CASE Len(c) > CacheSize
    BY <1>1, <1>6, <2>1
  <2>2. CASE ~ (Len(c) > CacheSize)
    <3>1. Len(c) <= CacheSize
      BY <1>2, <1>6, <2>2
    <3>2. QED
      BY <1>1, <1>6, <2>2, <3>1
  <2>3. QED
    BY <2>1, <2>2
<1>8. /\ asker' \in [Askers -> Calls]
      /\ \A b \in Askers : asker'[b].at = "computes" => asker'[b] = asker[b]
  BY <1>1, <1>2 DEF Calls, Away
<1>9. QED
  <2>1. \A b \in Askers : asker'[b].at = "computes" =>
          asker'[b].since <= now' /\ now' <= asker'[b].since + Computing
    BY <1>1, <1>8 DEF CacheIInv
  <2>2. QED
    BY <1>1, <1>2, <1>7, <1>8, <2>1 DEF CacheIInv, Orderly

(* The other steps of the cache. *)
LEMMA CacheStep ==
  ASSUME CacheIInv, [TablesNext]_tableVars
  PROVE  CacheIInv'
<1> DEFINE
      OfNonces ==
        \/ NonceAdvances \/ (\E force \in BOOLEAN : GetNonce(force)) \/ UpdateNonce \/ RemoveNonce
        \/ \E f \in fetch : NonceNotFetched(f) \/ \E value \in 1 .. MaxNonce : NonceFetched(f, value)
      OfFees ==
        \/ \E lane \in Lanes, kind \in Kinds, tip \in Tips : set(lane, kind, tip)
        \/ \E tip \in Tips : set_global_fee_strategy(tip) \/ update_tip(tip)
        \/ \E lane \in Lanes, low, high \in Tips : set_high_low_fee_strategies(lane, low, high)
        \/ \E lane \in Lanes, kinds \in {{k} : k \in Kinds} \cup {Kinds} : delete(lane, kinds)
<1>1. CASE UNCHANGED cacheVars
  BY <1>1 DEF cacheVars, CacheIInv, Orderly
<1>2. CASE Time
  <2>1. /\ now' = now + 1 /\ UNCHANGED <<entries, asker, uses, oldest>>
        /\ \A a \in Askers : asker[a].at = "computes" => now < asker[a].since + Computing
    BY <1>2 DEF Time
  <2>2. ASSUME NEW a \in Askers, asker[a].at = "computes"
        PROVE  asker[a].since <= now' /\ now' <= asker[a].since + Computing
    <3> DEFINE begun == asker[a].since
    <3>1. begun \in Int
      <4>1. asker[a] \in Calls /\ asker[a] # Away
        BY <2>2 DEF CacheIInv, Away
      <4>2. QED
        BY <4>1 DEF Calls
    <3>2. begun <= now /\ now < begun + Computing /\ now \in Int /\ Computing \in Nat
      BY <2>1, <2>2, CacheAssumption DEF CacheIInv
    <3> HIDE DEF begun
    <3>3. begun <= now' /\ now' <= begun + Computing
      BY <2>1, <3>1, <3>2
    <3>4. QED
      BY <3>3 DEF begun
  <2>3. now' \in Int
    BY <2>1 DEF CacheIInv
  <2>4. QED
    BY <2>1, <2>2, <2>3 DEF CacheIInv, Orderly
<1>3. ASSUME NEW a \in Askers, NEW key \in Keys, Get(a, key) PROVE CacheIInv'
  BY <1>3, GetKeepsCache
<1>4. ASSUME NEW a \in Askers, NEW key \in Keys, GetMisses(a, key) PROVE CacheIInv'
  <2>1. /\ entries' = Without(key) /\ uses' = Unused(key) /\ UNCHANGED <<now, oldest>>
        /\ asker' = [asker EXCEPT ![a] = [at |-> "computes", key |-> key, since |-> now]]
    BY <1>4 DEF GetMisses
  <2>2. Orderly(entries', uses')
    BY <2>1, WithoutIsOrderly
  <2>3. /\ now \in Int /\ oldest \in Int /\ asker \in [Askers -> Calls] /\ Computing \in Nat
        /\ oldest <= CacheLife + Computing
    BY CacheAssumption DEF CacheIInv
  <2>4. asker' \in [Askers -> Calls]
    BY <2>1, <2>3 DEF Calls
  <2>5. \A b \in Askers : asker'[b].at = "computes" =>
          asker'[b].since <= now /\ now <= asker'[b].since + Computing
    BY <2>1, <2>3 DEF CacheIInv
  <2>6. QED
    BY <2>1, <2>2, <2>3, <2>4, <2>5 DEF CacheIInv, Orderly
<1>5. ASSUME NEW a \in Askers, NEW value \in 0 .. MaxTime, Computed(a, value) PROVE CacheIInv'
  BY <1>5, ComputedKeepsCache
<1>6. ASSUME NEW key \in Keys, Delete(key) PROVE CacheIInv'
  <2>1. entries' = Without(key) /\ uses' = Unused(key) /\ UNCHANGED <<now, asker, oldest>>
    BY <1>6 DEF Delete
  <2>2. Orderly(entries', uses')
    BY <2>1, WithoutIsOrderly
  <2>3. QED
    BY <2>1, <2>2 DEF CacheIInv, Orderly
<1>7. CASE Cleanup
  <2> DEFINE places == {i \in 1 .. Len(entries) : ~IsExpired(entries[i])}
  <2>1. /\ Orderly(entries, uses) /\ DOMAIN entries = 1 .. Len(entries) /\ DOMAIN uses = 1 .. Len(entries)
        /\ \A i \in 1 .. Len(entries) : entries[i].key = uses[i]
        /\ \A i, j \in 1 .. Len(entries) : uses[i] = uses[j] => i = j
    <3>1. Orderly(entries, uses)
      BY DEF CacheIInv
    <3>2. QED
      BY <3>1 DEF Orderly
  <2>2. \A i \in 1 .. Len(entries) : Entry(uses[i]) = {entries[i]}
    BY <2>1 DEF Entry
  <2>3. /\ {i \in DOMAIN entries : ~IsExpired(entries[i])} = places
        /\ {i \in DOMAIN uses : \E e \in Entry(uses[i]) : ~IsExpired(e)} = places
    BY <2>1, <2>2
  <2>4. /\ entries' = Staying(entries, places) /\ uses' = Staying(uses, places)
        /\ UNCHANGED <<now, asker, oldest>>
    BY <1>7, <2>3 DEF Cleanup
  <2>5. places \in SUBSET (1 .. Len(entries))
    OBVIOUS
  <2> HIDE DEF places
  <2>6. Orderly(Staying(entries, places), Staying(uses, places))
    BY <2>1, <2>5, StayingIsOrderly
  <2>7. QED
    BY <2>4, <2>6 DEF CacheIInv, Orderly
<1>8. CASE OfNonces
  <2>1. UNCHANGED cacheVars
    BY <1>8 DEF NonceAdvances, GetNonce, UpdateNonce, RemoveNonce, NonceNotFetched, NonceFetched
  <2>2. QED
    BY <1>1, <2>1
<1>9. CASE OfFees
  <2>1. UNCHANGED cacheVars
    BY <1>9 DEF set, set_global_fee_strategy, update_tip, set_high_low_fee_strategies, delete, Changes
  <2>2. QED
    BY <1>1, <2>1
<1>10. CASE UNCHANGED tableVars
  BY <1>1, <1>10 DEF tableVars
<1>11. ASSUME \E a \in Askers, key \in Keys : Get(a, key) \/ GetMisses(a, key) PROVE CacheIInv'
  BY <1>3, <1>4, <1>11
<1>12. ASSUME \E a \in Askers, value \in 0 .. MaxTime : Computed(a, value) PROVE CacheIInv'
  BY <1>5, <1>12
<1>13. ASSUME \E key \in Keys : Delete(key) PROVE CacheIInv'
  BY <1>6, <1>13
<1>14. CASE TablesNext
  <2>1. \/ Time \/ Cleanup \/ OfNonces \/ OfFees
        \/ \E a \in Askers, key \in Keys : Get(a, key) \/ GetMisses(a, key)
        \/ \E a \in Askers, value \in 0 .. MaxTime : Computed(a, value)
        \/ \E key \in Keys : Delete(key)
    BY <1>14 DEF TablesNext
  <2> HIDE DEF OfNonces, OfFees
  <2>2. QED
    BY <2>1, <1>2, <1>7, <1>8, <1>9, <1>11, <1>12, <1>13
<1>15. QED
  BY <1>10, <1>14

(* LRUCache and its decorator, for any keys, callers and sizes: it forgets the
   least recently used first and hands out nothing that is too old. *)
THEOREM CacheIsOrderly == TablesSpec => []CacheForgetsInOrder
<1>1. TablesInit => CacheIInv
  <2> SUFFICES ASSUME TablesInit PROVE CacheIInv
    OBVIOUS
  <2>1. /\ now = 0 /\ oldest = 0 /\ entries = <<>> /\ uses = <<>>
        /\ asker = [a \in Askers |-> Away]
    BY DEF TablesInit
  <2>2. Orderly(entries, uses) /\ oldest <= CacheLife + Computing
    BY <2>1, CacheAssumption DEF Orderly
  <2>3. asker \in [Askers -> Calls] /\ \A a \in Askers : asker[a].at # "computes"
    BY <2>1 DEF Calls, Away
  <2>4. QED
    BY <2>1, <2>2, <2>3 DEF CacheIInv
<1>2. CacheIInv /\ [TablesNext]_tableVars => CacheIInv'
  BY CacheStep
<1>3. CacheIInv => CacheForgetsInOrder
  <2> SUFFICES ASSUME CacheIInv PROVE CacheForgetsInOrder
    OBVIOUS
  <2>1. /\ uses \in Seq(Keys) /\ Len(entries) = Len(uses) /\ Len(entries) <= CacheSize
        /\ DOMAIN entries = 1 .. Len(uses)
        /\ \A i \in 1 .. Len(entries) : entries[i].key = uses[i]
    BY DEF CacheIInv, Orderly
  <2>2. uses = [i \in 1 .. Len(uses) |-> uses[i]]
    BY <2>1
  <2>3. [i \in DOMAIN entries |-> entries[i].key] = [i \in 1 .. Len(uses) |-> uses[i]]
    BY <2>1
  <2>4. QED
    BY <2>1, <2>2, <2>3 DEF CacheForgetsInOrder, CacheIInv
<1>4. QED
  BY <1>1, <1>2, <1>3, PTL DEF TablesSpec

(* The LRU cache, the nonces and the gas fees together. *)
THEOREM TablesAreSound == TablesSpec => []TablesHold
<1>1. CacheForgetsInOrder /\ NonceNotTurnedBack /\ FeesExcludeEachOther => TablesHold
  BY DEF TablesHold
<1>2. QED
  BY <1>1, CacheIsOrderly, NonceGoesForward, FeesAreExclusive, PTL

(* PoolLookup, for every market it may meet.  Each number was true of some moment
   since the lookup began, so the invariant says of every stage what was read so
   far and of which pool (FoundOne, BaseRead, QuoteRead, SupplyRead); trades and
   deposits change no more of a pool than its depth and its balances (SamePools),
   so what was found stays the one asked for. *)
(* The accounts are told apart by the fields they have. *)
LEMMA PoolShape ==
  ASSUME NEW a \in PoolAccounts
  PROVE  IsPool(a) /\ ~IsCurve(a) /\ a \notin Unusable
  BY DEF PoolAccounts, IsPool, IsCurve, Unusable, Absent, Foreign, Garbled

(* A curve is no pool. *)
LEMMA CurveShape ==
  ASSUME NEW a \in BondingCurves
  PROVE  ~IsPool(a) /\ IsCurve(a) /\ a \notin Unusable
<1>1. a \in [quote : DOMAIN InitialCurve.vq, vt : Nat, vq : Nat, rt : Nat, rq : Nat]
  BY DEF BondingCurves
<1>2. QED
  BY <1>1 DEF IsPool, IsCurve, Unusable, Absent, Foreign, Garbled

(* What is absent, foreign or garbled is neither. *)
LEMMA UnusableShape ==
  ASSUME NEW a \in Unusable
  PROVE  ~IsPool(a) /\ ~IsCurve(a)
  BY DEF Unusable, IsPool, IsCurve, Absent, Foreign, Garbled

(* A pool's address holds a pool or nothing usable. *)
LEMMA HeldPool ==
  ASSUME NEW w \in Holdings, NEW p \in Pools
  PROVE  /\ IsPool(w[p]) <=> w[p] \in PoolAccounts
         /\ ~IsPool(w[p]) => w[p] \in Unusable
         /\ ~IsCurve(w[p])
         /\ p \in {"v2", "canonical"} /\ IsPool(w[p]) => w[p].base = "TOKEN"
<1>1. w[p] \in PoolAccounts \cup Unusable
  BY DEF Holdings, Pools
<1>2. p \in {"v2", "canonical"} /\ IsPool(w[p]) => w[p].base = "TOKEN"
  BY DEF Holdings
<1>3. QED
  BY <1>1, <1>2, PoolShape, UnusableShape

(* So does the address of a curve. *)
LEMMA HeldCurve ==
  ASSUME NEW w \in Holdings
  PROVE  /\ IsCurve(w.curve) <=> w.curve \in BondingCurves
         /\ ~IsCurve(w.curve) => w.curve \in Unusable
         /\ ~IsPool(w.curve)
<1>1. w["curve"] \in BondingCurves \cup Unusable
  BY DEF Holdings, Pools
<1>2. QED
  BY <1>1, CurveShape, UnusableShape

(* What trades and deposits leave alone. *)
SamePools(v, w) ==
    \A p \in Pools :
        /\ IsPool(v[p]) <=> IsPool(w[p])
        /\ IsPool(v[p]) => /\ v[p].base = w[p].base /\ v[p].quote = w[p].quote
                           /\ v[p].pump = w[p].pump /\ v[p].creator = w[p].creator
                           /\ v[p].virtual = w[p].virtual

MarketOK ==
    /\ world \in Holdings
    /\ since \subseteq Holdings
    /\ \A w \in since : SamePools(w, world)
    /\ lookup # NoLookup => world \in since

FirstStages == {"address", "mint", "second", "base mint", "quote mint", "curve"}
ReadStages == {"base", "quote", "supply", "fees"}

Asking ==
    /\ lookup.at \in FirstStages
    /\ lookup.at = "address" => lookup.kind = "address" /\ lookup.wanted \in Pools
    /\ lookup.at \in {"mint", "second"} => lookup.kind = "mint" /\ lookup.wanted = "TOKEN"
    /\ lookup.at = "second" => lookup.silent \/ ~IsPool(world.v2)
    /\ lookup.at \in {"base mint", "quote mint"} => lookup.kind = lookup.at



FoundOne ==
    /\ {"pool", "account"} \subseteq DOMAIN lookup
    /\ lookup.kind \in {"address", "mint", "base mint", "quote mint"}
    /\ lookup.pool \in Pools
    /\ lookup.account \in PoolAccounts
    /\ \E w \in since : lookup.account = w[lookup.pool] /\ Choice(w, lookup.pool)

BaseRead ==
    /\ "b" \in DOMAIN lookup
    /\ lookup.b = Unread \/ \E w \in since : w[lookup.pool].b = lookup.b

QuoteRead ==
    /\ "q" \in DOMAIN lookup
    /\ lookup.b # Unread
    /\ \E w \in since : w[lookup.pool].q = lookup.q
    /\ lookup.q + lookup.account.virtual >= 0

SupplyRead ==
    /\ "supply" \in DOMAIN lookup
    /\ lookup.supply \in {Supply, Unread}
    /\ ~lookup.silent => lookup.supply = Supply
    /\ lookup.given = NoFees

Reading ==
    /\ lookup.at \in ReadStages
    /\ FoundOne
    /\ lookup.at # "base" => BaseRead
    /\ lookup.at \in {"supply", "fees"} => QuoteRead
    /\ lookup.at = "fees" => SupplyRead

Known ==
    /\ {"at", "kind", "wanted", "given", "silent"} \subseteq DOMAIN lookup
    /\ lookup.silent \in BOOLEAN
    /\ lookup.given \in FeeRates \cup {NoFees}

LookupOK ==
    \/ lookup = NoLookup
    \/ Known /\ Asking
    \/ Known /\ Reading
    \/ lookup.at = "failed"
    \/ lookup.at = "done"

LookupIInv == MarketOK /\ LookupOK /\ LookupTellsTruth

LookupKinds == {"address", "mint", "base mint", "quote mint", "swap event"}

(* What was asked for stays so while the lookup goes on. *)
LEMMA ChoiceLasts ==
  ASSUME NEW w, NEW p, lookup.kind \in LookupKinds, Choice(w, p),
         lookup'.kind = lookup.kind, lookup'.wanted = lookup.wanted,
         lookup.silent => lookup'.silent
  PROVE  Choice(w, p)'
<1>1. CASE lookup.kind \in {"address", "swap event"}
  BY <1>1, Zenon DEF Choice
<1>2. CASE lookup.kind = "mint"
  BY <1>2 DEF Choice
<1>3. CASE lookup.kind = "base mint"
  BY <1>3 DEF Choice
<1>4. CASE lookup.kind = "quote mint"
  BY <1>4 DEF Choice
<1>5. QED
  BY <1>1, <1>2, <1>3, <1>4 DEF LookupKinds

(* The chain moves. *)
LEMMA BecomesKeeps ==
  ASSUME LookupIInv, NEW p, NEW account, Becomes(p, account),
         [world EXCEPT ![p] = account] \in Holdings,
         SamePools(world, [world EXCEPT ![p] = account])
  PROVE  LookupIInv'
<1>1. /\ Busy /\ lookup' = lookup /\ since' = since \cup {world'}
      /\ world' \in Holdings /\ SamePools(world, world')
  BY DEF Becomes
<1>2. lookup # NoLookup
  BY <1>1 DEF Busy, NoLookup
<1>3. MarketOK'
  <2>1. \A w \in since : SamePools(w, world')
    BY <1>1 DEF LookupIInv, MarketOK, SamePools
  <2>2. SamePools(world', world')
    BY DEF SamePools
  <2>3. QED
    BY <1>1, <2>1, <2>2 DEF LookupIInv, MarketOK
<1>4. LookupTellsTruth'
  BY <1>1 DEF Busy, LookupTellsTruth
<1>5. CASE Known /\ Asking
  <2>1. IsPool(world.v2) <=> IsPool(world'.v2)
    BY <1>1 DEF SamePools, Pools
  <2>2. Known' /\ Asking'
    BY <1>1, <1>5, <2>1 DEF Known, Asking
  <2>3. QED
    BY <1>3, <1>4, <2>2 DEF LookupIInv, LookupOK
<1>6. CASE Known /\ Reading
  <2>1. PICK w \in since, q \in Pools :
            q = lookup.pool /\ lookup.account = w[q] /\ Choice(w, q)
    BY <1>6 DEF Reading, FoundOne
  <2>a. Choice(w, q)'
    <3>1. lookup.kind \in LookupKinds
      BY <1>6 DEF Reading, FoundOne, LookupKinds
    <3>2. /\ lookup'.kind = lookup.kind /\ lookup'.wanted = lookup.wanted
          /\ lookup.silent => lookup'.silent
      BY <1>1
    <3>3. QED
      BY <2>1, <3>1, <3>2, ChoiceLasts, Zenon
  <2>2. FoundOne'
    BY <1>1, <1>6, <2>1, <2>a DEF Reading, FoundOne
  <2>3. Known' /\ Reading'
    BY <1>1, <1>6, <2>2 DEF Known, Reading, BaseRead, QuoteRead, SupplyRead
  <2>4. QED
    BY <1>3, <1>4, <2>3 DEF LookupIInv, LookupOK
<1>7. QED
  BY <1>1, <1>2, <1>5, <1>6 DEF LookupIInv, LookupOK, Busy
(* A pool that trades or is deepened stays that pool. *)
SamePool(a, c) ==
    /\ a.base = c.base /\ a.quote = c.quote /\ a.pump = c.pump
    /\ a.creator = c.creator /\ a.virtual = c.virtual

(* Such a pool is among those the chain may hold. *)
LEMMA PoolChanges ==
  ASSUME NEW w \in Holdings, NEW p \in Pools, NEW a \in PoolAccounts,
         IsPool(w[p]), SamePool(w[p], a)
  PROVE  /\ [w EXCEPT ![p] = a] \in Holdings
         /\ SamePools(w, [w EXCEPT ![p] = a])
<1> DEFINE v == [w EXCEPT ![p] = a]
<1>1. /\ w \in [Pools \cup {"curve"} -> PoolAccounts \cup BondingCurves \cup Unusable]
      /\ p \in Pools \cup {"curve"} /\ p # "curve"
  BY DEF Holdings, Pools
<1>2. /\ v \in [Pools \cup {"curve"} -> PoolAccounts \cup BondingCurves \cup Unusable]
      /\ v[p] = a
      /\ \A o \in Pools \cup {"curve"} : o # p => v[o] = w[o]
  BY <1>1
<1> HIDE DEF v
<1>3. IsPool(a) /\ a \notin BondingCurves
  BY PoolShape, CurveShape
<1>4. v["curve"] = w["curve"]
  BY <1>1, <1>2
<1>5. v.curve \notin PoolAccounts
  BY <1>4 DEF Holdings
<1>6. \A o \in Pools : v[o] \notin BondingCurves
  BY <1>2, <1>3 DEF Holdings
<1>7. \A o \in {"v2", "canonical"} : IsPool(v[o]) => v[o].base = "TOKEN"
  BY <1>2, <1>3 DEF Holdings, Pools, SamePool
<1>8. v \in Holdings
  BY <1>2, <1>5, <1>6, <1>7 DEF Holdings
<1>9. SamePools(w, v)
  BY <1>2, <1>3 DEF SamePools, SamePool, Pools
<1>10. QED
  BY <1>8, <1>9 DEF v

(* A trade in a pool. *)
LEMMA PoolTradesKeeps ==
  ASSUME NEW p \in Pools, NEW b \in Amounts, LookupIInv, PoolTrades(p, b)
  PROVE  LookupIInv'
<1> DEFINE a == [world[p] EXCEPT !.b = b, !.q = (world[p].b * world[p].q) \div b]
<1>1. world \in Holdings /\ IsPool(world[p])
  BY DEF LookupIInv, MarketOK, PoolTrades
<1>2. world[p] \in PoolAccounts
  BY <1>1, HeldPool
<1>3. b \in Nat \ {0}
  BY LookupAssumption
<1>4. (world[p].b * world[p].q) \div b \in Nat
  <2>1. \A x, y \in Nat : (x * y) \div b \in Nat
    BY <1>3
  <2>2. world[p].b \in Nat /\ world[p].q \in Nat
    BY <1>2 DEF PoolAccounts
  <2>3. QED
    BY <2>1, <2>2
<1>5. a \in PoolAccounts /\ SamePool(world[p], a)
  BY <1>2, <1>3, <1>4 DEF PoolAccounts, SamePool
<1>6. Becomes(p, a)
  BY DEF PoolTrades
<1> HIDE DEF a
<1>7. QED
  BY <1>1, <1>5, <1>6, PoolChanges, BecomesKeeps

(* A deposit. *)
LEMMA PoolDeepensKeeps ==
  ASSUME NEW p \in Pools, LookupIInv, PoolDeepens(p)
  PROVE  LookupIInv'
<1> DEFINE a == [world[p] EXCEPT !.lp = @ + 2, !.b = 2 * @, !.q = 2 * @]
<1>1. world \in Holdings /\ IsPool(world[p])
  BY DEF LookupIInv, MarketOK, PoolDeepens
<1>2. world[p] \in PoolAccounts
  BY <1>1, HeldPool
<1>3. a \in PoolAccounts /\ SamePool(world[p], a)
  <2>1. world[p].lp + 2 \in Nat /\ 2 * world[p].b \in Nat \ {0} /\ 2 * world[p].q \in Nat
    BY <1>2 DEF PoolAccounts
  <2>2. \A l, q \in Nat, b \in Nat \ {0} :
           LET r == [world[p] EXCEPT !.lp = l, !.b = b, !.q = q]
           IN r \in PoolAccounts /\ SamePool(world[p], r)
    BY <1>2 DEF PoolAccounts, SamePool
  <2>3. QED
    BY <2>1, <2>2, Zenon
<1>4. Becomes(p, a)
  BY DEF PoolDeepens
<1> HIDE DEF a
<1>5. QED
  BY <1>1, <1>3, <1>4, PoolChanges, BecomesKeeps

CurveFields == [quote : DOMAIN InitialCurve.vq, vt : Nat, vq : Nat, rt : Nat, rq : Nat]

CurveAfter(c, n, paid) ==
    [c EXCEPT !.vt = c.vt - n, !.rt = c.rt - n, !.vq = c.vq + paid, !.rq = c.rq + paid]

(* The fields of a curve after a trade. *)
LEMMA CurveMoves ==
  ASSUME NEW c \in CurveFields, NEW n \in Nat, NEW paid \in Nat, n <= c.rt, c.rt <= c.vt
  PROVE  /\ CurveAfter(c, n, paid) \in CurveFields
         /\ CurveAfter(c, n, paid).vt = c.vt - n /\ CurveAfter(c, n, paid).rt = c.rt - n
         /\ CurveAfter(c, n, paid).vq = c.vq + paid /\ CurveAfter(c, n, paid).rq = c.rq + paid
         /\ CurveAfter(c, n, paid).quote = c.quote
<1> DEFINE D == DOMAIN InitialCurve.vq
           t == c.vt - n
           rt == c.rt - n
           v == c.vq + paid
           rq == c.rq + paid
           r == CurveAfter(c, n, paid)
<1>1. c \in [quote : D, vt : Nat, vq : Nat, rt : Nat, rq : Nat]
  BY DEF CurveFields
<1>2. t \in Nat /\ rt \in Nat /\ v \in Nat /\ rq \in Nat
  BY <1>1
<1>3. r = [c EXCEPT !.vt = t, !.rt = rt, !.vq = v, !.rq = rq]
  BY DEF CurveAfter
<1> HIDE DEF D, t, rt, v, rq, r
<1>4. r \in [quote : D, vt : Nat, vq : Nat, rt : Nat, rq : Nat]
  BY <1>1, <1>2, <1>3
<1>5. r.vt = t /\ r.rt = rt /\ r.vq = v /\ r.rq = rq /\ r.quote = c.quote
  BY <1>1, <1>3
<1>6. QED
  BY <1>4, <1>5 DEF D, t, rt, v, rq, r, CurveFields

(* A trade on a curve: virtual and real reserves move together. *)
LEMMA CurveTradesKeeps ==
  ASSUME NEW n \in Nat, NEW paid \in Nat, LookupIInv, CurveTrades(n, paid)
  PROVE  LookupIInv'
<1> DEFINE c == world["curve"]
           a == CurveAfter(c, n, paid)
           v == [world EXCEPT !["curve"] = a]
<1>1. world \in Holdings /\ IsCurve(c) /\ c.rt >= n
  BY DEF LookupIInv, MarketOK, CurveTrades
<1>2. /\ c \in [quote : DOMAIN InitialCurve.vq, vt : Nat, vq : Nat, rt : Nat, rq : Nat]
      /\ c.vt - c.rt = InitialCurve.vt - InitialCurve.rt
      /\ c.vq - c.rq = InitialCurve.vq[c.quote]
  BY <1>1, HeldCurve DEF BondingCurves
<1>3. /\ InitialCurve.rt <= InitialCurve.vt /\ InitialCurve.rt \in Nat /\ InitialCurve.vt \in Nat
      /\ InitialCurve.vq[c.quote] \in Nat
  BY <1>2, LookupAssumption
<1>4. Becomes("curve", a)
  BY DEF CurveTrades, CurveAfter
<1> HIDE DEF c
<1>5. /\ a \in [quote : DOMAIN InitialCurve.vq, vt : Nat, vq : Nat, rt : Nat, rq : Nat]
      /\ a.vt - a.rt = c.vt - c.rt /\ a.vq - a.rq = c.vq - c.rq /\ a.quote = c.quote
  <2>1. c.vt - n \in Nat /\ c.rt - n \in Nat /\ c.vq + paid \in Nat /\ c.rq + paid \in Nat
    BY <1>1, <1>2, <1>3
  <2>2. c \in CurveFields
    BY <1>2 DEF CurveFields
  <2>3. /\ a \in CurveFields
        /\ a.vt = c.vt - n /\ a.rt = c.rt - n /\ a.vq = c.vq + paid /\ a.rq = c.rq + paid
        /\ a.quote = c.quote
    <3>1. c.rt <= c.vt
      BY <1>2, <1>3
    <3>2. QED
      BY <1>1, <2>2, <3>1, CurveMoves
  <2>4. QED
    BY <1>2, <2>3 DEF CurveFields
<1>6. a \in BondingCurves
  BY <1>2, <1>5 DEF BondingCurves
<1> HIDE DEF a
<1>7. /\ v \in [Pools \cup {"curve"} -> PoolAccounts \cup BondingCurves \cup Unusable]
      /\ v["curve"] = a
      /\ \A o \in Pools : v[o] = world[o]
  BY <1>1, <1>6 DEF Holdings, Pools
<1>8. a \notin PoolAccounts
  BY <1>6, PoolShape, CurveShape
<1> HIDE DEF v
<1>9. v.curve \notin PoolAccounts
  BY <1>7, <1>8
<1>10. v \in Holdings
  BY <1>1, <1>7, <1>9 DEF Holdings, Pools
<1>11. SamePools(world, v)
  BY <1>7 DEF SamePools
<1>12. QED
  BY <1>4, <1>10, <1>11, BecomesKeeps DEF v

LookupFees == FeeRates \cup {NoFees}

(* A lookup begins. *)
LEMMA BeginKeeps ==
  ASSUME NEW kind \in FirstStages \ {"second"}, NEW wanted, NEW given \in LookupFees,
         kind = "address" => wanted \in Pools, kind = "mint" => wanted = "TOKEN",
         LookupIInv, Begin(kind, wanted, given)
  PROVE  LookupIInv'
<1> DEFINE l == [at |-> kind, kind |-> kind, wanted |-> wanted, given |-> given, silent |-> FALSE]
<1>1. lookup' = l /\ since' = {world} /\ world' = world
  BY DEF Begin
<1>2. MarketOK'
  BY <1>1 DEF LookupIInv, MarketOK, SamePools
<1>3. Known'
  BY <1>1 DEF Known, LookupFees
<1>4. Asking'
  BY <1>1 DEF Asking, FirstStages
<1>5. LookupTellsTruth'
  BY <1>1 DEF LookupTellsTruth, FirstStages
<1>6. QED
  BY <1>2, <1>3, <1>4, <1>5 DEF LookupIInv, LookupOK

(* The lookup goes on, or ends, while the chain rests. *)
LEMMA GoesMarketOK ==
  ASSUME NEW STATE next, MarketOK, lookup # NoLookup, Goes(next)
  PROVE  MarketOK'
  BY DEF MarketOK, Goes, SamePools

(* An answer leaves a mark when it is not "true", nothing else. *)
LEMMA HeardIs ==
  ASSUME NEW answer, Known
  PROVE  LET h == Heard(answer)
         IN /\ DOMAIN h = DOMAIN lookup
            /\ h.at = lookup.at /\ h.kind = lookup.kind /\ h.wanted = lookup.wanted
            /\ h.given = lookup.given
            /\ h.silent = (lookup.silent \/ answer # "true")
            /\ \A x \in DOMAIN lookup : x # "silent" => h[x] = lookup[x]
  BY DEF Known, Heard

(* A lookup that ends without a result claims nothing. *)
LEMMA EndsKeeps ==
  ASSUME NEW answer, LookupIInv, Known, lookup # NoLookup, EndsAfter(Heard(answer))
  PROVE  LookupIInv'
<1>1. lookup'.at = "failed"
  BY HeardIs DEF EndsAfter, Goes, Known
<1>2. MarketOK'
  BY DEF LookupIInv, MarketOK, EndsAfter, Goes, SamePools
<1>3. QED
  BY <1>1, <1>2 DEF LookupIInv, LookupOK, LookupTellsTruth

(* A pool was found, and at this moment it is the one asked for. *)
LEMMA FoundKeeps ==
  ASSUME NEW answer, NEW p \in Pools, LookupIInv, Known, lookup # NoLookup,
         lookup.kind \in {"address", "mint", "base mint", "quote mint"},
         world[p] \in PoolAccounts, Choice(world, p),
         Found(Heard(answer), p, world[p])
  PROVE  LookupIInv'
<1> DEFINE h == Heard(answer)
<1>1. /\ h.kind = lookup.kind /\ h.wanted = lookup.wanted /\ h.given = lookup.given
      /\ h.silent = (lookup.silent \/ answer # "true")
  BY HeardIs
<1>2. /\ lookup' = [at |-> "base", kind |-> h.kind, wanted |-> h.wanted, given |-> h.given,
                    silent |-> h.silent, pool |-> p, account |-> world[p]]
      /\ world' = world /\ since' = since
  BY DEF Found, Goes
<1> HIDE DEF h
<1>3. /\ lookup'.at = "base" /\ lookup'.kind = lookup.kind /\ lookup'.wanted = lookup.wanted
      /\ lookup'.given = lookup.given /\ lookup'.silent = (lookup.silent \/ answer # "true")
      /\ lookup'.pool = p /\ lookup'.account = world[p]
      /\ DOMAIN lookup' = {"at", "kind", "wanted", "given", "silent", "pool", "account"}
  BY <1>1, <1>2
<1>4. MarketOK'
  BY <1>2 DEF LookupIInv, MarketOK, SamePools
<1>5. Known'
  BY <1>3 DEF Known
<1>6. Choice(world, p)'
  <2>1. PICK w : w = world
    OBVIOUS
  <2>2. Choice(w, p)
    BY <2>1
  <2>3. Choice(w, p)'
    <3>1. lookup.kind \in LookupKinds
      BY DEF LookupKinds
    <3>2. /\ lookup'.kind = lookup.kind /\ lookup'.wanted = lookup.wanted
          /\ lookup.silent => lookup'.silent
      BY <1>3
    <3>3. QED
      BY <2>2, <3>1, <3>2, ChoiceLasts, Zenon
  <2>4. world' = w
    BY <1>2, <2>1
  <2>5. QED
    BY <2>3, <2>4
<1>7. FoundOne'
  BY <1>2, <1>3, <1>6 DEF FoundOne, LookupIInv, MarketOK
<1>8. Reading'
  BY <1>3, <1>7 DEF Reading, ReadStages
<1>9. QED
  BY <1>3, <1>4, <1>5, <1>8 DEF LookupIInv, LookupOK, LookupTellsTruth

(* What is decoded as a pool is the pool at that address. *)
LEMMA Decoded ==
  ASSUME NEW p \in Pools, NEW answer, world \in Holdings
  PROVE  LET a == decode_pool_account(Account(p, answer))
         IN /\ IsPool(a) => answer = "true" /\ a = world[p] /\ world[p] \in PoolAccounts
            /\ answer = "true" /\ IsPool(world[p]) => IsPool(a)
<1> DEFINE c == Account(p, answer)
<1>1. c = world[p] \/ c = Absent
  BY DEF Account
<1>2. answer # "true" => c = Absent
  BY DEF Account
<1>3. answer = "true" => c = world[p]
  BY DEF Account
<1>4. world[p] \in PoolAccounts \/ world[p] \in Unusable
  BY HeldPool
<1> HIDE DEF c
<1>5. c \in PoolAccounts => decode_pool_account(c) = c /\ IsPool(c)
  BY PoolShape DEF decode_pool_account, decode_pool, Unusable
<1>6. c \in Unusable => ~IsPool(decode_pool_account(c))
  BY UnusableShape DEF decode_pool_account, decode_pool, Unusable
<1>7. Absent \in Unusable
  BY DEF Unusable
<1>8. c \in PoolAccounts \/ c \in Unusable
  BY <1>1, <1>4, <1>7
<1>9. world[p] \in Unusable => ~IsPool(world[p])
  BY UnusableShape
<1>10. c \in PoolAccounts => c = world[p] /\ answer = "true"
  BY <1>2, <1>3, <1>7, PoolShape
<1>11. IsPool(decode_pool_account(c)) => c \in PoolAccounts
  BY <1>6, <1>8
<1>12. answer = "true" /\ IsPool(world[p]) => c \in PoolAccounts
  BY <1>3, <1>4, <1>9
<1>13. QED
  BY <1>5, <1>10, <1>11, <1>12 DEF c

(* What is known before a pool is found. *)
LEMMA FirstStage ==
  ASSUME LookupIInv, lookup.at \in FirstStages
  PROVE  /\ Known /\ Asking /\ lookup # NoLookup
         /\ world \in Holdings /\ world \in since
<1>1. lookup # NoLookup
  <2>1. NoLookup.at = "none"
    BY DEF NoLookup
  <2>2. QED
    BY <2>1 DEF FirstStages
<1>2. lookup.at \notin ReadStages /\ lookup.at # "failed" /\ lookup.at # "done"
  BY DEF FirstStages, ReadStages
<1>3. Known /\ Asking
  BY <1>1, <1>2 DEF LookupIInv, LookupOK, Reading
<1>4. QED
  BY <1>1, <1>3 DEF LookupIInv, MarketOK

(* from_pool_address_by_rpc: the pool at that address. *)
LEMMA FetchPoolKeeps ==
  ASSUME NEW answer, LookupIInv, fetch_pool(answer)
  PROVE  LookupIInv'
<1> DEFINE p == lookup.wanted
           a == decode_pool_account(Account(p, answer))
<1>1. lookup.at = "address"
  BY DEF fetch_pool
<1>2. /\ Known /\ Asking /\ lookup # NoLookup /\ world \in Holdings
      /\ lookup.kind = "address" /\ p \in Pools
  BY <1>1, FirstStage DEF Asking, FirstStages
<1>3. IF IsPool(a) THEN Found(Heard(answer), p, a) ELSE EndsAfter(Heard(answer))
  BY DEF fetch_pool
<1>4. IsPool(a) => a = world[p] /\ world[p] \in PoolAccounts
  BY <1>2, Decoded, Zenon
<1>5. Choice(world, p)
  BY <1>2, Zenon DEF Choice
<1> HIDE DEF a, p
<1>6. CASE IsPool(a)
  <2>1. Found(Heard(answer), p, world[p])
    BY <1>3, <1>4, <1>6
  <2>2. QED
    BY <1>2, <1>4, <1>5, <1>6, <2>1, FoundKeeps
<1>7. CASE ~IsPool(a)
  BY <1>2, <1>3, <1>7, EndsKeeps
<1>8. QED
  BY <1>6, <1>7

(* At the second address the first was asked and had no pool, or did not say. *)
LEMMA TriesAddressKeeps ==
  ASSUME NEW stage \in {"mint", "second"}, NEW p, NEW else, NEW answer,
         LookupIInv, TriesAddress(stage, p, answer, else),
         stage = "mint" => p = "v2" /\ else = "second",
         stage = "second" => p = "canonical" /\ else = "failed"
  PROVE  LookupIInv'
<1> DEFINE a == decode_pool_account(Account(p, answer))
<1>1. lookup.at = stage /\ p \in Pools
  BY DEF TriesAddress, Pools
<1>2. /\ Known /\ Asking /\ lookup # NoLookup /\ world \in Holdings
      /\ lookup.kind = "mint" /\ lookup.wanted = "TOKEN"
      /\ lookup.at = "second" => lookup.silent \/ ~IsPool(world.v2)
  BY <1>1, FirstStage DEF Asking, FirstStages
<1>3. IF answer # "raises" /\ IsPool(a) /\ a.base = lookup.wanted
      THEN Found(Heard(answer), p, a)
      ELSE Goes([Heard(answer) EXCEPT !.at = IF answer = "raises" THEN "failed" ELSE else])
  BY DEF TriesAddress
<1>4. /\ IsPool(a) => a = world[p] /\ world[p] \in PoolAccounts
      /\ answer = "true" /\ IsPool(world[p]) => IsPool(a)
  BY <1>1, <1>2, Decoded, Zenon
<1>5. IsPool(world[p]) => world[p].base = "TOKEN"
  BY <1>1, <1>2, HeldPool
<1> HIDE DEF a
<1>6. CASE answer # "raises" /\ IsPool(a) /\ a.base = lookup.wanted
  <2>1. Found(Heard(answer), p, world[p])
    BY <1>3, <1>4, <1>6
  <2>2. IsPool(world[p]) /\ world[p] \in PoolAccounts
    BY <1>4, <1>6
  <2>3. Choice(world, p)
    <3>1. lookup.silent \/ p = IF IsPool(world.v2) THEN "v2" ELSE "canonical"
      BY <1>1, <1>2, <2>2
    <3>2. QED
      BY <1>2, <3>1 DEF Choice
  <2>4. QED
    BY <1>1, <1>2, <2>1, <2>2, <2>3, FoundKeeps
<1>7. CASE ~ (answer # "raises" /\ IsPool(a) /\ a.base = lookup.wanted)
  <2> DEFINE h == Heard(answer)
             s == IF answer = "raises" THEN "failed" ELSE else
  <2>1. /\ DOMAIN h = DOMAIN lookup /\ h.kind = lookup.kind /\ h.wanted = lookup.wanted
        /\ h.given = lookup.given /\ h.silent = (lookup.silent \/ answer # "true")
    BY <1>2, HeardIs
  <2>2. lookup' = [h EXCEPT !.at = s] /\ world' = world /\ since' = since
    BY <1>3, <1>7 DEF Goes
  <2> HIDE DEF h
  <2>3. /\ DOMAIN lookup' = DOMAIN lookup /\ lookup'.at = s /\ lookup'.kind = lookup.kind
        /\ lookup'.wanted = lookup.wanted /\ lookup'.given = lookup.given
        /\ lookup'.silent = (lookup.silent \/ answer # "true")
    BY <1>2, <2>1, <2>2 DEF Known
  <2>4. MarketOK'
    BY <1>2, <2>2 DEF LookupIInv, MarketOK, SamePools
  <2>5. CASE s = "failed"
    BY <2>3, <2>4, <2>5 DEF LookupIInv, LookupOK, LookupTellsTruth
  <2>6. CASE s = "second"
    <3>1. stage = "mint" /\ p = "v2" /\ answer # "raises"
      BY <2>6
    <3>2. lookup'.silent \/ ~IsPool(world.v2)
      BY <1>2, <1>4, <1>5, <1>7, <2>3, <3>1
    <3>3. Known'
      BY <1>2, <2>3 DEF Known
    <3>4. Asking'
      BY <1>2, <2>2, <2>3, <2>6, <3>2 DEF Asking, FirstStages
    <3>5. QED
      BY <2>3, <2>4, <2>6, <3>3, <3>4 DEF LookupIInv, LookupOK, LookupTellsTruth
  <2>7. QED
    BY <2>5, <2>6
<1>8. QED
  BY <1>6, <1>7

(* find_by_base_mint, find_by_quote_mint: none of the matches is deeper. *)
LEMMA ScanKeeps ==
  ASSUME NEW answer, LookupIInv,
         find_by_base_mint(answer) \/ find_by_quote_mint(answer)
  PROVE  LookupIInv'
<1>1. PICK side \in {"base", "quote"}, stage \in {"base mint", "quote mint"} :
          /\ side = "base" <=> stage = "base mint"
          /\ Scan(stage, {p \in Pools : IsPool(world[p]) /\ world[p][side] = lookup.wanted}, answer)
  BY DEF find_by_base_mint, find_by_quote_mint
<1> DEFINE matches == {p \in Pools : IsPool(world[p]) /\ world[p][side] = lookup.wanted}
           pools == {p \in matches : answer = "true" /\ IsPool(decode_pool_account(world[p]))}
<1>2. lookup.at = stage
  BY <1>1 DEF Scan
<1>3. /\ Known /\ lookup # NoLookup /\ world \in Holdings /\ lookup.kind = stage
  BY <1>2, FirstStage DEF Asking, FirstStages
<1>4. IF pools = {} THEN EndsAfter(Heard(answer))
      ELSE \E p \in pools : /\ \A other \in pools : world[p].lp >= world[other].lp
                            /\ Found(Heard(answer), p, world[p])
  BY <1>1 DEF Scan
<1>5. CASE pools = {}
  BY <1>3, <1>4, <1>5, EndsKeeps
<1>6. CASE pools # {}
  <2>1. PICK p \in pools : /\ \A other \in pools : world[p].lp >= world[other].lp
                           /\ Found(Heard(answer), p, world[p])
    BY <1>4, <1>6
  <2>2. p \in Pools /\ IsPool(world[p]) /\ world[p][side] = lookup.wanted /\ answer = "true"
    BY <2>1
  <2>3. \A o \in matches : o \in pools
    <3>1. \A o \in matches : Account(o, answer) = world[o] /\ o \in Pools
      BY <2>2 DEF Account
    <3>2. QED
      BY <1>3, <2>2, <3>1, Decoded
  <2>4. world[p] \in PoolAccounts
    BY <1>3, <2>2, HeldPool
  <2>5. \A o \in Pools : IsPool(world[o]) => world[o].lp \in Nat
    BY <1>3, HeldPool DEF PoolAccounts
  <2>6. \A o \in Pools : IsPool(world[o]) /\ world[o][side] = lookup.wanted => world[o].lp <= world[p].lp
    BY <2>1, <2>2, <2>3, <2>5
  <2> HIDE DEF pools, matches
  <2>7. Choice(world, p)
    BY <1>1, <1>3, <2>2, <2>6 DEF Choice
  <2>8. QED
    BY <1>1, <1>3, <2>1, <2>2, <2>4, <2>7, FoundKeeps
<1>7. QED
  BY <1>5, <1>6

(* Fees.  The last tier that is reached is the one with the highest mark. *)
LEMMA HighestIndex ==
  ASSUME NEW n \in Nat, NEW S \in SUBSET (1 .. n), S # {}
  PROVE  \E i \in S : \A j \in S : i >= j
<1> DEFINE Gaps == {n - i : i \in S}
<1>1. Gaps \subseteq Nat /\ Gaps # {}
  <2>1. \A i \in S : n - i \in Nat /\ n - i \in Gaps
    OBVIOUS
  <2>2. QED
    BY <2>1
<1>2. PICK g \in Gaps : \A h \in Gaps : g <= h
  <2> DEFINE Less == {ss \in Nat \X Nat : ss[1] < ss[2]}
  <2>1. IsWellFoundedOn(Less, Nat)
    BY NatLessThanWellFounded DEF OpToRel
  <2> HIDE DEF Gaps, Less
  <2>2. PICK g \in Gaps : \A h \in Gaps : ~ (<<h, g>> \in Less)
    BY <1>1, <2>1, WFMin
  <2>3. \A h \in Gaps : ~ (h < g)
    BY <1>1, <2>2 DEF Less
  <2>4. QED
    BY <1>1, <2>3
<1>3. PICK i \in S : g = n - i
  OBVIOUS
<1>4. \A j \in S : i >= j
  <2>1. \A j \in S : n - j \in Gaps
    OBVIOUS
  <2>2. \A j \in S : n - i <= n - j
    BY <1>2, <1>3, <2>1
  <2>3. QED
    BY <2>2
<1>5. QED
  BY <1>4

(* calculate_fee_tier gives the fees of the last tier that is reached. *)
LEMMA TierIs ==
  ASSUME NEW cap \in Int
  PROVE  LET tiers == FeeConfig.tiers
             marks == {i \in DOMAIN tiers : cap >= tiers[i].from}
         IN /\ tiers \in Seq(FeeTiers) /\ 1 \in DOMAIN tiers
            /\ marks = {} => FeeTier(tiers, cap) = tiers[1].fees
            /\ marks # {} => \E i \in marks : /\ FeeTier(tiers, cap) = tiers[i].fees
                                              /\ \A j \in marks : i >= j
<1> DEFINE tiers == FeeConfig.tiers
           marks == {i \in DOMAIN tiers : cap >= tiers[i].from}
<1>1. tiers \in Seq(FeeTiers) /\ tiers # <<>>
  BY LookupAssumption
<1>2. Len(tiers) \in Nat /\ DOMAIN tiers = 1 .. Len(tiers) /\ Len(tiers) > 0
  BY <1>1
<1>3. marks # {} => \E i \in marks : \A j \in marks : i >= j
  BY <1>2, HighestIndex
<1>4. FeeTier(tiers, cap) = IF marks = {} THEN tiers[1].fees
                            ELSE tiers[CHOOSE i \in marks : \A j \in marks : i >= j].fees
  BY DEF FeeTier
<1>5. 1 \in DOMAIN tiers
  BY <1>2
<1>6. marks = {} => FeeTier(tiers, cap) = tiers[1].fees
  BY <1>4
<1>7. marks # {} => \E i \in marks : /\ FeeTier(tiers, cap) = tiers[i].fees
                                     /\ \A j \in marks : i >= j
  <2> DEFINE i == CHOOSE i \in marks : \A j \in marks : i >= j
  <2>1. marks # {} => i \in marks /\ \A j \in marks : i >= j
    BY <1>3
  <2> HIDE DEF marks, tiers
  <2>2. marks # {} => FeeTier(tiers, cap) = tiers[i].fees
    BY <1>4
  <2>3. QED
    BY <2>1, <2>2
<1>8. QED
  BY <1>1, <1>5, <1>6, <1>7

(* What the program charges for a pool before its creator is looked at. *)
Charged(pool) ==
    LET cap == ((pool.q + pool.virtual) * Supply) \div pool.b
        reached == {t \in {FeeConfig.tiers[i] : i \in DOMAIN FeeConfig.tiers} : t.from <= cap}
    IN IF ~pool.pump THEN FeeConfig.flat
       ELSE IF reached = {} THEN FeeConfig.tiers[1].fees
       ELSE (CHOOSE t \in reached : \A u \in reached : u.from <= t.from).fees

(* The program leaves the creator's part out when there is none. *)
LEMMA ProgramFeesAre ==
  ASSUME NEW STATE pool
  PROVE  ProgramFees(pool) = IF pool.creator THEN Charged(pool) ELSE WithoutCreator(Charged(pool))
  BY DEF ProgramFees, Charged, WithoutCreator

(* In ascending order, the last tier reached has the highest mark. *)
LEMMA HighestMark ==
  ASSUME NEW cap \in Int
  PROVE  LET tiers == FeeConfig.tiers
             reached == {t \in {tiers[i] : i \in DOMAIN tiers} : t.from <= cap}
         IN FeeTier(tiers, cap) = IF reached = {} THEN tiers[1].fees
                ELSE (CHOOSE t \in reached : \A u \in reached : u.from <= t.from).fees
<1> DEFINE tiers == FeeConfig.tiers
           marks == {i \in DOMAIN tiers : cap >= tiers[i].from}
           reached == {t \in {tiers[i] : i \in DOMAIN tiers} : t.from <= cap}
           top == CHOOSE t \in reached : \A u \in reached : u.from <= t.from
<1>1. /\ tiers \in Seq(FeeTiers)
      /\ marks = {} => FeeTier(tiers, cap) = tiers[1].fees
      /\ marks # {} => \E i \in marks : /\ FeeTier(tiers, cap) = tiers[i].fees
                                        /\ \A j \in marks : i >= j
  BY TierIs
<1>2. \A i \in DOMAIN tiers : i \in Nat /\ tiers[i] \in FeeTiers /\ tiers[i].from \in Nat
  <2>1. tiers \in Seq(FeeTiers)
    BY <1>1
  <2> HIDE DEF tiers
  <2>2. \A i \in DOMAIN tiers : i \in Nat /\ tiers[i] \in FeeTiers
    BY <2>1
  <2>3. \A t \in FeeTiers : t.from \in Nat
    BY DEF FeeTiers
  <2>4. QED
    BY <2>2, <2>3
<1>3. \A i, j \in DOMAIN tiers : i < j => tiers[i].from < tiers[j].from
  BY LookupAssumption
<1> HIDE DEF tiers
<1>4. CASE marks = {}
  <2>1. reached = {}
    BY <1>2, <1>4
  <2>2. QED
    BY <1>1, <1>4, <2>1 DEF tiers
<1>5. CASE marks # {}
  <2>1. PICK i \in marks : FeeTier(tiers, cap) = tiers[i].fees /\ \A j \in marks : i >= j
    BY <1>1, <1>5
  <2>2. tiers[i] \in reached
    BY <1>2
  <2>3. \A u \in reached : u.from <= tiers[i].from
    <3> SUFFICES ASSUME NEW u \in reached
                 PROVE  u.from <= tiers[i].from
      OBVIOUS
    <3>1. PICK j \in DOMAIN tiers : u = tiers[j]
      OBVIOUS
    <3>2. j \in marks
      BY <1>2, <3>1
    <3>3. i >= j
      BY <2>1, <3>2
    <3>4. QED
      BY <1>2, <1>3, <3>1, <3>2, <3>3
  <2>4. top \in reached /\ \A u \in reached : u.from <= top.from
    BY <2>2, <2>3
  <2>5. PICK j \in DOMAIN tiers : top = tiers[j]
    <3> HIDE DEF top
    <3>1. QED
      BY <2>4
  <2>6. tiers[j].from = tiers[i].from
    <3> HIDE DEF top, reached
    <3>1. tiers[i].from <= tiers[j].from /\ tiers[j].from <= tiers[i].from
      BY <2>2, <2>3, <2>4, <2>5
    <3>2. QED
      BY <1>2, <3>1
  <2>7. j = i
    <3>1. j \in Nat /\ i \in Nat /\ ~ (j < i) /\ ~ (i < j)
      BY <1>2, <1>3, <2>6
    <3>2. QED
      BY <3>1
  <2>8. reached # {}
    BY <2>2
  <2> HIDE DEF top, reached, marks
  <2>9. FeeTier(tiers, cap) = top.fees
    BY <2>1, <2>5, <2>7
  <2>10. QED
    BY <2>8, <2>9 DEF top, reached, tiers
<1>6. QED
  BY <1>4, <1>5

(* The fees of a tier are rates. *)
LEMMA TierFees ==
  ASSUME NEW STATE cap, cap \in Int
  PROVE  FeeTier(FeeConfig.tiers, cap) \in FeeRates
<1>1. PICK n \in Int : n = cap
  OBVIOUS
<1>2. PICK i \in DOMAIN FeeConfig.tiers : FeeTier(FeeConfig.tiers, n) = FeeConfig.tiers[i].fees
  BY TierIs
<1>3. FeeConfig.tiers \in Seq(FeeTiers)
  BY LookupAssumption
<1>4. FeeConfig.tiers[i] \in FeeTiers
  BY <1>3
<1>5. QED
  BY <1>1, <1>2, <1>4 DEF FeeTiers

(* The fee account has flat fees and tiers. *)
LEMMA FeeConfigIs == FeeConfig # NoFees /\ FeeConfig.flat \in FeeRates /\ FeeConfig.tiers # <<>>
<1> DEFINE S == Seq(FeeTiers)
<1>1. FeeConfig \in [flat : FeeRates, exotic : FeeRates \cup {NoFees}, tiers : S, stable : S]
  BY LookupAssumption
<1> HIDE DEF S
<1>2. FeeConfig.flat \in FeeRates /\ "flat" \in DOMAIN FeeConfig
  BY <1>1
<1>3. "flat" \notin DOMAIN NoFees
  BY DEF NoFees
<1>4. QED
  BY <1>2, <1>3, LookupAssumption

(* compute_pumpswap_fee_basis_points agrees with the program. *)
LEMMA ChargedAsComputed ==
  ASSUME NEW STATE pool, pool \in PoolAccounts, pool.q + pool.virtual >= 0
  PROVE  /\ ComputeFees(FeeConfig, pool.pump, Supply, pool.b, pool.q + pool.virtual, "SOL") = Charged(pool)
         /\ Charged(pool) \in FeeRates
<1> DEFINE quote == pool.q + pool.virtual
           cap == (quote * Supply) \div pool.b
<1>1. pool.b \in Nat /\ pool.b # 0 /\ quote \in Nat /\ Supply \in Nat
  BY LookupAssumption DEF PoolAccounts
<1>2. \A x, y \in Nat, z \in Nat \ {0} : (x * y) \div z \in Nat
  OBVIOUS
<1>3. cap \in Nat
  BY <1>1, <1>2
<1>4. MarketCap(pool.b, quote) = cap
  BY <1>1 DEF MarketCap
<1> HIDE DEF cap, quote
<1>5. Supply # Unread /\ MarketCap(pool.b, quote) # Unread
  BY <1>1, <1>3, <1>4 DEF Unread
<1>6. FeeConfig # NoFees /\ FeeConfig.flat \in FeeRates /\ FeeConfig.tiers # <<>>
  BY FeeConfigIs
<1>7. ComputeFees(FeeConfig, pool.pump, Supply, pool.b, quote, "SOL")
        = IF ~pool.pump THEN FeeConfig.flat ELSE FeeTier(FeeConfig.tiers, cap)
  BY <1>4, <1>5, <1>6 DEF ComputeFees
<1>8. FeeTier(FeeConfig.tiers, cap) \in FeeRates
  BY <1>3, TierFees
<1>9. Charged(pool) = IF ~pool.pump THEN FeeConfig.flat ELSE FeeTier(FeeConfig.tiers, cap)
  <2>1. cap \in Int
    BY <1>3
  <2>2. QED
    BY <2>1, HighestMark DEF Charged, cap, quote
<1>10. QED
  BY <1>6, <1>7, <1>8, <1>9 DEF quote

(* What a read that is answered adds to what the lookup knows. *)
AfterRead(answer, field, value, next) ==
    [x \in DOMAIN lookup \cup {field} |->
        IF x = field THEN value ELSE IF x = "at" THEN next ELSE Heard(answer)[x]]

(* What is known once a pool is found. *)
LEMMA ReadStage ==
  ASSUME LookupIInv, lookup.at \in ReadStages
  PROVE  /\ Known /\ Reading /\ FoundOne /\ lookup # NoLookup
         /\ world \in Holdings /\ world \in since
<1>1. lookup # NoLookup
  <2>1. NoLookup.at = "none"
    BY DEF NoLookup
  <2>2. QED
    BY <2>1 DEF ReadStages
<1>2. lookup.at \notin FirstStages /\ lookup.at # "failed" /\ lookup.at # "done"
  BY DEF FirstStages, ReadStages
<1>3. Known /\ Reading
  BY <1>1, <1>2 DEF LookupIInv, LookupOK, Asking
<1>4. QED
  BY <1>1, <1>3 DEF LookupIInv, MarketOK, Reading

(* The pool that was found is still that pool, whatever was traded since. *)
LEMMA FoundPool ==
  ASSUME MarketOK, FoundOne
  PROVE  /\ world[lookup.pool] \in PoolAccounts
         /\ world[lookup.pool].pump = lookup.account.pump
         /\ world[lookup.pool].creator = lookup.account.creator
         /\ world[lookup.pool].virtual = lookup.account.virtual
<1>1. PICK w \in since : lookup.account = w[lookup.pool]
  BY DEF FoundOne
<1>2. lookup.pool \in Pools /\ lookup.account \in PoolAccounts
  BY DEF FoundOne
<1>3. SamePools(w, world) /\ world \in Holdings
  BY DEF MarketOK
<1>4. IsPool(w[lookup.pool])
  BY <1>1, <1>2, PoolShape
<1>5. IsPool(world[lookup.pool])
  BY <1>2, <1>3, <1>4 DEF SamePools
<1>6. QED
  BY <1>1, <1>2, <1>3, <1>4, <1>5, HeldPool DEF SamePools

(* The pool that was found is still the one asked for. *)
LEMMA ChoiceGoesOn ==
  ASSUME FoundOne, since' = since, lookup'.kind = lookup.kind, lookup'.wanted = lookup.wanted,
         lookup.silent => lookup'.silent,
         NEW p, p = lookup.pool
  PROVE  \E w \in since' : lookup.account = w[p] /\ Choice(w, p)'
<1>1. PICK w \in since : lookup.account = w[p] /\ Choice(w, p)
  BY DEF FoundOne
<1>2. Choice(w, p)'
  <2>1. lookup.kind \in LookupKinds
    BY DEF FoundOne, LookupKinds
  <2>2. QED
    BY <1>1, <2>1, ChoiceLasts, Zenon
<1>3. QED
  BY <1>1, <1>2

(* A read adds its field and leaves what was known. *)
LEMMA ReadGoesOn ==
  ASSUME NEW answer, NEW STATE value,
         NEW field \in {"b", "q", "supply"}, NEW next \in ReadStages,
         LookupIInv, Known, FoundOne, lookup # NoLookup,
         Goes(AfterRead(answer, field, value, next))
  PROVE  /\ MarketOK' /\ Known' /\ FoundOne' /\ LookupTellsTruth'
         /\ DOMAIN lookup' = DOMAIN lookup \cup {field}
         /\ lookup'.at = next /\ lookup'[field] = value
         /\ lookup'.silent = (lookup.silent \/ answer # "true")
         /\ \A x \in DOMAIN lookup \ {field, "at", "silent"} : lookup'[x] = lookup[x]
<1>1. lookup' = AfterRead(answer, field, value, next) /\ world' = world /\ since' = since
  BY DEF Goes
<1>2. MarketOK'
  BY <1>1 DEF LookupIInv, MarketOK, SamePools
<1>3. {"at", "kind", "wanted", "given", "silent", "pool", "account"} \subseteq DOMAIN lookup
  BY DEF Known, FoundOne
<1>4. /\ DOMAIN lookup' = DOMAIN lookup \cup {field}
      /\ lookup'[field] = value
      /\ lookup'["at"] = next
      /\ \A x \in DOMAIN lookup \ {field, "at"} : lookup'[x] = Heard(answer)[x]
  BY <1>1, <1>3 DEF AfterRead
<1>5. /\ Heard(answer).silent = (lookup.silent \/ answer # "true")
      /\ \A x \in DOMAIN lookup : x # "silent" => Heard(answer)[x] = lookup[x]
  BY HeardIs
<1>6. \A x \in DOMAIN lookup \ {field, "at", "silent"} : lookup'[x] = lookup[x]
  BY <1>4, <1>5
<1>7. lookup'["silent"] = (lookup.silent \/ answer # "true")
  BY <1>3, <1>4, <1>5
<1>8. /\ lookup'.at = next /\ lookup'.kind = lookup.kind /\ lookup'.wanted = lookup.wanted
      /\ lookup'.given = lookup.given /\ lookup'.silent = (lookup.silent \/ answer # "true")
      /\ lookup'.pool = lookup.pool /\ lookup'.account = lookup.account
  BY <1>3, <1>4, <1>6, <1>7
<1>9. Known'
  BY <1>3, <1>4, <1>8 DEF Known
<1>10. FoundOne'
  <2>1. PICK p : p = lookup.pool
    OBVIOUS
  <2>2. \E w \in since' : lookup.account = w[p] /\ Choice(w, p)'
    BY <1>1, <1>8, <2>1, ChoiceGoesOn
  <2>3. QED
    BY <1>3, <1>4, <1>8, <2>1, <2>2 DEF FoundOne
<1>11. LookupTellsTruth'
  BY <1>8 DEF LookupTellsTruth, ReadStages
<1>12. QED
  BY <1>2, <1>4, <1>6, <1>8, <1>9, <1>10, <1>11

(* The base balance is that of this moment, or unread. *)
LEMMA ReadsBaseKeeps ==
  ASSUME NEW answer, LookupIInv, ReadsBase(answer)
  PROVE  LookupIInv'
<1> DEFINE value == IF answer = "true" THEN world[lookup.pool].b ELSE Unread
<1>1. /\ lookup.at = "base"
      /\ IF answer = "raises" THEN EndsAfter(Heard(answer))
         ELSE Goes(AfterRead(answer, "b", value, "quote"))
  BY DEF ReadsBase, AfterRead
<1>2. Known /\ Reading /\ FoundOne /\ lookup # NoLookup /\ world \in since
  BY <1>1, ReadStage DEF ReadStages
<1>3. CASE answer = "raises"
  BY <1>1, <1>2, <1>3, EndsKeeps
<1>4. CASE answer # "raises"
  <2>1. value = Unread \/ value = world[lookup.pool].b
    OBVIOUS
  <2> HIDE DEF value
  <2>2. Goes(AfterRead(answer, "b", value, "quote"))
    BY <1>1, <1>4
  <2>3. /\ MarketOK' /\ Known' /\ FoundOne' /\ LookupTellsTruth'
        /\ DOMAIN lookup' = DOMAIN lookup \cup {"b"}
        /\ lookup'.at = "quote" /\ lookup'["b"] = value
        /\ \A x \in DOMAIN lookup \ {"b", "at", "silent"} : lookup'[x] = lookup[x]
    BY <1>2, <2>2, ReadGoesOn DEF ReadStages
  <2>4. lookup'.pool = lookup.pool
    BY <1>2, <2>3 DEF FoundOne
  <2>5. BaseRead'
    BY <1>2, <2>1, <2>2, <2>3, <2>4 DEF BaseRead, Goes
  <2>6. Reading'
    BY <2>3, <2>5 DEF Reading, ReadStages
  <2>7. QED
    BY <2>3, <2>6 DEF LookupIInv, LookupOK
<1>5. QED
  BY <1>3, <1>4

(* The quote balance is that of this moment. *)
LEMMA ReadsQuoteKeeps ==
  ASSUME NEW answer, LookupIInv, ReadsQuote(answer)
  PROVE  LookupIInv'
<1> DEFINE value == world[lookup.pool].q
           ends == answer # "true" \/ lookup.b = Unread \/ value + lookup.account.virtual < 0
<1>1. /\ lookup.at = "quote"
      /\ IF ends THEN EndsAfter(Heard(answer)) ELSE Goes(AfterRead(answer, "q", value, "supply"))
  BY DEF ReadsQuote, AfterRead
<1>2. /\ Known /\ Reading /\ FoundOne /\ BaseRead /\ lookup # NoLookup /\ world \in since
  BY <1>1, ReadStage DEF ReadStages, Reading
<1>3. CASE ends
  BY <1>1, <1>2, <1>3, EndsKeeps
<1>4. CASE ~ends
  <2>1. value \in Int /\ lookup.account.virtual \in Int
    <3>1. world[lookup.pool] \in PoolAccounts /\ lookup.account \in PoolAccounts
      BY <1>2, FoundPool DEF LookupIInv, FoundOne
    <3>2. \A a \in PoolAccounts : a.q \in Int /\ a.virtual \in Int
      BY DEF PoolAccounts
    <3>3. QED
      BY <3>1, <3>2
  <2>2. lookup.b # Unread /\ value + lookup.account.virtual >= 0
    BY <1>4, <2>1
  <2>3. Goes(AfterRead(answer, "q", value, "supply"))
    BY <1>1, <1>4
  <2> DEFINE v == value
  <2>4. v = world[lookup.pool].q
    OBVIOUS
  <2>5. Goes(AfterRead(answer, "q", v, "supply")) /\ v + lookup.account.virtual >= 0
    BY <2>2, <2>3
  <2> HIDE DEF v
  <2>6. /\ MarketOK' /\ Known' /\ FoundOne' /\ LookupTellsTruth'
        /\ DOMAIN lookup' = DOMAIN lookup \cup {"q"}
        /\ lookup'.at = "supply" /\ lookup'["q"] = v
        /\ \A x \in DOMAIN lookup \ {"q", "at", "silent"} : lookup'[x] = lookup[x]
    BY <1>2, <2>5, ReadGoesOn DEF ReadStages
  <2>7. lookup'.pool = lookup.pool /\ lookup'.account = lookup.account /\ lookup'.b = lookup.b
        /\ "b" \in DOMAIN lookup'
    BY <1>2, <2>6 DEF FoundOne, BaseRead
  <2>8. since' = since
    BY <2>5 DEF Goes
  <2>9. BaseRead'
    BY <1>2, <2>7, <2>8 DEF BaseRead
  <2>10. QuoteRead'
    BY <1>2, <2>2, <2>4, <2>5, <2>6, <2>7, <2>8 DEF QuoteRead
  <2>11. Reading'
    BY <2>6, <2>9, <2>10 DEF Reading, ReadStages
  <2>12. QED
    BY <2>6, <2>11 DEF LookupIInv, LookupOK
<1>5. QED
  BY <1>3, <1>4

(* What the builder charges for what the lookup returned. *)
LEMMA FeesOfResult ==
  ASSUME NEW F \in FeeRates, NEW STATE r, r.creator \in BOOLEAN,
         r.fees = IF r.creator THEN F ELSE WithoutCreator(F)
  PROVE  /\ r.fees \in FeeRates
         /\ EffectiveFees(r) = IF r.creator THEN F ELSE WithoutCreator(F)
         /\ ~r.creator => EffectiveFees(r).creator = 0
<1>1. \A f \in FeeRates : /\ WithoutCreator(f) \in FeeRates
                          /\ WithoutCreator(f).creator = 0
                          /\ WithoutCreator(WithoutCreator(f)) = WithoutCreator(f)
                          /\ f # NoFees
  <2> TAKE f \in FeeRates
  <2> DEFINE g == WithoutCreator(f)
  <2>1. f \in [lp : Nat, creator : Nat]
    BY DEF FeeRates
  <2>2. g \in [lp : Nat, creator : Nat] /\ g.creator = 0 /\ g = [f EXCEPT !.creator = 0]
    BY <2>1 DEF WithoutCreator
  <2> HIDE DEF g
  <2>3. WithoutCreator(g) = g
    BY <2>2 DEF WithoutCreator
  <2>4. f # NoFees
    <3>1. "lp" \in DOMAIN f /\ "lp" \notin DOMAIN NoFees
      BY <2>1 DEF NoFees
    <3>2. QED
      BY <3>1
  <2>5. QED
    BY <2>2, <2>3, <2>4 DEF g, FeeRates
<1>2. r.fees \in FeeRates /\ r.fees # NoFees
  BY <1>1
<1>3. EffectiveFees(r) = IF r.creator THEN r.fees ELSE WithoutCreator(r.fees)
  BY <1>2 DEF EffectiveFees
<1>4. CASE r.creator
  BY <1>2, <1>3, <1>4
<1>5. CASE ~r.creator
  <2>1. r.fees = WithoutCreator(F)
    BY <1>5
  <2>2. EffectiveFees(r) = WithoutCreator(F)
    BY <1>1, <1>3, <1>5, <2>1
  <2>3. QED
    BY <1>1, <1>2, <1>5, <2>2
<1>6. QED
  BY <1>4, <1>5

(* A lookup ends with what it has read and with these fees. *)
LEMMA GivesKeeps ==
  ASSUME NEW answer, NEW F \in FeeRates, LookupIInv, lookup.at \in {"supply", "fees"},
         Gives(Heard(answer), F),
         since = {world} /\ ~ (lookup.silent \/ answer # "true") /\ lookup.given = NoFees
             => F = Charged(world[lookup.pool])
  PROVE  LookupIInv'
<1> DEFINE h == Heard(answer)
           r == Params(Heard(answer), F)
<1>1. /\ Known /\ Reading /\ FoundOne /\ BaseRead /\ QuoteRead /\ lookup # NoLookup
      /\ world \in Holdings /\ world \in since
  BY ReadStage DEF ReadStages, Reading
<1>2. {"at", "kind", "wanted", "given", "silent", "pool", "account", "b", "q"} \subseteq DOMAIN lookup
  BY <1>1 DEF Known, FoundOne, BaseRead, QuoteRead
<1>3. /\ h.kind = lookup.kind /\ h.wanted = lookup.wanted /\ h.given = lookup.given
      /\ h.silent = (lookup.silent \/ answer # "true")
      /\ h.pool = lookup.pool /\ h.account = lookup.account /\ h.b = lookup.b /\ h.q = lookup.q
  BY <1>1, <1>2, HeardIs
<1>4. lookup' = Result(h, Params(h, F)) /\ world' = world /\ since' = since
  BY DEF Gives, Goes
<1>a. r = Params(h, F)
  OBVIOUS
<1> HIDE DEF h, r
<1>5. /\ lookup'.at = "done" /\ lookup'.kind = lookup.kind /\ lookup'.wanted = lookup.wanted
      /\ lookup'.given = lookup.given /\ lookup'.silent = (lookup.silent \/ answer # "true")
      /\ lookup'.params = r
  <2>1. lookup' = Result(h, r)
    BY <1>4, <1>a
  <2>2. QED
    BY <1>3, <2>1 DEF Result
<1>6. /\ r.pool = lookup.pool /\ r.b = lookup.b /\ r.q = lookup.q /\ r.creator = lookup.account.creator
      /\ r.fees = IF r.creator THEN F ELSE WithoutCreator(F)
      /\ ~IsCurve(r)
  <2>1. Params(h, F).pool = lookup.pool /\ Params(h, F).b = lookup.b /\ Params(h, F).q = lookup.q
        /\ Params(h, F).creator = lookup.account.creator
        /\ Params(h, F).fees = (IF lookup.account.creator THEN F ELSE WithoutCreator(F))
    BY <1>3 DEF Params
  <2>2. ~IsCurve(Params(h, F))
    BY DEF Params, IsCurve
  <2>3. QED
    BY <1>a, <2>1, <2>2
<1>7. MarketOK'
  BY <1>1, <1>4 DEF LookupIInv, MarketOK, SamePools
<1>8. r.creator \in BOOLEAN
  BY <1>1, <1>6 DEF FoundOne, PoolAccounts
<1>9. /\ EffectiveFees(r) = IF r.creator THEN F ELSE WithoutCreator(F)
      /\ ~r.creator => EffectiveFees(r).creator = 0
  BY <1>6, <1>8, FeesOfResult
<1>b. PICK p \in Pools : p = lookup.pool /\ p = r.pool
  BY <1>1, <1>6 DEF FoundOne
<1>10. \E w \in since' : IsPool(w[p]) /\ Choice(w, p)'
  <2>2. PICK w \in since' : lookup.account = w[p] /\ Choice(w, p)'
    BY <1>1, <1>4, <1>5, <1>b, ChoiceGoesOn
  <2>3. IsPool(w[p])
    BY <1>1, <2>2, PoolShape DEF FoundOne
  <2>4. QED
    BY <2>2, <2>3
<1>11. /\ \E w \in since' : w[r.pool].b = r.b
       /\ \E w \in since' : w[r.pool].q = r.q
  BY <1>1, <1>4, <1>6 DEF BaseRead, QuoteRead
<1>12. since' = {world'} => r.b = world'[r.pool].b /\ r.q = world'[r.pool].q
  BY <1>11
<1>13. since' = {world'} /\ ~lookup'.silent /\ lookup'.given = NoFees =>
           EffectiveFees(r) = ProgramFees(world'[r.pool])
  <2> SUFFICES ASSUME since' = {world'}, ~lookup'.silent, lookup'.given = NoFees
               PROVE  EffectiveFees(r) = ProgramFees(world'[r.pool])
    OBVIOUS
  <2>1. F = Charged(world[lookup.pool])
    BY <1>4, <1>5
  <2>2. world[lookup.pool].creator = lookup.account.creator
    BY <1>1, FoundPool DEF LookupIInv
  <2>3. ProgramFees(world[lookup.pool]) = IF r.creator THEN F ELSE WithoutCreator(F)
    BY <1>6, <2>1, <2>2, ProgramFeesAre
  <2>4. QED
    BY <1>4, <1>6, <1>9, <2>3
<1>14. LookupTellsTruth'
  <2>1. \E w \in since' : IsPool(w[lookup'.params.pool]) /\ Choice(w, lookup.params.pool)'
    BY <1>5, <1>10, <1>b
  <2>2. QED
    BY <1>5, <1>6, <1>9, <1>11, <1>12, <1>13, <2>1 DEF LookupTellsTruth
<1>15. QED
  BY <1>5, <1>7, <1>14 DEF LookupIInv, LookupOK

(* The supply, unless the caller's fees end the lookup here. *)
LEMMA ReadsSupplyKeeps ==
  ASSUME NEW answer, LookupIInv, ReadsSupply(answer)
  PROVE  LookupIInv'
<1> DEFINE value == IF answer = "true" THEN Supply ELSE Unread
<1>1. /\ lookup.at = "supply"
      /\ IF answer = "raises" THEN EndsAfter(Heard(answer))
         ELSE IF lookup.given # NoFees THEN Gives(Heard(answer), lookup.given)
         ELSE Goes(AfterRead(answer, "supply", value, "fees"))
  BY DEF ReadsSupply, AfterRead
<1>2. Known /\ Reading /\ FoundOne /\ BaseRead /\ QuoteRead /\ lookup # NoLookup
  BY <1>1, ReadStage DEF ReadStages, Reading
<1>3. CASE answer = "raises"
  BY <1>1, <1>2, <1>3, EndsKeeps
<1>4. CASE answer # "raises" /\ lookup.given # NoFees
  <2>1. PICK F \in FeeRates : F = lookup.given
    BY <1>2, <1>4 DEF Known
  <2>2. Gives(Heard(answer), F)
    BY <1>1, <1>4, <2>1
  <2>3. QED
    BY <1>1, <1>4, <2>1, <2>2, GivesKeeps
<1>5. CASE answer # "raises" /\ lookup.given = NoFees
  <2>1. value \in {Supply, Unread} /\ (answer = "true" => value = Supply)
    OBVIOUS
  <2> HIDE DEF value
  <2>2. Goes(AfterRead(answer, "supply", value, "fees"))
    BY <1>1, <1>5
  <2>3. /\ MarketOK' /\ Known' /\ FoundOne' /\ LookupTellsTruth'
        /\ DOMAIN lookup' = DOMAIN lookup \cup {"supply"}
        /\ lookup'.at = "fees" /\ lookup'["supply"] = value
        /\ lookup'.silent = (lookup.silent \/ answer # "true")
        /\ \A x \in DOMAIN lookup \ {"supply", "at", "silent"} : lookup'[x] = lookup[x]
    BY <1>2, <2>2, ReadGoesOn DEF ReadStages
  <2>4. {"given", "pool", "account", "b", "q"} \subseteq DOMAIN lookup
    BY <1>2 DEF Known, FoundOne, BaseRead, QuoteRead
  <2>5. /\ lookup'.pool = lookup.pool /\ lookup'.account = lookup.account /\ lookup'.b = lookup.b
        /\ lookup'.q = lookup.q /\ lookup'.given = lookup.given
        /\ {"b", "q", "supply"} \subseteq DOMAIN lookup'
    BY <2>3, <2>4
  <2>6. since' = since
    BY <2>2 DEF Goes
  <2>7. BaseRead' /\ QuoteRead'
    BY <1>2, <2>5, <2>6 DEF BaseRead, QuoteRead
  <2>8. SupplyRead'
    BY <1>5, <2>1, <2>3, <2>5 DEF SupplyRead
  <2>9. Reading'
    BY <2>3, <2>7, <2>8 DEF Reading, ReadStages
  <2>10. QED
    BY <2>3, <2>9 DEF LookupIInv, LookupOK
<1>6. QED
  BY <1>3, <1>4, <1>5

(* The fees: when nothing moved, those the program charges. *)
LEMMA ReadsFeesKeeps ==
  ASSUME NEW answer, LookupIInv, ReadsFees(answer)
  PROVE  LookupIInv'
<1> DEFINE config == IF answer = "true" THEN FeeConfig ELSE NoFees
           quote == lookup.q + lookup.account.virtual
           charge == ComputeFees(config, lookup.account.pump, lookup.supply, lookup.b, quote, "SOL")
<1>1. /\ lookup.at = "fees"
      /\ IF answer = "raises" THEN EndsAfter(Heard(answer)) ELSE Gives(Heard(answer), charge)
  BY DEF ReadsFees
<1>2. /\ Known /\ Reading /\ FoundOne /\ BaseRead /\ QuoteRead /\ SupplyRead /\ lookup # NoLookup
      /\ world \in since
  BY <1>1, ReadStage DEF ReadStages, Reading
<1>3. CASE answer = "raises"
  BY <1>1, <1>2, <1>3, EndsKeeps
<1>4. charge \in FeeRates
  <2>1. ASSUME answer = "true"
        PROVE  charge \in FeeRates
    <3>1. lookup.supply \in {Supply, Unread} /\ lookup.account.pump \in BOOLEAN
          /\ lookup.q \in Int /\ lookup.b \in Nat \ {0}
          /\ lookup.account.virtual \in Int
      <4>1. PICK v \in since, w \in since : v[lookup.pool].b = lookup.b /\ w[lookup.pool].q = lookup.q
        BY <1>2 DEF BaseRead, QuoteRead
      <4>2. v[lookup.pool] \in PoolAccounts /\ w[lookup.pool] \in PoolAccounts
        <5>1. /\ world[lookup.pool] \in PoolAccounts /\ lookup.pool \in Pools
              /\ v \in Holdings /\ w \in Holdings
              /\ SamePools(v, world) /\ SamePools(w, world)
          BY <1>2, FoundPool DEF LookupIInv, MarketOK, FoundOne
        <5>2. IsPool(v[lookup.pool]) /\ IsPool(w[lookup.pool])
          BY <5>1, PoolShape DEF SamePools
        <5>3. QED
          BY <5>1, <5>2, HeldPool
      <4>3. lookup.account \in PoolAccounts
        BY <1>2 DEF FoundOne
      <4>4. \A a \in PoolAccounts : /\ a.pump \in BOOLEAN /\ a.virtual \in Int
                                    /\ a.b \in Nat \ {0} /\ a.q \in Int
        BY DEF PoolAccounts
      <4>5. QED
        BY <1>2, <4>1, <4>2, <4>3, <4>4 DEF SupplyRead
    <3>2. FeeConfig # NoFees /\ FeeConfig.flat \in FeeRates /\ FeeConfig.tiers # <<>>
      BY FeeConfigIs
    <3>3. LegacyFees \in FeeRates /\ Supply \in Int
      BY LookupAssumption
    <3>4. quote \in Int
      BY <3>1
    <3> DEFINE cap == MarketCap(lookup.b, quote)
    <3>5. cap \in Int
      <4>1. \A x, y \in Int, z \in Nat \ {0} : (x * y) \div z \in Int
        OBVIOUS
      <4>2. QED
        BY <3>1, <3>3, <3>4, <4>1 DEF MarketCap, Unread
    <3>6. FeeTier(FeeConfig.tiers, cap) \in FeeRates
      BY <3>5, TierFees
    <3> HIDE DEF quote, cap
    <3>7. config = FeeConfig
      BY <2>1
    <3> HIDE DEF config
    <3>8. charge = LegacyFees \/ charge = FeeConfig.flat \/ charge = FeeTier(FeeConfig.tiers, cap)
      BY <3>2, <3>7 DEF ComputeFees, cap
    <3>9. QED
      BY <3>2, <3>3, <3>6, <3>8
  <2>2. ASSUME answer # "true"
        PROVE  charge \in FeeRates
    BY <2>2, LookupAssumption DEF ComputeFees
  <2>3. QED
    BY <2>1, <2>2
<1>5. since = {world} /\ ~ (lookup.silent \/ answer # "true") =>
          charge = Charged(world[lookup.pool])
  <2> SUFFICES ASSUME since = {world}, ~lookup.silent, answer = "true"
               PROVE  charge = Charged(world[lookup.pool])
    BY <1>2 DEF Known
  <2> DEFINE pool == world[lookup.pool]
  <2>1. pool \in PoolAccounts /\ pool.pump = lookup.account.pump /\ pool.virtual = lookup.account.virtual
    BY <1>2, FoundPool DEF LookupIInv
  <2>2. pool.b = lookup.b /\ pool.q = lookup.q /\ pool.q + pool.virtual >= 0
    BY <1>2, <2>1 DEF BaseRead, QuoteRead
  <2>3. lookup.supply = Supply
    BY <1>2 DEF SupplyRead
  <2>4. charge = ComputeFees(FeeConfig, pool.pump, Supply, pool.b, pool.q + pool.virtual, "SOL")
    BY <2>1, <2>2, <2>3
  <2> HIDE DEF charge, pool
  <2>5. charge = Charged(pool)
    BY <2>1, <2>2, <2>4, ChargedAsComputed
  <2>6. QED
    BY <2>5 DEF pool
<1> HIDE DEF charge
<1>6. CASE answer # "raises"
  <2>1. PICK F \in FeeRates : F = charge
    BY <1>4
  <2>2. Gives(Heard(answer), F)
    BY <1>1, <1>6, <2>1
  <2>3. since = {world} /\ ~ (lookup.silent \/ answer # "true") /\ lookup.given = NoFees
            => F = Charged(world[lookup.pool])
    BY <1>5, <2>1
  <2>4. QED
    BY <1>1, <2>2, <2>3, GivesKeeps
<1>7. QED
  BY <1>3, <1>6

(* A curve is read at one moment. *)
LEMMA FetchCurveKeeps ==
  ASSUME NEW answer, LookupIInv, fetch_bonding_curve_account(answer)
  PROVE  LookupIInv'
<1> DEFINE c == decode_curve(Account("curve", answer))
<1>1. /\ lookup.at = "curve"
      /\ IF IsCurve(c) THEN Goes(Result(Heard(answer), c)) ELSE EndsAfter(Heard(answer))
  BY DEF fetch_bonding_curve_account
<1>2. Known /\ lookup # NoLookup /\ world \in Holdings /\ world \in since
  BY <1>1, FirstStage DEF FirstStages
<1>3. IsCurve(c) => c = world.curve
  <2>1. Absent \in Unusable
    BY DEF Unusable
  <2>2. c = Absent \/ c = world.curve
    BY DEF decode_curve, Account
  <2>3. QED
    BY <2>1, <2>2, UnusableShape
<1> HIDE DEF c
<1>4. CASE ~IsCurve(c)
  BY <1>1, <1>2, <1>4, EndsKeeps
<1>5. CASE IsCurve(c)
  <2>1. lookup' = Result(Heard(answer), c) /\ world' = world /\ since' = since
    BY <1>1, <1>5 DEF Goes
  <2>2. lookup'.at = "done" /\ lookup'.params = c
    BY <2>1 DEF Result
  <2>3. MarketOK'
    BY <1>2, <2>1 DEF LookupIInv, MarketOK, SamePools
  <2>4. LookupTellsTruth'
    BY <1>2, <1>3, <1>5, <2>1, <2>2 DEF LookupTellsTruth
  <2>5. QED
    BY <2>2, <2>3, <2>4 DEF LookupIInv, LookupOK
<1>6. QED
  BY <1>4, <1>5

(* Whatever a pool holds, its program charges rates. *)
LEMMA ChargedIsRate ==
  ASSUME NEW STATE pool, pool \in PoolAccounts
  PROVE  Charged(pool) \in FeeRates
<1> DEFINE cap == ((pool.q + pool.virtual) * Supply) \div pool.b
<1>1. pool.b \in Nat \ {0} /\ pool.q + pool.virtual \in Int /\ Supply \in Int
  BY LookupAssumption DEF PoolAccounts
<1>2. \A x, y \in Int, z \in Nat \ {0} : (x * y) \div z \in Int
  OBVIOUS
<1>3. cap \in Int
  <2> DEFINE x == pool.q + pool.virtual
             z == pool.b
  <2>1. x \in Int /\ z \in Nat \ {0}
    BY <1>1
  <2> HIDE DEF x, z
  <2>2. (x * Supply) \div z \in Int
    BY <1>1, <1>2, <2>1
  <2>3. QED
    BY <2>2 DEF x, z
<1>4. Charged(pool) = IF ~pool.pump THEN FeeConfig.flat ELSE FeeTier(FeeConfig.tiers, cap)
  BY <1>3, HighestMark DEF Charged
<1> HIDE DEF cap
<1>5. FeeTier(FeeConfig.tiers, cap) \in FeeRates
  BY <1>3, TierFees
<1>6. QED
  BY <1>4, <1>5, FeeConfigIs

(* What an event told is what the chain held when it happened. *)
LEMMA ObservesIs ==
  ASSUME NEW kind, NEW STATE params, LookupIInv, Observes(kind, params)
  PROVE  /\ MarketOK' /\ lookup'.at = "done" /\ lookup'.kind = kind /\ lookup'.wanted = "event"
         /\ lookup'.params = params /\ since' = {world} /\ world' = world
<1>1. /\ lookup' = Result([kind |-> kind, wanted |-> "event", given |-> NoFees, silent |-> FALSE], params)
      /\ since' = {world} /\ world' = world
  BY DEF Observes
<1>2. /\ lookup'.at = "done" /\ lookup'.kind = kind /\ lookup'.wanted = "event"
      /\ lookup'.params = params
  BY <1>1 DEF Result
<1>3. MarketOK'
  BY <1>1 DEF LookupIInv, MarketOK, SamePools
<1>4. QED
  BY <1>1, <1>2, <1>3

(* A curve as it is tells the truth about it. *)
LEMMA CurveSeen ==
  ASSUME NEW kind, NEW STATE params, LookupIInv, Observes(kind, params), params = world.curve,
         IsCurve(world.curve)
  PROVE  LookupIInv'
<1>1. /\ MarketOK' /\ lookup'.at = "done" /\ lookup'.params = world.curve
      /\ since' = {world} /\ world' = world
  BY ObservesIs
<1>2. LookupTellsTruth'
  BY <1>1 DEF LookupTellsTruth
<1>3. QED
  BY <1>1, <1>2 DEF LookupIInv, LookupOK

(* from_parser_event: a swap's event tells of the pool and of its fees. *)
LEMMA SwapEventKeeps ==
  ASSUME NEW p \in Pools, NEW charged \in BOOLEAN, LookupIInv, from_parser_event(p, charged)
  PROVE  LookupIInv'
<1> DEFINE pool == world[p]
           r == [pool |-> p, b |-> world[p].b, q |-> world[p].q, virtual |-> world[p].virtual,
                 creator |-> world[p].creator, quote |-> world[p].quote,
                 fees |-> IF charged THEN ProgramFees(world[p]) ELSE NoFees]
<1>1. IsPool(pool) /\ Observes("swap event", r)
  BY DEF from_parser_event
<1>2. /\ r.pool = p /\ r.b = pool.b /\ r.q = pool.q /\ r.creator = pool.creator
      /\ r.fees = IF charged THEN ProgramFees(pool) ELSE NoFees
      /\ ~IsCurve(r)
  BY DEF IsCurve
<1> HIDE DEF r
<1>3. /\ MarketOK' /\ lookup'.at = "done" /\ lookup'.kind = "swap event" /\ lookup'.wanted = "event"
      /\ lookup'.params = r /\ since' = {world} /\ world' = world
  BY <1>1, ObservesIs
<1>4. pool \in PoolAccounts
  BY <1>1, HeldPool DEF LookupIInv, MarketOK
<1>5. r.creator \in BOOLEAN
  BY <1>2, <1>4 DEF PoolAccounts
<1> HIDE DEF pool
<1>6. /\ ~r.creator => EffectiveFees(r).creator = 0
      /\ r.fees # NoFees => EffectiveFees(r) = ProgramFees(pool)
  <2>1. CASE charged
    <3>1. PICK F \in FeeRates : F = Charged(pool)
      BY <1>4, ChargedIsRate
    <3>2. ProgramFees(pool) = IF r.creator THEN F ELSE WithoutCreator(F)
      BY <1>2, <3>1, ProgramFeesAre
    <3>3. r.fees = IF r.creator THEN F ELSE WithoutCreator(F)
      BY <1>2, <2>1, <3>2
    <3>4. QED
      BY <1>5, <3>2, <3>3, FeesOfResult
  <2>2. CASE ~charged
    <3>1. r.fees = NoFees
      BY <1>2, <2>2
    <3>2. ~r.creator => EffectiveFees(r) = WithoutCreator(LegacyFees)
      BY <3>1 DEF EffectiveFees
    <3>3. WithoutCreator(LegacyFees).creator = 0
      BY LookupAssumption DEF WithoutCreator, FeeRates
    <3>4. QED
      BY <3>1, <3>2, <3>3
  <2>3. QED
    BY <2>1, <2>2
<1>7. \E w \in since' : IsPool(w[lookup'.params.pool]) /\ Choice(w, lookup.params.pool)'
  <2>1. PICK w : w = world
    OBVIOUS
  <2>2. Choice(w, p)'
    BY <1>3, Zenon DEF Choice
  <2>3. lookup'.params.pool = p
    BY <1>2, <1>3
  <2>4. QED
    BY <1>1, <1>3, <2>1, <2>2, <2>3 DEF pool
<1>8. /\ \E w \in since' : w[r.pool].b = r.b
      /\ \E w \in since' : w[r.pool].q = r.q
      /\ r.b = world'[r.pool].b /\ r.q = world'[r.pool].q
  BY <1>2, <1>3 DEF pool
<1>9. r.fees # NoFees => EffectiveFees(r) = ProgramFees(world'[r.pool])
  BY <1>2, <1>3, <1>6 DEF pool
<1>10. LookupTellsTruth'
  BY <1>2, <1>3, <1>6, <1>7, <1>8, <1>9 DEF LookupTellsTruth
<1>11. QED
  BY <1>3, <1>10 DEF LookupIInv, LookupOK

(* from_parser_trade_event: whichever fields the amounts came in. *)
LEMMA CurveEventKeeps ==
  ASSUME LookupIInv, IsCurve(world.curve), NEW e \in EventFields(world.curve),
         from_parser_trade_event(e)
  PROVE  LookupIInv'
<1> DEFINE c == world["curve"]
           r == [quote |-> e.quote, vt |-> e.vt, rt |-> e.rt,
                 vq |-> Either(e, e.vq, e.vs), rq |-> Either(e, e.rq, e.rs)]
<1>1. Emitted(e) /\ Observes("curve event", r)
  BY DEF from_parser_trade_event
<1>2. c \in CurveFields
  BY HeldCurve DEF LookupIInv, MarketOK, BondingCurves, CurveFields
<1>3. e \in EventFields(c)
  OBVIOUS
<1> HIDE DEF c
<1>4. /\ e.vt = c.vt /\ e.rt = c.rt /\ e.quote = c.quote
      /\ \/ e.vs = c.vq /\ e.rs = c.rq
         \/ c.quote # "SOL" /\ e.vs = 0 /\ e.rs = 0
      /\ \/ e.vq = c.vq /\ e.rq = c.rq
         \/ c.quote = "SOL" /\ e.vq = 0 /\ e.rq = 0
         \/ e.vq = Missing /\ e.rq = Missing
  BY <1>3 DEF EventFields
<1>5. c.vq \in Nat /\ c.rq \in Nat
  BY <1>2 DEF CurveFields
<1>6. /\ Either(e, e.vq, e.vs) = c.vq
      /\ Either(e, e.rq, e.rs) = c.rq
  <2>1. CASE c.quote = "SOL"
    BY <1>4, <2>1 DEF Either
  <2>2. CASE c.quote # "SOL"
    <3>1. CASE e.vq = c.vq /\ e.rq = c.rq
      BY <1>4, <1>5, <2>2, <3>1 DEF Either, Missing
    <3>2. CASE e.vq = Missing /\ e.rq = Missing
      <4>1. Either(e, e.vq, e.vs) = e.vs /\ Either(e, e.rq, e.rs) = e.rs
        BY <3>2 DEF Either
      <4>2. e.vs # 0
        <5>1. e.vs \in Nat
          BY <1>4, <1>5
        <5>2. e.vs > 0
          <6>1. Emitted(e)
            BY <1>1
          <6>2. QED
            BY <3>2, <6>1, Zenon DEF Emitted
        <5>3. QED
          BY <5>1, <5>2
      <4>3. QED
        BY <1>4, <4>1, <4>2
    <3>3. QED
      BY <1>4, <2>2, <3>1, <3>2
  <2>3. QED
    BY <2>1, <2>2
<1>7. r = c
  BY <1>2, <1>4, <1>6 DEF CurveFields
<1> HIDE DEF r
<1>8. QED
  BY <1>1, <1>7, CurveSeen DEF c

CurveNamed(c, q, v) == [c EXCEPT !.quote = q, !.vq = v]

(* The fields of a curve whose quote is named later. *)
LEMMA NamedCurve ==
  ASSUME NEW c \in CurveFields, NEW q \in DOMAIN InitialCurve.vq, NEW v \in Nat
  PROVE  /\ CurveNamed(c, q, v) \in CurveFields
         /\ CurveNamed(c, q, v).quote = q /\ CurveNamed(c, q, v).vq = v
         /\ CurveNamed(c, q, v).vt = c.vt /\ CurveNamed(c, q, v).rt = c.rt
         /\ CurveNamed(c, q, v).rq = c.rq
  BY DEF CurveFields, CurveNamed

(* Two curves that agree in their fields are one. *)
LEMMA SameCurve ==
  ASSUME NEW STATE c, c \in CurveFields, NEW STATE r, r \in CurveFields,
         r.quote = c.quote, r.vt = c.vt, r.rt = c.rt, r.vq = c.vq, r.rq = c.rq
  PROVE  r = c
  BY DEF CurveFields

(* A curve's virtual reserves tell how much was paid in. *)
LEMMA DevTradeKeeps ==
  ASSUME LookupIInv, NEW token \in Nat, NEW paid \in Nat, NEW named \in BOOLEAN,
         from_dev_trade(token, paid, named)
  PROVE  LookupIInv'
<1> DEFINE c == world["curve"]
           sol == Rebuilt(token, paid, "SOL")
           r == IF named THEN Rebuilt(token, paid, c.quote) ELSE with_quote_mint(sol, c.quote)
<1>1. /\ IsCurve(c) /\ c.rt = InitialCurve.rt - token /\ c.rq = paid
      /\ Observes("dev trade", r)
  BY DEF from_dev_trade
<1>2. /\ c \in CurveFields
      /\ c.vt - c.rt = InitialCurve.vt - InitialCurve.rt
      /\ c.vq - c.rq = InitialCurve.vq[c.quote]
  BY <1>1, HeldCurve DEF LookupIInv, MarketOK, BondingCurves, CurveFields
<1> HIDE DEF c
<1>3. /\ InitialCurve.rt \in Nat /\ InitialCurve.vt \in Nat
      /\ InitialCurve.vq[c.quote] \in Nat
      /\ c.vt \in Nat /\ c.vq \in Nat /\ c.rt \in Nat /\ c.rq \in Nat
  BY <1>2, LookupAssumption DEF CurveFields
<1>4. /\ c.vt = InitialCurve.vt - token
      /\ c.vq = InitialCurve.vq[c.quote] + paid
  <2> DEFINE t == c.vt
             rt == c.rt
             vq == c.vq
             rq == c.rq
             it == InitialCurve.vt
             ir == InitialCurve.rt
             iv == InitialCurve.vq[c.quote]
  <2>1. /\ t \in Nat /\ rt \in Nat /\ vq \in Nat /\ rq \in Nat /\ it \in Nat /\ ir \in Nat /\ iv \in Nat
        /\ t - rt = it - ir /\ rt = ir - token /\ vq - rq = iv /\ rq = paid
    BY <1>1, <1>2, <1>3
  <2> HIDE DEF t, rt, vq, rq, it, ir, iv
  <2>2. t = it - token /\ vq = iv + paid
    BY <2>1
  <2>3. QED
    BY <2>2 DEF t, vq, it, iv
<1>5. c = [quote |-> c.quote, vt |-> c.vt, rt |-> c.rt, vq |-> c.vq, rq |-> c.rq]
  BY <1>2 DEF CurveFields
<1>6. Rebuilt(token, paid, c.quote) = c
  BY <1>1, <1>4, <1>5 DEF Rebuilt
<1>7. with_quote_mint(sol, c.quote) = c
  <2> DEFINE new == CurveNamed(sol, c.quote, c.vq)
  <2>1. sol = [quote |-> "SOL", vt |-> c.vt, rt |-> c.rt,
               vq |-> InitialCurve.vq["SOL"] + paid, rq |-> paid]
    BY <1>1, <1>4 DEF Rebuilt
  <2>2. InitialCurve.vq["SOL"] \in Nat /\ "SOL" \in DOMAIN InitialCurve.vq
    BY LookupAssumption
  <2>3. sol \in CurveFields
    BY <1>3, <2>1, <2>2 DEF CurveFields
  <2>4. /\ sol.quote = "SOL" /\ sol.vq = InitialCurve.vq["SOL"] + paid /\ sol.rq = paid
        /\ sol.vt = c.vt /\ sol.rt = c.rt
    BY <2>1
  <2> HIDE DEF sol
  <2>5. with_quote_mint(sol, c.quote) = new
    BY <1>4, <2>4 DEF with_quote_mint, CurveNamed
  <2>6. c.quote \in DOMAIN InitialCurve.vq /\ c.vq \in Nat
    BY <1>2 DEF CurveFields
  <2>7. /\ new \in CurveFields /\ new.quote = c.quote /\ new.vq = c.vq
        /\ new.vt = sol.vt /\ new.rt = sol.rt /\ new.rq = sol.rq
    BY <2>3, <2>6, NamedCurve
  <2> HIDE DEF new
  <2>8. new = c
    BY <1>1, <1>2, <2>4, <2>7, SameCurve
  <2>9. QED
    BY <2>5, <2>8
<1>8. r = c
  BY <1>6, <1>7
<1> HIDE DEF r
<1>9. QED
  BY <1>1, <1>8, CurveSeen DEF c

(* A step that leaves the lookup alone leaves what was asked for. *)
LEMMA ChoiceStays ==
  ASSUME NEW w, NEW p, lookup' = lookup, Choice(w, p)
  PROVE  Choice(w, p)'
  BY Zenon DEF Choice

(* Every step of a lookup, and every move of the chain. *)
LEMMA LookupStepKeeps == LookupIInv /\ [LookupNext]_lookupVars => LookupIInv'
<1> SUFFICES ASSUME LookupIInv, [LookupNext]_lookupVars
             PROVE  LookupIInv'
  OBVIOUS
<1>1. CASE \E p \in Pools, b \in Amounts : PoolTrades(p, b)
  BY <1>1, PoolTradesKeeps
<1>2. CASE \E p \in Pools : PoolDeepens(p)
  BY <1>2, PoolDeepensKeeps
<1>3. CASE \E buy \in CurveBuys : CurveTrades(buy[1], buy[2])
  <2>1. PICK n \in Nat, paid \in Nat : CurveTrades(n, paid)
    BY <1>3, LookupAssumption
  <2>2. QED
    BY <2>1, CurveTradesKeeps
<1>4. CASE \E p \in Pools, given \in BroughtFees : from_pool_address_by_rpc(p, given)
  BY <1>4, BeginKeeps, LookupAssumption DEF from_pool_address_by_rpc, FirstStages, LookupFees
<1>5. CASE \E given \in BroughtFees : from_mint_by_rpc(given)
  BY <1>5, BeginKeeps, LookupAssumption DEF from_mint_by_rpc, FirstStages, LookupFees
<1>6. CASE \/ Begin("base mint", "TOKEN", NoFees)
           \/ \E quote \in {"SOL", "USDC"} : Begin("quote mint", quote, NoFees)
           \/ Begin("curve", "curve", NoFees)
  <2>1. NoFees \in LookupFees
    BY DEF LookupFees
  <2>2. QED
    BY <1>6, <2>1, BeginKeeps DEF FirstStages
<1>7. CASE \E answer \in Fetches :
               \/ fetch_pool(answer) \/ find_by_mint(answer)
               \/ find_by_base_mint(answer) \/ find_by_quote_mint(answer)
               \/ ReadsBase(answer) \/ ReadsQuote(answer) \/ ReadsSupply(answer) \/ ReadsFees(answer)
               \/ fetch_bonding_curve_account(answer)
  <2>1. PICK answer \in Fetches :
               \/ fetch_pool(answer) \/ find_by_mint(answer)
               \/ find_by_base_mint(answer) \/ find_by_quote_mint(answer)
               \/ ReadsBase(answer) \/ ReadsQuote(answer) \/ ReadsSupply(answer) \/ ReadsFees(answer)
               \/ fetch_bonding_curve_account(answer)
    BY <1>7
  <2>2. find_by_mint(answer) => LookupIInv'
    BY TriesAddressKeeps DEF find_by_mint
  <2>3. QED
    BY <2>1, <2>2, FetchPoolKeeps, ScanKeeps, ReadsBaseKeeps, ReadsQuoteKeeps,
       ReadsSupplyKeeps, ReadsFeesKeeps, FetchCurveKeeps
<1>8. CASE \E p \in Pools, charged \in BOOLEAN : from_parser_event(p, charged)
  BY <1>8, SwapEventKeeps
<1>9. CASE IsCurve(world.curve) /\ \E e \in EventFields(world.curve) : from_parser_trade_event(e)
  BY <1>9, CurveEventKeeps
<1>10. CASE \E buy \in CurveBuys, named \in BOOLEAN : from_dev_trade(buy[1], buy[2], named)
  <2>1. PICK n \in Nat, paid \in Nat, named \in BOOLEAN : from_dev_trade(n, paid, named)
    BY <1>10, LookupAssumption
  <2>2. QED
    BY <2>1, DevTradeKeeps
<1>11. CASE UNCHANGED lookupVars
  <2>1. world' = world /\ lookup' = lookup /\ since' = since
    BY <1>11 DEF lookupVars
  <2>2. \A w, p : Choice(w, p) => Choice(w, p)'
    BY <2>1, ChoiceStays
  <2>3. FoundOne => FoundOne'
    BY <2>1, <2>2 DEF FoundOne
  <2>4. MarketOK' /\ LookupOK'
    BY <2>1, <2>3 DEF LookupIInv, MarketOK, LookupOK, Known, Asking, Reading, BaseRead, QuoteRead,
       SupplyRead, SamePools
  <2>5. LookupTellsTruth'
    BY <2>1, <2>2 DEF LookupIInv, LookupTellsTruth
  <2>6. QED
    BY <2>4, <2>5 DEF LookupIInv
<1>12. QED
  BY <1>1, <1>2, <1>3, <1>4, <1>5, <1>6, <1>7, <1>8, <1>9, <1>10, <1>11 DEF LookupNext

(* LookupTellsTruth of PoolLookup, for accounts of any size, any table of fees in
   ascending order and any number of moves between the reads: what a lookup or an
   event returns was true of the pool or curve asked for while it ran, and when
   nothing moved, with the fees its program charges. *)
THEOREM LookupsAreTrue == LookupSpec => []LookupTellsTruth
<1>1. LookupInit => LookupIInv
  BY LookupAssumption DEF LookupInit, LookupIInv, MarketOK, LookupOK, LookupTellsTruth, NoLookup
<1>2. LookupIInv => LookupTellsTruth
  BY DEF LookupIInv
<1>3. QED
  BY <1>1, <1>2, LookupStepKeeps, PTL DEF LookupSpec
=============================================================================
