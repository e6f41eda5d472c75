----------------------------- MODULE ServicesMC -----------------------------
(***************************************************************************)
(* Small instances of the services around a trade: the relays' clients,    *)
(* the dispatchers over them, the retries through a circuit breaker, the   *)
(* prefetched blockhash, the lookup of trade parameters, the connection    *)
(* pool, the rate limiter and the tables in memory.  They share no state;  *)
(* a behaviour is of one of them, `part`, and the others stay where they   *)
(* began.                                                                  *)
(***************************************************************************)
EXTENDS SwqosRelays, TradeDispatch, RetryBreaker, HotPathState,
        PoolLookup, Pools, SharedTables
LOCAL INSTANCE TLC

CONSTANTS c1, c2, j1, j2

VARIABLE part

MCConfigs == [type : SwqosType, transport : SwqosTransport, custom : BOOLEAN]

MCSenders == {c1, c2}
MCJobs == {j1, j2}

(* Calls and jobs are alike; no property here is about their progress. *)
MCSymmetry == Permutations(MCSenders) \cup Permutations(MCJobs)

mcVars == <<part, relayVars, dispatchVars, breakerVars, hotVars, lookupVars, poolsVars,
            tableVars>>

Fees(lp, creator) == [lp |-> lp, creator |-> creator]
MCFeeConfig ==
    [flat |-> Fees(5, 5), exotic |-> NoFees, stable |-> <<[from |-> 0, fees |-> Fees(9, 9)]>>,
     tiers |-> <<[from |-> 2, fees |-> Fees(4, 4)], [from |-> 4, fees |-> Fees(3, 3)],
                 [from |-> 16, fees |-> Fees(2, 2)]>>]
MCLegacyFees == Fees(1, 1)
MCBroughtFees == {NoFees, Fees(7, 7)}
MCInitialCurve == [vt |-> 20, rt |-> 15, vq |-> [SOL |-> 6, USDC |-> 2]]
MCCurveBuys == {<<5, 2>>}

MCPool(quote, lp, pump, creator, virtual) ==
    [base |-> "TOKEN", quote |-> quote, lp |-> lp, pump |-> pump, creator |-> creator,
     virtual |-> virtual, b |-> 4, q |-> 4]
MCCurve(quote) == [quote |-> quote, vt |-> 15, rt |-> 10, vq |-> MCInitialCurve.vq[quote] + 2, rq |-> 2]
MCHolding(v2, canonical, other, curve) ==
    [v2 |-> v2, canonical |-> canonical, other |-> other, curve |-> curve]
MCWorlds ==
    {MCHolding(v2, canonical, other, Absent) :
        v2 \in {Absent, Garbled, MCPool("SOL", 2, FALSE, FALSE, 0)},
        canonical \in {Absent, MCPool("SOL", 1, TRUE, TRUE, 2)},
        other \in {Foreign, MCPool("USDC", 2, TRUE, FALSE, 0)}}
    \cup {MCHolding(Absent, Absent, Absent, curve) :
              curve \in {Foreign, MCCurve("SOL"), MCCurve("USDC")}}

(* A part that is not looked at stays in one initial state of its own. *)
MCInit ==
    /\ part \in {"relays", "dispatch", "breaker", "hotpath", "lookup",
              "accounts", "connections", "limiter", "cache", "nonces", "fees"}
    /\ RelayInit /\ (part # "relays" => legs = <<"jito">>)
    /\ DispatchInit
    /\ part # "dispatch" => facade = "hotpath" /\ disabled = {}
                              /\ clients[1] = CHOOSE p \in Providers : p # DefaultProvider
    /\ BreakerInit
    /\ HotPathInit
    /\ LookupInit
    /\ part # "lookup" => world = CHOOSE w \in Worlds : TRUE
    /\ PoolsInit
    /\ TablesInit

InRelays(A) ==
    /\ part = "relays" /\ A
    /\ UNCHANGED <<part, dispatchVars, breakerVars, hotVars, lookupVars, poolsVars, tableVars>>

InDispatch(A) ==
    /\ part = "dispatch" /\ A
    /\ UNCHANGED <<part, relayVars, breakerVars, hotVars, lookupVars, poolsVars, tableVars>>

InBreaker(A) ==
    /\ part = "breaker" /\ A
    /\ UNCHANGED <<part, relayVars, dispatchVars, hotVars, lookupVars, poolsVars, tableVars>>

InHotPath(A) ==
    /\ part \in {"hotpath", "accounts"} /\ A
    /\ UNCHANGED <<part, relayVars, dispatchVars, breakerVars, lookupVars, poolsVars, tableVars>>

InPrefetch(A) == part = "hotpath" /\ InHotPath(A)
InAccounts(A) == part = "accounts" /\ InHotPath(A)

InLookup(A) ==
    /\ part = "lookup" /\ A
    /\ UNCHANGED <<part, relayVars, dispatchVars, breakerVars, hotVars, poolsVars, tableVars>>

Still == UNCHANGED <<part, relayVars, dispatchVars, breakerVars, hotVars, lookupVars>>
InPools(which, A) == part = which /\ A /\ Still /\ UNCHANGED tableVars
InTables(which, A) == part = which /\ A /\ Still /\ UNCHANGED poolsVars

MCNext ==
    \/ \E c \in Senders, b \in Batches : InRelays(Submit(c, b))
    \/ \E c \in Senders : InRelays(Reject(c))
    \/ \E c \in Senders, taken, confirms \in BOOLEAN : \E a \in Answers(Transport(c)) :
           InRelays(Exchange(c, a, taken, confirms))
    \/ \E c \in Senders, connected, written, taken \in BOOLEAN :
           InRelays(Shoot(c, connected, written, taken))
    \/ \E c \in Senders : InRelays(Lock(c))
    \/ \E c \in Senders : InRelays(Connect(c))
    \/ \E c \in Senders : InRelays(Opened(c))
    \/ \E c \in Senders : InRelays(CannotOpen(c))
    \/ \E c \in Senders : InRelays(SendOnDead(c))
    \/ \E c \in Senders, status \in {200, 401, 503}, taken \in BOOLEAN :
           InRelays(SendOnOpen(c, status, taken))
    \/ \E code \in {401, 503} : InRelays(PeerCloses(code))
    \/ \E p \in Providers : InDispatch(AddClient(p))
    \/ \E p \in Providers : InDispatch(RemoveClient(p))
    \/ \E p \in Providers : InDispatch(ExecutorAdds(p))
    \/ \E p \in Providers : InDispatch(ExecutorRemoves(p))
    \/ \E wanted \in Wanted : InDispatch(SetFallbackOrder(wanted))
    \/ \E j \in Jobs : \E mode \in Modes : InDispatch(Execute(j, mode))
    \/ \E j \in Jobs : InDispatch(Admit(j))
    \/ \E j \in Jobs : InDispatch(AskNext(j))
    \/ \E j \in Jobs : InDispatch(RoundOver(j))
    \/ \E j \in Jobs : InDispatch(Resumes(j))
    \/ \E j \in Jobs, p \in Providers, gets, ok \in BOOLEAN : InDispatch(Answer(j, p, gets, ok))
    \/ \E j \in Jobs, p \in Providers, gets \in BOOLEAN : InDispatch(Raises(j, p, gets))
    \/ \E j \in Jobs : InDispatch(StaleBlockhash(j))
    \/ \E j \in Jobs : InDispatch(NobodyToAsk(j))
    \/ \E j \in Jobs : \E gets \in SUBSET job[j].flight : InDispatch(TimesOut(j, gets))
    \/ \E c \in Callers : InBreaker(ExecuteRetried(c))
    \/ \E c \in Callers : InBreaker(LetThrough(c))
    \/ \E c \in Callers : InBreaker(NotAttempted(c))
    \/ \E c \in Callers : InBreaker(Succeeds(c))
    \/ \E c \in Callers, error \in {"error", "fatal"} : InBreaker(Fails(c, error))
    \/ \E c \in Callers : InBreaker(DelayOver(c))
    \/ InBreaker(Cools)
    \/ InHotPath(Tick) \/ InHotPath(StartPrefetch) \/ InHotPath(CreateContext)
    \/ \E answered \in BOOLEAN : InHotPath(Started(answered))
    \/ InPrefetch(LoopWakes) \/ InPrefetch(StopPrefetch)
    \/ \E answered \in BOOLEAN : InPrefetch(LoopFetches(answered))
    \/ \E answered \in BOOLEAN : InPrefetch(Stopped(answered))
    \/ \E k \in Stateful : InAccounts(UpdateState(k))
    \/ \E k \in Stateful : InAccounts(AddState(k))
    \/ \E keys \in SUBSET Accounts : InAccounts(AskAccounts(keys))
    \/ \E read \in reads : InAccounts(AccountsNotAnswered(read))
    \/ \E read \in reads : \E found \in SUBSET read.keys : InAccounts(AccountsAnswered(read, found))
    \/ \E p \in Pools, b \in Amounts : InLookup(PoolTrades(p, b))
    \/ \E p \in Pools : InLookup(PoolDeepens(p))
    \/ \E buy \in CurveBuys : InLookup(CurveTrades(buy[1], buy[2]))
    \/ \E p \in Pools, given \in BroughtFees : InLookup(from_pool_address_by_rpc(p, given))
    \/ \E given \in BroughtFees : InLookup(from_mint_by_rpc(given))
    \/ InLookup(Begin("base mint", "TOKEN", NoFees))
    \/ \E quote \in {"SOL", "USDC"} : InLookup(Begin("quote mint", quote, NoFees))
    \/ InLookup(Begin("curve", "curve", NoFees))
    \/ \E answer \in Fetches : InLookup(fetch_pool(answer))
    \/ \E answer \in Fetches : InLookup(find_by_mint(answer))
    \/ \E answer \in Fetches : InLookup(find_by_base_mint(answer))
    \/ \E answer \in Fetches : InLookup(find_by_quote_mint(answer))
    \/ \E answer \in Fetches : InLookup(ReadsBase(answer))
    \/ \E answer \in Fetches : InLookup(ReadsQuote(answer))
    \/ \E answer \in Fetches : InLookup(ReadsSupply(answer))
    \/ \E answer \in Fetches : InLookup(ReadsFees(answer))
    \/ \E answer \in Fetches : InLookup(fetch_bonding_curve_account(answer))
    \/ \E p \in Pools, charged \in BOOLEAN : InLookup(from_parser_event(p, charged))
    \/ part = "lookup" /\ IsCurve(world.curve)
           /\ \E e \in EventFields(world.curve) : InLookup(from_parser_trade_event(e))
    \/ \E buy \in CurveBuys, named \in BOOLEAN : InLookup(from_dev_trade(buy[1], buy[2], named))
    \/ \E u \in Users : InPools("connections", TakesPermit(u))
    \/ \E u \in Users, works \in BOOLEAN : InPools("connections", Acquires(u, works))
    \/ \E u \in Users : InPools("connections", Releases(u))
    \/ \E u \in Users : InPools("connections", GivesPermit(u))
    \/ InPools("connections", close_all)
    \/ \E c \in 1..MaxMade : InPools("connections", ConnectionDies(c))
    \/ InPools("limiter", ClockTicks) \/ InPools("limiter", Allow)
    \/ InTables("cache", Time) \/ InTables("cache", Cleanup)
    \/ \E a \in Askers, key \in Keys : InTables("cache", Get(a, key))
    \/ \E a \in Askers, key \in Keys : InTables("cache", GetMisses(a, key))
    \/ \E a \in Askers, value \in 0..MaxTime : InTables("cache", Computed(a, value))
    \/ \E key \in Keys : InTables("cache", Delete(key))
    \/ InTables("nonces", NonceAdvances) \/ InTables("nonces", UpdateNonce)
    \/ InTables("nonces", RemoveNonce)
    \/ \E force \in BOOLEAN : InTables("nonces", GetNonce(force))
    \/ \E f \in fetch : InTables("nonces", NonceNotFetched(f))
    \/ \E f \in fetch, value \in 1..MaxNonce : InTables("nonces", NonceFetched(f, value))
    \/ \E lane \in Lanes, kind \in Kinds, tip \in Tips : InTables("fees", set(lane, kind, tip))
    \/ \E tip \in Tips : InTables("fees", set_global_fee_strategy(tip))
    \/ \E tip \in Tips : InTables("fees", update_tip(tip))
    \/ \E lane \in Lanes, low, high \in Tips : InTables("fees", set_high_low_fee_strategies(lane, low, high))
    \/ \E lane \in Lanes, kinds \in {{k} : k \in Kinds} \cup {Kinds} : InTables("fees", delete(lane, kinds))

MCSpec == MCInit /\ [][MCNext]_mcVars
=============================================================================
