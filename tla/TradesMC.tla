------------------------------- MODULE TradesMC -------------------------------
(***************************************************************************)
(* The arithmetic of a trade and the plan of its instructions, each on its  *)
(* own: an execution is one of quoting and swapping (Quotes), of walking    *)
(* through liquidity (LiquidityWalk), of searching the arrays to load for a *)
(* quote (ArraySearch), of trading (TradePlan), of cached routes            *)
(* (CachedRoutes) or of collecting a creator's fees (CreatorFees).          *)
(***************************************************************************)
EXTENDS Quotes, ArraySearch, TradePlan, CachedRoutesMC, CreatorFees
LOCAL INSTANCE FiniteSetsExt

VARIABLE part

MCReserves == {1, 10, 40}
MCMarkets ==
    [venue : {"pumpfun", "bonk", "amm v4", "cpmm", "damm v2"}, x : MCReserves, y : MCReserves,
     real : {5}, fee : {0, 125, 3000}, slip : {100}]
    \union
    [venue : {"curve"}, x : {20, 40}, y : {10, 40}, real : {15}, start : {7}, fee : {0, 95}]
    \union
    [venue : {"pumpswap"}, x : MCReserves, y : MCReserves, real : {50}, virtual : {0, 7},
     lp : {0, 20}, fee : {5, 2000}, creator : {0, 100}, slip : {100}]
MCV3States ==
    [venue : {"v3"}, complete : {FALSE}, mayhem : BOOLEAN, x : {20, 40}, y : {5, 30},
     left : {3, 12}, vault : {20}, funds : {0, 9}, toll : {0, 2}, fee : {0, 100, 2000},
     creator : {0, 30}]

\* Nine ticks; positions are <<lower, upper, liquidity>>.
MCMinTick == -4
MCSqrtPrice == [t \in -4 .. 4 |-> <<273, 320, 374, 438, 512, 599, 701, 820, 959>>[t + 5]]
MCPositions == {{<<-2, 2, 40>>, <<0, 2, 25>>}, {<<-4, 0, 10>>, <<1, 3, 30>>},
                {<<-2, 2, 40>>, <<1, 3, 30>>}}
Sums3(S, f(_)) == MapThenSumSet(f, S)
NetAt(S, t) == Sums3(S, LAMBDA p : (IF p[1] = t THEN p[3] ELSE 0) - (IF p[2] = t THEN p[3] ELSE 0))
GrossAt(S, t) == Sums3(S, LAMBDA p : IF t \in {p[1], p[2]} THEN p[3] ELSE 0)
ActiveAt(S, t) == Sums3(S, LAMBDA p : IF p[1] <= t /\ t < p[2] THEN p[3] ELSE 0)
Still == [on |-> FALSE, age |-> "fresh", reference |-> 0, heldBefore |-> 0, volatility |-> 0,
          maximum |-> 0, control |-> 0, reduction |-> 0]
Lively(age, max) == [on |-> TRUE, age |-> age, reference |-> 1, heldBefore |-> 10000,
                     volatility |-> 20000, maximum |-> max, control |-> 1, reduction |-> 5000]
PoolOf(kind, S, at, fee, feeOn, dynamic, orders) ==
    LET T == {p[1] : p \in S} \union {p[2] : p \in S} \union (IF kind = "clmm" THEN {-1, 1} ELSE {})
    IN [kind |-> kind, price |-> at[1], tick |-> at[2], liquidity |-> ActiveAt(S, at[2]),
        spacing |-> 1, fee |-> fee, feeOn |-> feeOn, dynamic |-> dynamic,
        net |-> [t \in T |-> NetAt(S, t)], gross |-> [t \in T |-> GrossAt(S, t)],
        orders |-> [t \in T |-> IF t \in {-1, 1} THEN orders ELSE 0], lower |-> -4, upper |-> 3]
MCClmmPools ==
    {PoolOf("clmm", S, at, fee, feeOn, d, o) :
        S \in MCPositions, at \in {<<512, 0>>, <<560, 0>>, <<470, -1>>}, fee \in {0, 30},
        feeOn \in {0, 1}, d \in {Still, Lively("fresh", 30000), Lively("filtered", 20000)}, o \in {0, 6}}
MCWhirlpools ==
    {PoolOf("whirlpool", S, at, fee, 0, d, 0) :
        S \in MCPositions, at \in {<<512, 0>>, <<560, 0>>}, fee \in {0, 30},
        d \in {Still, Lively("fresh", 20000), Lively("decayed", 10000)}}

BinOf(x, y, p, o, done, ask) == [x |-> x, y |-> y, price |-> p, open |-> o, processed |-> done, ask |-> ask]
MCBins == (-4 :> BinOf(0, 3, 273, 0, 2, 1))
          @@ (-2 :> BinOf(0, 9, 374, 4, 0, 0)) @@ (-1 :> BinOf(0, 5, 438, 0, 0, 0))
          @@ (0 :> BinOf(6, 4, 512, 0, 3, 1)) @@ (3 :> BinOf(7, 0, 820, 2, 2, 1))
MCDlmmPools ==
    {[kind |-> "dlmm", tick |-> 0, spacing |-> 1, fee |-> fee, feeOn |-> feeOn, loaded |-> L,
      bins |-> [i \in {j \in DOMAIN MCBins : j \div 3 \in L} |-> MCBins[i]], dynamic |-> d] :
        fee \in {0, 30}, feeOn \in {0, 1}, L \in {{-2, -1, 0, 1}, {-2, 0, 1}, {-1, 0}},
        d \in {Still, Lively("fresh", 30000), Lively("filtered", 20000)}}

\* Searches: pools of each kind, tokens with and without transfer fees.
Untaxed2022(older, newer, barred) ==
    [program |-> "token 2022", barred |-> barred, since |-> 5,
     older |-> [bps |-> older, most |-> 9], newer |-> [bps |-> newer, most |-> 4]]
Classic == [Untaxed2022(0, 0, FALSE) EXCEPT !.program = "token"]
MCTaxes == {<<Classic, Classic, 1>>, <<Untaxed2022(1000, 3000, FALSE), Classic, 5>>,
            <<Classic, Untaxed2022(1000, 3000, FALSE), 4>>, <<Classic, Untaxed2022(0, 0, TRUE), 1>>}
AskIn(p, d, n, b, t, disabled, now) ==
    [pool |-> p, down |-> d, amount |-> n, budget |-> b, taxIn |-> t[1], taxOut |-> t[2], epoch |-> t[3],
     disabled |-> disabled, opens |-> 1, now |-> now]
MCSearchPools == {q \in MCClmmPools \union MCWhirlpools \union MCDlmmPools : q.fee = 30}
MCSearchAsks ==
    {AskIn(p, d, n, b, t, FALSE, 2) :
        p \in MCSearchPools, d \in BOOLEAN, n \in {3, 20, 60}, b \in {1, 4}, t \in MCTaxes}
    \union
    {AskIn(p, TRUE, 3, 1, <<Classic, Classic, 1>>, s, now) :
        p \in MCSearchPools, s \in BOOLEAN, now \in {0, 1}}

\* Requests: every venue, side, currency and kind of amount it takes.
OrderOf(venue, version, pool, direct, buy, with, kind) ==
    [venue |-> venue, version |-> version, pool |-> pool, direct |-> direct, buy |-> buy,
     with |-> with, kind |-> kind, n |-> IF buy \/ (direct /\ venue = "dammV2") THEN 4 ELSE 6,
     fixed |-> IF buy THEN 5 ELSE 3]
Kinds(buy) == IF buy THEN {"exact", "fixed", "max"} ELSE {"exact", "fixed"}
Currencies == {"SOL", "WSOL", "USDC"}
CurveOrders(buy) ==
    {OrderOf("pumpfun", v, p, FALSE, buy, w, k) :
        v \in {"any", "V1", "V2", "V3"}, p \in {"SOL", "USDC"}, w \in Currencies, k \in Kinds(buy)}
PoolOrders(buy) ==
    {OrderOf(v, "any", p, FALSE, buy, w, k) :
        v \in {"pumpswap", "ammV4", "cpmm", "dammV2"}, p \in {"WSOL", "USDC"}, w \in Currencies,
        k \in {"exact", "fixed"}}
DirectOrders(buy) ==
    {OrderOf(v, "any", p, TRUE, buy, p, k) :
        v \in {"pumpswap", "bonk"}, p \in {"WSOL", "USDC"}, k \in {"exact", "fixed"}}
    \union {OrderOf("dammV2", v, p, TRUE, buy, p, "fixed") :
                v \in {"EXACT_IN", "EXACT_OUT", "UNKNOWN"}, p \in {"WSOL", "USDC"}}
    \union {OrderOf("bonk", "any", "WSOL", FALSE, buy, "WSOL", k) : k \in {"exact", "fixed"}}
Orders == UNION {CurveOrders(b) \union PoolOrders(b) \union DirectOrders(b) : b \in BOOLEAN}
Preparations == {[createIn |-> c, createOut |-> d, closeIn |-> e, closeOut |-> e] : c, d, e \in BOOLEAN}
Policies == {"AUTO", "HOT_PATH_MINIMAL", "CREATE_MISSING"}
MCRequests ==
    {o @@ f : o \in Orders, f \in Preparations}
    \union {SimpleBuy(o, p) : o \in {q \in Orders : q.buy}, p \in Policies}
    \union {SimpleSell(o, p) : o \in {q \in Orders : ~q.buy}, p \in Policies}

MCWallets == {[SOL |-> 5, WSOL |-> Closed, USDC |-> Closed, TOKEN |-> Closed],
              [SOL |-> 4, WSOL |-> 5, USDC |-> 5, TOKEN |-> 6]}

\* A DAMM v2 pool that fills a buy in SOL or a sale in part, one in USDC in full.
MCPoolTakes == [SOL |-> 0, WSOL |-> 3, USDC |-> 4, TOKEN |-> 5]

MCFirstPool == [fees |-> <<7, 0>>, protocol |-> <<58, 0>>]

-----------------------------------------------------------------------------
MCInit ==
    /\ part \in {"quotes", "walk", "search", "plan", "routes", "creator"}
    /\ QuotesInit /\ SearchInit /\ PlanInit /\ RoutesInit /\ FeesInit
    /\ part # "routes" => venues = MCPools
    /\ part # "plan" => rate = 1
    /\ part # "creator" => ledger["config"].data = Share(Million)
InQuotes(A) == part = "quotes" /\ A /\ UNCHANGED <<part, searchVars, planVars, routeVars, feeVars>>
InWalk(A) == part = "walk" /\ A /\ UNCHANGED <<part, search, quoteVars, planVars, routeVars, feeVars>>
InSearch(A) == part = "search" /\ A /\ UNCHANGED <<part, quoteVars, planVars, routeVars, feeVars>>
InTurn(A) == A /\ IF part = "search" THEN TurnOfSearch /\ UNCHANGED <<part, quoteVars, planVars, routeVars, feeVars>>
                  ELSE UNCHANGED <<part, search, quoteVars, planVars, routeVars, feeVars>>
InPlan(A) == part = "plan" /\ A /\ UNCHANGED <<part, quoteVars, searchVars, routeVars, feeVars>>
InRoutes == part = "routes" /\ UNCHANGED <<part, quoteVars, searchVars, planVars, feeVars>>
\* A snapshot matters no more when an offer is sent.
InCreator(A) == /\ part = "creator" /\ A
                /\ UNCHANGED <<part, quoteVars, searchVars, planVars, routeVars>>
InCache(A) == offer.stage # "sent" /\ InCreator(A)
MCNext ==
    \/ InQuotes(Meet)
    \/ InQuotes(Leave)
    \/ InQuotes(OnPumpFun)
    \/ InQuotes(OnCurveAccount)
    \/ InQuotes(OnPumpSwap)
    \/ InQuotes(OnBonk)
    \/ InQuotes(OnAmmV4)
    \/ InQuotes(OnCpmm)
    \/ InQuotes(OnDammV2)
    \/ InQuotes(OnPumpV3)
    \/ InWalk(FindPool)
    \/ InWalk(LosePool)
    \/ InWalk(BeginWalk)
    \/ InWalk(WalkBack)
    \/ InTurn(ClmmTurn)
    \/ InTurn(WhirlpoolTurn)
    \/ InTurn(WalkEnds)
    \/ InTurn(BudgetSpent)
    \/ InWalk(BeginDlmm)
    \/ InTurn(DlmmMissing)
    \/ InTurn(DlmmEmpty)
    \/ InTurn(DlmmBin)
    \/ InTurn(DlmmEnds)
    \/ InSearch(AskClmm)
    \/ InSearch(AskWhirlpool)
    \/ InSearch(AskDlmm)
    \/ InSearch(LoadClmm)
    \/ InSearch(LoadWhirlpool)
    \/ InSearch(LoadDlmm)
    \/ InSearch(ClmmTried)
    \/ InSearch(WhirlpoolTried)
    \/ InSearch(DlmmTried)
    \/ InSearch(VenueWalks)
    \/ InSearch(LeaveIt)
    \/ InPlan(Open)
    \/ InPlan(Buy)
    \/ InPlan(Sell)
    \/ InPlan(SellByPercent)
    \/ InPlan(WrapSol)
    \/ InPlan(CloseWsol)
    \/ InPlan(MarketMoves)
    \/ InPlan(Land)
    \/ InPlan(Settle)
    \/ InPlan(Leaves)
    \/ InRoutes /\ AskTrade
    \/ InRoutes /\ AskBest
    \/ InRoutes /\ TryEdge
    \/ InRoutes /\ NextPath
    \/ InRoutes /\ NextLength
    \/ InRoutes /\ Deepen
    \/ InRoutes /\ RankPath
    \/ InRoutes /\ Ranked
    \/ InRoutes /\ SnapshotDies
    \/ InRoutes /\ MarketTurns
    \/ InRoutes /\ Lands
    \/ InRoutes /\ AsksAgain
    \/ \E t \in Tokens : InCreator(Accrues(t))
    \/ \E r \in ShareRates : InCreator(ConfigChanges(r))
    \/ \E data \in {Gone} \union {Share(r) : r \in ShareRates} : InCreator(ShareChanges(data))
    \/ InCreator(SlotPasses)
    \/ InCreator(OthersCollect)
    \/ \E A \in {FeeAccounts} \union {{a} : a \in FeeAccounts}, through \in {NoSlot, feeSlot} : InCache(Shoots(A, through))
    \/ InCache(ShotDies)
    \/ InCreator(Prepare)
    \/ InCreator(Validate)
    \/ InCreator(GivesUp)
    \/ InCreator(FetchRate)
    \/ InCreator(EstimatePayout)
    \/ InCreator(CollectionExecutes)
    \/ InCreator(AnotherPool)
MCSpec == MCInit /\ [][MCNext]_<<part, quoteVars, searchVars, planVars, routeVars, feeVars>> /\ WalkFair

\* Of cached routes: the search finds the best one there is, and what was
\* prepared is what its transaction brings, in whatever market it lands.
RoutesHold == SearchFindsBest /\ RouteSettles
=============================================================================
