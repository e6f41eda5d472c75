------------------------------- MODULE TradePlan -------------------------------
(***************************************************************************)
(* From a request to the instructions that carry it out: TradingClient.buy  *)
(* and sell, the adapters of instruction/__init__.py and the builders of    *)
(* each venue.  A plan is the sequence of instructions a builder returns;   *)
(* the chain runs it as one transaction, all of it or nothing, against a    *)
(* market that may have moved since the builder computed its limits.        *)
(*                                                                          *)
(* A request is a record:                                                   *)
(*   venue, version     the DEX; PumpFun's layout or, of a DAMM v2 builder  *)
(*                      called directly, the swap mode; "any": not chosen   *)
(*   pool               the currency of its pool or curve                   *)
(*   direct             a builder is called, not the client's adapter       *)
(*   buy, with          the side, the currency paid with or received        *)
(*   kind, n, fixed     "exact" (input n), "fixed" (output, input n) or     *)
(*                      "max" (buys: about n)                               *)
(*   createIn, createOut, closeIn, closeOut   the token accounts to prepare *)
(*                      and to close                                        *)
(***************************************************************************)
EXTENDS SwapMath, Sequences, TLC

CONSTANTS Requests,       \* the requests that may be made
          Wallets,        \* what the wallet may hold at first
          Rates,          \* tokens for one unit of a currency
          Slippage,       \* basis points
          RealReserve,    \* tokens left on a PumpFun curve
          PoolTakes,      \* what a DAMM v2 pool takes of a mint, its price range being finite
          MaxTrades       \* bound: transactions in one wallet

VARIABLES wallet,         \* balance of each mint, Closed without an account
          rate,           \* the market, the same for every venue
          trade,          \* the trade under way or ended last
          trades          \* transactions so far

planVars == <<wallet, rate, trade, trades>>

Closed == -1
NoWallet == [none |-> 0]
NoTrade == [stage |-> "none"]
Failed == [failed |-> TRUE]
Refused == <<[op |-> "refuse"]>>

Mint(currency) == IF currency = "SOL" THEN "WSOL" ELSE currency
Same(with, pool) == Mint(with) = Mint(pool)

Paying == {"SOL", "WSOL", "USDC"}
Purses == [SOL : Nat, WSOL : Nat \union {Closed}, USDC : Nat \union {Closed}, TOKEN : Nat \union {Closed}]
Versions == {"any", "V1", "V2", "V3", "EXACT_IN", "PARTIAL_FILL", "EXACT_OUT", "UNKNOWN"}
\* PumpFun's curves are in SOL or a token, the pools of the other venues in wrapped
\* SOL or a token.
Shapes ==
    {r \in [venue : {"pumpfun", "pumpswap", "bonk", "ammV4", "cpmm", "dammV2"},
            version : Versions, pool : Paying, direct : BOOLEAN, buy : BOOLEAN,
            with : Paying, kind : {"exact", "fixed", "max"}, n : Nat, fixed : Nat,
            createIn : BOOLEAN, createOut : BOOLEAN, closeIn : BOOLEAN, closeOut : BOOLEAN] :
        /\ r.kind = "max" => r.buy /\ r.n <= U64Max
        /\ r.pool # (IF r.venue = "pumpfun" THEN "WSOL" ELSE "SOL")}

ASSUME PlanAssumption ==
    /\ Requests \subseteq Shapes
    /\ Wallets \subseteq Purses
    /\ Rates \subseteq Nat \ {0} /\ Slippage \in Nat
    /\ PoolTakes \in [Paying \union {"TOKEN"} -> Nat]

PlanInit == wallet = NoWallet /\ rate \in Rates /\ trade = NoTrade /\ trades = 0

-----------------------------------------------------------------------------
(* What the chain does with an instruction. *)

Balance(w, mint) == IF w[mint] = Closed THEN 0 ELSE w[mint]

\* Moves in and out of the wallet, or Failed.
Swapped(w, i, paid, got) ==
    IF w[i.pay] = Closed \/ w[i.get] = Closed \/ w[i.pay] < paid THEN Failed
    ELSE [w EXCEPT ![i.pay] = @ - paid, ![i.get] = @ + got]
Gets(i, n) == IF i.get = "TOKEN" THEN n * rate ELSE n \div rate
Costs(i, n) == IF i.get = "TOKEN" THEN CeilDiv(n, rate) ELSE n * rate

RunOne(w, i) ==
    IF w = Failed THEN Failed ELSE
    CASE i.op = "create" -> IF w[i.mint] = Closed THEN [w EXCEPT ![i.mint] = 0] ELSE w
      [] i.op = "wrap" ->
            IF w.SOL < i.n \/ w.WSOL = Closed THEN Failed
            ELSE [w EXCEPT !.SOL = @ - i.n, !.WSOL = @ + i.n]
      [] i.op = "close" ->
            IF w[i.mint] = Closed \/ (i.mint # "WSOL" /\ w[i.mint] > 0) THEN Failed
            ELSE [w EXCEPT ![i.mint] = Closed, !.SOL = @ + (IF i.mint = "WSOL" THEN w.WSOL ELSE 0)]
      [] i.op = "exactIn" ->
            IF Gets(i, i.in) < i.out THEN Failed ELSE Swapped(w, i, i.in, Gets(i, i.in))
      [] i.op = "exactOut" ->
            IF Costs(i, i.out) > i.in THEN Failed ELSE Swapped(w, i, Costs(i, i.out), i.out)
      [] i.op = "rangedIn" ->
            IF i.in > PoolTakes[i.pay] \/ Gets(i, i.in) < i.out THEN Failed
            ELSE Swapped(w, i, i.in, Gets(i, i.in))
      [] i.op = "rangedOut" ->
            IF Costs(i, i.out) > Least(i.in, PoolTakes[i.pay]) THEN Failed
            ELSE Swapped(w, i, Costs(i, i.out), i.out)
      [] i.op = "partial" ->
            LET n == Least(i.in, PoolTakes[i.pay])
            IN IF Gets(i, n) < i.out THEN Failed ELSE Swapped(w, i, n, Gets(i, n))
\* The wallet after each instruction, the last one's.
Run(w, instructions) ==
    LET after[n \in 0 .. Len(instructions)] ==
            IF n = 0 THEN w ELSE RunOne(after[n - 1], instructions[n])
    IN after[Len(instructions)]

-----------------------------------------------------------------------------
(* The builders. *)

Create(mint) == <<[op |-> "create", mint |-> mint]>>
Close(mint) == <<[op |-> "close", mint |-> mint]>>
handle_wsol(n) == Create("WSOL") \o <<[op |-> "wrap", n |-> n]>>
Only(condition, instructions) == IF condition THEN instructions ELSE <<>>

Swap(how, pay, get, in, out) == <<[op |-> how, pay |-> pay, get |-> get, in |-> in, out |-> out]>>
Estimate(r) == IF r.buy THEN r.n * rate ELSE r.n \div rate
LeastOut(r) == IF r.kind = "fixed" THEN r.fixed ELSE SlippageSell(Estimate(r), Slippage)
MostIn(r) == IF r.kind = "max" THEN SlippageBuy(r.n, Slippage) ELSE r.n

\* The curve's buy and sell, paid in the mint given.
\* Faulty variant: the slippage is put on top of the input of a fixed output too.
CurveBuyGenerous(r, pay) ==
    CASE r.kind = "exact" -> Swap("exactIn", pay, "TOKEN", r.n, LeastOut(r))
      [] r.kind = "fixed" -> Swap("exactOut", pay, "TOKEN", SlippageBuy(r.n, Slippage), r.fixed)
      [] r.kind = "max" -> Swap("exactOut", pay, "TOKEN", MostIn(r), Estimate(r))
CurveBuy(r, pay) ==
    CASE r.kind = "exact" -> Swap("exactIn", pay, "TOKEN", r.n, LeastOut(r))
      [] r.kind = "fixed" -> Swap("exactOut", pay, "TOKEN", r.n, r.fixed)
      [] r.kind = "max" -> Swap("exactOut", pay, "TOKEN", MostIn(r), Estimate(r))
CurveSell(r, get) == Swap("exactIn", "TOKEN", get, r.n, LeastOut(r))

\* Input and output accounts around a swap paid from a token account.
\* Faulty variant: an account of wrapped SOL is closed when the caller named WSOL.
FundedNamed(r, mint, n, swap) ==
    Only(r.createIn, IF mint = "WSOL" THEN handle_wsol(n) ELSE Create(mint))
    \o Only(r.createOut, Create("TOKEN")) \o swap
    \o Only(r.closeIn /\ r.with = "WSOL", Close("WSOL"))
Funded(r, mint, n, swap) ==
    Only(r.createIn, IF mint = "WSOL" THEN handle_wsol(n) ELSE Create(mint))
    \o Only(r.createOut, Create("TOKEN")) \o swap
    \o Only(r.closeIn /\ mint = "WSOL", Close("WSOL"))
Received(r, mint, swap) ==
    Only(r.createOut, Create(mint)) \o swap
    \o Only(r.closeOut /\ mint = "WSOL", Close("WSOL"))
    \o Only(r.closeIn, Close("TOKEN"))

PumpFunV2Buy(r) ==
    IF ~Same(r.with, r.pool) THEN Refused
    ELSE Only(r.createOut, Create("TOKEN"))
         \o Funded([r EXCEPT !.createOut = FALSE], Mint(r.pool), MostIn(r), CurveBuy(r, Mint(r.pool)))
PumpFunV2Sell(r) ==
    IF ~Same(r.with, r.pool) THEN Refused
    ELSE Received([r EXCEPT !.closeOut = FALSE], Mint(r.pool), CurveSell(r, Mint(r.pool)))

\* Without a limit of the caller's the estimate must not empty the curve.
Graduates(r) == r.buy /\ r.kind # "fixed" /\ r.pool = "SOL" /\ Estimate(r) >= RealReserve
PumpFunV3(r) ==
    IF r.with # r.pool \/ Graduates(r) \/ LeastOut(r) = 0 \/ (r.kind = "max" /\ r.pool # "SOL")
    THEN Refused
    ELSE IF r.buy
         THEN Only(r.createOut, Create("TOKEN")) \o Only(r.createIn /\ r.pool # "SOL", Create(r.pool))
              \o CurveBuy(r, r.pool)
         ELSE Only(r.createOut /\ r.pool # "SOL", Create(r.pool)) \o CurveSell(r, r.pool)
              \o Only(r.closeIn, Close("TOKEN"))

PumpFunBuyPlan(r) ==
    IF r.version = "V3" THEN PumpFunV3(r)
    ELSE IF r.version = "V2" THEN PumpFunV2Buy(r)
    ELSE IF r.version = "V1" /\ (r.pool # "SOL" \/ r.with # "SOL") THEN Refused
    ELSE IF r.pool # "SOL" \/ r.with = "WSOL" THEN PumpFunV2Buy(r)
    ELSE IF r.with # "SOL" THEN Refused
    ELSE Only(r.createOut, Create("TOKEN")) \o CurveBuy(r, "SOL")
PumpFunSellPlan(r) ==
    IF r.version = "V3" THEN PumpFunV3(r)
    ELSE IF r.version = "V2" THEN PumpFunV2Sell(r)
    ELSE IF r.version = "V1" /\ (r.pool # "SOL" \/ r.with # "SOL") THEN Refused
    ELSE IF r.pool # "SOL" \/ r.with = "WSOL" THEN PumpFunV2Sell(r)
    ELSE IF r.with # "SOL" THEN Refused
    ELSE Only(r.createOut \/ r.closeOut, Create("WSOL")) \o CurveSell(r, "SOL")
                  \o Only(r.closeOut, Close("WSOL")) \o Only(r.closeIn, Close("TOKEN"))

PumpSwapBuyPlan(r) ==
    IF r.kind = "fixed" /\ r.fixed >= RealReserve THEN Refused
    ELSE Funded(r, r.pool, MostIn(r), CurveBuy(r, r.pool))
PumpSwapSellPlan(r) ==
    IF r.kind = "fixed" THEN Refused ELSE Received(r, r.pool, CurveSell(r, r.pool))

\* With a fixed output Raydium's programs take what it costs, up to n.
BaseSwap(r, pay, get) ==
    Swap(IF r.kind = "fixed" THEN "exactOut" ELSE "exactIn", pay, get, r.n, LeastOut(r))

CpmmBuyPlan(r) == Funded(r, r.pool, r.n, BaseSwap(r, r.pool, "TOKEN"))
CpmmSellPlan(r) == Received(r, r.pool, BaseSwap(r, "TOKEN", r.pool))

AmmV4BuyPlan(r) ==
    IF ~Same(r.with, r.pool) \/ (r.kind = "fixed" /\ r.fixed = 0) THEN Refused
    ELSE Funded(r, r.pool, r.n, BaseSwap(r, r.pool, "TOKEN"))
AmmV4SellPlan(r) ==
    IF ~Same(r.with, r.pool) \/ (r.kind = "fixed" /\ r.fixed = 0) THEN Refused
    ELSE Received(r, r.pool, BaseSwap(r, "TOKEN", r.pool))

\* A mode is chosen only where the builder is called; EXACT_OUT names the output
\* first and the most that is paid for it second.
SwapMode(r) == IF r.direct /\ r.version # "any" THEN r.version ELSE "PARTIAL_FILL"
DammV2Exchange(r, pay, get) ==
    Swap(CASE SwapMode(r) = "EXACT_IN" -> "rangedIn"
           [] SwapMode(r) = "EXACT_OUT" -> "rangedOut"
           [] OTHER -> "partial",
         pay, get, r.n, r.fixed)
DammV2Takes(r) ==
    Same(r.with, r.pool) /\ r.kind = "fixed" /\ SwapMode(r) \in {"EXACT_IN", "PARTIAL_FILL", "EXACT_OUT"}
DammV2BuyPlan(r) ==
    IF DammV2Takes(r) THEN Funded(r, r.pool, r.n, DammV2Exchange(r, r.pool, "TOKEN")) ELSE Refused
DammV2SellPlan(r) ==
    IF DammV2Takes(r) THEN Received(r, r.pool, DammV2Exchange(r, "TOKEN", r.pool)) ELSE Refused

\* An account of USD1 is never created.
BonkBuyPlan(r) ==
    Funded([r EXCEPT !.createIn = @ /\ r.pool = "WSOL"], r.pool, r.n,
           Swap("exactIn", r.pool, "TOKEN", r.n, LeastOut(r)))
BonkSellPlan(r) ==
    Received([r EXCEPT !.createOut = @ /\ r.pool = "WSOL"], r.pool, CurveSell(r, r.pool))

\* What the client's adapters pass on of a request: PumpSwap's drops the fixed
\* output, CPMM's the currency.  A builder that is called directly takes the
\* pool's currency; Bonk's adapter calls none.
PassedOn(r) == [r EXCEPT
    !.kind = IF r.venue = "pumpswap" /\ ~r.direct THEN "exact" ELSE @,
    !.with = IF r.venue = "cpmm" \/ (r.venue \in {"pumpswap", "bonk"} /\ r.direct) THEN r.pool ELSE @]
Unbuilt(r) == r.venue = "bonk" /\ ~r.direct

PumpFunAdapter(r) == IF r.buy THEN PumpFunBuyPlan(r) ELSE PumpFunSellPlan(r)
\* The mints of the trade are taken for the pool's base and quote: where they are
\* not, the vault of the creator is another and validate_accounts() refuses.
PumpSwapBuyAdapter(r) == Refused
PumpSwapSellAdapter(r) == IF r.with # r.pool THEN Refused ELSE PumpSwapSellPlan(r)
CpmmAdapter(r) == IF r.buy THEN CpmmBuyPlan(r) ELSE CpmmSellPlan(r)
AmmV4Adapter(r) == IF r.buy THEN AmmV4BuyPlan(r) ELSE AmmV4SellPlan(r)
DammV2Adapter(r) == IF r.buy THEN DammV2BuyPlan(r) ELSE DammV2SellPlan(r)
BonkAdapter(r) == <<>>

\* The plan of a request as it was passed on.  The venues with two ways in; a
\* direct caller names the builder himself.
Plan(r) ==
    CASE r.venue = "pumpfun"  -> PumpFunAdapter(r)
      [] r.venue = "cpmm"     -> CpmmAdapter(r)
      [] r.venue = "ammV4"   -> AmmV4Adapter(r)
      [] r.venue = "dammV2"  -> DammV2Adapter(r)
      [] r.venue = "pumpswap" -> IF r.direct THEN (IF r.buy THEN PumpSwapBuyPlan(r) ELSE PumpSwapSellPlan(r))
                                 ELSE IF r.buy THEN PumpSwapBuyAdapter(r) ELSE PumpSwapSellAdapter(r)
      [] r.venue = "bonk"     -> IF ~r.direct THEN BonkAdapter(r)
                                 ELSE IF r.buy THEN BonkBuyPlan(r) ELSE BonkSellPlan(r)

-----------------------------------------------------------------------------
(* Requests. *)

BuyFlags(policy) ==
    [createIn  |-> policy = "CREATE_MISSING",
     createOut |-> policy \notin {"HOT_PATH_MINIMAL", "ASSUME_PREPARED"},
     closeIn   |-> FALSE, closeOut |-> FALSE]
SellFlags(policy, with) ==
    [createIn  |-> FALSE,
     createOut |-> \/ policy = "CREATE_MISSING"
                   \/ policy = "AUTO" /\ with # "SOL",
     closeIn   |-> FALSE, closeOut |-> FALSE]
SimpleBuy(order, policy) == order @@ BuyFlags(policy)
SimpleSell(order, policy) == order @@ SellFlags(policy, order.with)

Idle == trade = NoTrade /\ wallet # NoWallet /\ trades < MaxTrades
Sends(r, instructions) ==
    trade' = IF instructions = Refused THEN [stage |-> "refused"]
             ELSE [stage |-> "planned", request |-> r, plan |-> instructions,
                   rate |-> rate, before |-> wallet]

Open ==
    /\ wallet = NoWallet
    /\ wallet' \in Wallets
    /\ UNCHANGED <<rate, trade, trades>>

Asks(r) ==
    /\ Idle
    /\ r.n > 0
    /\ Sends(r, Plan(PassedOn(r)))
    /\ UNCHANGED <<wallet, rate, trades>>
Buy == Idle /\ \E r \in Requests : r.buy /\ Asks(r)
Sell == Idle /\ \E r \in Requests : ~r.buy /\ Asks(r)
Part(r, percent) == [r EXCEPT !.n = (Balance(wallet, "TOKEN") * percent) \div 100]
ExactSells == {r \in Requests : ~r.buy /\ r.kind = "exact"}
SellByPercent ==
    /\ Idle
    /\ \E percent \in {50, 100} : \E r \in {Part(r, percent) : r \in ExactSells} : Asks(r)

OfWallet(name, n) == [venue |-> name, buy |-> FALSE, n |-> n]
Sums == {r.n : r \in Requests}
WrapSol == \E n \in Sums :
    Idle /\ Sends(OfWallet("wrap", n), handle_wsol(n)) /\ UNCHANGED <<wallet, rate, trades>>
CloseWsol ==
    Idle /\ Sends(OfWallet("close", 0), Close("WSOL")) /\ UNCHANGED <<wallet, rate, trades>>

MarketMoves ==
    /\ trade.stage = "planned" /\ trade.rate = rate
    /\ rate' \in Rates
    /\ UNCHANGED <<wallet, trade, trades>>

\* The transaction lands, whole, or is rejected, whole.
Land ==
    /\ trade.stage = "planned"
    /\ \E w \in {Run(wallet, trade.plan)} :
         /\ wallet' = IF w = Failed THEN wallet ELSE w
         /\ trade' = [trade EXCEPT !.stage = IF w = Failed THEN "rejected" ELSE "landed"]
    /\ trades' = trades + 1
    /\ UNCHANGED rate

\* The caller has its result.
Settle ==
    /\ trade.stage \in {"refused", "landed", "rejected"}
    /\ trade' = NoTrade
    /\ UNCHANGED <<wallet, rate, trades>>
\* Another wallet.
Leaves ==
    /\ wallet # NoWallet /\ trade = NoTrade
    /\ wallet' = NoWallet /\ trades' = 0
    /\ UNCHANGED <<rate, trade>>

PlanNext == Open \/ Buy \/ Sell \/ SellByPercent \/ WrapSol \/ CloseWsol \/ MarketMoves \/ Land
            \/ Settle \/ Leaves

PlanSpec == PlanInit /\ [][PlanNext]_planVars

-----------------------------------------------------------------------------
(* Properties. *)

Held(w, currency) ==
    IF currency \in {"SOL", "WSOL"} THEN w.SOL + Balance(w, "WSOL") ELSE Balance(w, currency)
Trades(stage) == trade.stage = stage /\ trade.request.venue \notin {"wrap", "close"}

\* What the request allows at the market it was made in.
Wanted(r, at) == IF r.kind = "fixed" THEN r.fixed
                 ELSE SlippageSell(IF r.buy THEN r.n * at ELSE r.n \div at, Slippage)

\* A trade that landed exchanged what its builder was asked for, within the limits
\* it was given, and touched no other currency, whichever accounts it opened,
\* funded and closed on the way and whatever they held before.  What was never
\* built changed nothing.
TradeDoesWhatWasAsked ==
    Trades("landed") =>
        LET r    == PassedOn(trade.request)
            b    == trade.before
            paid == IF r.buy THEN r.with ELSE "TOKEN"
            got  == IF r.buy THEN "TOKEN" ELSE r.with
        IN IF Unbuilt(r) THEN wallet = b
           ELSE /\ Held(b, paid) - Held(wallet, paid) <= MostIn(r)
                /\ Held(wallet, got) - Held(b, got) >= Wanted(r, trade.rate)
                /\ \A other \in {"SOL", "USDC", "TOKEN"} :
                     Held(wallet, other) # Held(b, other) => Mint(other) \in {Mint(paid), Mint(got)}

\* The accounts the request has prepared are enough: with the funds at hand and
\* the market where it was, nothing of the plan is rejected.
Funds(w, r) ==
    IF r.buy THEN (IF Same(r.with, "SOL") THEN w.SOL ELSE Balance(w, r.with)) >= MostIn(r)
    ELSE Balance(w, "TOKEN") >= r.n
\* The fixed output is to be had for the input, as much of it as the pool takes.
FilledOf(r) ==
    IF r.venue = "dammV2" THEN Least(r.n, PoolTakes[IF r.buy THEN r.pool ELSE "TOKEN"]) ELSE r.n
Fair(r) ==
    /\ r.kind = "fixed" => IF r.buy THEN CeilDiv(r.fixed, rate) <= FilledOf(r)
                           ELSE FilledOf(r) \div rate >= r.fixed
    /\ SwapMode(r) = "EXACT_IN" => FilledOf(r) = r.n
    /\ r.closeIn /\ ~r.buy => r.kind # "fixed" /\ Balance(wallet, "TOKEN") = r.n
\* Bonk's flags are about an account of wrapped SOL: one of USD1 is open already.
Prepared(w, r) ==
    /\ r.createOut /\ (r.buy => r.createIn)
    /\ r.venue = "bonk" /\ r.pool # "WSOL" => w[r.pool] # Closed
PreparedAccountsSuffice ==
    Trades("planned") =>
        LET r == PassedOn(trade.request)
        IN /\ rate = trade.rate
           /\ Funds(wallet, r) /\ Fair(r) /\ Prepared(wallet, r)
           => Run(wallet, trade.plan) # Failed

\* A trade asked to close the account of wrapped SOL leaves nothing wrapped that
\* was not wrapped before.  (A V2 sell of PumpFun does not close it at all.)
NothingLeftWrapped ==
    Trades("landed") =>
        LET r == trade.request
        IN /\ IF r.buy THEN r.closeIn ELSE r.closeOut
           /\ r.venue = "pumpfun" => r.buy
           => Balance(wallet, "WSOL") <= Balance(trade.before, "WSOL")

\* The accounts of a trade are there when it needs them and gone when it is over.
AccountsInOrder == PreparedAccountsSuffice /\ NothingLeftWrapped

\* What is claimed of a request as its caller made it, and does not hold.  A trade
\* that landed with a fixed output, in the currency of its pool, brought that output.
FixedOutputIsKept ==
    Trades("landed") =>
        LET r   == trade.request
            got == IF r.buy THEN "TOKEN" ELSE r.with
        IN r.kind = "fixed" /\ Same(r.with, r.pool)
           => Held(wallet, got) - Held(trade.before, got) >= r.fixed
=============================================================================
