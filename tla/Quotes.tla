-------------------------------- MODULE Quotes --------------------------------
(***************************************************************************)
(* A trader who asks the quotes of SwapMath about a market and swaps at     *)
(* exactly what they say, several times.  The market is the venue's: it     *)
(* takes dx and gives dy, nothing else.  A quote that is generous by one    *)
(* unit takes that unit from the pool, so such a swap would be refused on   *)
(* chain; a quote that asks for less than its inverse needs buys a trade    *)
(* that fails.                                                             *)
(***************************************************************************)
EXTENDS SwapMath, FiniteSets

CONSTANTS Markets,        \* the markets that may be met
          V3States,       \* the V3 curves that may be met
          Amounts,        \* the amounts asked about
          MaxSwaps        \* bound: swaps made in one market

\* The accounts the program reads: reserves are u64, fees basis points, and only
\* PumpSwap's virtual quote, an i128, may be negative.  `real` is kept for the
\* curves, which count what is left; for the others it is of no interest.
PumpFunCurves   == [venue : {"pumpfun"}, x : Nat, y : Nat, real : Nat, fee : Nat, slip : Nat]
CurveAccounts   == [venue : {"curve"}, x : Nat, y : Nat, real : Nat, start : Nat, fee : Nat]
PumpSwapPools   == [venue : {"pumpswap"}, x : Nat, y : Nat, real : Int, virtual : Int,
                    lp : Nat, fee : Nat, creator : Nat, slip : Nat]
PlainPools      == [venue : {"bonk", "amm v4", "cpmm", "damm v2"}, x : Nat, y : Nat, real : Int,
                    fee : Nat, slip : Nat]
V3Curves        == [venue : {"v3"}, complete : BOOLEAN, mayhem : BOOLEAN, x : Nat, y : Nat,
                    left : Nat, vault : Nat, funds : Nat, toll : Nat, fee : Nat, creator : Nat]
SwapMarkets     == PumpFunCurves \union CurveAccounts \union PumpSwapPools \union PlainPools

ASSUME QuotesAssumption ==
    /\ Markets \subseteq SwapMarkets
    /\ V3States \subseteq V3Curves
    /\ Amounts \subseteq 0 .. U64Max
    /\ MaxSwaps \in Nat

VARIABLES market,         \* the market, or NoMarket
          asked,          \* the question answered last: [how, of, amount]
          quote,          \* the answer
          swaps           \* swaps made in this market

quoteVars == <<market, asked, quote, swaps>>

NoMarket == [venue |-> "none"]
NoQuestion == [how |-> "nothing", of |-> NoMarket, amount |-> 0]

QuotesInit ==
    /\ market = NoMarket
    /\ asked = NoQuestion
    /\ quote = NoQuote
    /\ swaps = 0

Meet ==
    /\ market = NoMarket
    /\ market' \in Markets \union V3States
    /\ UNCHANGED <<asked, quote, swaps>>

\* The trader looks for another market.
Leave ==
    /\ market # NoMarket
    /\ market' = NoMarket /\ asked' = NoQuestion /\ quote' = NoQuote /\ swaps' = 0

Answered(how, amount, q) ==
    /\ q # NoQuote
    /\ swaps < MaxSwaps
    /\ asked' = [how |-> how, of |-> market, amount |-> amount]
    /\ quote' = q
    /\ swaps' = swaps + 1

\* The side x of the market is sold out of, or sold into.
BuysX(how, amount, q) ==
    /\ Answered(how, amount, q)
    /\ market' = [market EXCEPT !.x = @ - q.dy, !.y = @ + q.dx, !.real = @ - q.dy]
SellsX(how, amount, q) ==
    /\ Answered(how, amount, q)
    /\ market' = [market EXCEPT !.x = @ + q.dx, !.y = @ - q.dy, !.real = @ + q.dx]

OnPumpFun == \E n \in Amounts :
    /\ market.venue = "pumpfun"
    /\ \/ BuysX("curve buy", n, PumpFunBuy(market, n))
       \/ SellsX("curve sell", n, PumpFunSell(market, n))

\* The program sells what is left and pays back what was paid in.
OnCurveAccount == \E n \in Amounts :
    /\ market.venue = "curve"
    /\ \/ BuysX("price", n, CurvePrice(market, n))
       \/ n <= market.real /\ BuysX("buy out", n, CurveBuyOut(market, n))
       \/ /\ market.y - CurveSellPrice(market, n).dy >= market.start
          /\ SellsX("sell price", n, CurveSellPrice(market, n))

OnPumpSwap == \E n \in Amounts :
    /\ market.venue = "pumpswap"
    /\ \/ BuysX("base", n, PumpSwapBuyBase(market, n))
       \/ BuysX("budget", n, PumpSwapBuyQuote(market, n))
       \/ SellsX("sell base", n, PumpSwapSellBase(market, n))
       \/ SellsX("proceeds", n, PumpSwapSellQuote(market, n))

OnBonk == \E n \in Amounts :
    /\ market.venue = "bonk"
    /\ \/ BuysX("buy", n, BonkBuy(market, n))
       \/ SellsX("sell", n, BonkSell(market, n))
       \/ SellsX("out", n, BonkAmountOut(market, n))
       \/ SellsX("in", n, BonkAmountIn(market, n))

OnAmmV4 == \E n \in Amounts :
    /\ market.venue = "amm v4"
    /\ \/ SellsX("swap", n, AmmV4Swap(market, n))
       \/ SellsX("plain", n, AmmV4PlainSwap(market, n))
       \/ SellsX("out", n, AmmV4AmountOut(market, n))
       \/ SellsX("in", n, AmmV4AmountIn(market, n))

OnCpmm == \E n \in Amounts :
    /\ market.venue = "cpmm"
    /\ \/ SellsX("swap", n, CpmmSwap(market, n))
       \/ SellsX("compute", n, CpmmComputeSwap(market, n))
       \/ SellsX("plain", n, CpmmPlainSwap(market, n))
       \/ SellsX("out", n, CpmmAmountOut(market, n))
       \/ SellsX("in", n, CpmmAmountIn(market, n))

OnDammV2 == \E n \in Amounts :
    /\ market.venue = "damm v2"
    /\ SellsX("plain", n, DammV2Swap(market, n))

\* V3's curve and pool are both asked about, not swapped with.
OnV3(how, n, q) ==
    /\ market.venue = "v3"
    /\ q # V3None
    /\ asked' = [how |-> how, of |-> market, amount |-> n]
    /\ quote' = q
    /\ UNCHANGED <<market, swaps>>
OnPumpV3 == \E n \in Amounts :
    \/ OnV3("v3 budget", n, V3ExactIn(market, n))
    \/ \E partial \in BOOLEAN : OnV3("v3 amount", n, V3ExactOut(market, n, partial))

QuotesNext == Meet \/ Leave \/ OnPumpFun \/ OnCurveAccount \/ OnPumpSwap \/ OnBonk \/ OnAmmV4
              \/ OnCpmm \/ OnDammV2 \/ OnPumpV3
QuotesSpec == QuotesInit /\ [][QuotesNext]_quoteVars

-----------------------------------------------------------------------------
(* Properties. *)

\* What the reserves are worth to the venue's curve.
Product(m) == IF m.venue = "pumpswap" THEN m.x * EffectiveQuote(m) ELSE m.x * m.y

\* No sequence of swaps at quoted amounts lowers the product of a market's
\* reserves or takes more than there is: every rounding of these quotes is the
\* venue's.  (The legacy helpers get_amount_in() and get_amount_out() of
\* calc/bonk.py, which no quote uses, round the other way.)
PoolNeverLoses ==
    [][market'.venue = market.venue /\ market # NoMarket =>
         /\ Product(market') >= Product(market)
         /\ market.venue # "v3" => market'.x >= 0 /\ market'.y >= 0
         /\ market.venue \in {"pumpfun", "curve"} => market'.real >= 0
      ]_market

\* The V3 legs one by one: what the curve and the pool it becomes are left with.
V3PoolsNeverLose ==
    asked.how \in {"v3 budget", "v3 amount"} =>
        LET c == asked.of
        IN /\ (c.x - quote.curveBase) * (c.y + quote.curveQuote) >= c.x * c.y
           /\ quote.poolBase > 0 =>
                LET b == V3PoolBase(c)
                    q == V3PoolQuote(c, quote.curveQuote)
                IN (b - quote.poolBase) * (q + quote.poolQuote) >= b * q

\* A price with its fee is a u64.
Fits(price, fee) == price + (price * fee) \div 10000 <= U64Max

\* A budget covers what it is said to buy: asking the venue's other quote for
\* that many units costs no more; an amount to pay does buy the amount asked; an
\* amount to sell brings the proceeds asked for but for the rounding of the fees,
\* two units (sell_quote_input_internal_with_fees rounds the sum of the rates).
\* Only the price of buying out a curve may wrap around: get_buy_out_price cuts it
\* to 64 bits.
BudgetSuffices ==
    LET m == asked.of
        n == asked.amount
    IN CASE asked.how = "budget" ->
                LET q == PumpSwapBuyBase(m, quote.got)
                IN quote.got > 0 => q # NoQuote /\ q.paid <= n
         [] asked.how = "proceeds" ->
                LET q == PumpSwapSellBase(m, quote.paid)
                IN q # NoQuote => q.got + 2 >= n
         [] asked.how = "price" ->
                LET q == CurveBuyOut(m, quote.got)
                IN m.fee = 0 /\ m.y - m.start <= quote.got => q.paid <= n
         [] asked.how = "buy out" ->
                Fits(quote.dx, m.fee) => quote.paid >= quote.dx
         [] asked.how = "in" -> FeeOut(m, quote.paid).got >= n
         [] asked.how = "v3 budget" ->
                /\ quote.cost <= n
                /\ V3ExactOut(m, quote.curveBase + quote.poolBase, FALSE).cost <= n
         [] OTHER -> TRUE

\* What every answered question leaves behind.
QuotesHold == V3PoolsNeverLose /\ BudgetSuffices
=============================================================================
