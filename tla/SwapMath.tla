------------------------------- MODULE SwapMath -------------------------------
(***************************************************************************)
(* The integer arithmetic of src/src/calc/ and of the swap amounts of       *)
(* src/src/instruction/: what a venue pays for an amount, what it asks for  *)
(* one, and the bound a transaction carries.                                *)
(*                                                                          *)
(* A market is a record of the reserves a quote reads; a quote is a record  *)
(*   paid, got         what the trader gives and receives, fees included    *)
(*   bound             the limit that goes into the instruction             *)
(*   x, y, dx, dy      reserves of the side paid into and of the side paid  *)
(*                     out, and what the swap adds to and takes from them   *)
(* NoQuote stands for a refusal: ValueError, or a result of nothing.  A     *)
(* u64 is a number up to the constant U64Max.  Operators introduced as a    *)
(* faulty variant are used by nothing: each is a mistake the properties     *)
(* catch.                                                                   *)
(***************************************************************************)
EXTENDS Integers

CONSTANT U64Max

ASSUME WidthIsNat == U64Max \in Nat

Least(a, b) == IF a < b THEN a ELSE b
Most(a, b)  == IF a > b THEN a ELSE b

Quote(paid, got, bound, x, y, dx, dy) ==
    [paid |-> paid, got |-> got, bound |-> bound, x |-> x, y |-> y, dx |-> dx, dy |-> dy]
NoQuote == Quote(0, 0, 0, 0, 0, 0, 0)

-----------------------------------------------------------------------------
(* Fees and slippage. *)

CeilDiv(a, b) == (a + b - 1) \div b
FeeOf(n, bps) == CeilDiv(n * bps, 10000)
Clamped(bps) == Least(bps, 9999)

SlippageBuy(n, bps)  == Least(U64Max, n + (n * Clamped(bps)) \div 10000)
SlippageSell(n, bps) == n - (n * Clamped(bps)) \div 10000
PumpSwapMinimum(n, bps) == (n * (10000 - Clamped(bps))) \div 10000

\* What n buys out of y when it joins x and their product is kept.
ProductOut(n, x, y) == IF x + n = 0 THEN 0 ELSE (n * y) \div (x + n)

-----------------------------------------------------------------------------
(* PumpFun: the bonding curve.  m.x is the token side, m.y the quote side,  *)
(* both virtual; m.real is what is left to sell.                            *)

PumpFunBuy(m, amount) ==
    LET net == Most(0, (amount * 10000) \div (10000 + m.fee) - 1)
        out == Least(ProductOut(net, m.y, m.x), m.real)
    IN IF amount = 0 \/ m.x = 0 \/ net = 0 THEN NoQuote
       ELSE Quote(amount, out, SlippageSell(out, m.slip), m.y, m.x, net, out)

PumpFunSell(m, amount) ==
    LET gross == ProductOut(amount, m.x, m.y)
        out   == Most(0, gross - FeeOf(gross, m.fee))
    IN IF amount = 0 \/ m.x = 0 THEN NoQuote
       ELSE Quote(amount, out, SlippageSell(out, m.slip), m.x, m.y, amount, gross)

\* The account's own prices: before any fee of the buyer's, the seller's rounded
\* down.  m.start is the virtual quote that nobody paid in.
CurvePrice(m, amount) ==
    LET kept == (m.x * m.y) \div (m.y + amount) + 1
        out  == Least(m.x - kept, m.real)
    IN IF amount = 0 \/ kept > m.x THEN NoQuote
       ELSE Quote(amount, out, out, m.y, m.x, amount, out)
CurveSellPrice(m, amount) ==
    LET gross == (amount * m.y) \div (m.x + amount)
        out   == gross - (gross * m.fee) \div 10000
    IN IF amount = 0 \/ out < 0 THEN NoQuote
       ELSE Quote(amount, out, out, m.x, m.y, amount, gross)
\* Never for fewer tokens than the curve holds in quotes.
CurveBuyOut(m, amount) ==
    LET tokens == Most(amount, m.y - m.start)
        value  == (tokens * m.y) \div (m.x - tokens) + 1
    IN IF tokens >= m.x THEN NoQuote
       ELSE Quote((value + (value * m.fee) \div 10000) % (U64Max + 1), amount, amount,
                  m.y, m.x, value, amount)

-----------------------------------------------------------------------------
(* PumpSwap: base m.x, quote vault m.y with virtual quote m.virtual on top, *)
(* and three fees rounded up one by one.                                    *)

EffectiveQuote(m) == m.y + m.virtual
Depleted(m) == m.x = 0 \/ m.y = 0 \/ EffectiveQuote(m) \notin 1 .. U64Max
PumpSwapFees(n, m) == FeeOf(n, m.lp) + FeeOf(n, m.fee) + FeeOf(n, m.creator)

PumpSwapBuyBase(m, base) ==
    LET raw   == CeilDiv(EffectiveQuote(m) * base, m.x - base)
        total == raw + PumpSwapFees(raw, m)
    IN IF Depleted(m) \/ base >= m.x \/ total > U64Max THEN NoQuote
       ELSE Quote(total, base, SlippageBuy(total, m.slip), EffectiveQuote(m), m.x,
                  raw + FeeOf(raw, m.lp), base)

\* Faulty variant: the fees' rounding is not taken back out of the budget.
PumpSwapBuyQuoteUncorrected(m, quote) ==
    LET net == (quote * 10000) \div (10000 + m.lp + m.fee + m.creator)
    IN IF Depleted(m) \/ net <= 0 THEN NoQuote
       ELSE LET out == ProductOut(net, EffectiveQuote(m), m.x)
            IN Quote(quote, out, PumpSwapMinimum(out, m.slip), EffectiveQuote(m), m.x,
                     net + FeeOf(net, m.lp), out)
PumpSwapBuyQuote(m, quote) ==
    LET first == (quote * 10000) \div (10000 + m.lp + m.fee + m.creator)
        net   == first - Most(0, first + PumpSwapFees(first, m) - quote)
    IN IF Depleted(m) \/ net <= 0 THEN NoQuote
       ELSE LET out == ProductOut(net - 1, EffectiveQuote(m), m.x)
            IN Quote(quote, out, PumpSwapMinimum(out, m.slip), EffectiveQuote(m), m.x,
                     net + FeeOf(net, m.lp), out)

PumpSwapSellBase(m, base) ==
    LET raw  == ProductOut(base, m.x, EffectiveQuote(m))
        fees == PumpSwapFees(raw, m)
    IN IF Depleted(m) \/ fees > raw \/ raw - FeeOf(raw, m.lp) > m.y THEN NoQuote
       ELSE Quote(base, raw - fees, PumpSwapMinimum(raw - fees, m.slip),
                  m.x, EffectiveQuote(m), base, raw - FeeOf(raw, m.lp))

PumpSwapSellQuote(m, quote) ==
    LET kept == 10000 - (m.lp + m.fee + m.creator)
        raw  == CeilDiv(quote * 10000, kept)
    IN IF Depleted(m) \/ quote > m.y \/ kept <= 0 THEN NoQuote
       ELSE IF raw - FeeOf(raw, m.lp) > m.y \/ raw >= EffectiveQuote(m) THEN NoQuote
       ELSE LET base == CeilDiv(m.x * raw, EffectiveQuote(m) - raw)
            IN Quote(base, quote, PumpSwapMinimum(quote, m.slip),
                     m.x, EffectiveQuote(m), base, raw - FeeOf(raw, m.lp))

-----------------------------------------------------------------------------
(* Bonk: platform and protocol fee, each rounded down. *)

BonkNet(n) == n - (n * 25) \div 10000 - (n * 100) \div 10000

BonkBuy(m, amount) ==
    LET net == BonkNet(amount)
        out == ProductOut(net, m.y, m.x)
    IN Quote(amount, out, out - (out * Clamped(m.slip)) \div 10000, m.y, m.x, net, out)

BonkSell(m, amount) ==
    LET raw == ProductOut(amount, m.x, m.y)
        out == BonkNet(raw)
    IN Quote(amount, out, out - (out * Clamped(m.slip)) \div 10000, m.x, m.y, amount, raw)

-----------------------------------------------------------------------------
(* Constant product with a fee on the way in, forwards and backwards: 25 in *)
(* 10000 for Bonk and the AMM, 2500 in 1000000 for the CPMM.                *)

AfterFee(n) == n - FeeOf(n, 25)
FeeOut(m, amount) ==
    IF amount = 0 \/ m.x = 0 \/ m.y = 0 THEN NoQuote
    ELSE LET net == AfterFee(amount)
             out == ProductOut(net, m.x, m.y)
         IN Quote(amount, out, SlippageSell(out, m.slip), m.x, m.y, net, out)
\* Faulty variant: the amount to pay is rounded down.
FeeInFloored(m, out) ==
    IF out = 0 \/ m.x = 0 \/ m.y = 0 \/ out >= m.y THEN NoQuote
    ELSE LET net == (m.x * out) \div (m.y - out)
             paid == (net * 10000) \div 9975
         IN Quote(paid, out, SlippageBuy(paid, m.slip), m.x, m.y, net, out)
FeeIn(m, out) ==
    IF out = 0 \/ m.x = 0 \/ m.y = 0 \/ out >= m.y THEN NoQuote
    ELSE LET net == CeilDiv(m.x * out, m.y - out)
             paid == CeilDiv(net * 10000, 9975)
         IN Quote(paid, out, SlippageBuy(paid, m.slip), m.x, m.y, net, out)

BonkAmountOut(m, amount)  == FeeOut(m, amount)
BonkAmountIn(m, out)      == FeeIn(m, out)
AmmV4AmountOut(m, amount) == FeeOut(m, amount)
AmmV4AmountIn(m, out)     == FeeIn(m, out)
CpmmAmountOut(m, amount)  == FeeOut(m, amount)
CpmmAmountIn(m, out)      == FeeIn(m, out)

\* The builders: the AMM's own fee; the CPMM's rate and the clamped slippage.
AmmV4Swap(m, amount) ==
    IF m.x = 0 \/ m.y = 0 \/ amount = 0 \/ m.fee >= 10000 THEN NoQuote
    ELSE LET net == amount - FeeOf(amount, m.fee)
             out == ProductOut(net, m.x, m.y)
         IN Quote(amount, out, PumpSwapMinimum(out, m.slip), m.x, m.y, net, out)
CpmmSwap(m, amount) ==
    LET net == (amount * 9975) \div 10000
        out == ProductOut(net, m.x, m.y)
    IN Quote(amount, out, (out * (10000 - m.slip)) \div 10000, m.x, m.y, net, out)
CpmmComputeSwap(m, amount) ==
    IF m.x = 0 \/ m.y = 0 THEN NoQuote
    ELSE LET net == AfterFee(amount)
             out == ProductOut(net, m.x, m.y)
         IN Quote(amount, out, (out * (10000 - m.slip)) \div 10000, m.x, m.y, net, out)

\* Without a fee: the estimates of calc/raydium_cpmm.py, raydium_amm_v4.py and
\* meteora_damm_v2.py.
PlainSwap(m, amount) ==
    IF amount = 0 \/ m.x = 0 THEN NoQuote
    ELSE LET out == ProductOut(amount, m.x, m.y)
         IN Quote(amount, out, SlippageSell(out, m.slip), m.x, m.y, amount, out)
CpmmPlainSwap(m, amount)  == PlainSwap(m, amount)
AmmV4PlainSwap(m, amount) == PlainSwap(m, amount)
DammV2Swap(m, amount)     == PlainSwap(m, amount)

-----------------------------------------------------------------------------
(* PumpFun V3: the curve until its base is sold, then the pool it becomes.  *)
(* c: x, y the virtual reserves, left what the curve still sells, vault its *)
(* base balance, funds its quote balance, toll the migration fee.           *)

V3Invalid(c) == c.complete \/ c.x <= c.left \/ c.y = 0 \/ c.fee + c.creator > 10000
V3Fees(n, c) == FeeOf(n, c.fee) + FeeOf(n, c.creator)
V3Net(budget, c) ==
    LET n == (budget * 10000) \div (10000 + c.fee + c.creator)
    IN n - Most(0, n + V3Fees(n, c) - budget)
V3CurveCost(n, c) == IF n = 0 THEN 0 ELSE (n * c.y) \div (c.x - n) + 1
V3PoolBase(c) == c.vault - c.left
V3PoolQuote(c, curveQuote) == c.funds + curveQuote - c.toll
V3NoPool(c, curveQuote) == V3PoolBase(c) <= 0 \/ V3PoolQuote(c, curveQuote) <= 0

V3None == [curveBase |-> 0, curveQuote |-> 0, poolBase |-> 0, poolQuote |-> 0, cost |-> 0]
V3Result(cb, cq, pb, pq, c) ==
    LET cost == cq + pq + V3Fees(cq, c) + V3Fees(pq, c)
    IN IF cb + pb > U64Max \/ cost > U64Max THEN V3None
       ELSE [curveBase |-> cb, curveQuote |-> cq, poolBase |-> pb, poolQuote |-> pq, cost |-> cost]

V3ExactOut(c, amount, partial) ==
    LET cb == Least(amount, c.left)
        cq == V3CurveCost(cb, c)
        pb == amount - cb
    IN IF V3Invalid(c) THEN V3None
       ELSE IF amount <= c.left \/ (c.mayhem /\ partial) THEN V3Result(cb, cq, 0, 0, c)
       ELSE IF c.mayhem \/ V3NoPool(c, cq) THEN V3None
       ELSE IF pb >= V3PoolBase(c) THEN V3None
       ELSE V3Result(cb, cq, pb, CeilDiv(V3PoolQuote(c, cq) * pb, V3PoolBase(c) - pb), c)

V3ExactIn(c, budget) ==
    LET net    == V3Net(budget, c)
        tokens == ((net - 1) * c.x) \div (c.y + net - 1)
        cb     == Least(tokens, c.left)
        cq     == V3CurveCost(cb, c)
        left   == budget - cq - V3Fees(cq, c)
        leg    == V3Net(left, c)
        pb     == ((leg - 1) * V3PoolBase(c)) \div (V3PoolQuote(c, cq) + leg - 1)
    IN IF V3Invalid(c) \/ net <= 1 THEN V3None
       ELSE IF tokens <= c.left \/ c.mayhem \/ left <= 0 \/ leg <= 1
            THEN V3Result(cb, cq, 0, 0, c)
       ELSE IF V3NoPool(c, cq) THEN V3None
       ELSE IF pb = 0 THEN V3Result(cb, cq, 0, 0, c)
       ELSE V3Result(cb, cq, pb, leg, c)
=============================================================================
