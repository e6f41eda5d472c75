------------------------------ MODULE CachedLegs ------------------------------
(***************************************************************************)
(* What one pool of a route gives for an exact input, as it is quoted from  *)
(* a frozen snapshot: the validated states of trading/cached_*.py and of    *)
(* trading/subscription_cache.py, and their exact-in quotes.                *)
(*                                                                          *)
(* A pool is [venue, base, quote, x, y, ...]: its two mints, its reserves   *)
(* net of what it owes (vault less fees or PnL), and what its venue needs   *)
(* besides.  Layouts, owners and addresses of accounts are left out; what   *)
(* the validation says of the state they hold is not.                       *)
(***************************************************************************)
EXTENDS SwapMath, Sequences

CONSTANTS
    MintFee,      \* [mint -> [bps, most]]: Token-2022 transfer fee of this epoch
    CurveFees,    \* PumpFun's fees: [tiers, stable, flat, exotic]
    Usdc,         \* the stable mint
    FullSupply,   \* the supply PumpFun assumes when it selects a sale's fees
    Wsol          \* the mint of wrapped SOL

NoLeg == [used |-> 0, estimated |-> 0, minimum |-> 0]
Limited(used, out, least) ==
    IF used <= 0 \/ out <= 0 \/ least <= 0 THEN NoLeg
    ELSE [used |-> used, estimated |-> out, minimum |-> least]
Leg(used, out, slip) == Limited(used, out, (out * (10000 - slip)) \div 10000)

(* TokenTransferFee.calculate(); of a mint without the extension: nothing. *)
TransferFee(mint, n) == Least(MintFee[mint].most, FeeOf(n, MintFee[mint].bps))
AddedFee(mint, n) ==
    LET f == MintFee[mint]
    IN IF f.bps = 0 \/ n = 0 THEN 0
       ELSE Least(f.most, IF f.bps = 10000 THEN f.most ELSE CeilDiv(n * f.bps, 10000 - f.bps))
Untaxed(p) == \A m \in {p.base, p.quote} : MintFee[m].bps = 0 \/ MintFee[m].most = 0
PerMillion(n, rate) == CeilDiv(n * rate, 1000000)

(* PumpFun's fees follow the market cap by a schedule, one of its own for USDC *)
(* when there is one; with any other quote they are flat.                   *)
TierOf(schedule, cap) ==
    schedule[CHOOSE i \in DOMAIN schedule :
                 /\ i = 1 \/ schedule[i].from <= cap
                 /\ \A j \in i + 1 .. Len(schedule) : schedule[j].from > cap]
CurveFeesAt(p, cap) ==
    LET rates == IF p.quote = Usdc /\ CurveFees.stable # <<>> THEN TierOf(CurveFees.stable, cap)
                 ELSE IF p.quote \in {Wsol, Usdc} THEN TierOf(CurveFees.tiers, cap)
                 ELSE IF CurveFees.exotic.lp + CurveFees.exotic.protocol + CurveFees.exotic.creator > 0
                 THEN CurveFees.exotic ELSE CurveFees.flat
    IN [rates EXCEPT !.creator = IF p.override > 0 THEN p.override ELSE @]

(* Of a sale, those of a full supply, unless the curve is in mayhem mode.   *)
LegFees(p, buy) ==
    CurveFeesAt(p, ((IF buy \/ p.mayhem THEN p.supply ELSE FullSupply) * p.y) \div p.x)
PumpFunOpen(p) ==
    /\ ~p.complete /\ p.x > 0 /\ p.y > 0 /\ Untaxed(p)
    /\ \A buy \in BOOLEAN : LegFees(p, buy).protocol + LegFees(p, buy).creator <= 10000
PumpFunLeg(p, n, buy, slip) ==
    LET fees    == LegFees(p, buy)
        creator == IF p.creatorSet THEN fees.creator ELSE 0
        net     == ((n - 1) * 10000) \div (10000 + fees.protocol + creator)
        gross   == ProductOut(n, p.x, p.y)
    IN IF ~PumpFunOpen(p) THEN NoLeg
       ELSE IF buy THEN Leg(n, Least(ProductOut(net, p.y, p.x), p.real), slip)
       ELSE Leg(n, gross - FeeOf(gross, fees.protocol) - FeeOf(gross, creator), slip)

PumpSwapLeg(p, n, buy, slip) ==
    LET q == IF buy THEN PumpSwapBuyQuote(p, n) ELSE PumpSwapSellBase(p, n)
    IN IF (IF buy THEN "buy" ELSE "sell") \in p.disabled \/ p.cashback \/ ~Untaxed(p) THEN NoLeg
       ELSE Leg(n, q.got, slip)

(* Only the classic token program; the fee of the pool rounded up. *)
AmmV4Leg(p, n, sell, slip) ==
    LET net == n - FeeOf(n, p.fee)
    IN IF ~p.open \/ p.x <= 0 \/ p.y <= 0 \/ p.fee >= 10000 \/ ~Untaxed(p) THEN NoLeg
       ELSE Leg(n, IF sell THEN ProductOut(net, p.x, p.y) ELSE ProductOut(net, p.y, p.x), slip)

CpmmOpen(p) == p.open /\ p.x > 0 /\ p.y > 0 /\ p.trade + p.creator < 1000000
(* The creator's fee is taken from one of the two sides, p.on: 0 the input, *)
(* 1 the base, 2 the quote.                                                 *)
CpmmLeg(p, n, sell, slip) ==
    LET in  == IF sell THEN p.base ELSE p.quote
        out == IF sell THEN p.quote ELSE p.base
        x   == IF sell THEN p.x ELSE p.y
        y   == IF sell THEN p.y ELSE p.x
        onInput == p.on = 0 \/ p.on = (IF sell THEN 1 ELSE 2)
        net     == n - TransferFee(in, n)
        kept    == net - PerMillion(net, p.trade + (IF onInput THEN p.creator ELSE 0))
        swapped == ProductOut(kept, x, y)
        gross   == swapped - (IF onInput THEN 0 ELSE PerMillion(swapped, p.creator))
    IN IF ~CpmmOpen(p) THEN NoLeg
       ELSE Leg(n, gross - TransferFee(out, gross), slip)

(* What the curve does not sell any more before it graduates is not paid.   *)
(* p.x is what it holds, p.left what it still sells, p.rate all its fees.   *)
LaunchLabBuy(p, n, slip) ==
    LET vault    == n - TransferFee(p.quote, n)
        net      == vault - PerMillion(vault, p.rate)
        out      == ProductOut(net, p.y, p.x)
        required == CeilDiv(CeilDiv(p.y * p.left, p.x - p.left) * 1000000, 1000000 - p.rate)
        paid     == IF out <= p.left THEN n ELSE Least(required + AddedFee(p.quote, required), n)
        sold     == Least(out, p.left)
        received == sold - TransferFee(p.base, sold)
    IN IF out > p.left /\ p.x <= p.left THEN NoLeg
       ELSE Limited(paid, received, SlippageSell(received, slip))
LaunchLabSell(p, n, slip) ==
    LET gross == ProductOut(n - TransferFee(p.base, n), p.x, p.y)
        vault == gross - PerMillion(gross, p.rate)
        received == vault - TransferFee(p.quote, vault)
    IN Limited(n, received, SlippageSell(received, slip))
LaunchLabOpen(p) == p.open /\ p.x + p.y > 0 /\ p.rate < 1000000
LaunchLabLeg(p, n, buy, slip) ==
    IF ~LaunchLabOpen(p) THEN NoLeg
    ELSE IF buy THEN LaunchLabBuy(p, n, slip) ELSE LaunchLabSell(p, n, slip)

(* A curve with native quote is quoted where the caller settles in SOL. *)
NativeCurve(p) == p.venue = "pumpfun" /\ p.quote = Wsol
LegQuote(p, n, in, slip) ==
    LET buy == in = p.quote
    IN CASE n <= 0 \/ in \notin {p.base, p.quote} -> NoLeg
         [] p.venue = "pumpfun"   -> PumpFunLeg(p, n, buy, slip)
         [] p.venue = "pumpswap"  -> PumpSwapLeg(p, n, buy, slip)
         [] p.venue = "amm v4"    -> AmmV4Leg(p, n, ~buy, slip)
         [] p.venue = "cpmm"      -> CpmmLeg(p, n, ~buy, slip)
         [] p.venue = "launchlab" -> LaunchLabLeg(p, n, buy, slip)
         [] OTHER -> NoLeg
=============================================================================
