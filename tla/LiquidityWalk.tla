----------------------------- MODULE LiquidityWalk -----------------------------
(***************************************************************************)
(* The quotes that walk through liquidity one price range after the other:  *)
(* clmm_swap_exact_in (calc/clmm.py), whirlpool_swap_exact_in               *)
(* (calc/whirlpool.py) and dlmm_swap_exact_in (calc/dlmm.py).  One step of  *)
(* this module is one turn of their loops; when a walk ends its result is   *)
(* what the pool becomes, and another walk may start from there.            *)
(*                                                                          *)
(* Prices are fixed-point numbers with the unit Q (2^64 in the code), the   *)
(* square roots of the ticks' prices are the table SqrtPrice, fees are in   *)
(* parts of FeeUnit.  A pool is a record:                                   *)
(*   price, tick, liquidity, spacing, fee                                   *)
(*   net, gross, orders   per tick: liquidity to add when it is crossed     *)
(*                        upwards, whether anyone uses it, limit orders     *)
(*   feeOn                0: of the input, 1 or 2: of one token             *)
(*   dynamic              the volatility fee, see Volatile                  *)
(*   lower, upper         the ticks a Whirlpool's arrays cover              *)
(* A DLMM pool has bins instead of ticks, in arrays that may not be loaded.  *)
(***************************************************************************)
EXTENDS SwapMath, Sequences
LOCAL INSTANCE FiniteSetsExt

CONSTANTS Q, MinTick, MaxTick, SqrtPrice, FeeUnit, FeeCap, Damping,
          StepBudget,     \* turns of the loop, 8192 in the code
          ArraySize,      \* bins to a DLMM array, 70 in the code
          ClmmPools, Whirlpools, DlmmPools, WalkAmounts,
          MaxWalks        \* bound: walks through one pool

VARIABLES walkPool,       \* the pool, or NoPool
          walk,           \* the walk under way or ended last
          walked          \* the walks that ended: [down, paid, got]

walkVars == <<walkPool, walk, walked>>

NoPool == [kind |-> "none"]
NoWalk == [stage |-> "idle"]

WalkInit == walkPool = NoPool /\ walk = NoWalk /\ walked = <<>>

Between(low, n, high) == Most(low, Least(n, high))
GroupOf(tick, size) == tick \div size

\* The search for the tick of a price.
Search[lo \in MinTick .. MaxTick, hi \in MinTick .. MaxTick, price \in Nat] ==
    LET middle == (lo + hi + 1) \div 2
    IN IF lo >= hi THEN lo
       ELSE IF SqrtPrice[middle] <= price THEN Search[middle, hi, price]
       ELSE Search[lo, middle - 1, price]
TickAt(price) == Search[MinTick, MaxTick, price]

\* What lies between two prices, in one token or the other.
Delta(a, b, liquidity, token0, roundUp) ==
    LET low   == Least(a, b)
        high  == Most(a, b)
        above == liquidity * (high - low) * (IF token0 THEN Q ELSE 1)
        below == IF token0 THEN high * low ELSE Q
    IN IF roundUp THEN CeilDiv(above, below) ELSE above \div below

-----------------------------------------------------------------------------
(* clmm_swap_step: towards target, as far as remaining goes. *)

Reached(current, liquidity, net, down) ==
    IF down THEN CeilDiv(liquidity * Q * current, liquidity * Q + net * current)
    ELSE current + (net * Q) \div liquidity

SwapStep(current, target, liquidity, remaining, fee, down) ==
    LET net    == (remaining * (FeeUnit - fee)) \div FeeUnit
        needed == Delta(current, target, liquidity, down, TRUE)
        next   == IF needed <= net THEN target ELSE Reached(current, liquidity, net, down)
        in     == IF next = target THEN needed ELSE Delta(current, next, liquidity, down, TRUE)
    IN [price |-> next,
        in    |-> in,
        out   |-> Delta(current, next, liquidity, ~down, FALSE),
        fee   |-> IF next = target THEN CeilDiv(in * fee, FeeUnit - fee) ELSE remaining - in]

-----------------------------------------------------------------------------
(* The start of a walk. *)

\* The reference of the volatility fee decays with the time since it was set.
\* d: on, reference, volatility, maximum, control, reduction, age of the
\* reference: "fresh", "filtered" or "decayed".
Volatile(d, tick, size) ==
    [reference |-> IF d.age = "fresh" THEN d.reference ELSE GroupOf(tick, size),
     held |-> CASE d.age = "fresh" -> d.heldBefore
                [] d.age = "filtered" -> (d.volatility * d.reduction) \div 10000
                [] OTHER -> 0]

Started(p, amount, limit, down) ==
    [stage |-> "walking", down |-> down, amount |-> amount, limit |-> limit, turn |-> 0,
     price |-> p.price, tick |-> p.tick, liquidity |-> p.liquidity, orders |-> p.orders,
     remaining |-> amount, output |-> 0, group |-> GroupOf(p.tick, p.spacing),
     volatile |-> Volatile(p.dynamic, p.tick, p.spacing)]

Behind(a, b, down) == IF down THEN a < b ELSE a > b
Nearer(a, b, down) == IF down THEN Most(a, b) ELSE Least(a, b)
PriceOfGroup(g, size) == SqrtPrice[Between(MinTick, g * size, MaxTick)]

FindPool ==
    /\ walkPool = NoPool
    /\ walkPool' \in ClmmPools \union Whirlpools \union DlmmPools
    /\ UNCHANGED <<walk, walked>>
LosePool ==
    /\ walkPool # NoPool
    /\ walk.stage # "walking"
    /\ walkPool' = NoPool /\ walk' = NoWalk /\ walked' = <<>>

\* A first walk with any amount and limit, then one that takes its output back.
BeginWalk == \E down \in BOOLEAN, amount \in WalkAmounts, stop \in MinTick .. MaxTick :
    /\ walkPool.kind \in {"clmm", "whirlpool"}
    /\ walk.stage = "idle"
    /\ Behind(SqrtPrice[stop], walkPool.price, down)
    /\ walk' = Started(walkPool, amount, SqrtPrice[stop], down)
    /\ UNCHANGED <<walkPool, walked>>
WalkBack == LET down == ~walk.down IN
    /\ walkPool.kind # "dlmm" /\ walk.stage = "done"
    /\ Len(walked) < MaxWalks
    /\ walk.output > 0
    /\ LET end == SqrtPrice[IF down THEN MinTick ELSE MaxTick]
       IN /\ Behind(end, walkPool.price, down)
          /\ walk' = Started(walkPool, walk.output, end, down)
    /\ UNCHANGED <<walkPool, walked>>

Walking(kind) == walk.stage = "walking" /\ walkPool.kind = kind
AtEnd == walk.remaining = 0 \/ walk.price = walk.limit

\* The pool is what the walk says it becomes.
WalkEnds == \E kind \in {"clmm", "whirlpool"} :
    /\ Walking(kind)
    /\ AtEnd
    /\ walk' = [walk EXCEPT !.stage = "done"]
    /\ walkPool' = [walkPool EXCEPT !.price = walk.price, !.tick = walk.tick,
                                    !.liquidity = walk.liquidity, !.orders = walk.orders]
    /\ walked' = Append(walked, [paid |-> walk.amount - walk.remaining, got |-> walk.output])

WalkRaises(reason) ==
    /\ walk' = [walk EXCEPT !.stage = reason]
    /\ UNCHANGED <<walkPool, walked>>
BudgetSpent == \E kind \in {"clmm", "whirlpool"} :
    /\ Walking(kind) /\ ~AtEnd
    /\ walk.turn = StepBudget
    /\ WalkRaises("budget")

\* A turn ends in the walk w, or in a refusal of one of its numbers.
Turn(w) ==
    /\ walk' = IF w.remaining < 0 \/ w.liquidity < 0 THEN [walk EXCEPT !.stage = "refused"]
               ELSE [w EXCEPT !.turn = @ + 1]
    /\ UNCHANGED <<walkPool, walked>>

\* The volatility of the group the price is in, and the fee it makes.
Volatility(p, w) ==
    Least(w.volatile.held + Most(w.volatile.reference - w.group, w.group - w.volatile.reference) * 10000,
          p.dynamic.maximum)
FeeNow(p, w) ==
    LET crossed == Volatility(p, w) * p.spacing
    IN IF ~p.dynamic.on THEN p.fee
       ELSE Least(p.fee + CeilDiv(p.dynamic.control * crossed * crossed, Damping), FeeCap)

-----------------------------------------------------------------------------
(* Raydium CLMM. *)

FeeOnInput(p, down) == p.feeOn = 0 \/ (p.feeOn = 1 /\ down) \/ (p.feeOn = 2 /\ ~down)

Live(p, w) == {t \in DOMAIN p.net : /\ p.gross[t] > 0 \/ w.orders[t] > 0
                                   /\ IF w.down THEN t <= w.tick ELSE t > w.tick}
Nearest(S, down) == CHOOSE t \in S : \A u \in S : IF down THEN u <= t ELSE t <= u
ClmmNext(p, w) == IF Live(p, w) # {} THEN Nearest(Live(p, w), w.down)
                  ELSE IF w.down THEN MinTick ELSE MaxTick

\* Where the fee changes with every group the walk stops at its border.
OneFee(p, w) == ~p.dynamic.on \/ w.liquidity = 0 \/ Volatility(p, w) = p.dynamic.maximum
ClmmBound(p, w) ==
    LET target == Nearer(SqrtPrice[ClmmNext(p, w)], w.limit, w.down)
    IN IF OneFee(p, w) THEN target
       ELSE Nearer(target, PriceOfGroup(IF w.down THEN w.group ELSE w.group + 1, p.spacing), w.down)

\* The walk after the step s, with the fee taken from what goes in or what comes out.
Traded(w, s, fee, feeIn) ==
    [w EXCEPT !.price = s.price,
              !.remaining = @ - s.in - (IF feeIn THEN s.fee ELSE 0),
              !.output = @ + s.out - (IF feeIn THEN 0 ELSE CeilDiv(s.out * fee, FeeUnit))]
StepTo(w, bound, fee) == SwapStep(w.price, bound, w.liquidity, w.remaining, fee, w.down)

\* The limit orders at tick t are filled before the liquidity beyond it.
Matched(w, t, fee, feeIn) ==
    LET square    == w.price * w.price
        price     == square \div Q + (IF ~w.down /\ square % Q # 0 THEN 1 ELSE 0)
        available == w.remaining - (IF feeIn THEN CeilDiv(w.remaining * fee, FeeUnit) ELSE 0)
        wanted    == IF w.down THEN (available * price) \div Q ELSE (available * Q) \div price
        gross     == Least(wanted, w.orders[t])
        exact     == IF w.down THEN CeilDiv(gross * Q, price) ELSE CeilDiv(gross * price, Q)
        consumed  == IF wanted > w.orders[t]
                     THEN exact + (IF feeIn THEN CeilDiv(exact * fee, FeeUnit - fee) ELSE 0)
                     ELSE w.remaining
    IN IF w.orders[t] = 0 \/ w.remaining = 0 THEN w
       ELSE [w EXCEPT !.remaining = @ - consumed,
                      !.orders[t] = @ - gross,
                      !.output = @ + gross - (IF feeIn THEN 0 ELSE CeilDiv(gross * fee, FeeUnit))]

\* Faulty variant: walking down, the tick that was crossed stays the current one.
CrossedStaying(p, w, t) ==
    [w EXCEPT !.liquidity = IF p.gross[t] > 0 /\ w.orders[t] = 0
                            THEN @ + (IF w.down THEN -p.net[t] ELSE p.net[t]) ELSE @,
              !.tick = IF ~w.down /\ w.orders[t] > 0 THEN t - 1 ELSE t]
Crossed(p, w, t) ==
    [w EXCEPT !.liquidity = IF p.gross[t] > 0 /\ w.orders[t] = 0
                            THEN @ + (IF w.down THEN -p.net[t] ELSE p.net[t]) ELSE @,
              !.tick = IF w.down <=> w.orders[t] = 0 THEN t - 1 ELSE t]

\* Without a stop at the borders the group is that of where the price came to.
NextGroup(p, w, v, border) ==
    LET here == IF OneFee(p, w)
                THEN GroupOf(border, p.spacing)
                     - (IF ~w.down /\ border % p.spacing = 0 THEN 1 ELSE 0)
                ELSE w.group
    IN IF ~p.dynamic.on THEN v ELSE [v EXCEPT !.group = IF w.down THEN here - 1 ELSE here + 1]

\* At the end of the prices the loop breaks off, with a result or an error.
BrokenOff(w) ==
    IF w.remaining = 0 \/ w.price = w.limit THEN w ELSE [w EXCEPT !.stage = "budget"]

ClmmTurn == LET p == walkPool w == walk feeIn == FeeOnInput(p, w.down) IN
    /\ Walking("clmm") /\ ~AtEnd /\ w.turn < StepBudget
    /\ \E t \in {ClmmNext(p, w)}, bound \in {ClmmBound(p, w)}, fee \in {FeeNow(p, w)} :
         IF Behind(w.price, bound, w.down) THEN WalkRaises("misplaced")
         ELSE \E s \in {StepTo(w, bound, IF feeIn THEN fee ELSE 0)} :
              \E v \in {IF w.price = bound THEN w ELSE Traded(w, s, fee, feeIn)} :
              \E m \in {IF v.price # SqrtPrice[t]
                        THEN IF v.price = w.price THEN v ELSE [v EXCEPT !.tick = TickAt(v.price)]
                        ELSE IF Live(p, w) = {} THEN v
                        ELSE Matched(v, t, fee, feeIn)} :
              \E n \in {IF v.price = SqrtPrice[t] /\ Live(p, w) # {} THEN Crossed(p, m, t) ELSE m} :
                 Turn(IF v.price = SqrtPrice[t] /\ Live(p, w) = {} THEN BrokenOff(n)
                      ELSE NextGroup(p, w, n, IF v.price = SqrtPrice[t] THEN t ELSE n.tick))

-----------------------------------------------------------------------------
(* Orca Whirlpool. *)

ArraysLacking(p, w) == IF w.down THEN w.tick < p.lower ELSE w.tick >= p.upper
WhirlpoolTicks(p, w) == {t \in DOMAIN p.net : IF w.down THEN t <= w.tick ELSE t > w.tick}
WhirlpoolNext(p, w) == IF WhirlpoolTicks(p, w) # {} THEN Nearest(WhirlpoolTicks(p, w), w.down)
                       ELSE IF w.down THEN p.lower ELSE p.upper

\* Beyond the groups where the volatility reaches its maximum the fee is constant.
Distance(p, w) == CeilDiv(p.dynamic.maximum - w.volatile.held, 10000)
LowerGroup(p, w) == w.volatile.reference - Distance(p, w)
UpperGroup(p, w) == w.volatile.reference + Distance(p, w)
BelowRange(p, w) == LowerGroup(p, w) * p.spacing > MinTick /\ w.group < LowerGroup(p, w)
AboveRange(p, w) == (UpperGroup(p, w) + 1) * p.spacing < MaxTick /\ w.group > UpperGroup(p, w)
SkipsGroups(p, w) == p.dynamic.control = 0 \/ w.liquidity = 0 \/ BelowRange(p, w) \/ AboveRange(p, w)

WhirlpoolBound(p, w) ==
    LET target == Nearer(SqrtPrice[WhirlpoolNext(p, w)], w.limit, w.down)
    IN IF ~p.dynamic.on \/ p.dynamic.control = 0 \/ w.liquidity = 0 THEN target
       ELSE IF BelowRange(p, w)
            THEN IF w.down THEN target
                 ELSE Least(target, PriceOfGroup(LowerGroup(p, w), p.spacing))
       ELSE IF AboveRange(p, w)
            THEN IF w.down THEN Most(target, PriceOfGroup(UpperGroup(p, w) + 1, p.spacing))
                 ELSE target
       ELSE Nearer(target, PriceOfGroup(IF w.down THEN w.group ELSE w.group + 1, p.spacing), w.down)

WhirlpoolCrossed(p, w, v, t) ==
    IF v.price = SqrtPrice[t]
    THEN [v EXCEPT !.liquidity = IF WhirlpoolTicks(p, w) = {} THEN @
                                 ELSE @ + (IF w.down THEN -p.net[t] ELSE p.net[t]),
                   !.tick = IF w.down THEN t - 1 ELSE t]
    ELSE IF v.price # w.price THEN [v EXCEPT !.tick = TickAt(v.price)] ELSE v

WhirlpoolGroup(p, w, v, t) ==
    LET at   == IF v.price = SqrtPrice[t] THEN t ELSE TickAt(v.price)
        last == GroupOf(at, p.spacing)
                - (IF ~w.down /\ at % p.spacing = 0 /\ v.price = SqrtPrice[at] THEN 1 ELSE 0)
        here == IF SkipsGroups(p, w) /\ Behind(last, w.group, w.down) THEN last ELSE w.group
    IN IF ~p.dynamic.on THEN v ELSE [v EXCEPT !.group = IF w.down THEN here - 1 ELSE here + 1]

WhirlpoolTurn == LET p == walkPool w == walk IN
    /\ Walking("whirlpool") /\ ~AtEnd /\ w.turn < StepBudget
    /\ \E t \in {WhirlpoolNext(p, w)}, bound \in {WhirlpoolBound(p, w)}, fee \in {FeeNow(p, w)} :
         IF ArraysLacking(p, w) THEN WalkRaises("arrays")
         ELSE IF Behind(w.price, bound, w.down) THEN WalkRaises("misplaced")
         ELSE \E s \in {StepTo(w, bound, fee)} :
              \E v \in {WhirlpoolCrossed(p, w, Traded(w, s, fee, TRUE), t)} :
                 Turn(WhirlpoolGroup(p, w, v, t))

-----------------------------------------------------------------------------
(* Meteora DLMM: bins with one price each, and limit orders in them. *)

\* The volatility of a DLMM pool is counted in bins.
DlmmRate(p, w) ==
    LET far     == Most(w.volatile.reference - w.current, w.current - w.volatile.reference)
        crossed == Least(w.volatile.held + far * 10000, p.dynamic.maximum) * p.spacing
    IN Least(p.fee + CeilDiv(crossed * crossed * p.dynamic.control, Damping), FeeCap)

BeginDlmm == \E down \in BOOLEAN, amount \in WalkAmounts, missing \in {"strict", "partial", "exhaustive"} :
    /\ walkPool.kind = "dlmm"
    /\ walk.stage = "idle"
    /\ walk' = [stage |-> "walking", down |-> down, amount |-> amount, missing |-> missing,
                remaining |-> amount, output |-> 0, current |-> walkPool.tick, crossed |-> 0,
                bins |-> walkPool.bins,
                volatile |-> Volatile(walkPool.dynamic, walkPool.tick, 1)]
    /\ UNCHANGED <<walkPool, walked>>

\* What bin i can give: its reserve, then its limit orders on that side.
Tiers(bins, i, down) ==
    LET b        == bins[i]
        relevant == (b.ask = 0) <=> down
    IN <<IF down THEN b.y ELSE b.x,
         IF relevant THEN b.processed ELSE 0,
         IF relevant THEN b.open ELSE 0>>
Holds(bins, i, down) == \E k \in 1 .. 3 : Tiers(bins, i, down)[k] > 0

\* The next bin of this array that holds anything, or the first of the next array.
\* Faulty variant: downwards the walk goes to the first bin of its own array.
AdvanceShort(bins, i, down) ==
    LET array == i \div ArraySize
        live  == {j \in DOMAIN bins : /\ j \div ArraySize = array /\ Holds(bins, j, down)
                                      /\ IF down THEN j < i ELSE j > i}
    IN IF live # {} THEN Nearest(live, down)
       ELSE IF down THEN array * ArraySize ELSE (array + 1) * ArraySize
Advance(bins, i, down) ==
    LET array == i \div ArraySize
        live  == {j \in DOMAIN bins : /\ j \div ArraySize = array /\ Holds(bins, j, down)
                                      /\ IF down THEN j < i ELSE j > i}
    IN IF live # {} THEN Nearest(live, down)
       ELSE IF down THEN array * ArraySize - 1 ELSE (array + 1) * ArraySize

\* One tier after the other, until nothing is left of the input.
Taken[tiers \in Seq(Nat), left \in Nat, above \in Nat, below \in Nat] ==
    IF tiers = <<>> THEN [used |-> 0, out |-> 0, gone |-> <<>>]
    ELSE LET r      == Head(tiers)
             needed == CeilDiv(r * above, below)
             used   == Least(left, needed)
             out    == IF left >= needed THEN r ELSE (left * below) \div above
             rest   == Taken[Tail(tiers), left - used, above, below]
         IN [used |-> used + rest.used, out |-> out + rest.out, gone |-> <<out>> \o rest.gone]

\* Bin i without what the walk took from its tiers.
Drained(bins, i, down, gone) ==
    [bins EXCEPT ![i] = [@ EXCEPT !.x = IF down THEN @ ELSE @ - gone[1],
                                  !.y = IF down THEN @ - gone[1] ELSE @,
                                  !.processed = @ - gone[2], !.open = @ - gone[3]]]

InRange(w) == w.remaining > 0 /\ w.current \in MinTick .. MaxTick
Loaded(p, w) == w.current \div ArraySize \in p.loaded
DlmmWalking == Walking("dlmm") /\ InRange(walk)

DlmmMissing == LET w == walk IN
    /\ DlmmWalking /\ ~Loaded(walkPool, w)
    /\ walk' = CASE w.missing = "strict" -> [w EXCEPT !.stage = "arrays"]
                 [] w.missing = "partial" -> [w EXCEPT !.stage = "partial"]
                 [] OTHER -> IF \E a \in walkPool.loaded :
                                     IF w.down THEN a < w.current \div ArraySize ELSE a > w.current \div ArraySize
                             THEN [w EXCEPT !.current = IF w.down THEN (@ \div ArraySize) * ArraySize - 1
                                                        ELSE (@ \div ArraySize + 1) * ArraySize]
                             ELSE [w EXCEPT !.stage = "done"]
    /\ UNCHANGED <<walkPool, walked>>

DlmmEmpty == LET w == walk IN
    /\ DlmmWalking /\ Loaded(walkPool, w)
    /\ w.current \in DOMAIN w.bins => ~Holds(w.bins, w.current, w.down)
    /\ walk' = [w EXCEPT !.current = Advance(w.bins, @, w.down)]
    /\ UNCHANGED <<walkPool, walked>>

BinStep(w, net, price) ==
    Taken[Tiers(w.bins, w.current, w.down), net,
          IF w.down THEN Q ELSE price, IF w.down THEN price ELSE Q]
DlmmBin == LET p == walkPool w == walk i == w.current feeIn == p.feeOn = 0 \/ ~w.down IN
    /\ DlmmWalking /\ Loaded(p, w)
    /\ i \in DOMAIN w.bins /\ Holds(w.bins, i, w.down)
    /\ \E rate \in {DlmmRate(p, w)} :
       \E net \in {IF feeIn THEN w.remaining - CeilDiv(w.remaining * rate, FeeUnit) ELSE w.remaining} :
       \E take \in {BinStep(w, net, p.bins[i].price)} :
         walk' = [w EXCEPT !.output = @ + take.out - (IF feeIn THEN 0 ELSE CeilDiv(take.out * rate, FeeUnit)),
                            !.remaining = IF take.used = net THEN 0
                                          ELSE @ - (IF feeIn THEN CeilDiv(take.used * FeeUnit, FeeUnit - rate)
                                                    ELSE take.used),
                            !.crossed = @ + 1,
                            !.current = IF take.used = net THEN @ ELSE IF w.down THEN @ - 1 ELSE @ + 1,
                            !.bins = Drained(@, i, w.down, take.gone)]
    /\ UNCHANGED <<walkPool, walked>>

DlmmEnds ==
    /\ Walking("dlmm") /\ ~InRange(walk)
    /\ walk' = [walk EXCEPT !.stage = "done"]
    /\ UNCHANGED <<walkPool, walked>>

WalkNext == FindPool \/ LosePool \/ BeginWalk \/ WalkBack \/ ClmmTurn \/ WhirlpoolTurn \/ WalkEnds
            \/ BudgetSpent \/ BeginDlmm \/ DlmmMissing \/ DlmmEmpty \/ DlmmBin \/ DlmmEnds

WalkFair == WF_walkVars(ClmmTurn \/ WhirlpoolTurn \/ WalkEnds \/ BudgetSpent
                        \/ DlmmMissing \/ DlmmEmpty \/ DlmmBin \/ DlmmEnds)

-----------------------------------------------------------------------------
(* Properties. *)

LiquidityAt(p, tick) == MapThenSumSet(LAMBDA t : p.net[t], {t \in DOMAIN p.net : t <= tick})

\* Between two turns the price lies in the range of the current tick, and the
\* liquidity has changed by what lies between the ticks: crossing ticks in either
\* direction, stopping on one, orders on one, keep the three together.  (At the very end of the price range
\* clmm_swap_exact_in breaks off before it sets the tick.)
PriceTickLiquidityAgree ==
    walk.stage \in {"walking", "done"} /\ walkPool.kind \in {"clmm", "whirlpool"} =>
        /\ walk.liquidity - LiquidityAt(walkPool, walk.tick)
             = walkPool.liquidity - LiquidityAt(walkPool, walkPool.tick)
        /\ walk.price \notin {SqrtPrice[MinTick], SqrtPrice[MaxTick]} =>
             SqrtPrice[walk.tick] <= walk.price /\ walk.price <= SqrtPrice[walk.tick + 1]

\* A quote is never refused for a number of its own making: no turn spends more
\* than is left, no border of a fee group is behind the price.
NoWalkTripsItself == walk.stage \notin {"refused", "misplaced"}

\* Selling what a walk brought never brings back more than it took.
ThereAndBackLoses == Len(walked) >= 2 => walked[2].got <= walked[1].paid

\* The DLMM walk takes from no bin more than it holds, and passes no bin that
\* still holds something by.
NoBinPassedOver ==
    walk.stage \in {"walking", "done", "arrays", "partial"} /\ walkPool.kind = "dlmm" =>
        /\ walk.remaining >= 0
        /\ \A i \in DOMAIN walk.bins :
             LET b == walk.bins[i]
             IN /\ b.x >= 0 /\ b.y >= 0 /\ b.open >= 0 /\ b.processed >= 0
                /\ /\ i \div ArraySize \in walkPool.loaded
                   /\ IF walk.down THEN i \in walk.current + 1 .. walkPool.tick
                      ELSE i \in walkPool.tick .. walk.current - 1
                   => ~Holds(walk.bins, i, walk.down)

\* What every turn of a walk keeps, and what two of them do.
WalksHold ==
    PriceTickLiquidityAgree /\ NoWalkTripsItself /\ NoBinPassedOver /\ ThereAndBackLoses

\* Every walk comes to a result or a refusal.
EveryWalkEnds == walk.stage = "walking" ~> walk.stage # "walking"
=============================================================================
