----------------------------- MODULE CachedRoutes -----------------------------
(***************************************************************************)
(* From a frozen snapshot to a landed transaction: the search for a route   *)
(* (trading/route_candidates.py, the walk of pumpswap_preparation.py), its  *)
(* preparation leg by leg (cached_route.py), the choice between the         *)
(* official multi-hop instruction and single swaps (pump_route.py), the     *)
(* settlement in SOL (native_sol.py, pumpfun_settlement.py) and the         *)
(* instructions in their order (cached_trade.py).                           *)
(*                                                                          *)
(* A hint is [pool, in, out]; pools are numbered in the order of their      *)
(* addresses.  Tokens lie in accounts named by their mint, or "temp"; SOL   *)
(* lies in "SOL".  The chain pays what the quote of the same state says,    *)
(* all instructions or none; rent of associated accounts and fees of the    *)
(* network come out of other SOL.  Operators introduced as a faulty variant *)
(* are used by nothing: each is a mistake the properties catch.             *)
(***************************************************************************)
EXTENDS CachedLegs
LOCAL INSTANCE SequencesExt
LOCAL INSTANCE FiniteSetsExt

CONSTANTS
    RouteHops,      \* hops of a candidate route (5 in the code)
    PathLimit,      \* candidate paths (64)
    FrontierLimit,  \* unfinished paths of one length (4096)
    ProbeShare,     \* a bridge is probed with this part of the amount (100)
    Rent,           \* lamports of a token account
    RouteWorlds,    \* pools that may be met: sequences of pools
    RouteAsks,      \* what may be asked for
    RouteWallets,   \* wallets that may carry it out
    Moving,         \* pools that others trade in
    MaxSlots        \* bound: trades of others

VARIABLES
    venues,    \* the pools as the chain has them
    slots,     \* trades of others so far
    hunt,      \* the search or preparation under way
    deal,      \* the prepared trade, or NoDeal
    landed     \* the last transaction and what came of it

routeVars == <<venues, slots, hunt, deal, landed>>

Shut == -1
NoDeal == [minimum |-> 0]
NoAsk == [kind |-> "none"]
NotLanded == [ok |-> FALSE, ask |-> NoAsk]
NoHunt == [stage |-> "idle", ask |-> NoAsk, frozen |-> <<>>, frontier |-> <<>>, next |-> <<>>,
           edge |-> 0, paths |-> <<>>, tried |-> 0, nodes |-> 0, best |-> <<>>]

Hint(p, i, in) == [pool |-> i, in |-> in, out |-> IF in = p[i].base THEN p[i].quote ELSE p[i].base]
Mints(hints) == <<hints[1].in>> \o [i \in DOMAIN hints |-> hints[i].out]

-----------------------------------------------------------------------------
(* prepare_cached_route(): every leg spends what the one before protects.   *)

NoRoute == [legs |-> <<>>, setup |-> <<>>, swaps |-> <<>>, minimum |-> 0]
CreateAta(m) == [op |-> "create", mint |-> m]
SwapOf(p, h, leg) ==
    [op |-> "swap", pool |-> h.pool, in |-> h.in, n |-> leg.used, minimum |-> leg.minimum,
     from |-> IF NativeCurve(p[h.pool]) /\ h.in = Wsol THEN "SOL" ELSE h.in,
     to |-> IF NativeCurve(p[h.pool]) /\ h.out = Wsol THEN "SOL" ELSE h.out]

(* A bridge [anchor, slip, impact] limits every pool but the anchor: its    *)
(* price may not be much worse than that of a small part of the amount.     *)
Probe(spend) == Most(1, spend \div ProbeShare)
NoWorse(leg, small, spend, impact) ==
    /\ small # NoLeg /\ leg.used = spend /\ small.used = Probe(spend)
    /\ leg.estimated * small.used * 10000 >= small.estimated * spend * (10000 - impact)
BridgeHolds(p, h, leg, spend, bridge) ==
    /\ ~NativeCurve(p[h.pool])
    /\ NoWorse(leg, LegQuote(p[h.pool], Probe(spend), h.in, 0), spend, bridge.impact)

(* Faulty variant: a leg spends what the one before is expected to bring. *)
NextSpendHopeful(leg) == leg.estimated
NextSpend(leg) == leg.minimum

Bridged(h, bridge) == bridge # <<>> /\ h.pool # bridge[1].anchor
AddLeg(p, so, h, leg, native, bridge) ==
    IF leg = NoLeg \/ leg.used > so.spend \/ (NativeCurve(p[h.pool]) /\ ~native)
       \/ (Bridged(h, bridge) /\ ~BridgeHolds(p, h, leg, so.spend, bridge[1]))
    THEN [so EXCEPT !.spend = 0]
    ELSE [spend |-> NextSpend(leg), legs |-> Append(so.legs, leg),
          swaps |-> Append(so.swaps, SwapOf(p, h, leg))]
PrepareLeg(p, so, h, slip, native, bridge) ==
    LET limit == IF Bridged(h, bridge) THEN bridge[1].slip ELSE slip
    IN AddLeg(p, so, h, LegQuote(p[h.pool], so.spend, h.in, limit), native, bridge)

WellFormed(hints) ==
    LET n == Len(hints)
    IN /\ n \in 1 .. RouteHops
       /\ Cardinality({hints[i].pool : i \in 1 .. n}) = n
       /\ IsInjective(Mints(hints))
       /\ \A i \in 1 .. n - 1 : hints[i].out = hints[i + 1].in
RouteOf(end, hints) ==
    IF end.spend = 0 THEN NoRoute
    ELSE [legs |-> end.legs, swaps |-> end.swaps, minimum |-> end.spend,
          setup |-> [i \in 1 .. Len(hints) + 1 |-> CreateAta(Mints(hints)[i])]]
PrepareRoute(p, hints, amount, slip, native, bridge) ==
    LET start == [spend |-> amount, legs |-> <<>>, swaps |-> <<>>]
    IN IF ~WellFormed(hints) \/ amount <= 0 THEN NoRoute
       ELSE RouteOf(FoldLeft(LAMBDA so, h : PrepareLeg(p, so, h, slip, native, bridge),
                             start, hints), hints)

(* One pool of DAMM v2: the caller sets the limit, nothing is estimated. *)
PrepareDamm(p, h, amount, minimum) ==
    IF minimum = 0 \/ amount = 0 \/ ~Untaxed(p[h.pool]) THEN NoRoute
    ELSE LET leg == [used |-> amount, estimated |-> 0, minimum |-> minimum]
         IN [legs |-> <<leg>>, swaps |-> <<SwapOf(p, h, leg)>>, minimum |-> minimum,
             setup |-> <<CreateAta(h.in), CreateAta(h.out)>>]

-----------------------------------------------------------------------------
(* Settlement.  A deal is [instructions, minimum, required]. *)

NewTemp(n)  == [op |-> "temp", n |-> n]
CloseTemp   == [op |-> "close"]
Unwrap(n)   == [op |-> "unwrap", n |-> n]
Fund(n)     == [op |-> "fund", n |-> n]
Tip(n)      == [op |-> "tip", n |-> n]
Without(setup, mint) == SelectSeq(setup, LAMBDA ix : ix.mint # mint)
Instead(account) == IF account = Wsol THEN "temp" ELSE account
DealOf(instructions, minimum, required) ==
    [instructions |-> instructions, minimum |-> minimum, required |-> required]

(* settle_cached_route_with_native_sol(): WSOL goes through a new account,  *)
(* which is closed at the end.                                              *)
NativeSol(hints, route, in, out) ==
    LET endpoint == IF in THEN hints[1].in ELSE hints[Len(hints)].out
        required == Rent + (IF in THEN route.legs[1].used ELSE 0)
        swaps == [i \in DOMAIN route.swaps |->
                      [route.swaps[i] EXCEPT !.from = Instead(@), !.to = Instead(@)]]
    IN IF in = out \/ endpoint # Wsol \/ swaps = route.swaps THEN NoDeal
       ELSE DealOf(<<NewTemp(required)>> \o Without(route.setup, Wsol) \o swaps \o <<CloseTemp>>,
                   route.minimum, required)

(* settle_pumpfun_native_quote() of the one swap with the curve: it pays    *)
(* and takes SOL, what the wallet trades in is converted before or after.   *)
CurveSwapSettled(swap, leg, in, out) ==
    IF swap.from = "SOL"
    THEN IF in THEN <<swap>> ELSE <<NewTemp(Rent), Unwrap(leg.used), CloseTemp, swap>>
    ELSE IF out THEN <<swap>> ELSE <<swap, Fund(leg.minimum)>>
CurveRequired(swap, leg, in) ==
    IF swap.from # "SOL" THEN 0 ELSE IF in THEN leg.used ELSE Rent

(* On a route of several hops the curve is its anchor, and nothing native   *)
(* comes in or goes out.                                                    *)
CurveSettled(p, hints, route, in, out) ==
    LET n == Len(hints)
        curves == {i \in 1 .. n : p[hints[i].pool].venue = "pumpfun"}
        at == IF 1 \in curves THEN 1 ELSE n
        swap == route.swaps[at]
        leg == route.legs[at]
        settled == CurveSwapSettled(swap, leg, in, out)
        unused == swap.from = "SOL" \/ out
    IN IF n > 1 THEN
           IF Cardinality(curves) # 1 \/ curves \ {1, n} # {} \/ in \/ out
              \/ (IF at = n THEN hints[n].in ELSE hints[1].out) # Wsol
           THEN NoDeal
           ELSE DealOf(route.setup \o SubSeq(route.swaps, 1, at - 1) \o settled
                           \o SubSeq(route.swaps, at + 1, n),
                       route.minimum, CurveRequired(swap, leg, in))
       ELSE IF (IF swap.from = "SOL" THEN out ELSE in) THEN NoDeal
       ELSE LET setup == IF unused THEN Without(route.setup, Wsol) ELSE route.setup
                conversions == Len(settled) - 1
            IN DealOf((IF swap.from = "SOL" THEN SubSeq(settled, 1, conversions) ELSE <<>>)
                          \o setup \o (IF swap.from = "SOL" THEN <<swap>> ELSE settled),
                      route.minimum, CurveRequired(swap, leg, in))

-----------------------------------------------------------------------------
(* prepare_official_pump_route(): two or three of Pump's own venues in one  *)
(* instruction with a limit of the caller's; otherwise one after the other. *)

OfficialVenues(p, hints) == \A i \in DOMAIN hints : p[hints[i].pool].venue \in {"pumpfun", "pumpswap"}
OfficialUsable(ask, hints, native) ==
    /\ ask.pump.mode # "sequential" /\ ask.pump.minimum > 0 /\ ~native
    /\ Len(hints) \in 2 .. 3
(* The state behind a hop does not validate, or sells in one direction only. *)
OfficialBroken(p, h) ==
    LET v == p[h.pool]
    IN \/ v.venue = "pumpfun" /\ (v.complete \/ ~Untaxed(v))
       \/ v.venue = "pumpswap" /\ (IF h.in = v.quote THEN "buy" ELSE "sell") \in v.disabled
(* derive_pump_multi_hop_accounts() *)
OfficialFits(p, hints) ==
    LET n == Len(hints)
        buying(i) == hints[i].in = p[hints[i].pool].quote
        currency == p[hints[IF buying(1) THEN 1 ELSE n].pool]
    IN /\ WellFormed(hints)
       /\ \A i \in 1 .. n :
              LET v == p[hints[i].pool]
              IN /\ ~v.mayhem /\ Untaxed(v)
                 /\ buying(i) = buying(1)
                 /\ v.cashback => i = IF buying(1) THEN 1 ELSE n
                 /\ v.venue = "pumpswap" => v.canonical
       /\ ~NativeCurve(currency)
Official(hints, amount, minimum) ==
    LET in == hints[1].in
        out == hints[Len(hints)].out
    IN [legs |-> <<>>, setup |-> <<CreateAta(in), CreateAta(out)>>, minimum |-> minimum,
        swaps |-> <<[op |-> "official", hints |-> hints, n |-> amount, minimum |-> minimum,
                     from |-> in, to |-> out]>>]

-----------------------------------------------------------------------------
(* prepare_cached_trade() with the hints of its request or of a candidate.  *)

Anchor(ask, hints) == hints[IF ask.buy THEN Len(hints) ELSE 1]
(* The venues whose anchor must have the token on the side of the trade. *)
Directed(p, ask, h) ==
    p[h.pool].venue \in {"pumpfun", "launchlab"} =>
        p[h.pool].base = IF ask.buy THEN h.out ELSE h.in

TradeRoute(p, ask, hints, stateNative) ==
    IF ask.dex = "damm v2" THEN
        IF Len(hints) = 1 THEN PrepareDamm(p, hints[1], ask.amount, ask.fixed) ELSE NoRoute
    ELSE IF ask.fixed > 0 THEN NoRoute
    ELSE PrepareRoute(p, hints, ask.amount, ask.slip, stateNative, <<>>)
Tipped(ask, d) ==
    IF d = NoDeal \/ ask.tip = 0 THEN d
    ELSE [d EXCEPT !.instructions = <<Tip(ask.tip)>> \o @, !.required = @ + ask.tip]
Settled(p, ask, hints, route, stateNative) ==
    IF route = NoRoute \/ (ask.pump.mode # "sequential" /\ route.minimum < ask.pump.minimum)
    THEN NoDeal
    ELSE Tipped(ask, IF stateNative THEN CurveSettled(p, hints, route, ask.nativeIn, ask.nativeOut)
                     ELSE IF ask.nativeIn \/ ask.nativeOut
                     THEN NativeSol(hints, route, ask.nativeIn, ask.nativeOut)
                     ELSE DealOf(route.setup \o route.swaps, route.minimum, 0))

PrepareTrade(p, ask, hints) ==
    LET anchor == Anchor(ask, hints)
        pump == ask.dex \in {"pumpfun", "pumpswap"}
        native == ask.nativeIn \/ ask.nativeOut
        tryOfficial == pump /\ OfficialUsable(ask, hints, native) /\ OfficialVenues(p, hints)
        official == tryOfficial /\ OfficialFits(p, hints)
        stateNative == ask.dex = "pumpfun" /\ NativeCurve(p[anchor.pool])
    IN IF p[anchor.pool].venue # ask.dex \/ ~Directed(p, ask, anchor) THEN NoDeal
       ELSE IF tryOfficial /\ \E i \in DOMAIN hints : OfficialBroken(p, hints[i]) THEN NoDeal
       ELSE IF official
            THEN IF ask.fixed > 0 THEN NoDeal
                 ELSE Settled(p, ask, hints, Official(hints, ask.amount, ask.pump.minimum), FALSE)
       ELSE IF ask.pump.mode = "official" THEN NoDeal
       ELSE Settled(p, ask, hints, TradeRoute(p, ask, hints, stateNative), stateNative)

-----------------------------------------------------------------------------
(* prepare_pumpswap_trade(): the selected pool with the path that converts  *)
(* the asset, under the limits of a bridge; SOL is settled when it is built.*)

Canonical(mint) == IF mint = "SOL" THEN Wsol ELSE mint
PumpSwapPath(p, ask, path) ==
    LET v == p[ask.pool]
        token == Canonical(ask.token)
        other == IF token = v.base THEN v.quote ELSE v.base
        anchor == [pool |-> ask.pool, in |-> IF ask.buy THEN other ELSE token,
                   out |-> IF ask.buy THEN token ELSE other]
    IN IF ask.buy THEN Append(path, anchor) ELSE <<anchor>> \o path
PumpSwapRoute(p, ask, path) ==
    PrepareRoute(p, PumpSwapPath(p, ask, path), ask.amount, ask.slip, FALSE,
                 <<[anchor |-> ask.pool, slip |-> ask.bridgeSlip, impact |-> ask.bridgeImpact]>>)

(* build_transaction(): the tip last, the nonce first. *)
BuildTransaction(ask, hints, full) ==
    LET route == IF ask.accounts THEN full ELSE [full EXCEPT !.setup = <<>>]
        native == ask.asset = "SOL"
        d == IF native THEN NativeSol(hints, route, ask.buy, ~ask.buy)
             ELSE DealOf(route.setup \o route.swaps, route.minimum, 0)
        tip == IF ask.tip = 0 THEN <<>> ELSE <<Tip(ask.tip)>>
        nonce == IF ask.nonce THEN <<[op |-> "nonce"]>> ELSE <<>>
    IN IF full = NoRoute \/ d = NoDeal THEN NoDeal
       ELSE [d EXCEPT !.instructions = nonce \o @ \o tip, !.required = @ + ask.tip]
PumpSwapDeal(p, ask, path) ==
    BuildTransaction(ask, PumpSwapPath(p, ask, path), PumpSwapRoute(p, ask, path))

-----------------------------------------------------------------------------
(* The searches, an edge or a path at a time. *)

RoutesInit ==
    /\ venues \in RouteWorlds
    /\ slots = 0 /\ hunt = NoHunt /\ deal = NoDeal /\ landed = NotLanded

(* The pools a mint is traded in, in the order of their addresses. *)
EdgesFrom(p, pools, mint) ==
    [i \in 1 .. Cardinality({j \in pools : mint \in {p[j].base, p[j].quote}}) |->
        Hint(p, SetToSortSeq({j \in pools : mint \in {p[j].base, p[j].quote}}, <)[i], mint)]
SeenOn(path, mint) == \E i \in DOMAIN path : mint \in {path[i].in, path[i].out}
EndOf(path, start) == IF path = <<>> THEN start ELSE path[Len(path)].out

Ends(stage, d) ==
    /\ hunt' = [hunt EXCEPT !.stage = stage]
    /\ deal' = d
    /\ UNCHANGED <<venues, slots, landed>>
Hunts(h) ==
    /\ hunt' = h
    /\ UNCHANGED <<venues, slots, deal, landed>>

(* A request with hints is prepared at once, one with candidates searches.  *)
Asking(kind) == {ask \in RouteAsks : ask.kind = kind}
AskTrade == hunt.stage = "idle" /\ \E ask \in Asking("trade") :
    /\ LET h == [NoHunt EXCEPT !.ask = ask, !.frozen = venues] IN
       /\ hunt' = IF ask.hints # <<>> THEN [h EXCEPT !.stage = "settled"]
                  ELSE [h EXCEPT !.stage = "breadth", !.frontier = <<<<>>>>]
       /\ deal' = IF ask.hints # <<>> THEN PrepareTrade(venues, ask, ask.hints) ELSE NoDeal
    /\ UNCHANGED <<venues, slots, landed>>

Breadth == hunt.stage = "breadth"
Path == hunt.frontier[1]
Steps == EdgesFrom(hunt.frozen, hunt.ask.candidates, EndOf(Path, hunt.ask.in))

(* The next pool of the first unfinished path: passed over, a candidate     *)
(* that is prepared at once, or a longer unfinished path.                   *)
TryEdge ==
    /\ Breadth /\ hunt.frontier # <<>> /\ hunt.edge < Len(Steps)
    /\ LET h == Steps[hunt.edge + 1]
           way == Append(Path, h)
           seen == h.out = hunt.ask.in \/ SeenOn(Path, h.out)
           arrives == ~seen /\ h.out = hunt.ask.out
           grows == ~seen /\ ~arrives /\ Len(way) < RouteHops
           on == [hunt EXCEPT !.edge = @ + 1]
       IN \E d \in {IF arrives THEN PrepareTrade(hunt.frozen, hunt.ask, way) ELSE NoDeal} :
          IF (arrives /\ hunt.tried >= PathLimit) \/ (grows /\ Len(hunt.next) >= FrontierLimit)
          THEN Ends("budget", NoDeal)
          ELSE IF d # NoDeal
          THEN /\ hunt' = [on EXCEPT !.stage = "settled", !.best = way]
               /\ deal' = d
               /\ UNCHANGED <<venues, slots, landed>>
          ELSE Hunts([on EXCEPT !.tried = IF arrives THEN @ + 1 ELSE @,
                                !.next = IF grows THEN Append(@, way) ELSE @])

NextPath ==
    /\ Breadth /\ hunt.frontier # <<>> /\ hunt.edge = Len(Steps)
    /\ Hunts([hunt EXCEPT !.frontier = Tail(@), !.edge = 0])

NextLength ==
    /\ Breadth /\ hunt.frontier = <<>>
    /\ IF hunt.next = <<>> THEN Ends("settled", NoDeal)
       ELSE Hunts([hunt EXCEPT !.frontier = hunt.next, !.next = <<>>])

-----------------------------------------------------------------------------
(* prepare_best_pumpswap_trade(): the frontier is a stack.                  *)

OtherSide(p, ask) ==
    LET v == p[ask.pool] IN IF Canonical(ask.token) = v.base THEN v.quote ELSE v.base
WalkFrom(p, ask) == IF ask.buy THEN Canonical(ask.asset) ELSE OtherSide(p, ask)
WalkTo(p, ask)   == IF ask.buy THEN OtherSide(p, ask) ELSE Canonical(ask.asset)

AskBest == hunt.stage = "idle" /\ \E ask \in Asking("best") :
    /\ LET v == venues[ask.pool]
           token == Canonical(ask.token)
           refused == \/ v.venue # "pumpswap" \/ token \notin {v.base, v.quote}
                      \/ token = Canonical(ask.asset) \/ ask.pool \in ask.conversions
       IN Hunts([NoHunt EXCEPT !.ask = ask, !.frozen = venues, !.frontier = <<<<>>>>,
                               !.stage = IF refused THEN "settled" ELSE "depth"])

Depth == hunt.stage = "depth"
(* Faulty variant: the hop limit is taken before the path may arrive. *)
ArrivesShort ==
    /\ EndOf(Path, WalkFrom(hunt.frozen, hunt.ask)) = WalkTo(hunt.frozen, hunt.ask)
    /\ Len(Path) < hunt.ask.hops
Arrives == EndOf(Path, WalkFrom(hunt.frozen, hunt.ask)) = WalkTo(hunt.frozen, hunt.ask)
WalkOn ==
    LET start == WalkFrom(hunt.frozen, hunt.ask)
        onto == SelectSeq(EdgesFrom(hunt.frozen, hunt.ask.conversions, EndOf(Path, start)),
                          LAMBDA h : /\ h.out # Canonical(hunt.ask.token) /\ h.out # start
                                     /\ ~SeenOn(Path, h.out))
        ways == IF Arrives \/ Len(Path) = hunt.ask.hops THEN <<>>
                ELSE [i \in DOMAIN onto |-> Append(Path, onto[i])]
    IN [hunt EXCEPT !.frontier = ways \o Tail(@), !.nodes = @ + 1,
                    !.paths = IF Arrives THEN Append(@, Path) ELSE @]
Deepen ==
    /\ Depth /\ hunt.frontier # <<>>
    /\ IF hunt.nodes >= hunt.ask.nodes THEN Ends("budget", NoDeal) ELSE Hunts(WalkOn)

(* Every path is prepared; the best has the largest minimum, then the       *)
(* fewest hops, then the smallest addresses.                                *)
Pools(path) == [i \in DOMAIN path |-> path[i].pool]
RECURSIVE Before(_, _)
Before(s, t) ==
    IF t = <<>> THEN FALSE ELSE IF s = <<>> THEN TRUE
    ELSE s[1] < t[1] \/ (s[1] = t[1] /\ Before(Tail(s), Tail(t)))
Worth(p, ask, path) == PumpSwapRoute(p, ask, path).minimum
Better(a, new, b, old) ==
    \/ a > b
    \/ a = b /\ Len(new) < Len(old)
    \/ a = b /\ Len(new) = Len(old) /\ Before(Pools(new), Pools(old))
RankPath ==
    /\ Depth /\ hunt.frontier = <<>> /\ hunt.paths # <<>>
    /\ \E new \in {hunt.paths[1]} : \E worth \in {Worth(hunt.frozen, hunt.ask, new)} :
           Hunts([hunt EXCEPT !.paths = Tail(@), !.tried = IF worth > 0 THEN @ + 1 ELSE @,
                     !.best = IF /\ worth > 0
                                 /\ \/ hunt.tried = 0
                                    \/ Better(worth, new, Worth(hunt.frozen, hunt.ask, @), @)
                              THEN new ELSE @])
Ranked ==
    /\ Depth /\ hunt.frontier = <<>> /\ hunt.paths = <<>>
    /\ Ends("settled", IF hunt.tried = 0 THEN NoDeal
                       ELSE PumpSwapDeal(hunt.frozen, hunt.ask, hunt.best))

(* A snapshot that is not ready any more ends every search, whatever else   *)
(* could be tried.                                                          *)
SnapshotDies ==
    /\ hunt.stage \in {"breadth", "depth"}
    /\ Ends("not ready", NoDeal)

-----------------------------------------------------------------------------
(* The chain: all instructions of a transaction, or none. *)

MarketTurns ==
    /\ slots < MaxSlots /\ hunt.stage \in {"idle", "settled"}
    /\ slots' = slots + 1
    /\ \E i \in Moving, side \in {"x", "y"} : venues' = [venues EXCEPT ![i][side] = @ + @ \div 4]
    /\ UNCHANGED <<hunt, deal, landed>>

HeldIn(w, account) == IF account = "SOL" THEN w.SOL ELSE w.at[account]
Pays(w, account, n) ==
    IF account = "SOL" THEN [w EXCEPT !.SOL = @ - n] ELSE [w EXCEPT !.at[account] = @ - n]
Fails(w) == [w EXCEPT !.ok = FALSE]
Moves(w, from, n, to, m) ==
    IF HeldIn(w, from) < n \/ HeldIn(w, to) = Shut THEN Fails(w) ELSE Pays(Pays(w, from, n), to, -m)
(* What the venue gives: of DAMM v2, whose own curve is left out, a part of *)
(* its reserves.                                                            *)
VenueGives(v, n, in) ==
    IF v.venue = "damm v2"
    THEN [used |-> n, minimum |-> IF in = v.base THEN ProductOut(n, v.x, v.y) ELSE ProductOut(n, v.y, v.x)]
    ELSE LegQuote(v, n, in, 0)
Swapping(w, ix, used, out) ==
    IF out < ix.minimum THEN Fails(w) ELSE Moves(w, ix.from, used, ix.to, out)
SwapsOn(w, ix) ==
    LET q == VenueGives(venues[ix.pool], ix.n, ix.in) IN Swapping(w, ix, q.used, q.minimum)
OfficialOn(w, ix) ==
    Swapping(w, ix, ix.n,
        FoldLeft(LAMBDA n, h : LegQuote([venues[h.pool] EXCEPT !.cashback = FALSE], n, h.in, 0).minimum,
                 ix.n, ix.hints))
Executes(w, ix) ==
    IF ~w.ok THEN w
    ELSE CASE ix.op = "create" ->
                  IF w.at[ix.mint] = Shut THEN [w EXCEPT !.at[ix.mint] = 0] ELSE w
           [] ix.op = "temp" ->
                  IF w.SOL < ix.n \/ w.at["temp"] # Shut THEN Fails(w)
                  ELSE [w EXCEPT !.SOL = @ - ix.n, !.at["temp"] = ix.n - Rent]
           [] ix.op = "close" -> [w EXCEPT !.SOL = @ + w.at["temp"] + Rent, !.at["temp"] = Shut]
           [] ix.op = "unwrap" -> Moves(w, Wsol, ix.n, "temp", ix.n)
           [] ix.op = "fund" -> Moves(w, "SOL", ix.n, Wsol, ix.n)
           [] ix.op = "tip" -> IF w.SOL < ix.n THEN Fails(w) ELSE Pays(w, "SOL", ix.n)
           [] ix.op = "swap" -> SwapsOn(w, ix)
           [] ix.op = "official" -> OfficialOn(w, ix)
           [] ix.op = "nonce" -> w

Lands ==
    /\ hunt.stage = "settled" /\ deal # NoDeal
    /\ \E wallet \in RouteWallets : \E after \in {FoldLeft(Executes, wallet, deal.instructions)} :
       landed' = [ok |-> after.ok, ask |-> hunt.ask, before |-> wallet,
                  after |-> IF after.ok THEN after ELSE wallet,
                  same |-> venues = hunt.frozen, deal |-> deal,
                  hints |-> IF hunt.best # <<>> THEN hunt.best ELSE <<>>]
    /\ hunt' = [NoHunt EXCEPT !.stage = "landed"]
    /\ deal' = NoDeal
    /\ UNCHANGED <<venues, slots>>

(* The caller prepares anew. *)
AsksAgain ==
    /\ hunt.stage \in {"settled", "budget", "not ready", "landed"}
    /\ hunt' = NoHunt /\ deal' = NoDeal /\ landed' = NotLanded
    /\ UNCHANGED <<venues, slots>>

-----------------------------------------------------------------------------
(* Properties. *)

Account(w, mint) == IF mint = "SOL" THEN w.SOL ELSE Most(0, w.at[mint])
Endpoints(ask, hints) ==
    IF ask.kind = "best"
    THEN IF ask.buy THEN <<ask.asset, ask.token>> ELSE <<ask.token, ask.asset>>
    ELSE <<IF ask.nativeIn THEN "SOL" ELSE ask.in, IF ask.nativeOut THEN "SOL" ELSE ask.out>>

\* Whatever the route, its settlement and the market: a transaction that lands
\* spends no more than the amount, brings the protected minimum, touches the
\* balance of no other mint downwards, the wallet's own WSOL included, leaves no
\* temporary account, and needs no more SOL than it was said to; a transaction
\* that fails has changed nothing, and does so only when the market has moved,
\* an account was not to be created, a limit of the caller's own was missed or
\* the wallet did not hold what it was to spend.
RouteSettles ==
    landed # NotLanded =>
        LET w == landed.before
            a == landed.after
            ask == landed.ask
            ends == Endpoints(ask, landed.hints)
            required == landed.deal.required
            tip == ask.tip
        IN /\ landed.ok =>
              /\ a.at["temp"] = Shut
              /\ a.SOL >= w.SOL - required
              /\ ends[1] # "SOL" => Account(a, ends[1]) >= Account(w, ends[1]) - ask.amount
              /\ Account(a, ends[2]) + (IF ends[2] = "SOL" THEN tip ELSE 0)
                     >= Account(w, ends[2]) + landed.deal.minimum
              /\ \A m \in DOMAIN w.at \ {"temp", ends[1]} : Account(a, m) >= Account(w, m)
           /\ ~landed.ok =>
              \/ ~landed.same
              \/ w.SOL < required
              \/ ends[1] # "SOL" /\ Account(w, ends[1]) < ask.amount
              \/ ask.kind = "best" /\ ~ask.accounts
              \/ ask.kind = "trade" /\ (ask.fixed > 0 \/ ask.pump.minimum > 0)

\* All paths without a mint or a pool twice, of at most n hops.
SimplePaths(p, pools, from, to, n, barred) ==
    LET P[k \in 0 .. n] ==
            IF k = 0 THEN {<<>>}
            ELSE P[k - 1] \union
                 UNION {{Append(q, Hint(p, i, EndOf(q, from))) :
                             i \in {j \in pools : EndOf(q, from) \in {p[j].base, p[j].quote}}} :
                         q \in {r \in P[k - 1] : EndOf(r, from) # to}}
        simple(q) == q # <<>> => IsInjective(Mints(q)) /\ IsInjective(Pools(q)) /\ ~SeenOn(q, barred)
    IN {q \in P[n] : simple(q)}

\* A search for candidates ends with the executable path that has the fewest
\* hops, one for the best PumpSwap route with the largest protected minimum of
\* all: both against all simple paths.  It gives up only when none is executable
\* or the paths are more than it may look at.
SearchFindsBest ==
    LET ask == hunt.ask
        p == hunt.frozen
    IN /\ ask.kind = "trade" /\ ask.kind # "none" =>
              LET all == SimplePaths(p, ask.candidates, ask.in, ask.out, RouteHops, "none")
                  found == {q \in all : q # <<>> /\ EndOf(q, ask.in) = ask.out}
                  works == {q \in found : PrepareTrade(p, ask, q) # NoDeal}
              IN ask.hints = <<>> =>
                 /\ hunt.stage = "settled" => IF deal = NoDeal THEN works = {}
                        ELSE /\ hunt.best \in works
                             /\ \A q \in works : Len(hunt.best) <= Len(q)
                 /\ hunt.stage = "budget" =>
                        Cardinality(found) > PathLimit \/ Cardinality(all) > FrontierLimit
       /\ ask.kind = "best" =>
              LET all == SimplePaths(p, ask.conversions, WalkFrom(p, ask), WalkTo(p, ask), ask.hops,
                                     Canonical(ask.token))
                  works == {q \in all : /\ EndOf(q, WalkFrom(p, ask)) = WalkTo(p, ask)
                                        /\ PumpSwapRoute(p, ask, q) # NoRoute}
              IN /\ hunt.stage = "settled" /\ ask.asset # ask.token /\ hunt.nodes > 0 =>
                        IF hunt.tried = 0 THEN works = {}
                        ELSE /\ hunt.best \in works
                             /\ \A q \in works : PumpSwapRoute(p, ask, q).minimum
                                                    <= PumpSwapRoute(p, ask, hunt.best).minimum
                 /\ hunt.stage = "budget" => Cardinality(all) > ask.nodes
=============================================================================
