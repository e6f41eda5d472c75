----------------------------- MODULE CachedRoutesMC ----------------------------
(***************************************************************************)
(* Eleven pools of eight mints for the routes: W is wrapped SOL, U is USDC, *)
(* M a mint with a transfer fee; three curves, one in SOL (6), one in USDC  *)
(* (7) and one in another token (10), each with a fee schedule of its own.  *)
(***************************************************************************)
EXTENDS CachedRoutes, TLC

MCMintFee == [m \in {"W", "U", "M", "T", "C", "D", "E", "F"} |->
                 IF m = "M" THEN [bps |-> 1500, most |-> 2] ELSE [bps |-> 0, most |-> 0]]
Tier(from, protocol, creator) ==
    [from |-> from, lp |-> 0, protocol |-> protocol, creator |-> creator]
MCCurveFees ==
    [tiers |-> <<Tier(0, 100, 300), Tier(100, 300, 100)>>,
     stable |-> <<Tier(0, 500, 0), Tier(200, 200, 200)>>,
     flat |-> Tier(0, 900, 0), exotic |-> Tier(0, 0, 700)]
MCPools ==
    <<[venue |-> "pumpswap", base |-> "T", quote |-> "W", x |-> 120, y |-> 60, virtual |-> 4, lp |-> 20, fee |-> 5,
       creator |-> 30, slip |-> 0, disabled |-> {}, cashback |-> FALSE, mayhem |-> FALSE, canonical |-> TRUE],
      [venue |-> "cpmm", base |-> "U", quote |-> "W", x |-> 60, y |-> 180, trade |-> 2500, creator |-> 20000,
       on |-> 2, open |-> TRUE],
      [venue |-> "cpmm", base |-> "M", quote |-> "W", x |-> 150, y |-> 150, trade |-> 2500, creator |-> 0,
       on |-> 0, open |-> TRUE],
      [venue |-> "amm v4", base |-> "U", quote |-> "W", x |-> 50, y |-> 160, fee |-> 25, open |-> TRUE],
      [venue |-> "launchlab", base |-> "M", quote |-> "U", x |-> 200, y |-> 40, left |-> 50, rate |-> 10000,
       open |-> TRUE],
      [venue |-> "pumpfun", base |-> "C", quote |-> "W", x |-> 200, y |-> 50, real |-> 90, supply |-> 400,
       override |-> 0, creatorSet |-> TRUE, mayhem |-> FALSE, cashback |-> FALSE, complete |-> FALSE],
      [venue |-> "pumpfun", base |-> "D", quote |-> "U", x |-> 200, y |-> 60, real |-> 90, supply |-> 900,
       override |-> 50, creatorSet |-> TRUE, mayhem |-> FALSE, cashback |-> TRUE, complete |-> FALSE],
      [venue |-> "pumpswap", base |-> "E", quote |-> "D", x |-> 150, y |-> 70, virtual |-> 0, lp |-> 20, fee |-> 5,
       creator |-> 0, slip |-> 0, disabled |-> {}, cashback |-> FALSE, mayhem |-> FALSE, canonical |-> TRUE],
      [venue |-> "damm v2", base |-> "F", quote |-> "W", x |-> 90, y |-> 90],
      [venue |-> "pumpfun", base |-> "F", quote |-> "T", x |-> 200, y |-> 60, real |-> 90, supply |-> 900,
       override |-> 0, creatorSet |-> TRUE, mayhem |-> FALSE, cashback |-> FALSE, complete |-> FALSE],
      [venue |-> "damm v2", base |-> "M", quote |-> "W", x |-> 90, y |-> 90]>>
MCWorlds == {MCPools, [MCPools EXCEPT ![2].open = FALSE, ![8].canonical = FALSE],
             [MCPools EXCEPT ![5].left = 3, ![4].y = 220]}
NoPump == [mode |-> "auto", minimum |-> 0]
AskOf(dex, buy, hints, cands, in, out) ==
    [kind |-> "trade", dex |-> dex, buy |-> buy, hints |-> hints, candidates |-> cands, in |-> in, out |-> out,
     amount |-> 12, slip |-> 500, nativeIn |-> FALSE, nativeOut |-> FALSE, tip |-> 0, fixed |-> 0, pump |-> NoPump]
Way(ids, in) ==
    LET m[i \in 0 .. Len(ids)] == IF i = 0 THEN in
            ELSE IF MCPools[ids[i]].base = m[i - 1] THEN MCPools[ids[i]].quote ELSE MCPools[ids[i]].base
    IN [i \in 1 .. Len(ids) |-> Hint(MCPools, ids[i], m[i - 1])]
Asked(dex, buy, ids, in) ==
    LET w == Way(ids, in) IN AskOf(dex, buy, w, {}, in, w[Len(w)].out)
Hinted ==
    {Asked("pumpswap", TRUE, <<1>>, "W"), Asked("pumpswap", FALSE, <<1>>, "T"),
     Asked("pumpswap", TRUE, <<2, 1>>, "U"), Asked("pumpswap", FALSE, <<1, 4>>, "T"),
     Asked("cpmm", FALSE, <<3>>, "M"), Asked("launchlab", TRUE, <<5>>, "U"),
     Asked("launchlab", FALSE, <<5, 4>>, "M"), Asked("launchlab", TRUE, <<5>>, "M"),
     Asked("pumpfun", TRUE, <<6>>, "W"), Asked("pumpfun", FALSE, <<6>>, "C"),
     Asked("pumpfun", TRUE, <<2, 6>>, "U"), Asked("pumpfun", FALSE, <<6, 4>>, "C"),
     Asked("pumpfun", TRUE, <<5, 3, 6>>, "U"), Asked("pumpfun", FALSE, <<6, 2, 7>>, "C"),
     Asked("pumpswap", TRUE, <<7, 8>>, "U"), Asked("pumpswap", FALSE, <<8, 7>>, "E"),
     Asked("pumpswap", FALSE, <<8, 7, 2>>, "E"),
     Asked("pumpfun", TRUE, <<10>>, "T"), Asked("pumpfun", FALSE, <<10>>, "F"), Asked("cpmm", TRUE, <<2, 4>>, "U")}
Natives == {[nativeIn |-> i, nativeOut |-> o] : i, o \in BOOLEAN}
Varied(a) ==
    {[a EXCEPT !.nativeIn = n.nativeIn, !.nativeOut = n.nativeOut, !.tip = IF n.nativeIn THEN 1 ELSE 0] : n \in Natives}
    \union {[a EXCEPT !.pump = [mode |-> m, minimum |-> k]] : m \in {"auto", "official", "sequential"}, k \in {3, 20}}
    \union {[a EXCEPT !.amount = 40, !.slip = s] : s \in {0, 3000}}
Damms == {[Asked("damm v2", b, <<9>>, IF b THEN "W" ELSE "F") EXCEPT !.fixed = f] : b \in BOOLEAN, f \in {0, 9, 60}}
         \union {[Asked("damm v2", TRUE, <<11>>, "W") EXCEPT !.fixed = 9]}
Searched ==
    {AskOf(d, TRUE, <<>>, 1 .. 9, "U", "T") : d \in {"pumpswap", "cpmm"}}
    \union {AskOf("cpmm", FALSE, <<>>, 2 .. 5, "M", "U"), AskOf("amm v4", TRUE, <<>>, 2 .. 5, "M", "U"),
            AskOf("launchlab", TRUE, <<>>, 2 .. 5, "W", "M"), AskOf("pumpfun", TRUE, <<>>, 1 .. 8, "U", "C"),
            AskOf("pumpfun", FALSE, <<>>, 2 .. 7, "C", "D"), AskOf("pumpswap", TRUE, <<>>, {2, 4, 7, 8}, "W", "E"),
            AskOf("cpmm", TRUE, <<>>, {2, 5}, "T", "W")}
BestOf(buy, asset, conv, hops, nodes, impact, n) ==
    [kind |-> "best", pool |-> 1, token |-> "T", asset |-> asset, conversions |-> conv, hops |-> hops, nodes |-> nodes,
     amount |-> n, slip |-> 500, bridgeSlip |-> 200, bridgeImpact |-> impact, buy |-> buy, tip |-> 1,
     nonce |-> buy, accounts |-> impact > 1000]
Bests ==
    {BestOf(b, a, c, h, k, i, n) : b \in BOOLEAN, a \in {"U", "SOL", "W", "M"}, c \in {2 .. 5, {2, 4}},
                                   h \in {1, 2, 3}, k \in {4, 512}, i \in {1000, 3000}, n \in {12, 30}}
MCAsks == UNION {Varied(a) : a \in Hinted} \union Damms \union Searched \union Bests
WalletOf(sol, n) == [SOL |-> sol, ok |-> TRUE, at |-> [m \in {"W", "U", "M", "T", "C", "D", "E", "F", "temp"} |->
                        IF m = "temp" THEN Shut ELSE n]]
MCRouteWallets == {WalletOf(60, 45), WalletOf(3, 45), [WalletOf(60, 12) EXCEPT !.at["W"] = Shut, !.at["T"] = Shut]}
=============================================================================
