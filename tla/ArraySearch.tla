------------------------------ MODULE ArraySearch ------------------------------
(***************************************************************************)
(* The cached quotes through concentrated liquidity (cached_clmm.py,        *)
(* cached_whirlpool.py, cached_dlmm.py).  A pool keeps its ticks or bins in *)
(* arrays that have to be loaded one by one; the quote is tried again with  *)
(* every array until it takes the whole input or the budget of arrays is    *)
(* used up.  A walk is one of LiquidityWalk, over what is loaded so far.    *)
(*                                                                          *)
(* An ask is [pool, disabled, opens, now, down, amount, budget, epoch,      *)
(* taxIn, taxOut]: whether the pool's status bars swaps, and when it opens, *)
(* in the slots or seconds its venue counts.  A mint is                     *)
(* [program, barred, older, newer, since]: whether transfers are paused,    *)
(* hooked or frozen, and its two transfer fees [bps, most] with the epoch   *)
(* that divides them.                                                       *)
(***************************************************************************)
EXTENDS LiquidityWalk
LOCAL INSTANCE TLC

CONSTANTS TickArraySize,    \* ticks to an array, 60 and 88 in the code
          WhirlpoolArrays,  \* 6 in the code
          SearchAsks, SearchSlippage

VARIABLE search

searchVars == <<walkVars, search>>

NoSearch == [stage |-> "idle"]
SearchInit == WalkInit /\ search = NoSearch

-----------------------------------------------------------------------------
(* The mints. *)

Tax(m, epoch) == IF m.program = "token" THEN [bps |-> 0, most |-> 0]
                 ELSE IF epoch >= m.since THEN m.newer ELSE m.older
Taxed(n, tax) == n - Least(tax.most, FeeOf(n, tax.bps))
MintServes(m) == m.program \in {"token", "token 2022"} /\ ~m.barred

-----------------------------------------------------------------------------
(* The arrays. *)

SizeOf(p) == IF p.kind = "dlmm" THEN ArraySize ELSE TickArraySize * p.spacing
FirstArray(p, down) ==
    (p.tick + IF p.kind = "whirlpool" /\ ~down THEN p.spacing ELSE 0) \div SizeOf(p)
ArrayNow(s) == FirstArray(s.pool, s.down) + IF s.down THEN -s.offset ELSE s.offset
Beyond(p, n) == n * SizeOf(p) > MaxTick \/ (n + 1) * SizeOf(p) <= MinTick

\* What the bitmaps say of array n; a Whirlpool has none.
ClmmInitialized(p, n) ==
    \E t \in DOMAIN p.net : t \div SizeOf(p) = n /\ (p.gross[t] > 0 \/ p.orders[t] > 0)
DlmmInitialized(p, n) == n \in p.loaded

\* The pool as the arrays in S show it.
ClmmTicks(p, S) == {t \in DOMAIN p.net : t \div SizeOf(p) \in S /\ (p.gross[t] > 0 \/ p.orders[t] > 0)}
InitializedTicks(p, S) == {t \in DOMAIN p.net : t \div SizeOf(p) \in S}
DlmmBins(p, S) == {i \in DOMAIN p.bins : i \div SizeOf(p) \in S}
OnlyTicks(p, ticks) ==
    LET On(f) == [t \in ticks |-> f[t]]
    IN [p EXCEPT !.net = On(@), !.gross = On(@), !.orders = On(@)]
Shown(p, S) ==
    CASE p.kind = "clmm" -> OnlyTicks(p, ClmmTicks(p, S))
      [] p.kind = "dlmm" -> [p EXCEPT !.loaded = S, !.bins = [i \in DlmmBins(p, S) |-> @[i]]]
      [] OTHER -> [OnlyTicks(p, InitializedTicks(p, S)) EXCEPT
                     !.lower = Most(MinTick, SizeOf(p) * CHOOSE n \in S : \A m \in S : n <= m),
                     !.upper = Least(MaxTick, SizeOf(p) * (1 + CHOOSE n \in S : \A m \in S : n >= m) - 1)]

\* A walk over a CLMM ends at the border of the last array; the others go on
\* to the end of the prices.
BorderOf(s) ==
    IF s.pool.kind = "whirlpool" THEN SqrtPrice[IF s.down THEN MinTick ELSE MaxTick]
    ELSE IF s.down THEN SqrtPrice[Most(ArrayNow(s) * SizeOf(s.pool), MinTick)]
         ELSE SqrtPrice[Least((ArrayNow(s) + 1) * SizeOf(s.pool) - 1, MaxTick)]

WalkFor(p, amount, border, down) ==
    IF p.kind # "dlmm" THEN Started(p, amount, border, down)
    ELSE [stage |-> "walking", down |-> down, amount |-> amount, missing |-> "strict",
          remaining |-> amount, output |-> 0, current |-> p.tick, crossed |-> 0,
          bins |-> p.bins, volatile |-> Volatile(p.dynamic, p.tick, 1)]

-----------------------------------------------------------------------------
(* The search. *)

Told(s, stage) == [s EXCEPT !.stage = stage]
OnlySearch(s) == search' = s /\ UNCHANGED walkVars

\* Faulty variant: what the loaded arrays give will do.
TookSome == walk.stage = "done" /\ walk.output > 0
\* Only a walk that took the whole input is a quote.
Took == walk.stage = "done" /\ walk.remaining = 0

\* A CLMM opens after its opening time, a DLMM at its activation; only the
\* oracle of an adaptive fee holds the time a Whirlpool is enabled.
Opened(a) ==
    CASE a.pool.kind = "clmm" -> ~a.disabled /\ a.now > a.opens
      [] a.pool.kind = "dlmm" -> ~a.disabled /\ a.now >= a.opens
      [] OTHER -> a.pool.dynamic.on => a.now >= a.opens

\* A request of a pool of this kind: the pool must be open, both mints must
\* serve, and something must be left of the input after its transfer fee.
SearchFor(kind) ==
    /\ search = NoSearch
    /\ \E a \in {b \in SearchAsks : b.pool.kind = kind} :
       \E in \in {Taxed(a.amount, Tax(a.taxIn, a.epoch))} :
         OnlySearch(a @@ [offset |-> 0, shown |-> {}, read |-> 0, in |-> in, out |-> 0, least |-> 0,
                          stage |-> IF Opened(a) /\ MintServes(a.taxIn) /\ MintServes(a.taxOut) /\ in > 0
                                    THEN "loading" ELSE "refused"])
AskClmm == SearchFor("clmm")
AskWhirlpool == SearchFor("whirlpool")
AskDlmm == SearchFor("dlmm")

\* The search goes on with the next array, or tries again with this one.
Further(s, shown) == Told([s EXCEPT !.offset = @ + 1, !.shown = shown], "loading")
Reads(s) == [s EXCEPT !.shown = @ \union {ArrayNow(s)}, !.read = @ + 1]
Ahead(s) == Behind(BorderOf(s), s.pool.price, s.down)
Tries(r) == \E p \in {Shown(r.pool, r.shown)} :
    /\ walkPool' = p
    /\ walk' = WalkFor(p, r.in, BorderOf(r), r.down)
    /\ walked' = <<>>
    /\ search' = Told(r, "trying")

Loading(kind) == search.stage = "loading" /\ search.pool.kind = kind
LoadClmm == LET s == search r == Reads(s) n == ArrayNow(s) IN
    /\ Loading("clmm")
    /\ IF Beyond(s.pool, n) THEN OnlySearch(Told(s, "insufficient"))
       ELSE IF ~ClmmInitialized(s.pool, n) THEN OnlySearch(Further(s, s.shown))
       ELSE IF r.read > s.budget THEN OnlySearch(Told(s, "budget"))
       ELSE IF ~Ahead(s) THEN OnlySearch(Further(r, r.shown))
       ELSE Tries(r)
LoadWhirlpool == LET s == search IN
    /\ Loading("whirlpool")
    /\ IF s.offset = Least(s.budget, WhirlpoolArrays) \/ Beyond(s.pool, ArrayNow(s))
       THEN OnlySearch(Told(s, "budget")) ELSE Tries(Reads(s))
LoadDlmm == LET s == search n == ArrayNow(s) IN
    /\ Loading("dlmm")
    /\ IF Beyond(s.pool, n) THEN OnlySearch(Told(s, "insufficient"))
       ELSE IF ~DlmmInitialized(s.pool, n) THEN OnlySearch(Further(s, s.shown \union {n}))
       ELSE Tries(Reads(s))

\* What the walk came to.
Minimum(out) == (out * (10000 - SearchSlippage)) \div 10000
Quoted(s) == \E out \in {Taxed(walk.output, Tax(s.taxOut, s.epoch))} :
    OnlySearch([s EXCEPT !.stage = IF Minimum(out) = 0 THEN "refused" ELSE "quoted",
                         !.out = out, !.least = Minimum(out)])
Tried(kind) == search.stage = "trying" /\ walk.stage # "walking" /\ search.pool.kind = kind
MoreOrSpent(s) == OnlySearch(IF s.read >= s.budget THEN Told(s, "budget") ELSE Further(s, s.shown))

ClmmTried ==
    /\ Tried("clmm")
    /\ IF Took THEN Quoted(search)
       ELSE IF walk.stage = "done" THEN MoreOrSpent(search)
       ELSE OnlySearch(Told(search, "refused"))
WhirlpoolTried ==
    /\ Tried("whirlpool")
    /\ IF Took THEN Quoted(search)
       ELSE IF walk.stage \in {"done", "arrays"} THEN OnlySearch(Further(search, search.shown))
       ELSE OnlySearch(Told(search, "refused"))
DlmmTried ==
    /\ Tried("dlmm")
    /\ IF Took THEN Quoted(search) ELSE MoreOrSpent(search)

\* The venue swaps with the whole pool before it.
Everywhere(p) == {n \in MinTick - 1 .. MaxTick + 1 : ~Beyond(p, n)}
VenueWalks == LET s == search IN
    /\ s.stage \in {"quoted", "insufficient"}
    /\ LET p == Shown(s.pool, Everywhere(s.pool))
           end == SqrtPrice[IF s.down THEN MinTick ELSE MaxTick]
       IN /\ p.kind # "dlmm" => Behind(end, p.price, s.down)
          /\ walkPool' = p
          /\ walk' = WalkFor(p, s.in, end, s.down)
          /\ walked' = <<>>
    /\ search' = Told(s, IF s.stage = "quoted" THEN "landing" ELSE "proving")

\* The caller goes on to another pool.
LeaveIt == /\ search.stage \in {"refused", "budget", "quoted", "insufficient", "landing", "proving"}
           /\ walk.stage # "walking"
           /\ search' = NoSearch /\ walkPool' = NoPool /\ walk' = NoWalk /\ walked' = <<>>

TurnOfSearch == search.stage \in {"trying", "landing", "proving"} /\ UNCHANGED search
SearchNext == \/ AskClmm \/ AskWhirlpool \/ AskDlmm
              \/ LoadClmm \/ LoadWhirlpool \/ LoadDlmm
              \/ ClmmTried \/ WhirlpoolTried \/ DlmmTried \/ VenueWalks \/ LeaveIt

-----------------------------------------------------------------------------
(* Properties. *)

Landed(stage) == search.stage = stage /\ walk.stage = "done"

\* A quote from the arrays loaded so far is what the venue does with all of
\* them: it takes the whole input, and what it pays covers the protected
\* minimum.  Liquidity is reported as insufficient only when all arrays
\* together do not take the input.
ArraysSuffice ==
    /\ Landed("landing") =>
         /\ walk.remaining = 0
         /\ search.least <= Taxed(walk.output, Tax(search.taxOut, search.epoch))
    /\ Landed("proving") => walk.remaining > 0
=============================================================================
