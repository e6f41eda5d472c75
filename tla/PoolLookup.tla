------------------------------ MODULE PoolLookup ------------------------------
(***************************************************************************)
(* Where the parameters of a Pump trade come from: the lookups by RPC of    *)
(* pumpswap_builder.py and pumpfun_builder.py, one read after the other     *)
(* while the market moves, and the events and creation trades that params   *)
(* are rebuilt from.  Addresses, token programs and the cashback of the     *)
(* caller are data and left out.                                            *)
(*                                                                          *)
(* An account is Absent, "foreign" (another discriminator), "garbled"        *)
(* (length or flags) or a pool                                              *)
(*     [base, quote, lp, pump, creator, virtual, b, q]                      *)
(* (pump: created by the migration; creator: a coin creator is named; b, q: *)
(* what its two token accounts hold) or a curve                             *)
(*     [quote, vt, vq, rt, rq]      virtual and real tokens and quotes.     *)
(***************************************************************************)
EXTENDS Integers, Sequences, FiniteSets

CONSTANTS
    Worlds,         \* what the chain may hold at first: [Pools \cup {"curve"} -> accounts]
    Supply,         \* supply of a pool's base mint
    FeeConfig,      \* [flat, tiers, stable, exotic]: the program's fee account
    LegacyFees,     \* fees without a fee account
    InitialCurve,   \* [vt, rt, vq]: a curve's reserves before its first trade
    BroughtFees,    \* fees a caller may bring along
    Amounts,        \* base balances that trades lead to
    CurveBuys,      \* <<tokens, price>> of the trades on a curve
    MaxMoves        \* bound: changes of the market

VARIABLES
    world,          \* the chain
    moves,
    lookup,         \* the lookup under way or ended
    since           \* history: the worlds since the lookup began, or its event happened

lookupVars == <<world, moves, lookup, since>>

Pools == {"v2", "canonical", "other"}
Absent == [absent |-> TRUE]
Foreign == [foreign |-> TRUE]
Garbled == [broken |-> TRUE]
Unread == -1
NoFees == [none |-> TRUE]
NoLookup == [at |-> "none"]

IsPool(account) == "lp" \in DOMAIN account
IsCurve(account) == "vt" \in DOMAIN account
Busy == lookup.at \notin {"none", "done", "failed"}

(* What the accounts hold.  The two addresses derived from a mint can only   *)
(* hold pools of that mint, no pool is without tokens, and a curve's virtual *)
(* reserves stay ahead of the real ones by what it began with.              *)
PoolAccounts ==
    [base : STRING, quote : STRING, lp : Nat, pump : BOOLEAN, creator : BOOLEAN,
     virtual : Int, b : Nat \ {0}, q : Nat]
BondingCurves ==
    {c \in [quote : DOMAIN InitialCurve.vq, vt : Nat, vq : Nat, rt : Nat, rq : Nat] :
        c.vt - c.rt = InitialCurve.vt - InitialCurve.rt /\ c.vq - c.rq = InitialCurve.vq[c.quote]}
Unusable == {Absent, Foreign, Garbled}
Holdings ==
    {w \in [Pools \cup {"curve"} -> PoolAccounts \cup BondingCurves \cup Unusable] :
        /\ w.curve \notin PoolAccounts
        /\ \A p \in Pools : w[p] \notin BondingCurves
        /\ \A p \in {"v2", "canonical"} : IsPool(w[p]) => w[p].base = "TOKEN"}
FeeRates == [lp : Nat, creator : Nat]
FeeTiers == [from : Nat, fees : FeeRates]

(* The program's tiers are in ascending order, which calculate_fee_tier,     *)
(* walking them from the end, depends on.                                    *)
ASSUME LookupAssumption ==
    /\ Worlds \subseteq Holdings
    /\ Supply \in Nat
    /\ FeeConfig \in [flat : FeeRates, exotic : FeeRates \cup {NoFees},
                      tiers : Seq(FeeTiers), stable : Seq(FeeTiers)]
    /\ FeeConfig.tiers # <<>>
    /\ \A i, j \in DOMAIN FeeConfig.tiers :
           i < j => FeeConfig.tiers[i].from < FeeConfig.tiers[j].from
    /\ LegacyFees \in FeeRates
    /\ BroughtFees \subseteq FeeRates \cup {NoFees}
    /\ InitialCurve \in [vt : Nat, rt : Nat, vq : [DOMAIN InitialCurve.vq -> Nat]]
    /\ InitialCurve.rt <= InitialCurve.vt
    /\ "SOL" \in DOMAIN InitialCurve.vq
    /\ Amounts \subseteq Nat \ {0}
    /\ CurveBuys \subseteq Nat \X Nat
    /\ MaxMoves \in Nat

LookupInit == world \in Worlds /\ moves = 0 /\ lookup = NoLookup /\ since = {}

---------------------------------------------------------------------------
(* The chain (external): trades along the invariant, deposits, migration. *)

Becomes(p, account) ==
    /\ moves < MaxMoves /\ Busy
    /\ moves' = moves + 1
    /\ world' = [world EXCEPT ![p] = account]
    /\ since' = since \cup {world'}
    /\ UNCHANGED lookup

PoolTrades(p, b) ==
    /\ IsPool(world[p]) /\ b # world[p].b
    /\ (world[p].b * world[p].q) % b = 0
    /\ Becomes(p, [world[p] EXCEPT !.b = b, !.q = (world[p].b * world[p].q) \div b])
PoolDeepens(p) ==
    /\ IsPool(world[p])
    /\ Becomes(p, [world[p] EXCEPT !.lp = @ + 2, !.b = 2 * @, !.q = 2 * @])
CurveTrades(n, paid) ==
    /\ IsCurve(world.curve) /\ world.curve.rt >= n
    /\ Becomes("curve", [world.curve EXCEPT !.vt = @ - n, !.rt = @ - n, !.vq = @ + paid, !.rq = @ + paid])

---------------------------------------------------------------------------
(* Decoding and fees. *)

decode_pool(account) == IF account = Garbled THEN Absent ELSE account
decode_pool_account(account) == IF account = Foreign THEN Absent ELSE decode_pool(account)
decode_curve(account) == IF account \in {Foreign, Garbled} THEN Absent ELSE account

MarketCap(b, q) == IF b = 0 THEN Unread ELSE (q * Supply) \div b

(* Faulty variant: the first tier that is reached, from the lowest. *)
FeeTierFirst(tiers, cap) ==
    LET reached == {i \in DOMAIN tiers : cap >= tiers[i].from}
    IN IF reached = {} THEN tiers[1].fees
       ELSE tiers[CHOOSE i \in reached : \A j \in reached : i <= j].fees
(* calculate_fee_tier: the tiers are walked from the highest. *)
FeeTier(tiers, cap) ==
    LET reached == {i \in DOMAIN tiers : cap >= tiers[i].from}
    IN IF reached = {} THEN tiers[1].fees
       ELSE tiers[CHOOSE i \in reached : \A j \in reached : i >= j].fees

ComputeFees(config, pump, supply, b, q, quote) ==
    IF config = NoFees THEN LegacyFees
    ELSE IF ~pump THEN config.flat
    ELSE IF supply = Unread \/ MarketCap(b, q) = Unread THEN LegacyFees
    ELSE IF quote \notin {"SOL", "USDC"}
         THEN IF config.exotic # NoFees THEN config.exotic ELSE config.flat
    ELSE LET tiers == IF quote = "USDC" /\ config.stable # <<>> THEN config.stable ELSE config.tiers
         IN IF tiers = <<>> THEN config.flat ELSE FeeTier(tiers, MarketCap(b, q))

WithoutCreator(fees) == [fees EXCEPT !.creator = 0]

(* What the builder charges for params, given or not. *)
EffectiveFees(params) ==
    LET fees == IF params.fees = NoFees THEN LegacyFees ELSE params.fees
    IN IF params.creator THEN fees ELSE WithoutCreator(fees)

---------------------------------------------------------------------------
(* Lookups by RPC.  `given`: fees the caller brings, trusted as they are.   *)
(* A read is answered ("true"), answered with nothing ("none") or raises.   *)

Fetches == {"true", "none", "raises"}

Begin(kind, wanted, given) ==
    /\ lookup = NoLookup
    /\ lookup' = [at |-> kind, kind |-> kind, wanted |-> wanted, given |-> given, silent |-> FALSE]
    /\ since' = {world}
    /\ UNCHANGED <<world, moves>>

from_pool_address_by_rpc(p, given) == p \in Pools /\ Begin("address", p, given)
from_mint_by_rpc(given) == Begin("mint", "TOKEN", given)

Goes(next) == lookup' = next /\ UNCHANGED <<world, moves, since>>
Heard(answer) == [lookup EXCEPT !.silent = @ \/ answer # "true"]
EndsAfter(l) == Goes([l EXCEPT !.at = "failed"])

(* The balances are read next, for the pool as it was decoded. *)
Found(l, p, account) ==
    Goes([at |-> "base", kind |-> l.kind, wanted |-> l.wanted, given |-> l.given,
          silent |-> l.silent, pool |-> p, account |-> account])

Account(p, answer) == IF answer = "true" THEN world[p] ELSE Absent

fetch_pool(answer) ==
    /\ lookup.at = "address"
    /\ LET account == decode_pool_account(Account(lookup.wanted, answer))
       IN IF IsPool(account) THEN Found(Heard(answer), lookup.wanted, account)
          ELSE EndsAfter(Heard(answer))

(* find_by_mint: the v2 address first, then the canonical one. *)
TriesAddress(stage, p, answer, else) ==
    /\ lookup.at = stage
    /\ LET account == decode_pool_account(Account(p, answer))
       IN IF answer # "raises" /\ IsPool(account) /\ account.base = lookup.wanted
          THEN Found(Heard(answer), p, account)
          ELSE Goes([Heard(answer) EXCEPT !.at = IF answer = "raises" THEN "failed" ELSE else])
find_by_mint(answer) ==
    \/ TriesAddress("mint", "v2", answer, "second")
    \/ TriesAddress("second", "canonical", answer, "failed")

(* The deepest of the pools that decode; of several any comes first. *)
Scan(stage, matches, answer) ==
    /\ lookup.at = stage
    /\ LET pools == {p \in matches : answer = "true" /\ IsPool(decode_pool_account(world[p]))}
       IN IF pools = {} THEN EndsAfter(Heard(answer))
          ELSE \E p \in pools :
                   /\ \A other \in pools : world[p].lp >= world[other].lp
                   /\ Found(Heard(answer), p, world[p])
find_by_base_mint(answer) ==
    Scan("base mint", {p \in Pools : IsPool(world[p]) /\ world[p].base = lookup.wanted}, answer)
find_by_quote_mint(answer) ==
    Scan("quote mint", {p \in Pools : IsPool(world[p]) /\ world[p].quote = lookup.wanted}, answer)

(* get_token_balances: one token account, then the other. *)
ReadsBase(answer) ==
    /\ lookup.at = "base"
    /\ IF answer = "raises" THEN EndsAfter(Heard(answer))
       ELSE Goes([x \in DOMAIN lookup \cup {"b"} |->
                  IF x = "b" THEN IF answer = "true" THEN world[lookup.pool].b ELSE Unread
                  ELSE IF x = "at" THEN "quote" ELSE Heard(answer)[x]])
ReadsQuote(answer) ==
    /\ lookup.at = "quote"
    /\ IF answer # "true" \/ lookup.b = Unread \/ world[lookup.pool].q + lookup.account.virtual < 0
       THEN EndsAfter(Heard(answer))
       ELSE Goes([x \in DOMAIN lookup \cup {"q"} |->
                  IF x = "q" THEN world[lookup.pool].q
                  ELSE IF x = "at" THEN "supply" ELSE Heard(answer)[x]])

(* The last part of params_from_pool_data. *)
Params(l, fees) ==
    [pool |-> l.pool, b |-> l.b, q |-> l.q, virtual |-> l.account.virtual,
     creator |-> l.account.creator, quote |-> l.account.quote,
     fees |-> IF l.account.creator THEN fees ELSE WithoutCreator(fees)]
Result(l, params) ==
    [at |-> "done", kind |-> l.kind, wanted |-> l.wanted, given |-> l.given,
     silent |-> l.silent, params |-> params]
Gives(l, fees) == Goes(Result(l, Params(l, fees)))

ReadsSupply(answer) ==
    /\ lookup.at = "supply"
    /\ IF answer = "raises" THEN EndsAfter(Heard(answer))
       ELSE IF lookup.given # NoFees THEN Gives(Heard(answer), lookup.given)
       ELSE Goes([x \in DOMAIN lookup \cup {"supply"} |->
                  IF x = "supply" THEN IF answer = "true" THEN Supply ELSE Unread
                  ELSE IF x = "at" THEN "fees" ELSE Heard(answer)[x]])
(* The quote mint is not handed on: every pool counts as native here. *)
ReadsFees(answer) ==
    /\ lookup.at = "fees"
    /\ IF answer = "raises" THEN EndsAfter(Heard(answer))
       ELSE Gives(Heard(answer),
                  ComputeFees(IF answer = "true" THEN FeeConfig ELSE NoFees, lookup.account.pump,
                              lookup.supply, lookup.b, lookup.q + lookup.account.virtual, "SOL"))

fetch_bonding_curve_account(answer) ==
    /\ lookup.at = "curve"
    /\ LET curve == decode_curve(Account("curve", answer))
       IN IF IsCurve(curve) THEN Goes(Result(Heard(answer), curve)) ELSE EndsAfter(Heard(answer))

---------------------------------------------------------------------------
(* Params from what an event tells: the world it was emitted in is the one  *)
(* the result has to match, however old the event is when it is used.       *)

Missing == -1
Observes(kind, params) ==
    /\ lookup = NoLookup
    /\ lookup' = Result([kind |-> kind, wanted |-> "event", given |-> NoFees, silent |-> FALSE], params)
    /\ since' = {world}
    /\ UNCHANGED <<world, moves>>

(* What the program charges (external). *)
ProgramFees(pool) ==
    LET cap == ((pool.q + pool.virtual) * Supply) \div pool.b
        reached == {t \in {FeeConfig.tiers[i] : i \in DOMAIN FeeConfig.tiers} : t.from <= cap}
        fees == IF ~pool.pump THEN FeeConfig.flat
                ELSE IF reached = {} THEN FeeConfig.tiers[1].fees
                ELSE (CHOOSE t \in reached : \A u \in reached : u.from <= t.from).fees
    IN IF pool.creator THEN fees ELSE [fees EXCEPT !.creator = 0]

(* A swap's event carries the fees it paid, or none at all. *)
from_parser_event(p, charged) ==
    /\ IsPool(world[p])
    /\ Observes("swap event",
           [pool |-> p, b |-> world[p].b, q |-> world[p].q, virtual |-> world[p].virtual,
            creator |-> world[p].creator, quote |-> world[p].quote, fees |-> IF charged THEN ProgramFees(world[p]) ELSE NoFees])

(* The amounts of an event on a curve: in the fields for SOL, in those for  *)
(* any quote (Missing from older parsers, unset on some of the native ones).*)
EventFields(curve) ==
    {[vt |-> curve.vt, rt |-> curve.rt, vs |-> s.v, rs |-> s.r, vq |-> q.v, rq |-> q.r, quote |-> curve.quote] :
        s \in {[v |-> curve.vq, r |-> curve.rq]}
              \cup (IF curve.quote = "SOL" THEN {} ELSE {[v |-> 0, r |-> 0]}),
        q \in {[v |-> curve.vq, r |-> curve.rq]}
              \cup (IF curve.quote = "SOL" THEN {[v |-> 0, r |-> 0], [v |-> Missing, r |-> Missing]}
                    ELSE {[v |-> Missing, r |-> Missing]})}
\* Old parsers put every amount into the fields for SOL.
Emitted(e) == e.vq = Missing => e.vs > 0

Either(e, quote, sol) == IF e.quote = "SOL" \/ quote = Missing THEN sol ELSE quote
from_parser_trade_event(e) ==
    /\ Emitted(e)
    /\ Observes("curve event",
           [quote |-> e.quote, vt |-> e.vt, rt |-> e.rt,
            vq |-> Either(e, e.vq, e.vs), rq |-> Either(e, e.rq, e.rs)])

(* A curve rebuilt from the trade that created it.  A quote that is named   *)
(* later moves the virtual reserve, as long as it is still the initial one. *)
Rebuilt(token, paid, quote) ==
    [quote |-> quote, vt |-> InitialCurve.vt - token, rt |-> InitialCurve.rt - token,
     vq |-> InitialCurve.vq[quote] + paid, rq |-> paid]
with_quote_mint(curve, quote) ==
    [curve EXCEPT !.quote = quote,
                  !.vq = IF @ = InitialCurve.vq[curve.quote] + curve.rq
                         THEN InitialCurve.vq[quote] + curve.rq ELSE @]
from_dev_trade(token, paid, named) ==
    /\ IsCurve(world.curve) /\ token <= InitialCurve.rt
    /\ world.curve.rt = InitialCurve.rt - token /\ world.curve.rq = paid
    /\ Observes("dev trade",
           IF named THEN Rebuilt(token, paid, world.curve.quote)
           ELSE with_quote_mint(Rebuilt(token, paid, "SOL"), world.curve.quote))

LookupNext ==
    \/ \E p \in Pools, b \in Amounts : PoolTrades(p, b)
    \/ \E p \in Pools : PoolDeepens(p)
    \/ \E buy \in CurveBuys : CurveTrades(buy[1], buy[2])
    \/ \E p \in Pools, given \in BroughtFees : from_pool_address_by_rpc(p, given)
    \/ \E given \in BroughtFees : from_mint_by_rpc(given)
    \/ Begin("base mint", "TOKEN", NoFees)
    \/ \E quote \in {"SOL", "USDC"} : Begin("quote mint", quote, NoFees)
    \/ Begin("curve", "curve", NoFees)
    \/ \E answer \in Fetches :
           \/ fetch_pool(answer) \/ find_by_mint(answer)
           \/ find_by_base_mint(answer) \/ find_by_quote_mint(answer)
           \/ ReadsBase(answer) \/ ReadsQuote(answer) \/ ReadsSupply(answer) \/ ReadsFees(answer)
           \/ fetch_bonding_curve_account(answer)
    \/ \E p \in Pools, charged \in BOOLEAN : from_parser_event(p, charged)
    \/ IsCurve(world.curve) /\ \E e \in EventFields(world.curve) : from_parser_trade_event(e)
    \/ \E buy \in CurveBuys, named \in BOOLEAN : from_dev_trade(buy[1], buy[2], named)

LookupSpec == LookupInit /\ [][LookupNext]_lookupVars

---------------------------------------------------------------------------
Choice(w, p) ==
    CASE lookup.kind \in {"address", "swap event"} -> lookup.wanted \in {p, "event"}
      [] lookup.kind = "mint" -> lookup.silent \/ p = IF IsPool(w.v2) THEN "v2" ELSE "canonical"
      [] lookup.kind = "base mint" ->
            w[p].base = lookup.wanted
            /\ \A o \in Pools : IsPool(w[o]) /\ w[o].base = lookup.wanted => w[o].lp <= w[p].lp
      [] lookup.kind = "quote mint" ->
            w[p].quote = lookup.wanted
            /\ \A o \in Pools : IsPool(w[o]) /\ w[o].quote = lookup.wanted => w[o].lp <= w[p].lp

(* Every number a lookup returns was true while it ran, of one pool that is *)
(* the one asked for; a curve's numbers were true at the same moment.  When *)
(* nothing moved and no read went unanswered, it returns the pool as it is, *)
(* with the fees its program charges (the caller's when he brought some,    *)
(* and no claim for a pool in another currency, whose tiers are not used).  *)
LookupTellsTruth ==
    lookup.at = "done" =>
        LET r == lookup.params
        IN IF IsCurve(r) THEN \E w \in since : r = w.curve
           ELSE /\ \E w \in since : IsPool(w[r.pool]) /\ Choice(w, r.pool)
                /\ \E w \in since : w[r.pool].b = r.b
                /\ \E w \in since : w[r.pool].q = r.q
                /\ ~r.creator => EffectiveFees(r).creator = 0
                /\ since = {world} =>
                       /\ r.b = world[r.pool].b /\ r.q = world[r.pool].q
                       /\ ~lookup.silent /\ lookup.given = NoFees /\ r.fees # NoFees /\ r.quote = "SOL" =>
                              EffectiveFees(r) = ProgramFees(world[r.pool])
=============================================================================
