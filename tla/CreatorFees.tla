----------------------------- MODULE CreatorFees -----------------------------
(***************************************************************************)
(* Collecting the creator fees of a Raydium CPMM pool,                      *)
(* instruction/cpmm_creator_fee.py: the payout is worked out from a         *)
(* snapshot of the subscription cache, worked out again before it is sent,  *)
(* and paid by a program that looks at the accounts as they are then.  Or   *)
(* it is estimated from what the RPC node answers, two reads apart.         *)
(*                                                                          *)
(* The chain, the program and the cache that observes them are external;    *)
(* the cache itself is the module SubscriptionCache.  Contents of accounts  *)
(* are what the decoders give; every write has a slot and a version.        *)
(***************************************************************************)
EXTENDS Integers, FiniteSets

CONSTANTS
    FeeWidth,       \* the largest u64
    ShareRates,     \* rates the program may be told to take, in millionths
    FirstPool,      \* [fees, protocol], each a pair of amounts by token
    Accrual,        \* what a swap adds to the fees of a token
    LongestAge,     \* CacheReadContext.maximum_slot_age
    MaxFeeSlots,    \* bound: slots
    MaxWrites       \* bound: writes to the three accounts

Tokens == {1, 2}
Million == 1000 * 1000

(* Amounts of each token: the creator's and the protocol's. *)
PoolFees == [fees : [Tokens -> Nat], protocol : [Tokens -> Nat]]

ASSUME FeesAssumption ==
    /\ ShareRates \subseteq 0 .. Million       \* _rate() refuses the others
    /\ FeeWidth \in Nat /\ Accrual \in Nat /\ LongestAge \in Nat
    /\ FirstPool \in PoolFees

VARIABLES
    feeSlot,        \* the slot of the chain
    ledger,         \* [FeeAccounts -> [data, slot, version]]
    shot,           \* [accounts, through, alive]: the snapshot taken last
    offer,          \* NoOffer, or what was prepared and how far it got
    payment         \* NoPayment, or what collecting brought

feeVars == <<feeSlot, ledger, shot, offer, payment>>

FeeAccounts == {"pool", "config", "share"}
NoOffer == [stage |-> "none"]
NoPayment == [made |-> FALSE]

(* The share account: not there, sent lamports by somebody, or the         *)
(* program's own with a rate.  The config always has a rate.               *)
Gone == [owned |-> FALSE, rate |-> 0]
Share(r) == [owned |-> TRUE, rate |-> r]
Unseen == [data |-> Gone, slot |-> 0, version |-> 0]
NoSlot == 0

FirstLedger(r) ==
    [a \in FeeAccounts |->
        [slot |-> 1, version |-> 0,
         data |-> CASE a = "pool" -> FirstPool [] a = "config" -> Share(r) [] a = "share" -> Gone]]
NothingRead == [accounts |-> [a \in FeeAccounts |-> Unseen], through |-> NoSlot, alive |-> FALSE]

FeesInit ==
    /\ feeSlot = 1
    /\ ledger \in {FirstLedger(r) : r \in ShareRates}
    /\ shot = NothingRead /\ offer = NoOffer /\ payment = NoPayment

-----------------------------------------------------------------------------
(* Arithmetic. *)

(* Faulty variant: the rate of the share account is not looked at. *)
RateOfConfig(config, share) == config.rate

(* resolve_creator_fee_share_rate(): the share account's rate if the        *)
(* program owns one with data, the config's if not.                         *)
resolve_creator_fee_share_rate(config, share) == IF share.owned THEN share.rate ELSE config.rate

(* split_creator_fee(): what the protocol takes is rounded down. *)
ProtocolShare(gross, rate) == (gross * rate) \div Million
split_creator_fee(gross, rate) ==
    [creator |-> gross - ProtocolShare(gross, rate), protocol |-> ProtocolShare(gross, rate)]

Splits(pool, rate) == [t \in Tokens |-> split_creator_fee(pool.fees[t], rate)]

(* What the program does with the accounts as they are (external). *)
ProgramPays(accounts) ==
    LET rate == IF accounts["share"].data.owned THEN accounts["share"].data.rate
                ELSE accounts["config"].data.rate
    IN Splits(accounts["pool"].data, rate)
Overflows(pool, split) == \E t \in Tokens : pool.protocol[t] + split[t].protocol > FeeWidth
NothingAccrued(pool) == \A t \in Tokens : pool.fees[t] = 0

-----------------------------------------------------------------------------
(* The chain and those who observe it. *)

Writes == ledger["pool"].version + ledger["config"].version + ledger["share"].version
Written(a, data) ==
    ledger' = [ledger EXCEPT ![a] = [data |-> data, slot |-> feeSlot, version |-> @.version + 1]]
Writing(a, data) ==
    /\ Writes < MaxWrites /\ ~payment.made
    /\ data # ledger[a].data
    /\ Written(a, data)
    /\ UNCHANGED <<feeSlot, shot, offer, payment>>

Accrues(t) == Writing("pool", [ledger["pool"].data EXCEPT !.fees[t] = @ + Accrual])
ConfigChanges(r) == Writing("config", Share(r))
ShareChanges(data) == Writing("share", data)
SlotPasses ==
    /\ feeSlot < MaxFeeSlots /\ ~payment.made
    /\ feeSlot' = feeSlot + 1
    /\ UNCHANGED <<ledger, shot, offer, payment>>

(* The permissionless collection, by somebody else. *)
Collected(pool) ==
    LET split == ProgramPays(ledger)
    IN [fees |-> [t \in Tokens |-> 0],
        protocol |-> [t \in Tokens |-> pool.protocol[t] + split[t].protocol]]
OthersCollect ==
    LET pool == ledger["pool"].data
    IN /\ ~NothingAccrued(pool) /\ ~Overflows(pool, ProgramPays(ledger))
       /\ Writing("pool", Collected(pool))

(* A snapshot: of the accounts in A the newest write was observed by now,   *)
(* of the others what the snapshot before had.  It may say up to which slot *)
(* the stream was observed.                                                 *)
Shoots(A, through) ==
    /\ ~payment.made
    /\ shot' = [accounts |-> [a \in FeeAccounts |-> IF a \in A THEN ledger[a] ELSE shot.accounts[a]],
                through |-> through, alive |-> TRUE]
    /\ UNCHANGED <<feeSlot, ledger, offer, payment>>

(* The stream is interrupted: assert_usable() refuses the snapshot. *)
ShotDies ==
    /\ shot.alive /\ ~payment.made
    /\ shot' = [shot EXCEPT !.alive = FALSE]
    /\ UNCHANGED <<feeSlot, ledger, offer, payment>>

-----------------------------------------------------------------------------
(* Preparing and validating. *)

(* AccountCacheSnapshot._stale() *)
Stale(a, at) ==
    LET slot == shot.accounts[a].slot
        observed == IF shot.through = NoSlot THEN slot ELSE shot.through
        latest == IF observed > slot THEN observed ELSE slot
    IN slot > at \/ observed > at \/ at - latest > LongestAge

Readable(a, at) == shot.alive /\ shot.accounts[a] # Unseen /\ ~Stale(a, at)

(* What prepare() returns, {} when it raises. *)
Preparation(at) ==
    LET accounts == shot.accounts
        pool == accounts["pool"].data
        rate == resolve_creator_fee_share_rate(accounts["config"].data, accounts["share"].data)
        split == Splits(pool, rate)
    IN IF /\ \A a \in FeeAccounts : Readable(a, at)
          /\ ~NothingAccrued(pool) /\ ~Overflows(pool, split)
       THEN {[stage |-> "prepared", at |-> at, rate |-> rate, split |-> split, from |-> accounts]}
       ELSE {}

Prepare ==
    /\ offer = NoOffer /\ ~payment.made
    /\ \E at \in 1 .. feeSlot : offer' \in Preparation(at)
    /\ UNCHANGED <<feeSlot, ledger, shot, payment>>

SameVersion(a) ==
    /\ shot.accounts[a].slot = offer.from[a].slot
    /\ shot.accounts[a].version = offer.from[a].version

(* validate(): the versions are those of the preparation, none later than   *)
(* its slot, and preparing again gives the same.                            *)
Valid(at) ==
    /\ at >= offer.at
    /\ \E p \in Preparation(at) : p.rate = offer.rate /\ p.split = offer.split
    /\ \A a \in FeeAccounts : offer.from[a].slot <= offer.at /\ SameVersion(a)

Validate ==
    /\ offer.stage = "prepared"
    /\ \E at \in 1 .. feeSlot :
           /\ Valid(at)
           /\ offer' = [offer EXCEPT !.stage = "sent"]
    /\ UNCHANGED <<feeSlot, ledger, shot, payment>>

(* A preparation that cannot be validated is given up. *)
GivesUp ==
    /\ offer.stage = "prepared"
    /\ offer' = NoOffer
    /\ UNCHANGED <<feeSlot, ledger, shot, payment>>

(* fetch_creator_fee_share_rate(): config and share in one read. *)
FetchRate ==
    /\ offer = NoOffer /\ ~payment.made
    /\ offer' = [stage |-> "rated", from |-> ledger,
                 rate |-> resolve_creator_fee_share_rate(ledger["config"].data, ledger["share"].data)]
    /\ UNCHANGED <<feeSlot, ledger, shot, payment>>

(* The caller reads the pool and asks estimate_creator_fee_payout(). *)
EstimatePayout ==
    /\ offer.stage = "rated"
    /\ offer' = [stage |-> "sent", rate |-> offer.rate,
                 split |-> Splits(ledger["pool"].data, offer.rate),
                 from |-> [offer.from EXCEPT !["pool"] = ledger["pool"]]]
    /\ UNCHANGED <<feeSlot, ledger, shot, payment>>

(* The instruction is executed: the program fails on nothing to pay and on  *)
(* an overflow.                                                             *)
CollectionExecutes ==
    /\ offer.stage = "sent"
    /\ LET pool == ledger["pool"].data
           split == ProgramPays(ledger)
           fails == NothingAccrued(pool) \/ Overflows(pool, split)
       IN /\ payment' = [made |-> TRUE, fails |-> fails, split |-> split, on |-> ledger, offer |-> offer]
          /\ IF fails THEN UNCHANGED ledger ELSE Written("pool", Collected(pool))
    /\ offer' = NoOffer
    /\ UNCHANGED <<feeSlot, shot>>

(* Once a collection was executed another pool is met. *)
AnotherPool ==
    /\ payment.made
    /\ feeSlot' = 1
    /\ ledger' \in {FirstLedger(r) : r \in ShareRates}
    /\ shot' = NothingRead /\ offer' = NoOffer /\ payment' = NoPayment

FeesNext ==
    \/ \E t \in Tokens : Accrues(t)
    \/ \E r \in ShareRates : ConfigChanges(r)
    \/ \E data \in {Gone} \cup {Share(r) : r \in ShareRates} : ShareChanges(data)
    \/ SlotPasses \/ OthersCollect
    \/ \E A \in SUBSET FeeAccounts, through \in {NoSlot, feeSlot} : Shoots(A, through)
    \/ ShotDies
    \/ Prepare \/ Validate \/ GivesUp \/ FetchRate \/ EstimatePayout \/ CollectionExecutes \/ AnotherPool

FeesSpec == FeesInit /\ [][FeesNext]_feeVars

-----------------------------------------------------------------------------
(* A collection pays each token exactly as it was announced when no account *)
(* it depends on was written since it was read, and it does not fail then   *)
(* if it was prepared from a snapshot; fees that accrued meanwhile never    *)
(* make the payout smaller.  This is so whatever account carries the rate,  *)
(* through rounding and at the limit of a u64.                              *)
CollectionPaysAsSaid ==
    payment.made =>
        LET o == payment.offer
            same(a) == payment.on[a].version = o.from[a].version
            before == o.from["pool"].data
            now == payment.on["pool"].data
        IN same("config") /\ same("share") =>
               /\ same("pool") =>
                      /\ payment.split = o.split
                      /\ payment.fails => ~("at" \in DOMAIN o)
               /\ \A t \in Tokens :
                      now.protocol = before.protocol /\ now.fees[t] >= before.fees[t] =>
                          payment.split[t].creator >= o.split[t].creator
=============================================================================
