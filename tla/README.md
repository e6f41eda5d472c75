# Verification of sol-trade-sdk-python

The SDK prepares, signs and submits trades on Solana. It runs inside its
caller's event loop and threads, talks to servers that lose, delay and reorder
answers, and acts on a cached view of a chain that may roll back. This directory
models the parts where that makes the code hard to get right, checks them with
TLC and proves the central properties with TLAPS. All paths below are relative
to `src/src/` unless they start with `src/`.

## 1. The system

| Part | State it keeps | Operations | What makes it correct |
|---|---|---|---|
| Continuity gate, `trading/subscription_readiness.py` | fork, generation, required and validated accounts, status | interrupt, begin_recovery, require_accounts, mark_validated, guard | ready only on accounts loaded after the last gap, on the selected fork; a guard never passes again once refused |
| Account cache, `trading/subscription_cache.py` | newest version of every account, conflict flag | update, update_many, update_from_parser, snapshots | batches all or nothing, newest version wins, a contradiction poisons the cache, snapshots are whole |
| Cached trades, `trading/cached_trade.py` | a prepared trade and the snapshot it was made from | prepare_cached_trade, execute | nothing is prepared, signed or sent on a snapshot that died |
| Cached routes, `trading/cached_route.py`, `route_candidates.py`, `cached_*.py`, `native_sol.py` | none (pure) | candidate search, chaining of hops, quotes, settlement in SOL | simple paths only, within the budgets; the transaction spends and brings what was quoted, or fails whole |
| Trade submission, `__init__.py` (`TradingClient`) | a call: lanes, signatures, confirmation | buy, sell, _execute_transaction | a trade takes effect once; a reported success is real |
| SWQOS clients, `swqos/clients.py` | HTTP sessions, a QUIC connection | send_transaction(s), transport fallback | a success covers every transaction handed over; a refusal is final |
| Dispatchers, `swqos/providers.py`, `trading/core/async_executor.py`, `trading/executor.py`, `hotpath/executor.py` | clients in their order, jobs in flight | add, remove, execute in four modes | a success is some provider's; a failure means all that stayed were asked |
| High-performance executor, `trading/high_perf_executor.py` | lanes in flight, receipts, metrics | execute (parallel, sequential), close | no receipt lost, no resubmission, counted once |
| Transaction pool, `trading/core/transaction_pool.py` | heap, status and attempts of each transaction | submit, cancel, get_batch, mark_*, cleanup | one sender at a time, best first, bounded attempts |
| Confirmation monitor, `trading/core/confirmation_monitor.py` | status by signature, callbacks, lock | track, untrack, wait_for_confirmation, check_now | a wait says what the chain says, and returns |
| Hot path, `hotpath/state.py` | prefetched blockhash and accounts, contexts, by age | start, stop, prefetch loop, prefetch_accounts, contexts | the blockhash handed out is the newest known, all of it recent |
| Retry handler, circuit breaker, `trading/core/retry_handler.py` | attempts; closed, open, half-open | call, execute | bounded retries; the breaker counts what happened |
| Pools and limiter, `pool/pool.py` | permits, connections, tokens | get, release, allow | counts agree with what is out; no burst beyond the bucket |
| Tables, `cache/cache.py`, `nonce_cache.py`, `common/types.py` | entries with expiry, nonces, fees | get, set, refresh | no expired or overtaken value; fees exclude each other |
| Subscription handles, `common/subscription_handle.py` | state, queue, transport, tasks | connect, stop, pause, resume, reconnect | stop is final; no message is lost silently |
| Lookups, `instruction/pumpswap_builder.py`, `pumpfun_builder.py`, `trading/params.py` | none; several reads of a moving chain | find pool, fetch curve, params from events | the parameters are those of the pool asked for |
| Adapters and builders, `instruction/`, `trading/factory.py` | none (pure) | build buy and sell instructions | accounts exist before use, wrapped SOL is closed, limits as asked |
| Creator fees, `instruction/cpmm_creator_fee.py` | a preparation with the versions it read | prepare, validate, estimate | an untouched collection pays as announced |
| Arithmetic, `calc/` | none (pure); loops over liquidity | quotes, fees, slippage bounds | never in the trader's favour by rounding; every walk ends |
| Everything else: middleware, serialization, security, `perf/`, `rpc/` | small or none | | see section 8 |

How they interact. A stream of account updates feeds the cache and tells the
gate when it breaks. Background workers load accounts and report them to the
gate. A trader takes a guard from the gate and a copy of the accounts from the
cache, searches candidate routes over the copy, quotes and compiles one, and
asks the guard again before it signs and before it submits. The other way to a
trade is `buy()` and `sell()`: the parameters come from a lookup or an event, the
client's adapter turns the request into a builder's, the builder computes limits
with `calc/`. A signed trade goes through the lanes of `TradingClient` or of one
of the executors; behind each lane stands a SWQOS client, and the fate of the
trade comes back by polling or through the confirmation monitor. The
transaction pool stands before an executor of the user's own.

The hard behaviours. Threads interleave on the gate, the cache and the pools,
because what a caller does is several critical sections. Coroutines interleave
at every `await`: lanes finish, deadlines pass, connections break and callers
return in any order. A server may act on a request whose answer is lost. The
chain moves between a quote and its transaction, and gives up blocks that were
processed. Long loops over integers round at every turn. Nothing is persisted,
so there is no crash recovery. PROJECT.json lists each hazard with its line and
the properties aimed at it.

## 2. Plan and order

1. `SubscriptionReadiness`, `SubscriptionCache` (with the abstract
   `VersionedStore`) and `CachedTrade`, which composes the two: what a trade may
   rest on. Done and proved.
2. `TradeSubmission`, `HighPerfExecutor`, `TransactionPool`,
   `ConfirmationMonitor`: what becomes of a signed trade. Done and proved.
3. What a trade consists of: `SwapMath` with `Quotes` and `LiquidityWalk`,
   `ArraySearch`, `TradePlan`, `CachedLegs`, `CachedRoutes`, `CreatorFees`. Done.
4. The services around it: `SwqosRelays`, `TradeDispatch`, `WebSocketHandle`,
   `RetryBreaker`, `HotPathState`, `PoolLookup`, `Pools`, `SharedTables`. Done
   and proved.
5. Out of the provers' reach so far (section 7): that a route search finds the best
   of what it saw, and what a walk over ticks or bins adds up to.
6. Code that could still be modelled: the adaptive and the batch retry handler, the
   retries of the RPC client, the manager of several subscription handles.

No module declares a RECURSIVE operator, so every one of them can be proved
about. `M_proofs` holds the theorems about `M`; `Services_proofs` those about the
services, which share no state, one after the other. An `MC` module gives a
configuration its model values and composes parts that share no state: in
`TradesMC`, `ServicesMC`, `SubscriptionReadinessMC` and `HighPerfExecutorMC` a variable
`part` says at the beginning which part a behaviour is of, and the others stay where
they began.
Operators whose comment begins with "Faulty variant" are plausible mistakes in
the code: put in the place of the operator that follows them, each breaks a
property, which shows that the property depends on that piece of code.

## 3. What each module models

### What a trade may rest on

**SubscriptionReadiness.** One variable per field of the class, in the code's
names. Every method is one action, except `guard()`, which reads the generation
under one acquisition of the lock and runs its first check under another
(`GuardCapture`, `GuardCheck`). `BeginValidation` is a worker that notes the
generation and the fork it starts from; its `MarkValidated` or `MarkRejected`
comes any time later. The history variable `evidence` says which generation and
fork a validation was really made on, `seen` what the world was when a guard was
taken.

**SubscriptionCache and VersionedStore.** `update_many()` holds the lock while
it works through its items, each of which may raise or conflict: `BatchBegin`,
then `Stage` or `Skip` per item, then `BatchCommit`, `BatchConflict` or
`BatchRaises`. Versions order by slot and write version. A snapshot copies key by
key under the same lock. `VersionedStore` is what callers rely on: a store that
advances atomically and never backwards, and that can be poisoned for ever.
`ImplementsStore` is the refinement `SubscriptionCache => VersionedStore`.

**CachedTrade** composes the gate (`Gate == INSTANCE SubscriptionReadiness`) and
the store (`Store == INSTANCE VersionedStore`), which stands for the cache it
was proved to implement, with traders that run `prepare_cached_trade()` and
`CachedTradeExecutor.execute()`. Each `assert_usable()` of the code is a `Check`
whose two halves (the gate's guard, the cache's conflict flag) are separate
critical sections. Inside a candidate a ValueError, a conflict among them, means
the next candidate; outside it ends the trade. Quotes and settlement work out or
raise here; `CachedRoutes` says what they come to.

### What becomes of it

**TradeSubmission** has the lanes `_execute_transaction()` selects, the nonce rule,
the transaction of each lane (hash and tip are all that distinguishes them), built
and started for all lanes without an await in between (`SendAll`), the concurrent
sends with their transport fallback, the two ways to collect answers, and polling. A
nonce account may be named without a hash (`Unhashed`): its transactions carry the
recent blockhash. `Attempt` is the sequence of calls a caller makes for one trade
when it retries. The chain is external: a transaction that was sent may land at any
time, once, and with a nonce only while the nonce is current. An answer may be lost
before or after the effect.

**HighPerfExecutor** has `execute()` in both forms. What the event loop runs
between two awaits is one step, so a lane ends in one step and the call observes
it in a later one (`ObserveSuccess`, `ObserveFailure`, `ObserveCancelled`), with
the deadline (`TimesOut`) and `Close` possible in between.

**TransactionPool.** Every method holds the lock without an await and is one
step. `entries` counts a transaction's references in the heap; `IsBatch`, `Popped`
and `Pop` say what one `get_batch()` takes, pops and throws away. The consumer is
external (the class leaves `_process_batch()` to be filled in): it holds what it
was handed and reports each send once.

**ConfirmationMonitor.** `check_now()` asks under the lock, fetches without it
and applies the answer under it again, signature by signature, awaiting
callbacks with the lock held. `CallbackUntracks` says whether a callback awaits
`untrack()` of the same monitor. The RPC request (`_fetch_statuses()`, a
placeholder in the class) returns the chain's state of the moment it is
answered. The chain moves through the commitment levels and may give up what was
only processed.

### What it consists of

**SwapMath** has the integer formulas of `calc/`, of the bonding curve in
`common/` and of the swap amounts in `instruction/`: one operator per quote, with
the roundings, the refusals and the 64-bit limits of the code, on integers.
**Quotes** is a trader who asks them and swaps at exactly what they say. The
venue is external and takes and gives what the quote moves; `PoolNeverLoses`
catches a rounding in the trader's favour, `BudgetSuffices` a quote that does not
agree with its inverse.

**LiquidityWalk** has the loops of `clmm_swap_exact_in`,
`whirlpool_swap_exact_in` and `dlmm_swap_exact_in`, one step per turn: to the next
tick or bin, its price, the fee with the volatility part, limit orders and the
crossing of liquidity. What a walk leaves is the pool of the next one, which may
go the other way. **ArraySearch** is the cached quote over such a pool: arrays of
ticks or bins are loaded one after the other until a walk takes the whole input,
with transfer fees on both mints, the pauses and hooks that bar a mint, and the
budget of arrays. The landing walk over all arrays is the venue's.

**TradePlan** is a request on its way through the client's adapters and the
builders of six venues to the sequence of instructions the builder returns
(`BuildBuy`, `BuildSell` and their parts: create, wrap, swap, close). The chain is
external: it runs the sequence as one transaction against the wallet's accounts
and a market whose price may have moved.

**CachedLegs** has what one pool of a route gives from a frozen snapshot, for
each of the venues of `trading/cached_*.py`: what the validation asks of the
pool's state, fees, tiers and transfer fees. **CachedRoutes** has the search by
breadth with its budgets (`route_candidates.py`), the PumpSwap search for the best
protected minimum, the preparation leg by leg with bridges, the official
multi-hop instruction, the settlement from and to SOL, and the transaction; the
chain is external and pays what the quote of its own state says.

**CreatorFees.** A collection of a CPMM pool's creator fees: prepared from a snapshot
whose accounts are of several slots (`Prepare`), prepared again and compared before
it is sent (`Validate`), or estimated from two RPC reads (`FetchRate`,
`EstimatePayout`), while others trade, collect, and change the accounts that carry
the rate. The program is external and reads the accounts when it executes.

### The services around it

**SwqosRelays.** For every client the factory makes: which answers of a relay
count as taken, how a list is walked through (one request, one after the other, a
batch that is split), which failures go to the other transport, and the QUIC
connection Temporal and Astralane share under a lock, with its reconnection
between two calls. The relay is external.

**TradeDispatch.** The client table with its order (`AddClient`, `RemoveClient`,
`SetFallbackOrder`), the four submit modes of `AsyncTradeExecutor` with semaphore,
retries and deadlines, and the executors of `trading/executor.py` and
`hotpath/executor.py`. Clients come, go and change places while a walk goes over
the manager's own list, and a client that raises ends that walk (`Raises`). A
provider's answer is any; a report of success stands for
a transaction that was taken, which is `SwqosRelays!SuccessCoversBatch`.

**WebSocketHandle.** The application's `connect()`, `pause()`, `resume()` and
`stop()`, the readers that receive and reconnect, and the runners that call the
callback, stepping from await to await. `stop()` may be called from outside, from
the message callback or from the error callback, wherever the others stand; a
cancelled reader or runner ends, one the fields no longer name runs on.

**RetryBreaker.** Callers with bounded attempts around the breaker, which decides
under its lock and gets results late. **HotPathState.** `start()`, `stop()` and the
prefetch loop with requests under way, over a clock, and the
accounts cached beside it, whose requests overtake each other. **PoolLookup.** Each lookup
as its sequence of reads while the market moves between them, any of which may
fail. **Pools.** A connection pool whose permits, list and connections are three
separate things, and the token bucket. **SharedTables.** The LRU cache under
`cached()`, with what happens between its look and its store; the nonce of one
account; the table of fees.

## 4. Runs, bounds and why they are enough

| Run | Checks | Bounds |
|---|---|---|
| `subscription` | fresh evidence, guards that saw the same world, finality of a refusal; a handle that was stopped stays stopped, no silent loss | readiness: 2 accounts, 2 forks, 2 workers, 1 holder, generation up to 3: two gaps inside one validation; handle: a signature, a buffer of 2, 3 notifications, 2 readers and 2 runners at a time, 3 sessions of which 2 break, 1 reconnection in a row: a connect() beside a reader that reconnects, a stop() at every await |
| `cache` | newest version, whole snapshots, refinement | 2 keys, 4 versions, 2 contents, 2 feeds, batches of 3 items: repeated, reordered and conflicting items in one batch |
| `cached_trade` | nothing prepared or sent on a dead snapshot | 2 keys, 1 trader, 1 worker, generation up to 2: an interrupt and a recovery inside one trade |
| `submission` | a nonce trade takes effect once, a report is real | 2 relays and the Default lane, 2 calls, one nonce advance: a retry that meets the first call's transactions, with the same nonce or the next |
| `pool` | one sender, reachability, best first, every submission ends | 2 transactions, 2 priorities, batches of 1, 3 attempts: a batch that stops before the heap is empty, a retry before and behind another; the safety part is also proved for all sizes |
| `monitor` | real success, late answers, every wait returns | 1 signature, 2 checks, 1 wait and any number of track(): two answers that overtake each other around a new track(); signatures share nothing but the lock, and a second wait is a track() |
| `monitor_callback` | violated: see section 6 | 1 signature |
| `endings` | receipts, resubmission, leftovers, and that calls of both executors, all they start, and cached trades end | 3 clients, 2 retries, 1 call of either form of `HighPerfExecutor`; 2 relays and Default, 1 call of `TradeSubmission`: calls share nothing but close(); 1 trader of `CachedTrade` with 2 candidates, whose gate requires both accounts, and 1 interrupt or recovery |
| `trades_fixed_output` | violated: see section 6 | those of `trades` |
| `trades` | arithmetic, walks, array searches, instruction plans, routes, creator fees | see below |
| `handle_stopped` | violated: see section 6 | those of the handle in `subscription`, for one that goes on |
| `services` | relays, dispatch, breaker, hot path, lookup, pools, tables | see below |

`trades` has six parts. *Quotes*: eight kinds of market with reserves of 1 to 40,
amounts from 1 to 200 that exceed them, fees from nothing to 30 %, two swaps in a
row, u64 cut off at 3000, which some products pass and others do not. *Walk*: nine
ticks, unit prices of 512ths, step budget 4, arrays of 3 bins, two walks through one
pool, so that one goes there and one comes back: ranges that begin and end at,
between and beyond the ticks. *Search*: arrays of 3 ticks, 2 arrays of a Whirlpool,
budgets below and above what is needed. *Plan*: every venue, version, side, currency
and flag, every mode of a DAMM v2 pool that fills some requests in part, wallets
with and without each account, two rates, two transactions in one wallet: the
second meets the accounts the first left. *Routes*: eleven pools, PumpFun curves in
SOL, USDC and another token among them, three hops, three candidate paths, a
frontier of six, one slot in which a pool moves, so that each budget is met and each
leg's minimum can be missed. *Creator*: two tokens, rates of 30 % and 100 %, two
slots, two writes between preparation and collection, a u64 of 60 that the
protocol's fees nearly reach; the search for a route and its settlement are one
property, `RoutesHold`.

`services` has eleven parts. *Relays*: every client with every transport it may be
configured with, two callers, two transactions each. *Dispatch*: two jobs, three
providers, one of them a placeholder and one the Default, one change of the table (a
removal during a walk among them), one slot of the semaphore, two attempts.
*Breaker*: two callers, thresholds 3 and 2. *Hotpath*: lifetimes of 2 over 7 ticks,
enough for a lost start, a stop and a second start. *Accounts*: one account, two
requests under way, states a caller brings. *Lookup*: pools at three addresses,
absent, garbled, foreign or live, a curve, two moves of the market. *Connections*:
three threads, two connections, four ever made. *Limiter*: a burst of 2, half a
request a tick. *Cache*: two entries, three keys, life 2 over 4 ticks. *Nonces*:
four nonces and two looks under way. *Fees*: two lanes, three kinds.

Two swaps, walks, calls or jobs are the least that can get into each other's way;
the hazards listed for these parts involve no third. Prices and reserves are
small because a rounding of one unit is then a large error: the faulty variants
that round the wrong way are all found.

Symmetry is used for workers, feeds, relays, calls and jobs, in runs without
liveness only, where nothing tells them apart. Deadlock checking is off in the runs
of `TradeSubmission` and `HighPerfExecutor`, where a finite number of calls simply
ends, in `services`, `subscription`, `handle_stopped` and `trades_fixed_output`, which
come to the end of their bounds, and in `monitor_callback`, where the standstill is what the
run shows. The bounds that are constants (`MaxGeneration`, `MaxItems`, `MaxNonce`,
`MaxSwaps`, `MaxWalks`, `MaxTrades`, `MaxSlots`, `MaxFeeSlots`, `MaxWrites`,
`MaxBatch`, `MaxChanges`, `MaxTasks`, `MaxLinks`, `MaxMessages`, `MaxBreaks`,
`MaxTicks`, `MaxReads`, `BroughtAges`, `MaxMoves`, `MaxMade`, `MaxClock`, `MaxTime`,
`Computing`) are in the guards; others (`MaxRetries`, `MaxAttempts`, `MaxSize`,
`StepBudget`, `RouteHops`, `PathLimit`, `FrontierLimit`, `BufferSize`,
`MaxReconnects`) are parameters or constants of the code itself with smaller values.

## 5. Fairness

Fairness is asked only of what the event loop or a time limit brings about: the
steps of a trade or call that can go on (`CachedTrade`, `TradeSubmission`,
`HighPerfExecutor`), the answers of a lane, which its HTTP timeout turns into
failures (`TradeSubmission`, `HighPerfExecutor`), the batch loop and a consumer
that reports its sends (`TransactionPool`), the requests of a check
(`ConfirmationMonitor`), the turns of a loop that awaits nothing
(`LiquidityWalk`). Strong fairness is asked once, for those who wait for the
monitor's lock: `asyncio.Lock` wakes its waiters in order. No fairness is asked of
callers, feeds, streams, the chain or the deadline of `execute()`, which `endings`
shows not to be needed.

## 6. Where code and documents disagree

Three are runs that TLC is expected to find violated.

* `handle_stopped`: `stop()` in the error callback closes the handle and returns,
  and `_handle_error()` then makes it active and `_receive()` connects it again; of
  the other callback `src/tests/test_review_batch2.py` asserts that the handle stays
  closed.
* `trades_fixed_output`: PumpSwap's and Bonk's adapters have no parameter for
  `fixed_output_token_amount`, and Bonk's builds no instruction at all (the README
  lists "Support for Bonk trading operations"), so a trade lands and brings less than
  its caller fixed, or nothing. docs/USAGE.md says of that minimum that doing without
  it "changes a failed protected trade into a potentially bad fill", and PumpSwap's
  builder refuses one it cannot keep (`src/tests/test_pumpswap_fee_parity.py`).
* `monitor_callback`: callbacks are awaited with the lock held, so one that uses
  the monitor stops it, and waits outlive their `timeout_ms`.

Read in the code and left without a run, because two lines of it show them:

* `HighPerfTradeExecutor`: "close() cancels outstanding lanes", but not the lane
  of a sequential call (`high_perf_executor.py:429`).
* `TransactionPool._cleanup_expired()` is to "Remove expired transactions" and
  only marks them; nothing ever leaves the pool, whose size limit counts all.
* `TransactionPool.cancel()` accepts a transaction that is being sent, and
  `mark_failed()` queues it again when the send fails (`MarkFailed` in the model,
  which is why `CancelledWaitingIsFinal` speaks of those that waited).
* `wait_for_confirmation()` has the comment "Start tracking if not already" and
  always starts again (`BeginWait`).
* docs/USAGE.md says that same-version conflicts require a new cache;
  `update_many()` notices only those with the current version (`Skip`).
* USAGE.md:329 says that fee selection distinguishes SOL, USDC and exotic quotes;
  `params_from_pool_data` asks for the fees without the quote mint, so the tiers
  of other quotes are never used (`LookupTellsTruth` makes no claim there).

The models follow the code where it is surprising. What a reader will meet:

* *Trades.* The client's buy on PumpSwap is always refused (the adapter takes the
  input mint for the base, for which `validate_accounts()` finds the wrong vault), its
  sell drops `fixed_output` and refuses to receive SOL; the CPMM adapter drops the
  currency asked for. `PassedOn` says what is left of a request, `Unbuilt` that of one
  through the Bonk adapter nothing is; `TradeDoesWhatWasAsked` is about what the
  builders were asked for, `FixedOutputIsKept` about what the caller asked. The
  flags of the Bonk builder are about wrapped SOL: it creates no account of USD1
  (`Prepared` wants one open). A DAMM v2 swap fills in part unless a builder is called
  with another mode, so what a request pays in is a limit there; PumpFun V2 sells never
  close WSOL, AUTO sells to SOL on AMM and CPMM create no WSOL account. A sale
  that closes its input and leaves a rest fails whole. `WithMaxInput` spends up to
  the amount plus slippage, as PUMPFUN_VERSIONS.md documents.
* *Walks.* A CLMM walk to the very end of its range stops before it sets the tick;
  a fee on output with too small a step loops until its budget raises.
  `get_buy_out_price` prices at least the real quote reserve in tokens.
* *Routes.* "Budget" errors of the candidate search discard the failures so far;
  the rent of created accounts is not part of `required_native_lamports`.
* *Relays.* The fallback client sends a whole list again, with what was already
  accepted. Lists through Jito return one bundle id for all, lists through
  FlashBlock may return one text. Negative JSON-RPC codes never fall back. One-way
  clients refuse a transaction of several signatures after it was sent; Lunar and
  Glaive report a signature when the peer ended the connection before anything
  was written, which is why `SuccessCoversBatch` speaks of transports with answers.
* *Dispatch.* Removing a client while `submit_with_fallback` walks the live list
  makes the walk skip one that stayed: `GivesUpAfterAll` allows one for each client
  removed and no more. A client that raises ends the walk, the job and its retries:
  that job has raised, not failed. The winner of a race leaves the other submissions running.
  Statistics count a placeholder's calls as successes.
* *Handle.* What `stop()` does not achieve is said in `StoppedForGood`: called in the
  error callback, it stops only the deliveries (`handle_stopped`); where an earlier
  `connect()` began while a reader was reconnecting there are two readers, of which
  the fields name one, and nothing is claimed; and the cancellation of a reader that
  is closing a session leaves that one open. A pause does not outlive a reconnection.
* *Retries.* `RetryTimeout` is raised inside the try and itself retried; a half-open
  breaker admits any number of calls; a late success resets the failures while it
  is open.
* *Hot path.* `execute()` checks the age of the cache, not that of the blockhash the
  transaction was signed with.
* *Pools.* A factory that fails, or "Max connections reached", loses its permit, and
  the failure counts as created; `close_all()` sets the count to nothing with
  connections in use. `ConnectionsAccounted` counts these in.
* *Tables.* `get_nonce()` overwrites a newer value with the answer it awaited
  (`NonceNotTurnedBack` says how far that goes). `cached()` calls again for None.
  `update_buy_tip` tips the Default lane that `set_global` leaves without; after
  high and low strategies for Default, `_gas_for_trade` finds no normal fee.

## 7. What is proved

For all values of the constants that satisfy the ASSUMEs of the modules, which
say that accounts, workers and so on are disjoint from the special values and
that bounds are numbers.

**SubscriptionReadiness_proofs.** `Inductive` proves `IInv`. The invariants the
run checks are not inductive: that a late validation cannot revive old evidence
depends on what its token says. `IInv` therefore states that every validated key
has evidence of the present fork and epoch (`ValidatedHasEvidence`), that a token
of the present generation was taken in the present epoch (`TokensAreDated`), that
continuity is lost exactly in the broken state (`BrokenMeansLost`), that a ready
gate has validated all it requires (`ReadyIsComplete`), and that a guard of the
present generation finds its fork, its dependencies and a ready gate
(`GuardsAreDated`). From it follow `TypeCorrect`, `FreshEvidence`,
`ExplicitRecovery`, `SameWorld` and the action property `RefusalIsFinal`.

**SubscriptionCache_proofs.** The order on versions is a strict partial order
(`VersionOrder`, `NewerTransitive`). `IInv` states that what is stored is the
newest of what was committed (`StoredIsNewest`), also counting the batch in
progress (`MergedIsNewest`), that staged items are newer than those they replace,
that no batch is open on a conflicted cache, and that a reader holds the lock
exactly while it copies, and copies an unchanging cache, entry by entry
(`CopyingIsExclusive`, `LockHolderCopies`, `CopyIsOfMark`, `FrozenIsComplete`).
From it follow `TypeCorrect`, `Newest`, `Unambiguous`, `SnapshotsWhole`, and the
refinement `Implementation`: every commit is an `Advance` of VersionedStore,
every conflict a `Poison`, everything else a stutter.

**Trades_proofs** is about four modules. *TransactionPool*: `IInv` adds to the
invariants of the module that the hand-outs of a transaction are its failed attempts
and the one in hand, and that a queued transaction has attempts left. From it follow
`TypeCorrect`, `OneSender`, `NothingStranded`, `BoundedAttempts`, `WaitingCancelled`
and, from one step of `get_batch()`, the action property `BatchesBestFirst`.

*Quotes*: that a swap never takes more of a pool than it pays for is, formula by
formula, a lemma about the rounding of `SwapMath` (a quotient rounded down, the
ceiling of a fee, the inverse that adds one); with them
`QuotesCostThePoolNothing` (an action property) and `QuotesAreWhatTheySay`
(`MarketTypeOK /\ QuotesHold` is inductive) hold of every market, fee, amount and
number of swaps. `QuotesAssumption` only types what is read from accounts, where
PumpSwap's virtual quote may be negative; where the code cuts a price to 64 bits,
`BudgetSuffices` itself says that it makes no claim.

*TradePlan*: a plan may land when the rate is no longer what it was built for, so
the invariant (`PlanInv`) says what does not depend on the rate: the plan is one
swap that suits the request (`Exchanges`), among instructions that only prepare or
tidy up (`Preparing`). What running it does to the wallet is followed instruction
by instruction (`AfterEach`, an induction over the states in between), from which
`TradesDoWhatWasAsked`: whatever lands spends at most what was allowed and brings at
least what was asked for, and what fails changes nothing. `PlanAssumption`
gives every request its shape and leaves out none: what the adapters drop is in
`PassedOn` and `Unbuilt`, and a DAMM v2 pool may take any part of what it is offered.

That plans run through at all is the other theorem, `AccountsAreInOrder`. A plan is
split into its parts (`Run` of a concatenation is the runs in turn), and the wallet
is followed over each: creating and funding the account that pays (`FundedRuns`), the
one that receives (`ReceivedRuns`), the swap at the rate the plan was built for
(`FairSwapRuns`), and what is closed afterwards. So for each venue and side a request
whose wallet meets the conditions (`Ready`) gets a plan that runs through
(`PlansSuffice`). A plan that is to close the account of wrapped SOL is tidy
(`TidyPlan`, `PlansTidy`): it either has no instruction that adds wrapped SOL or closes
the account after the last of them. That does not depend on the rate, so `AccountsInv`
carries it from the planning to the landing, in whatever market. The theorem needs
nothing besides `PlanAssumption`; what a plan that suffices may count on (funds, an
output the market gives, the accounts of `Prepared`) is in the property itself.

*CreatorFees*: `FeesInv` says that what was read of an account which still has the
version of the reading is what the account holds (`Known`); a collection that lands
between two writes is thereby the one that was prepared. That the creator's share
grows with the fees that come in gives `CollectionsPayAsSaid`. `FeesAssumption` has
numbers for rates and fees and a first pool for every creator.

**CachedTrade_proofs.** That no dead snapshot is traded is not inductive, because a
check is two critical sections and the world moves between them and after both.
`IInv` follows a refusal through the check (`Follows`): a snapshot that was refused
when the trade was compiled or signed is still refused at the half of the check that
looks at the cache's conflict, and by its guard at the half that asks the gate. That
refusals last rests on the gate's invariant `Gate!GuardsAreDated`, which is part of
this one: no generation comes back. `NothingDeadIsTraded` follows; `TradingRespectsGate` and
`TradingRespectsStore` show that the composition takes only steps that
`SubscriptionReadiness` and `VersionedStore` allow, so what is proved of them holds
while trades are made. (`GateConstants` says that the gate begins with something
required, on one of the forks.)

**TradeSubmission_proofs.** `IInv` says that a lane sends nothing but what was signed
with its call's nonce (`LanesAreSigned`) and that what landed with a nonce used up
that value of the nonce account (`LandedIsSpent`), hence `NonceIsSpentOnce`. For
`ReportsAreReal` it follows the signatures of a call from the lanes that accepted
them through the polling to the report (`Agrees`).

**ConfirmationMonitor_proofs.** A success rests on every status on its way to the
wait, so `IInv` says of the answers under way, of what is tracked and of the results
that the chain backs them (`Backs`). The chain may give up what is only PROCESSED:
an old answer need not be true any more, but of CONFIRMED and FINALIZED it stays
true, which is why `ConfirmationIsReal` is about these. `ForgottenStaysForgotten`
is an action property, by cases over the actions.

**HighPerfExecutor_proofs.** A call, its lanes and its receipts change together, so
the invariant is about the three of one call: `Fits` says, for each place a call can
be in, which lanes it may have and what they owe to the receipts (in parallel, all
that was seen has failed and what is acknowledged can still be found; one by one,
at most one client is being tried and the one receipt is its own). From it follow
`CallsAreAccounted`, `SequentialSendsOnce` and `FailureIsQuiet`, for any clients,
calls and retries.

**Services_proofs.**

- *RetryBreaker*: `BreakerIsTruthful`; the property is inductive with the types of
  the counters.
- *HotPathState*: `HotPathIsRecent`. The lifecycle lock and the task keep the two
  requesters apart (`OneFetcher`), requests end in time, and nothing newer than an
  open request was stored (`NothingNewerStored`); so the newest blockhash stays the
  newest. `BroughtAges \subseteq Int` is all that is assumed of ages.
- *SwqosRelays*: `ClientKeepsOneConnection` (who is inside the connection holds the
  lock, and who opens one found none), the action property `RefusalsAreFinal` (a
  call that was refused is over), and `SuccessMeansTaken`, whose invariant
  (`CallsCovered`) says that a list under way was taken up to the signatures it has,
  for every client type, transport and length of list. `RelayAssumption` types the
  configuration by the two enumerations of `common/types.py`.
- *WebSocketHandle*: `HandleIsTrue`, for every interleaving. Who holds the lock stands
  where it is taken (`HolderStands`). Unless a connect() crossed a reconnection, there
  is one reader and one runner (`OneReader`, `OneRunner`), nobody is left to open the
  handle again (`StaysClosed`), and every open session is the handle's or being closed
  by a reader (`SessionsOwned`). Whatever crossed, the one runner keeps count until the
  handle is closed (`KeptCount`), and over a connection that does not break a reader
  ends only when everything was delivered (`Unbroken`).
- *Pools*: `PoolsKeepTheirBounds`. For the connections, users and idle list are
  apart (`Apart`) and permits, holders, idle and lost places add up
  (`PoolCounted`), from which nobody with a permit is turned down. For the limiter,
  what was allowed since any moment and what is left in the bucket is at most a full
  bucket and what flowed in (`Flow`), from which the bound of every interval.
  `granted[t]` counts what was allowed up to tick t, so that an interval is a
  difference.
- *TradeDispatch*: `SuccessesAreReal`, from what a job has been told (`JobOK`), and
  `DispatchIsTrue` with what a walk has left behind it (`WalksOK`): whom it has
  neither asked nor ahead of it are no more than were removed from under it, which a
  removal before the walk's place shifts by one. `DispatchAssumption` has finitely many providers
  and `Unset` none of the values it stands beside.
- *SharedTables*: `TablesAreSound`, all three parts of `TablesHold`. The LRU cache
  (`CacheIsOrderly`): the entries and the history of uses agree place by place, every
  key is there once, and no entry outlives its value by more than its lifetime and
  the time of one computation; that `SelectSeq` keeps the order of what it leaves is
  a lemma about how many places stay before each (`Staying`). `NonceGoesForward`: a
  look-up under way knew no more than is known now. `FeesAreExclusive`.
- *PoolLookup*: `LookupsAreTrue`. A look-up reads the chain at several moments, and
  the invariant has a part for each (`FoundOne`, `BaseRead`, `QuoteRead`,
  `SupplyRead`): what was read was true at some moment since the look-up began, and
  the identity of a pool does not change (`SamePools`). `LookupAssumption` has
  ascending fee tiers, pools at the addresses derived from a mint that are pools of
  that mint, and a curve whose virtual reserves differ from the real ones by what they
  began with.

Every theorem that names a property of a run says more than the run: it holds for
every value of the constants. Those that no run lists (type correctness, the two
refinements of `CachedTrade`, explicit recovery, unambiguous versions, bounded
attempts, cancellation) are proved only. The bounds of the models (`MaxClock`,
`MaxMade`, `MaxChanges` and the like) are constants the theorems quantify over too.

Only model-checked:

- every liveness property: it needs fairness and ENABLED, which are out of the
  prover's reach;
- `WalksHold`: the price of a step is a quotient of products of earlier quotients,
  and a walk is a loop of such steps; the SMT solver does not decide what the
  roundings add up to over a walk. Checked over the bounded inputs of section 4;
- `RoutesHold`, `ArraysSuffice`: what a search over paths or arrays finds, for every
  input, is an induction over data.

## 8. What is not modelled

* Data: addresses and their derivation, account layouts, encodings of instructions
  and messages, signatures, provider-specific endpoints and headers, token programs,
  cashback, the order of compute-budget instructions, error texts, logs and most
  statistics (the exceptions are the counts in `HighPerfExecutor`, `RetryBreaker`
  and `WebSocketHandle`).
* In a modelled component: a concentrated-liquidity leg within a route and the
  epoch and age checks of `build_transaction()`; the buyback account of the official
  route; order support, oracle and bitmap accounts of DLMM pools; simulations;
  keepalive and `close()` of the Astralane client, the blacklisted NextBlock client
  and `advanced_clients.py`, which nothing in the library uses; metrics, filters and
  the manager of subscription handles; the adaptive and batch retry handlers and the
  length of delays; worker pools and the object pool, which hand on to the standard
  library; `calc/bonk.get_amount_in` and `get_amount_out`, legacy formulas that round
  the other way and that no quote uses; the 128-bit limits of
  `pumpfun_exact.py`, and the floating point in which
  `raydium_cpmm_compute_swap_amount` takes off the slippage;
  errors for single items in a list answer of a relay; conversions to floating-point
  prices.
* Assumed: timers of the prefetch loop fire on time; a market stands still between
  an array search and the walk that judges it; the token and SOL balances of a pool
  are two reads, so `LookupTellsTruth` asks of each that it was true, not of both
  together; a creation trade cost exactly what it says.
* The RPC client, the dictionary wrappers of
  `calc/pumpswap.py`, serialization, key handling, middleware and `perf/` (wrappers
  of operating-system facilities). The retries of the first are in the plan; the
  others have no protocol a model would add to.

PROJECT.json lists every part with its status and reason.
