-------------------------- MODULE CachedTrade_proofs --------------------------
(***************************************************************************)
(* Proofs that the cached trading path hands on nothing made from a         *)
(* snapshot that was refused by then, for any accounts, routes, traders and *)
(* generations, and that it is a path over the gate and the store as they   *)
(* are specified.                                                           *)
(*                                                                          *)
(* A check is two critical sections, and the world may change between them  *)
(* and after either.  The invariant follows the refusal through the check:  *)
(* a snapshot that was refused when the trade was compiled is still refused *)
(* at the conflict half, and by its guard at the ready half (Follows).      *)
(* That a refusal does not go away rests on the gate: a guard that is held  *)
(* passes as long as its generation lasts, and no generation comes back     *)
(* (Gate!GuardsAreDated).                                                   *)
(***************************************************************************)
EXTENDS CachedTrade, TLAPS

GateTyped ==
    /\ fork \in Fork
    /\ generation \in Nat
    /\ required \in SUBSET Key
    /\ guards \in [Trader -> Gate!Guard]

(* What a trader has in hand agrees with the guard it holds. *)
Guarded(t, r) ==
    /\ r.live => guards[t].pc = "held"
    /\ r.pc \in {"idle", "guarding", "copying"} => ~ r.live
    /\ r.pc = "guarding" => guards[t].pc = "captured"
    /\ r.pc = "copying" => guards[t].pc = "held"

(* The two halves of a check that still has to refuse. *)
Follows(t, r, stage, stale) ==
    /\ r.pc = "conflict" /\ r.stage = stage /\ stale =>
           conflicted \/ (r.live /\ ~ Gate!Current(t))
    /\ r.pc = "ready" /\ r.stage = stage /\ stale =>
           r.live /\ ~ Gate!Current(t)

Consistent(t, r) ==
    /\ Guarded(t, r)
    /\ Follows(t, r, "final", r.stalePrepared)
    /\ Follows(t, r, "submit", r.staleSigned)
    /\ r.pc = "signing" => ~ r.stalePrepared
    /\ r.pc \in {"cleared", "sent"} => ~ r.staleSigned

IInv ==
    /\ TypeOK
    /\ GateTyped
    /\ Gate!GuardsAreDated
    /\ \A t \in Trader : Consistent(t, trade[t])

-----------------------------------------------------------------------------
(* The records of a trader. *)

LEMMA IdleTradeIs ==
  /\ IdleTrade \in Trade /\ IdleTrade.pc = "idle" /\ ~ IdleTrade.live
  /\ ~ IdleTrade.stalePrepared /\ ~ IdleTrade.staleSigned
<1>1. 1 \in 1..Len(Candidates)
  <2>1. Len(Candidates) \in Nat /\ Len(Candidates) # 0
    BY TradeConstants
  <2>2. QED
    BY <2>1
<1>2. NoAccounts \in [Key -> Account \cup {NoAccount}]
  BY DEF NoAccounts
<1>3. QED
  BY <1>1, <1>2 DEF IdleTrade, Trade

(* assert_usable() is about to run. *)
LEMMA CheckIs ==
  ASSUME NEW t \in Trader, trade[t] \in Trade,
         NEW stage \in {"search", "candidate", "entry", "read", "final", "submit"}
  PROVE  /\ Check(t, stage) \in Trade
         /\ Check(t, stage).pc = "conflict" /\ Check(t, stage).stage = stage
         /\ Check(t, stage).live = trade[t].live
         /\ Check(t, stage).stalePrepared = trade[t].stalePrepared
         /\ Check(t, stage).staleSigned = trade[t].staleSigned
  BY DEF Check, Trade

(* The search moves on to another candidate. *)
LEMMA RerouteIs ==
  ASSUME NEW r \in Trade, NEW next \in 1..Len(Candidates)
  PROVE  LET other == [r EXCEPT !.route = next, !.toRead = {}] IN
         /\ other \in Trade /\ other.pc = r.pc /\ other.stage = r.stage
         /\ other.live = r.live
  BY DEF Trade

(* The caller catches an exception with its snapshot in its hands. *)
LEMMA RaisedIs ==
  ASSUME NEW t \in Trader, trade[t] \in Trade
  PROVE  /\ Raised(t) \in Trade
         /\ Raised(t).pc = "holding" /\ Raised(t).live = trade[t].live
  BY IdleTradeIs DEF Raised, Trade

-----------------------------------------------------------------------------
(* _readiness, _conflicted and the traders begin empty-handed. *)
LEMMA InitIInv == Init => IInv
<1>1. SUFFICES ASSUME Init PROVE IInv
  OBVIOUS
<1> USE <1>1, TradeConstants, GateConstants DEF Init, Gate!Init, Store!Init
<1>2. TypeOK
  BY IdleTradeIs DEF TypeOK
<1>3. GateTyped
  BY DEF GateTyped, Gate!NoGuard, Gate!Guard
<1>4. Gate!GuardsAreDated
  BY DEF Gate!GuardsAreDated, Gate!NoGuard
<1>5. \A t \in Trader : Consistent(t, trade[t])
  BY IdleTradeIs DEF Consistent, Guarded, Follows
<1>6. QED
  BY <1>2, <1>3, <1>4, <1>5 DEF IInv

(* A trader moves on over an unchanged gate and store. *)
LEMMA StepKeeps ==
  ASSUME NEW t \in Trader, IInv, NEW record \in Trade, Step(t, record),
         trade[t].pc \notin {"guarding", "copying"},
         record.pc \notin {"guarding", "copying"},
         Consistent(t, record)
  PROVE  IInv'
<1> USE DEF IInv, Step, gateVars, storeVars
<1>1. /\ trade' \in [Trader -> Trade] /\ trade'[t] = record
      /\ \A u \in Trader \ {t} : trade'[u] = trade[u]
  BY DEF TypeOK
<1>2. TypeOK'
  BY <1>1 DEF TypeOK
<1>3. GateTyped' /\ Gate!GuardsAreDated'
  BY DEF GateTyped, Gate!GuardsAreDated
<1>4. \A u, r : Consistent(u, r)' <=> Consistent(u, r)
  BY DEF Consistent, Guarded, Follows, Gate!Current
<1>5. \A u \in Trader : Consistent(u, trade'[u])
  BY <1>1
<1>6. QED
  BY <1>2, <1>3, <1>4, <1>5

(* Whatever the step is, the trader's own record agrees with its guard. *)
LEMMA TraderIs ==
  ASSUME NEW t \in Trader, IInv
  PROVE  /\ trade[t] \in Trade /\ Consistent(t, trade[t])
         /\ trade[t].pc \notin {"idle", "guarding", "copying"} =>
                (trade[t].live => guards[t].pc = "held")
  BY DEF IInv, TypeOK, Consistent, Guarded

(* An exception leaves nothing to follow. *)
LEMMA RaisedKeeps ==
  ASSUME NEW t \in Trader, IInv, trade[t].pc \notin {"idle", "guarding", "copying"},
         Step(t, Raised(t))
  PROVE  IInv'
<1>1. Raised(t) \in Trade /\ Raised(t).pc = "holding" /\ Raised(t).live = trade[t].live
  BY TraderIs, RaisedIs
<1>2. Consistent(t, Raised(t))
  BY <1>1, TraderIs DEF Consistent, Guarded, Follows
<1>3. QED
  BY <1>1, <1>2, StepKeeps

(* A check before anything was compiled or signed leaves nothing to follow,
   either. *)
LEMMA EarlyCheckKeeps ==
  ASSUME NEW t \in Trader, IInv, trade[t].pc \notin {"idle", "guarding", "copying"},
         NEW stage \in {"search", "candidate", "entry", "read"},
         NEW record \in Trade, Step(t, record),
         record.pc = "conflict", record.stage = stage, record.live = trade[t].live
  PROVE  IInv'
<1>1. Consistent(t, record)
  BY TraderIs DEF Consistent, Guarded, Follows
<1>2. QED
  BY <1>1, StepKeeps

(* ValueError: the next candidate, or out. *)
LEMMA ValueErrorKeeps ==
  ASSUME NEW t \in Trader, IInv, trade[t].pc \notin {"idle", "guarding", "copying"},
         Step(t, ValueError(t))
  PROVE  IInv'
<1>1. CASE InCandidate(t) /\ trade[t].route < Len(Candidates)
  <2> DEFINE next == trade[t].route + 1
             record == [Check(t, "candidate") EXCEPT !.route = next, !.toRead = {}]
  <2>1. trade[t] \in Trade /\ Check(t, "candidate").route = trade[t].route
    BY TraderIs DEF Check, Trade
  <2>2. next \in 1..Len(Candidates)
    BY <1>1, <2>1, TradeConstants DEF Trade
  <2>6. /\ Check(t, "candidate") \in Trade
        /\ Check(t, "candidate").pc = "conflict"
        /\ Check(t, "candidate").stage = "candidate"
        /\ Check(t, "candidate").live = trade[t].live
    BY <2>1, CheckIs
  <2>3. /\ record \in Trade /\ record.pc = "conflict" /\ record.stage = "candidate"
        /\ record.live = trade[t].live
    <3> HIDE DEF next
    <3>1. QED
      BY <2>2, <2>6, RerouteIs
  <2>4. Step(t, record)
    BY <1>1, <2>1 DEF ValueError
  <2>5. QED
    BY <2>3, <2>4, EarlyCheckKeeps
<1>2. CASE ~ (InCandidate(t) /\ trade[t].route < Len(Candidates))
  BY <1>2, RaisedKeeps DEF ValueError
<1>3. QED
  BY <1>1, <1>2

(* A trader that takes a snapshot, under the cache lock. *)
LEMMA SnapshotStepKeeps ==
  ASSUME NEW t \in Trader, IInv, NEW g \in Gate!Guard, NEW record \in Trade,
         g.pc # "none" => g.generation <= generation,
         g.pc = "held" /\ g.generation = generation =>
             state = "ready" /\ g.fork = fork /\ g.required = required,
         guards' = [guards EXCEPT ![t] = g],
         trade' = [trade EXCEPT ![t] = record],
         UNCHANGED <<fork, generation, state, required, storeVars>>,
         cacheLock \in {t, Free},
         cacheLock' = IF record.pc \in {"guarding", "copying"} THEN t ELSE Free,
         record.pc \in {"idle", "guarding", "copying", "holding"},
         record.live => record.pc = "holding" /\ g.pc = "held",
         record.pc = "guarding" => g.pc = "captured",
         record.pc = "copying" => g.pc = "held"
  PROVE  IInv'
<1> USE DEF IInv, storeVars
<1>1. /\ trade' \in [Trader -> Trade] /\ trade'[t] = record
      /\ \A u \in Trader \ {t} : trade'[u] = trade[u]
  BY DEF TypeOK
<1>2. /\ guards' \in [Trader -> Gate!Guard] /\ guards'[t] = g
      /\ \A u \in Trader \ {t} : guards'[u] = guards[u]
  BY DEF GateTyped
<1>3. TypeOK'
  <2>1. \A u \in Trader : u # Free
    BY TradeConstants
  <2>2. \A u \in Trader \ {t} : trade[u].pc \notin {"guarding", "copying"}
    BY <2>1 DEF TypeOK
  <2>3. \A u \in Trader : cacheLock' = u <=> trade'[u].pc \in {"guarding", "copying"}
    BY <1>1, <2>1, <2>2
  <2>4. cacheLock' \in Trader \cup {Free}
    OBVIOUS
  <2>5. QED
    BY <1>1, <2>3, <2>4 DEF TypeOK
<1>4. GateTyped'
  BY <1>2 DEF GateTyped
<1>5. Gate!GuardsAreDated'
  <2>1. SUFFICES ASSUME NEW u \in Trader
        PROVE  /\ guards'[u].pc # "none" => guards'[u].generation <= generation
               /\ guards'[u].pc = "held" /\ guards'[u].generation = generation =>
                      /\ state = "ready"
                      /\ guards'[u].fork = fork
                      /\ guards'[u].required = required
    BY DEF Gate!GuardsAreDated
  <2>2. CASE u = t
    BY <1>2, <2>2
  <2>3. CASE u # t
    BY <1>2, <2>3 DEF Gate!GuardsAreDated
  <2>4. QED
    BY <2>2, <2>3
<1>6. ASSUME NEW u \in Trader PROVE Consistent(u, trade[u])'
  <2>1. CASE u = t
    BY <1>1, <1>2, <2>1 DEF Consistent, Guarded, Follows
  <2>2. CASE u # t
    <3>1. guards'[u] = guards[u] /\ trade'[u] = trade[u] /\ Consistent(u, trade[u])
      BY <1>1, <1>2, <2>2
    <3>2. Gate!Current(u)' <=> Gate!Current(u)
      BY <3>1 DEF Gate!Current
    <3>3. QED
      BY <3>1, <3>2 DEF Consistent, Guarded, Follows
  <2>3. QED
    BY <2>1, <2>2
<1>7. QED
  BY <1>3, <1>4, <1>5, <1>6

-----------------------------------------------------------------------------
(* The threads beside the traders. *)

(* A feed never takes a conflict back. *)
LEMMA FeedKeeps ==
  ASSUME IInv, Feed
  PROVE  IInv'
<1> USE DEF IInv, Feed, gateVars
<1>1. /\ accounts' \in [Key -> Account \cup {NoAccount}]
      /\ conflicted' \in BOOLEAN /\ (conflicted => conflicted')
  BY DEF Store!Next, Store!Advance, Store!Poison, TypeOK
<1>2. TypeOK'
  BY <1>1 DEF TypeOK
<1>3. GateTyped' /\ Gate!GuardsAreDated'
  BY DEF GateTyped, Gate!GuardsAreDated
<1>4. ASSUME NEW t \in Trader PROVE Consistent(t, trade[t])'
  <2>1. Gate!Current(t)' <=> Gate!Current(t)
    BY DEF Gate!Current
  <2>2. QED
    BY <1>1, <2>1 DEF Consistent, Guarded, Follows
<1>5. QED
  BY <1>2, <1>3, <1>4

(* What the supervisor and the validators do to the gate: the generation
   grows, or the fork and the dependencies stay and a ready gate stays ready. *)
StreamMoves ==
    /\ fork' \in Fork /\ generation' \in Nat /\ required' \in SUBSET Key
    /\ guards' = guards
    /\ \/ generation' > generation
       \/ /\ generation' = generation
          /\ UNCHANGED <<fork, required>>
          /\ state = "ready" => state' = "ready"

LEMMA StreamIs ==
  ASSUME IInv, Stream
  PROVE  StreamMoves
<1> USE DEF IInv, GateTyped, StreamMoves
<1>1. CASE Gate!Supervise
  <2>1. CASE Gate!Interrupt
    BY <2>1 DEF Gate!Interrupt
  <2>2. ASSUME NEW f \in Fork, Gate!BeginRecovery(f) PROVE StreamMoves
    BY <2>2 DEF Gate!BeginRecovery
  <2>3. ASSUME NEW keys \in SUBSET Key, Gate!RequireAccounts(keys) PROVE StreamMoves
    BY <2>3 DEF Gate!RequireAccounts
  <2>4. QED
    BY <1>1, <2>1, <2>2, <2>3 DEF Gate!Supervise
<1>2. ASSUME NEW w \in Worker, Gate!Validate(w) PROVE StreamMoves
  <2>1. ASSUME NEW f \in Fork, Gate!BeginValidation(w, f) PROVE StreamMoves
    BY <2>1 DEF Gate!BeginValidation, Gate!object
  <2>2. ASSUME NEW keys \in SUBSET Key, Gate!MarkValidated(w, keys) PROVE StreamMoves
    BY <2>2 DEF Gate!MarkValidated
  <2>3. CASE Gate!MarkRejected(w)
    BY <2>3 DEF Gate!MarkRejected, Gate!object
  <2>4. QED
    BY <1>2, <2>1, <2>2, <2>3 DEF Gate!Validate
<1>3. QED
  BY <1>1, <1>2 DEF Stream

(* A guard that is held and refused stays refused. *)
LEMMA StreamKeeps ==
  ASSUME IInv, Stream
  PROVE  IInv'
<1> USE DEF IInv
<1>1. UNCHANGED <<storeVars, cacheLock, trade>>
  BY DEF Stream
<1>2. TypeOK'
  BY <1>1 DEF TypeOK, storeVars
<1>3. GateTyped'
  BY StreamIs DEF StreamMoves, GateTyped
<1>4. \A t \in Trader : guards[t].generation \in Nat
  BY DEF GateTyped, Gate!Guard
<1>5. Gate!GuardsAreDated'
  BY StreamIs, <1>4 DEF StreamMoves, Gate!GuardsAreDated, GateTyped
<1>6. ASSUME NEW t \in Trader PROVE Consistent(t, trade[t])'
  <2>1. guards[t].pc = "held" /\ ~ Gate!Current(t) => ~ Gate!Current(t)'
    BY StreamIs, <1>4 DEF StreamMoves, Gate!GuardsAreDated, Gate!Current, GateTyped
  <2>2. QED
    BY StreamIs, <1>1, <2>1 DEF StreamMoves, Consistent, Guarded, Follows, storeVars
<1>7. QED
  BY <1>2, <1>3, <1>5, <1>6

-----------------------------------------------------------------------------
(* The traders. *)

(* ready_snapshot(), observed_snapshot(), snapshot(). *)
LEMMA TakeSnapshotKeeps ==
  ASSUME NEW t \in Trader, IInv, TakeSnapshot(t)
  PROVE  IInv'
<1>1. trade[t] \in Trade /\ guards[t] \in Gate!Guard /\ generation \in Nat /\ fork \in Fork
      /\ required \in SUBSET Key
  BY DEF IInv, TypeOK, GateTyped
<1>2. Consistent(t, trade[t]) /\ Gate!GuardsAreDated
  BY DEF IInv
<1>3. trade[t].pc \in {"guarding", "copying"} => cacheLock = t
  BY DEF IInv, TypeOK
<1>4. Free # t
  BY TradeConstants
<1>5. CASE SnapshotBegin(t)
  <2> DEFINE record == [trade[t] EXCEPT !.pc = "guarding"]
             g == [Gate!NoGuard EXCEPT !.pc = "captured", !.generation = generation]
  <2>1. /\ record \in Trade /\ record.pc = "guarding" /\ record.live = trade[t].live
    BY <1>1 DEF Trade
  <2>2. g \in Gate!Guard /\ g.pc = "captured" /\ g.generation = generation
    BY <1>1, GateConstants DEF Gate!Guard, Gate!NoGuard
  <2>3. /\ guards' = [guards EXCEPT ![t] = g]
        /\ trade' = [trade EXCEPT ![t] = record]
        /\ UNCHANGED <<fork, generation, state, required, storeVars>>
        /\ cacheLock = Free /\ cacheLock' = t /\ trade[t].pc = "idle"
    BY <1>5, <1>1 DEF SnapshotBegin, At, Gate!GuardCapture, Gate!object, IInv, TypeOK
  <2>4. ~ record.live
    BY <1>2, <2>1, <2>3 DEF Consistent, Guarded
  <2> HIDE DEF record, g
  <2>5. g.pc # "none" => g.generation <= generation
    BY <1>1, <2>2
  <2>6. QED
    BY <2>1, <2>2, <2>3, <2>4, <2>5, SnapshotStepKeeps
<1>6. CASE SnapshotGuard(t)
  <2> DEFINE record == [trade[t] EXCEPT !.pc = "copying"]
             g == [guards[t] EXCEPT !.pc = "held", !.fork = fork, !.required = required]
  <2>1. /\ record \in Trade /\ record.pc = "copying" /\ record.live = trade[t].live
    BY <1>1 DEF Trade
  <2>2. g \in Gate!Guard /\ g.pc = "held" /\ g.fork = fork /\ g.required = required
        /\ g.generation = guards[t].generation
    BY <1>1 DEF Gate!Guard
  <2>3. /\ guards' = [guards EXCEPT ![t] = g]
        /\ trade' = [trade EXCEPT ![t] = record]
        /\ UNCHANGED <<fork, generation, state, required, storeVars, cacheLock>>
        /\ trade[t].pc = "guarding"
        /\ state = "ready" /\ generation = guards[t].generation
    BY <1>6, <1>1 DEF SnapshotGuard, At, Gate!GuardCheck, Gate!Current, Gate!object,
       IInv, TypeOK, GateTyped
  <2>4. ~ record.live
    BY <1>2, <2>1, <2>3 DEF Consistent, Guarded
  <2> HIDE DEF record, g
  <2>5. g.pc # "none" => g.generation <= generation
    BY <1>1, <2>2, <2>3
  <2>6. QED
    BY <1>3, <2>1, <2>2, <2>3, <2>4, <2>5, SnapshotStepKeeps
<1>7. CASE SnapshotRefused(t)
  <2>1. Gate!NoGuard \in Gate!Guard /\ Gate!NoGuard.pc = "none"
    BY GateConstants DEF Gate!Guard, Gate!NoGuard
  <2>2. /\ guards' = [guards EXCEPT ![t] = Gate!NoGuard]
        /\ trade' = [trade EXCEPT ![t] = IdleTrade]
        /\ UNCHANGED <<fork, generation, state, required, storeVars>>
        /\ trade[t].pc = "guarding" /\ cacheLock' = Free
    BY <1>7 DEF SnapshotRefused, At, Gate!GuardRefused, Gate!object
  <2>3. QED
    BY <1>3, <2>1, <2>2, IdleTradeIs, SnapshotStepKeeps
<1>8. ASSUME NEW keys \in SUBSET Key, NEW observed \in Context \cup {NotObserved},
             SnapshotCopy(t, keys, observed)
      PROVE  IInv'
  <2> DEFINE record == [trade[t] EXCEPT !.pc = "holding", !.live = TRUE,
                            !.snapshot = Selected(keys), !.observed = observed]
  <2>1. Selected(keys) \in [Key -> Account \cup {NoAccount}]
    BY DEF Selected, IInv, TypeOK
  <2>2. record \in Trade /\ record.pc = "holding"
    BY <1>1, <2>1 DEF Trade
  <2>3. /\ guards' = [guards EXCEPT ![t] = guards[t]]
        /\ trade' = [trade EXCEPT ![t] = record]
        /\ UNCHANGED <<fork, generation, state, required, storeVars>>
        /\ trade[t].pc = "copying" /\ cacheLock' = Free
    BY <1>8 DEF SnapshotCopy, At, gateVars, IInv, TypeOK, GateTyped
  <2>4. guards[t].pc = "held"
    BY <1>2, <2>3 DEF Consistent, Guarded
  <2>5. /\ guards[t].generation <= generation
        /\ guards[t].generation = generation =>
               state = "ready" /\ guards[t].fork = fork /\ guards[t].required = required
    BY <1>2, <2>4 DEF Gate!GuardsAreDated
  <2> HIDE DEF record
  <2>6. QED
    BY <1>1, <1>3, <2>2, <2>3, <2>4, <2>5, SnapshotStepKeeps
<1>9. ASSUME NEW keys \in SUBSET Key, SnapshotMissing(t, keys)
      PROVE  IInv'
  <2>1. /\ guards' = [guards EXCEPT ![t] = guards[t]]
        /\ trade' = [trade EXCEPT ![t] = IdleTrade]
        /\ UNCHANGED <<fork, generation, state, required, storeVars>>
        /\ trade[t].pc = "copying" /\ cacheLock' = Free
    BY <1>9 DEF SnapshotMissing, At, gateVars, IInv, TypeOK, GateTyped
  <2>2. /\ guards[t].pc # "none" => guards[t].generation <= generation
        /\ guards[t].pc = "held" /\ guards[t].generation = generation =>
               state = "ready" /\ guards[t].fork = fork /\ guards[t].required = required
    BY <1>2 DEF Gate!GuardsAreDated
  <2>3. QED
    BY <1>1, <1>3, <2>1, <2>2, IdleTradeIs, SnapshotStepKeeps
<1>10. ASSUME NEW keys \in SUBSET Key, SnapshotOffline(t, keys)
       PROVE  IInv'
  <2> DEFINE record == [trade[t] EXCEPT !.pc = "holding", !.snapshot = Selected(keys)]
  <2>1. Selected(keys) \in [Key -> Account \cup {NoAccount}]
    BY DEF Selected, IInv, TypeOK
  <2>2. record \in Trade /\ record.pc = "holding" /\ record.live = trade[t].live
    BY <1>1, <2>1 DEF Trade
  <2>3. trade[t].pc = "idle" /\ Step(t, record)
    BY <1>1, <1>10 DEF SnapshotOffline, At, Step, IInv, TypeOK
  <2>4. ~ trade[t].live
    BY <1>2, <2>3 DEF Consistent, Guarded
  <2> HIDE DEF record
  <2>5. Consistent(t, record)
    BY <2>2, <2>4 DEF Consistent, Guarded, Follows
  <2>6. QED
    BY <2>2, <2>3, <2>5, StepKeeps
<1>11. CASE Drop(t)
  <2>1. Step(t, IdleTrade) /\ trade[t].pc = "holding"
    BY <1>11 DEF Drop, At
  <2>2. Consistent(t, IdleTrade)
    BY IdleTradeIs DEF Consistent, Guarded, Follows
  <2>4. QED
    BY <2>1, <2>2, IdleTradeIs, StepKeeps
<1>12. QED
  BY <1>5, <1>6, <1>7, <1>8, <1>9, <1>10, <1>11 DEF TakeSnapshot

(* execute(), as far as the checks, the reads and the compiling. *)
LEMMA PrepareKeeps ==
  ASSUME NEW t \in Trader, IInv,
         \/ Conflicted(t) \/ NoConflict(t) \/ NotReady(t) \/ SearchRoutes(t)
         \/ TryCandidate(t) \/ EnterCandidate(t)
         \/ \E k \in trade[t].toRead : ReadMore(t, k) \/ ReadLast(t, k) \/ ReadFails(t, k)
  PROVE  IInv'
<1>1. trade[t] \in Trade /\ Consistent(t, trade[t])
  BY TraderIs
<1>2. CASE Conflicted(t)
  BY <1>2, ValueErrorKeeps DEF Conflicted, At
<1>3. CASE NoConflict(t)
  <2> DEFINE record == [trade[t] EXCEPT !.pc = "ready"]
  <2>1. /\ record \in Trade /\ record.pc = "ready" /\ record.stage = trade[t].stage
        /\ record.live = trade[t].live
        /\ record.stalePrepared = trade[t].stalePrepared
        /\ record.staleSigned = trade[t].staleSigned
    BY <1>1 DEF Trade
  <2>2. trade[t].pc = "conflict" /\ ~ conflicted /\ Step(t, record)
    BY <1>3 DEF NoConflict, At
  <2> HIDE DEF record
  <2>3. Consistent(t, record)
    BY <1>1, <2>1, <2>2 DEF Consistent, Guarded, Follows
  <2>4. QED
    BY <2>1, <2>2, <2>3, StepKeeps
<1>4. CASE NotReady(t)
  BY <1>4, RaisedKeeps DEF NotReady, At
<1>5. CASE SearchRoutes(t)
  <2>1. trade[t].pc = "ready" /\ Step(t, Check(t, "candidate"))
    BY <1>5 DEF SearchRoutes, Passed, At
  <2>2. /\ Check(t, "candidate") \in Trade /\ Check(t, "candidate").pc = "conflict"
        /\ Check(t, "candidate").stage = "candidate"
        /\ Check(t, "candidate").live = trade[t].live
    BY <1>1, CheckIs
  <2>3. QED
    BY <2>1, <2>2, EarlyCheckKeeps
<1>6. CASE TryCandidate(t)
  <2>1. trade[t].pc = "ready" /\ Step(t, Check(t, "entry"))
    BY <1>6 DEF TryCandidate, Passed, At
  <2>2. /\ Check(t, "entry") \in Trade /\ Check(t, "entry").pc = "conflict"
        /\ Check(t, "entry").stage = "entry"
        /\ Check(t, "entry").live = trade[t].live
    BY <1>1, CheckIs
  <2>3. QED
    BY <2>1, <2>2, EarlyCheckKeeps
<1>7. ASSUME NEW keys \in SUBSET Key, trade[t].pc = "ready",
             Step(t, [Check(t, "read") EXCEPT !.toRead = keys])
      PROVE  IInv'
  <2> DEFINE record == [Check(t, "read") EXCEPT !.toRead = keys]
  <2>1. /\ Check(t, "read") \in Trade /\ Check(t, "read").pc = "conflict"
        /\ Check(t, "read").stage = "read"
        /\ Check(t, "read").live = trade[t].live
    BY <1>1, CheckIs
  <2>2. /\ record \in Trade /\ record.pc = "conflict" /\ record.stage = "read"
        /\ record.live = trade[t].live
    BY <2>1 DEF Trade
  <2> HIDE DEF record
  <2>3. Step(t, record)
    BY <1>7 DEF record
  <2>4. QED
    BY <1>7, <2>2, <2>3, EarlyCheckKeeps
<1>8. CASE EnterCandidate(t)
  <2>1. trade[t].route \in 1..Len(Candidates)
    BY <1>1 DEF Trade
  <2>2. Candidates[trade[t].route] \in SUBSET Key
    BY <2>1, TradeConstants
  <2>3. QED
    BY <1>7, <1>8, <2>2 DEF EnterCandidate, Passed, At
<1>9. ASSUME NEW k \in trade[t].toRead, ReadMore(t, k) PROVE IInv'
  <2>1. Check(t, "read").toRead = trade[t].toRead /\ trade[t].toRead \in SUBSET Key
    BY <1>1 DEF Check, Trade
  <2>2. trade[t].toRead \ {k} \in SUBSET Key
    BY <2>1
  <2>3. trade[t].pc = "ready"
        /\ Step(t, [Check(t, "read") EXCEPT !.toRead = trade[t].toRead \ {k}])
    BY <1>9, <2>1 DEF ReadMore, Passed, At
  <2>4. QED
    BY <1>7, <2>2, <2>3
<1>10. ASSUME NEW k \in trade[t].toRead, ReadLast(t, k) PROVE IInv'
  <2> DEFINE record == [trade[t] EXCEPT !.pc = "compiling", !.toRead = {}]
  <2>1. /\ record \in Trade /\ record.pc = "compiling" /\ record.live = trade[t].live
    BY <1>1 DEF Trade
  <2>2. trade[t].pc = "ready" /\ Step(t, record)
    BY <1>10 DEF ReadLast, Passed, At
  <2> HIDE DEF record
  <2>3. Consistent(t, record)
    BY <1>1, <2>1, <2>2 DEF Consistent, Guarded, Follows
  <2>4. QED
    BY <2>1, <2>2, <2>3, StepKeeps
<1>11. ASSUME NEW k \in trade[t].toRead, ReadFails(t, k) PROVE IInv'
  BY <1>11, ValueErrorKeeps DEF ReadFails, Passed, At
<1>12. QED
  BY <1>2, <1>3, <1>4, <1>5, <1>6, <1>8, <1>9, <1>10, <1>11

(* The result is handed on after one more check: what was refused when the
   trade was compiled or signed is still refused then. *)
LEMMA HandOnKeeps ==
  ASSUME NEW t \in Trader, IInv,
         \/ Compile(t) \/ QuoteFails(t) \/ Prepared(t) \/ Sign(t) \/ SignFails(t)
         \/ Clear(t) \/ Submit(t) \/ Return(t)
  PROVE  IInv'
<1>1. trade[t] \in Trade /\ Consistent(t, trade[t])
  BY TraderIs
<1>2. Usable(t) \in BOOLEAN
  BY DEF Usable
<1>3. CASE Compile(t)
  <2> DEFINE stale == ~ Usable(t)
             record == [Check(t, "final") EXCEPT !.stalePrepared = stale]
  <2>1. /\ Check(t, "final") \in Trade /\ Check(t, "final").pc = "conflict"
        /\ Check(t, "final").stage = "final"
        /\ Check(t, "final").live = trade[t].live
    BY <1>1, CheckIs
  <2>2. stale \in BOOLEAN /\ (stale => conflicted \/ (trade[t].live /\ ~ Gate!Current(t)))
    BY DEF Usable, GuardPasses
  <2>3. trade[t].pc = "compiling" /\ Step(t, record)
    BY <1>3 DEF Compile, At
  <2> HIDE DEF stale
  <2>4. /\ record \in Trade /\ record.pc = "conflict" /\ record.stage = "final"
        /\ record.live = trade[t].live /\ record.stalePrepared = stale
    BY <2>1, <2>2 DEF Trade
  <2> HIDE DEF record
  <2>5. Consistent(t, record)
    BY <1>1, <2>2, <2>3, <2>4 DEF Consistent, Guarded, Follows
  <2>6. QED
    BY <2>3, <2>4, <2>5, StepKeeps
<1>4. CASE QuoteFails(t)
  BY <1>4, ValueErrorKeeps DEF QuoteFails, At
<1>5. CASE Prepared(t)
  <2> DEFINE record == [trade[t] EXCEPT !.pc = "signing"]
  <2>1. /\ record \in Trade /\ record.pc = "signing" /\ record.live = trade[t].live
        /\ record.stalePrepared = trade[t].stalePrepared
    BY <1>1 DEF Trade
  <2>2. /\ trade[t].pc = "ready" /\ trade[t].stage = "final" /\ GuardPasses(t)
        /\ Step(t, record)
    BY <1>5 DEF Prepared, Passed, At
  <2> HIDE DEF record
  <2>3. ~ trade[t].stalePrepared
    BY <1>1, <2>2 DEF Consistent, Follows, GuardPasses
  <2>4. Consistent(t, record)
    BY <1>1, <2>1, <2>2, <2>3 DEF Consistent, Guarded, Follows
  <2>5. QED
    BY <2>1, <2>2, <2>4, StepKeeps
<1>6. CASE Sign(t)
  <2> DEFINE stale == ~ Usable(t)
             record == [Check(t, "submit") EXCEPT !.staleSigned = stale]
  <2>1. /\ Check(t, "submit") \in Trade /\ Check(t, "submit").pc = "conflict"
        /\ Check(t, "submit").stage = "submit"
        /\ Check(t, "submit").live = trade[t].live
    BY <1>1, CheckIs
  <2>2. stale \in BOOLEAN /\ (stale => conflicted \/ (trade[t].live /\ ~ Gate!Current(t)))
    BY DEF Usable, GuardPasses
  <2>3. trade[t].pc = "signing" /\ Step(t, record)
    BY <1>6 DEF Sign, At
  <2> HIDE DEF stale
  <2>4. /\ record \in Trade /\ record.pc = "conflict" /\ record.stage = "submit"
        /\ record.live = trade[t].live /\ record.staleSigned = stale
    BY <2>1, <2>2 DEF Trade
  <2> HIDE DEF record
  <2>5. Consistent(t, record)
    BY <1>1, <2>2, <2>3, <2>4 DEF Consistent, Guarded, Follows
  <2>6. QED
    BY <2>3, <2>4, <2>5, StepKeeps
<1>7. CASE SignFails(t)
  BY <1>7, RaisedKeeps DEF SignFails, At
<1>8. CASE Clear(t)
  <2> DEFINE record == [trade[t] EXCEPT !.pc = "cleared"]
  <2>1. /\ record \in Trade /\ record.pc = "cleared" /\ record.live = trade[t].live
        /\ record.staleSigned = trade[t].staleSigned
    BY <1>1 DEF Trade
  <2>2. /\ trade[t].pc = "ready" /\ trade[t].stage = "submit" /\ GuardPasses(t)
        /\ Step(t, record)
    BY <1>8 DEF Clear, Passed, At
  <2> HIDE DEF record
  <2>3. ~ trade[t].staleSigned
    BY <1>1, <2>2 DEF Consistent, Follows, GuardPasses
  <2>4. Consistent(t, record)
    BY <1>1, <2>1, <2>2, <2>3 DEF Consistent, Guarded, Follows
  <2>5. QED
    BY <2>1, <2>2, <2>4, StepKeeps
<1>9. CASE Submit(t)
  <2> DEFINE record == [trade[t] EXCEPT !.pc = "sent"]
  <2>1. /\ record \in Trade /\ record.pc = "sent" /\ record.live = trade[t].live
        /\ record.staleSigned = trade[t].staleSigned
    BY <1>1 DEF Trade
  <2>2. trade[t].pc = "cleared" /\ Step(t, record)
    BY <1>9 DEF Submit, At
  <2> HIDE DEF record
  <2>3. Consistent(t, record)
    BY <1>1, <2>1, <2>2 DEF Consistent, Guarded, Follows
  <2>4. QED
    BY <2>1, <2>2, <2>3, StepKeeps
<1>10. CASE Return(t)
  BY <1>10, RaisedKeeps DEF Return, At
<1>11. QED
  BY <1>3, <1>4, <1>5, <1>6, <1>7, <1>8, <1>9, <1>10

(* execute() begins. *)
LEMMA BeginKeeps ==
  ASSUME NEW t \in Trader, IInv, Begin(t)
  PROVE  IInv'
<1>1. PICK search \in BOOLEAN, context \in Context : Execute(t, search, context)
  BY DEF Begin
<1> DEFINE stage == IF search THEN "search" ELSE "entry"
           record == [Check(t, stage) EXCEPT !.search = search, !.context = context]
<1>2. stage \in {"search", "entry"}
  OBVIOUS
<1>3. trade[t].pc = "holding" /\ Step(t, record)
  BY <1>1 DEF Execute, At
<1> HIDE DEF stage
<1>4. Check(t, stage) \in Trade /\ Check(t, stage).pc = "conflict"
      /\ Check(t, stage).stage = stage /\ Check(t, stage).live = trade[t].live
  BY <1>2, TraderIs, CheckIs
<1>5. record \in Trade /\ record.pc = "conflict" /\ record.stage = stage
      /\ record.live = trade[t].live
  BY <1>4 DEF Trade
<1> HIDE DEF record
<1>6. QED
  BY <1>2, <1>3, <1>5, EarlyCheckKeeps

LEMMA NextKeeps == IInv /\ [Next]_vars => IInv'
<1>1. SUFFICES ASSUME IInv, [Next]_vars PROVE IInv'
  OBVIOUS
<1>2. CASE Feed
  BY <1>1, <1>2, FeedKeeps
<1>3. CASE Stream
  BY <1>1, <1>3, StreamKeeps
<1>4. ASSUME NEW t \in Trader, TakeSnapshot(t) \/ Begin(t) \/ Progress(t) \/ Return(t)
      PROVE  IInv'
  BY <1>1, <1>4, TakeSnapshotKeeps, BeginKeeps, PrepareKeeps, HandOnKeeps DEF Progress
<1>5. CASE UNCHANGED vars
  <2> USE <1>1, <1>5 DEF IInv, vars, gateVars, storeVars
  <2>1. TypeOK' /\ GateTyped' /\ Gate!GuardsAreDated'
    BY DEF TypeOK, GateTyped, Gate!GuardsAreDated
  <2>2. ASSUME NEW t \in Trader PROVE Consistent(t, trade[t])'
    <3>1. Gate!Current(t)' <=> Gate!Current(t)
      BY DEF Gate!Current
    <3>2. QED
      BY <3>1 DEF Consistent, Guarded, Follows
  <2>3. QED
    BY <2>1, <2>2
<1>6. QED
  BY <1>1, <1>2, <1>3, <1>4, <1>5 DEF Next

-----------------------------------------------------------------------------
(* The invariant holds of every reachable state, for any accounts, candidate
   routes, traders, forks and generations of execute() and its snapshots. *)
THEOREM Inductive == Spec => []IInv
<1>1. QED
  BY InitIInv, NextKeeps, PTL DEF Spec

(* Every reachable state is typed, and the cache lock is held by exactly the
   trader that is between the two halves of ready_snapshot(). *)
THEOREM TypeCorrect == Spec => []TypeOK
<1>1. IInv => TypeOK
  BY DEF IInv
<1>2. QED
  BY <1>1, Inductive, PTL

(* prepare_cached_trade() returns no trade that was compiled, and execute()
   sends none that was signed, from a snapshot refused by then. *)
THEOREM NothingDeadIsTraded == Spec => []NothingOnDeadSnapshot
<1>1. IInv => NothingOnDeadSnapshot
  BY DEF IInv, Consistent, NothingOnDeadSnapshot
<1>2. QED
  BY <1>1, Inductive, PTL

-----------------------------------------------------------------------------
(* To the gate, trading is taking guards: every step of execute() and of the
   snapshot functions is a step of the gate or leaves it as it is, so what is
   proved of the gate holds under any trading. *)
THEOREM TradingRespectsGate == Spec => Gate!Spec
<1>1. Init => Gate!Init
  BY DEF Init
<1> USE DEF gateVars, Gate!vars, Gate!object, Gate!history
<1>2. ASSUME [Next]_vars PROVE [Gate!Next]_Gate!vars
  <2>1. CASE Feed
    BY <2>1 DEF Feed
  <2>2. CASE Stream
    BY <2>2 DEF Stream, Gate!Next
  <2>3. ASSUME NEW t \in Trader, TakeSnapshot(t) PROVE [Gate!Next]_Gate!vars
    <3>1. CASE SnapshotBegin(t) \/ SnapshotGuard(t) \/ SnapshotRefused(t)
      BY <3>1 DEF SnapshotBegin, SnapshotGuard, SnapshotRefused, Gate!Next, Gate!TakeGuard
    <3>2. CASE Drop(t)
      BY <3>2 DEF Drop, Step
    <3>3. ASSUME NEW keys \in SUBSET Key,
                 \/ \E observed \in Context \cup {NotObserved} :
                        SnapshotCopy(t, keys, observed)
                 \/ SnapshotMissing(t, keys)
                 \/ SnapshotOffline(t, keys)
          PROVE  UNCHANGED gateVars
      BY <3>3 DEF SnapshotCopy, SnapshotMissing, SnapshotOffline
    <3>4. QED
      BY <2>3, <3>1, <3>2, <3>3 DEF TakeSnapshot
  <2>4. ASSUME NEW t \in Trader, Begin(t) \/ Progress(t) \/ Return(t)
        PROVE  UNCHANGED gateVars
    BY <2>4 DEF Begin, Execute, Progress, Return, Conflicted, NoConflict, NotReady,
       SearchRoutes, TryCandidate, EnterCandidate, ReadMore, ReadLast, ReadFails, Compile,
       QuoteFails, Prepared, Sign, SignFails, Clear, Submit, Step
  <2>5. CASE UNCHANGED vars
    BY <2>5 DEF vars
  <2>6. QED
    BY <1>2, <2>1, <2>2, <2>3, <2>4, <2>5 DEF Next
<1>3. QED
  BY <1>1, <1>2, PTL DEF Spec, Gate!Spec

(* To the store, trading is reading: every step of a trader leaves the accounts
   and the conflict latch as they are, and a feed is a step of the store. *)
THEOREM TradingRespectsStore == Spec => Store!Spec
<1>1. Init => Store!Init
  BY DEF Init
<1> USE DEF storeVars
<1>2. ASSUME [Next]_vars PROVE [Store!Next]_<<accounts, conflicted>>
  <2>1. CASE Feed
    BY <2>1 DEF Feed
  <2>2. CASE Stream
    BY <2>2 DEF Stream
  <2>3. ASSUME NEW t \in Trader, TakeSnapshot(t) PROVE UNCHANGED storeVars
    BY <2>3 DEF TakeSnapshot, SnapshotBegin, SnapshotGuard, SnapshotRefused, SnapshotCopy,
       SnapshotMissing, SnapshotOffline, Drop, Step
  <2>4. ASSUME NEW t \in Trader, Begin(t) \/ Progress(t) \/ Return(t)
        PROVE  UNCHANGED storeVars
    BY <2>4 DEF Begin, Execute, Progress, Return, Conflicted, NoConflict, NotReady,
       SearchRoutes, TryCandidate, EnterCandidate, ReadMore, ReadLast, ReadFails, Compile,
       QuoteFails, Prepared, Sign, SignFails, Clear, Submit, Step
  <2>5. CASE UNCHANGED vars
    BY <2>5 DEF vars
  <2>6. QED
    BY <1>2, <2>1, <2>2, <2>3, <2>4, <2>5 DEF Next
<1>3. QED
  BY <1>1, <1>2, PTL DEF Spec, Store!Spec

=============================================================================
