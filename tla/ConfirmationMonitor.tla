------------------------- MODULE ConfirmationMonitor -------------------------
(***************************************************************************)
(* ConfirmationMonitor of src/src/trading/core/confirmation_monitor.py:     *)
(* status checks (the poll loop's and the callers') that ask the RPC server *)
(* without the lock and apply the answers under it, calling back, and waits *)
(* for a commitment level.                                                  *)
(*                                                                          *)
(* The lock is an asyncio.Lock: whoever holds it and takes it again waits   *)
(* for ever.  A method that holds it without an await is one step that      *)
(* needs it free; check_now() holds it across the callbacks' awaits.  The   *)
(* class leaves the request itself to be filled in (_fetch_statuses); the   *)
(* server's answer is the chain's state when it was made.  Operators        *)
(* introduced as a faulty variant are used by nothing: each is a mistake    *)
(* the properties catch.                                                    *)
(***************************************************************************)
EXTENDS Naturals

CONSTANTS
    Signature,         \* transaction signatures
    Check,             \* activities that call check_now(): the poll loop, callers
    Wait,              \* calls of wait_for_confirmation()
    Free,              \* nobody holds the lock
    Untracked,         \* the signature is not in _tracked
    CallbackUntracks   \* a callback awaits untrack() of the same monitor

ASSUME MonitorConstants ==
    /\ CallbackUntracks \in BOOLEAN
    /\ Free \notin Check
    /\ Untracked \notin {"PENDING", "PROCESSED", "CONFIRMED", "FINALIZED", "FAILED"}

VARIABLES
    lock,       \* _lock: Free or the check that holds it
    tracked,    \* tracked[s]: the status of s in _tracked
    callback,   \* callback[s]: a callback is registered for s
    checks,     \* checks[c]: a run of check_now()
    waits,      \* waits[w]: a call of wait_for_confirmation()
    chain       \* chain[s]: what the cluster says of s (external)

vars == <<lock, tracked, callback, checks, waits, chain>>

Status == {"PENDING", "PROCESSED", "CONFIRMED", "FINALIZED", "FAILED"}
Target == {"PROCESSED", "CONFIRMED", "FINALIZED"}

Level(status) == CASE status = "PENDING"   -> 0
                   [] status = "PROCESSED" -> 1
                   [] status = "CONFIRMED" -> 2
                   [] status = "FINALIZED" -> 3
                   [] status = "FAILED"    -> 4

(* Faulty variant: the target is not compared. *)
ReachedAny(status, target) == status # "PENDING"

(* _status_reached(): a failure reaches every target. *)
Reached(status, target) == Level(status) >= Level(target)

Tracked == {s \in Signature : tracked[s] # Untracked}

IdleCheck == [pc |-> "idle", answer |-> [s \in {} |-> "PENDING"]]
NewWait == [pc |-> "new", signature |-> Untracked, target |-> "CONFIRMED", result |-> "none"]

Init ==
    /\ lock = Free
    /\ tracked = [s \in Signature |-> Untracked]
    /\ callback = [s \in Signature |-> FALSE]
    /\ checks = [c \in Check |-> IdleCheck]
    /\ waits = [w \in Wait |-> NewWait]
    /\ chain = [s \in Signature |-> "PENDING"]

-----------------------------------------------------------------------------
(* Tracking. *)

(* track() starts from PENDING, whatever was known. *)
Restarted(s) == [tracked EXCEPT ![s] = "PENDING"]

Track(s, with_callback) ==
    /\ lock = Free
    /\ tracked' = Restarted(s)
    /\ callback' = [callback EXCEPT ![s] = @ \/ with_callback]
    /\ UNCHANGED <<lock, checks, waits, chain>>

Untrack(s) ==
    /\ lock = Free
    /\ tracked' = [tracked EXCEPT ![s] = Untracked]
    /\ callback' = [callback EXCEPT ![s] = FALSE]
    /\ UNCHANGED <<lock, checks, waits, chain>>

-----------------------------------------------------------------------------
(* Waiting. *)

BeginWait(w, s, target) ==
    /\ lock = Free
    /\ waits[w].pc = "new"
    /\ tracked' = Restarted(s)
    /\ waits' = [waits EXCEPT ![w] = [pc |-> "waiting", signature |-> s, target |-> target,
                                      result |-> "none"]]
    /\ UNCHANGED <<lock, callback, checks, chain>>

(* One look at the state.  A look that finds nothing yet changes nothing. *)
Look(w, condition, result) ==
    /\ lock = Free
    /\ waits[w].pc = "waiting"
    /\ condition
    /\ waits' = [waits EXCEPT ![w].pc = "returned", ![w].result = result]
    /\ UNCHANGED <<lock, tracked, callback, checks, chain>>

WaitDropped(w) ==
    LET status == tracked[waits[w].signature]
    IN waits[w].pc = "waiting" /\ Look(w, status = Untracked, "DROPPED")

WaitReached(w) ==
    LET status == tracked[waits[w].signature]
    IN /\ waits[w].pc = "waiting"
       /\ status \in Status
       /\ Look(w, Reached(status, waits[w].target), status)

(* Faulty variant: a signature the server has heard of does not time out. *)
WaitTimesOutPending(w) ==
    /\ waits[w].pc = "waiting"
    /\ Look(w, tracked[waits[w].signature] = "PENDING", "TIMEOUT")

WaitTimesOut(w) ==
    LET status == tracked[waits[w].signature]
    IN /\ waits[w].pc = "waiting"
       /\ status \in Status
       /\ Look(w, ~ Reached(status, waits[w].target), "TIMEOUT")

-----------------------------------------------------------------------------
(* Checking. *)

(* The signatures to ask for, under the lock, which is then released. *)
Ask(c) ==
    /\ lock = Free
    /\ checks[c].pc = "idle"
    /\ Tracked # {}
    /\ checks' = [checks EXCEPT ![c] = [pc |-> "fetching", answer |-> [s \in Tracked |-> "PENDING"]]]
    /\ UNCHANGED <<lock, tracked, callback, waits, chain>>

(* The server answers; how long its answer takes is the next step's matter. *)
Fetched(c) ==
    /\ checks[c].pc = "fetching"
    /\ checks' = [checks EXCEPT ![c].pc = "answered",
                                ![c].answer = [s \in DOMAIN @ |-> chain[s]]]
    /\ UNCHANGED <<lock, tracked, callback, waits, chain>>

FetchFails(c) ==
    /\ checks[c].pc = "fetching"
    /\ checks' = [checks EXCEPT ![c] = IdleCheck]
    /\ UNCHANGED <<lock, tracked, callback, waits, chain>>

Acquire(c) ==
    /\ lock = Free
    /\ checks[c].pc = "answered"
    /\ lock' = c
    /\ checks' = [checks EXCEPT ![c].pc = "updating"]
    /\ UNCHANGED <<tracked, callback, waits, chain>>

Without(answer, s) == [t \in DOMAIN answer \ {s} |-> answer[t]]

(* Faulty variant: whether the signature is still tracked is not asked again. *)
UpdateUntracked(c, s) ==
    /\ checks[c].pc = "updating"
    /\ s \in DOMAIN checks[c].answer
    /\ tracked' = [tracked EXCEPT ![s] = checks[c].answer[s]]
    /\ checks' = [checks EXCEPT ![c].answer = Without(@, s),
                                ![c].pc = IF callback[s] /\ tracked'[s] # tracked[s]
                                          THEN "calling" ELSE @]
    /\ UNCHANGED <<lock, callback, waits, chain>>

(* One signature of the answer.  A new status is stored whether it is further
   than the old one or not; its callbacks are awaited with the lock held. *)
Update(c, s) ==
    /\ checks[c].pc = "updating"
    /\ s \in DOMAIN checks[c].answer
    /\ tracked' = [tracked EXCEPT ![s] = IF @ = Untracked THEN @ ELSE checks[c].answer[s]]
    /\ checks' = [checks EXCEPT ![c].answer = Without(@, s),
                                ![c].pc = IF callback[s] /\ tracked'[s] # tracked[s]
                                          THEN "calling" ELSE @]
    /\ UNCHANGED <<lock, callback, waits, chain>>

(* untrack() inside the callback would have to take the lock. *)
CallbackReturns(c) ==
    /\ checks[c].pc = "calling"
    /\ CallbackUntracks => lock = Free
    /\ checks' = [checks EXCEPT ![c].pc = "updating"]
    /\ UNCHANGED <<lock, tracked, callback, waits, chain>>

CheckEnds(c) ==
    /\ checks[c].pc = "updating"
    /\ DOMAIN checks[c].answer = {}
    /\ lock' = Free
    /\ checks' = [checks EXCEPT ![c] = IdleCheck]
    /\ UNCHANGED <<tracked, callback, waits, chain>>

-----------------------------------------------------------------------------
(* The cluster (external): a block that is only processed may be given up, with
   the transactions that failed in it. *)
Progress == [PENDING |-> {"PROCESSED", "FAILED"}, PROCESSED |-> {"CONFIRMED", "PENDING"},
             CONFIRMED |-> {"FINALIZED"}, FINALIZED |-> {}, FAILED |-> {"PENDING"}]

ChainMoves(s) ==
    /\ \E status \in Progress[chain[s]] : chain' = [chain EXCEPT ![s] = status]
    /\ UNCHANGED <<lock, tracked, callback, checks, waits>>

CheckStep(c) ==
    \/ Fetched(c) \/ FetchFails(c) \/ Acquire(c)
    \/ \E s \in DOMAIN checks[c].answer : Update(c, s)
    \/ CallbackReturns(c) \/ CheckEnds(c)

WaitReturns(w) == WaitDropped(w) \/ WaitReached(w) \/ WaitTimesOut(w)

Next ==
    \/ \E s \in Signature :
          \/ \E with_callback \in BOOLEAN : Track(s, with_callback)
          \/ Untrack(s)
          \/ ChainMoves(s)
          \/ \E w \in Wait, target \in Target : BeginWait(w, s, target)
    \/ \E c \in Check : Ask(c) \/ CheckStep(c)
    \/ \E w \in Wait : WaitReturns(w)

Spec == Init /\ [][Next]_vars

(* Requests end, by an answer or by their time limit.  The waits look again
   and again, and asyncio.Lock serves those who wait for it in their order: a
   wait that may return whenever the lock is free gets its turn. *)
FairSpec ==
    /\ Spec
    /\ \A c \in Check : WF_vars(CheckStep(c))
    /\ \A w \in Wait : SF_vars(WaitReturns(w))
    /\ \A c \in Check : SF_vars(Acquire(c))

-----------------------------------------------------------------------------
(* The state is well formed; exactly the check that updates holds the lock, and
   a callback belongs to a tracked signature. *)
TypeOK ==
    /\ tracked \in [Signature -> Status \cup {Untracked}]
    /\ callback \in [Signature -> BOOLEAN]
    /\ chain \in [Signature -> Status]
    /\ \A c \in Check :
          /\ checks[c].pc \in {"idle", "fetching", "answered", "updating", "calling"}
          /\ DOMAIN checks[c].answer \subseteq Signature
          /\ lock = c <=> checks[c].pc \in {"updating", "calling"}
    /\ \A w \in Wait : waits[w].pc \in {"new", "waiting", "returned"}
    /\ \A s \in Signature : callback[s] => s \in Tracked

(* A wait for CONFIRMED or FINALIZED that reports success is right about the
   chain, however late, doubled or reordered the answers were that it rests on
   and whatever forks were given up meanwhile. *)
SuccessIsReal ==
    \A w \in Wait :
        waits[w].result \in Target /\ waits[w].target # "PROCESSED" =>
            /\ chain[waits[w].signature] # "FAILED"
            /\ Level(chain[waits[w].signature]) >= Level(waits[w].target)

(* untrack() is final: an answer that was on its way does not bring the
   signature back, only track() does. *)
LateAnswersForgotten ==
    [][\A s \in Signature :
          tracked[s] = Untracked /\ tracked'[s] # Untracked =>
              tracked'[s] = "PENDING" /\ checks' = checks]_vars

(* "timeout_ms: Optional timeout override" (wait_for_confirmation()): a wait
   returns, at the latest when its time is over. *)
EveryWaitReturns == \A w \in Wait : waits[w].pc = "waiting" ~> waits[w].pc = "returned"
=============================================================================
