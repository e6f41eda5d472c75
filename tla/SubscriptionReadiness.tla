------------------------ MODULE SubscriptionReadiness ------------------------
(***************************************************************************)
(* The continuity gate of src/src/trading/subscription_readiness.py: one    *)
(* SubscriptionReadiness object, the stream supervisor that interrupts and  *)
(* recovers it, the workers that validate accounts, and the threads that    *)
(* take and later use guards.                                               *)
(*                                                                          *)
(* Every method body runs under one RLock and is one action here, except    *)
(* guard(), which reads the generation in one critical section and runs its *)
(* first check in another: GuardCapture and GuardCheck.  `reason` and       *)
(* status() only carry diagnostics and are left out.                        *)
(*                                                                          *)
(* continuity, epoch and evidence are history variables: they record what   *)
(* happened to the stream and on what work a validation rested, and no      *)
(* action reads them.  Operators introduced as a faulty variant are used by *)
(* nothing: each is a mistake that the properties are shown to catch.       *)
(***************************************************************************)
EXTENDS Naturals

CONSTANTS
    Account,          \* account identities
    Fork,             \* fork identities the application can select
    InitialRequired,  \* required_accounts of the constructor
    InitialFork,      \* fork_id of the constructor
    Worker,           \* tasks that validate accounts
    Holder,           \* threads that take a guard
    MaxGeneration     \* bound: generations explored

ASSUME ReadinessConstants ==
    /\ InitialRequired \subseteq Account
    /\ InitialRequired # {}          \* the constructor refuses an empty set
    /\ InitialFork \in Fork          \* ... and an empty fork
    /\ MaxGeneration \in Nat

VARIABLES
    fork, generation, state, required, validated,  \* the object's fields
    work,         \* work[w]: the validation worker w has under way
    guards,       \* guards[h]: the guard thread h took last
    continuity,   \* history: "lost" from an interrupt to the next recovery
    epoch,        \* history: number of interrupts and recoveries so far
    evidence      \* history: the accepted validations

object  == <<fork, generation, state, required, validated>>
history == <<continuity, epoch, evidence>>
vars    == <<object, work, guards, history>>

States == {"initializing", "ready", "recovering", "continuity-broken"}

IdleWork == [pc |-> "idle", generation |-> 0, fork |-> InitialFork, epoch |-> 0]
NoGuard  == [pc |-> "none", generation |-> 0, fork |-> InitialFork,
             required |-> {}]

Init ==
    /\ fork = InitialFork
    /\ generation = 0
    /\ state = "initializing"
    /\ required = InitialRequired
    /\ validated = {}
    /\ work = [w \in Worker |-> IdleWork]
    /\ guards = [h \in Holder |-> NoGuard]
    /\ continuity = "intact"
    /\ epoch = 0
    /\ evidence = {}

-----------------------------------------------------------------------------
(* The supervisor of the stream. *)

Interrupt ==
    /\ generation < MaxGeneration
    /\ generation' = generation + 1
    /\ validated' = {}
    /\ state' = "continuity-broken"
    /\ continuity' = "lost"
    /\ epoch' = epoch + 1
    /\ UNCHANGED <<fork, required, work, guards, evidence>>

BeginRecovery(f) ==
    /\ generation < MaxGeneration
    /\ generation' = generation + 1
    /\ fork' = f
    /\ validated' = {}
    /\ state' = "recovering"
    /\ continuity' = "intact"
    /\ epoch' = epoch + 1
    /\ UNCHANGED <<required, work, guards, evidence>>

StateAfterDiscovery ==
    IF state = "continuity-broken" THEN state ELSE "recovering"

(* Faulty variant: new dependencies without a new generation. *)
RequireAccountsSameGeneration(keys) ==
    /\ ~ (keys \subseteq required)
    /\ validated' = {}
    /\ required' = required \cup keys
    /\ state' = StateAfterDiscovery
    /\ UNCHANGED <<fork, generation, work, guards, history>>

(* A call with nothing new only returns the generation: a stutter. *)
RequireAccounts(keys) ==
    /\ ~ (keys \subseteq required)
    /\ generation < MaxGeneration
    /\ generation' = generation + 1
    /\ validated' = {}
    /\ required' = required \cup keys
    /\ state' = StateAfterDiscovery
    /\ UNCHANGED <<fork, work, guards, history>>

-----------------------------------------------------------------------------
(* A worker takes a generation (from status(), begin_recovery() or          *)
(* require_accounts()), loads accounts of the fork f it believes selected,  *)
(* and reports keys later.  f can be out of date: require_accounts()        *)
(* returns a generation and no fork.                                        *)

BeginValidation(w, f) ==
    /\ work[w].pc = "idle"
    /\ work' = [work EXCEPT ![w] = [pc |-> "validating", generation |-> generation,
                                    fork |-> f, epoch |-> epoch]]
    /\ UNCHANGED <<object, guards, history>>

(* Faulty variant: the token's fork is not compared. *)
AcceptsAnyFork(w) ==
    /\ work[w].generation = generation
    /\ state # "continuity-broken"

Accepts(w) ==
    /\ work[w].generation = generation
    /\ work[w].fork = fork
    /\ state # "continuity-broken"

Accepted(keys) == keys \cap required

MarkValidated(w, keys) ==
    /\ work[w].pc = "validating"
    /\ Accepts(w)
    /\ validated' = validated \cup Accepted(keys)
    /\ state' = IF validated' = required THEN "ready" ELSE state
    /\ evidence' = evidence \cup
           {[key |-> k, fork |-> work[w].fork, epoch |-> work[w].epoch] : k \in keys}
    /\ work' = [work EXCEPT ![w] = IdleWork]
    /\ UNCHANGED <<fork, generation, required, guards, continuity, epoch>>

MarkRejected(w) ==
    /\ work[w].pc = "validating"
    /\ ~ Accepts(w)
    /\ work' = [work EXCEPT ![w] = IdleWork]
    /\ UNCHANGED <<object, guards, history>>

-----------------------------------------------------------------------------
(* guard(): capture the generation, then check once before returning it.    *)

(* Faulty variant: a guard passes whenever the gate is ready. *)
CurrentWhenReady(h) == state = "ready"

Current(h) == state = "ready" /\ generation = guards[h].generation

GuardCapture(h) ==
    /\ guards[h].pc \in {"none", "held"}
    /\ guards' = [guards EXCEPT ![h] = [NoGuard EXCEPT !.pc = "captured",
                                                       !.generation = generation]]
    /\ UNCHANGED <<object, work, history>>

GuardCheck(h) ==
    /\ guards[h].pc = "captured"
    /\ Current(h)
    /\ guards' = [guards EXCEPT ![h].pc = "held", ![h].fork = fork,
                                ![h].required = required]
    /\ UNCHANGED <<object, work, history>>

GuardRefused(h) ==
    /\ guards[h].pc = "captured"
    /\ ~ Current(h)
    /\ guards' = [guards EXCEPT ![h] = NoGuard]
    /\ UNCHANGED <<object, work, history>>

Supervise ==
    \/ Interrupt
    \/ \E f \in Fork : BeginRecovery(f)
    \/ \E keys \in SUBSET Account : RequireAccounts(keys)

Validate(w) ==
    \/ \E f \in Fork : BeginValidation(w, f)
    \/ \E keys \in SUBSET Account : MarkValidated(w, keys)
    \/ MarkRejected(w)

TakeGuard(h) == GuardCapture(h) \/ GuardCheck(h) \/ GuardRefused(h)

Next ==
    \/ Supervise
    \/ \E w \in Worker : Validate(w)
    \/ \E h \in Holder : TakeGuard(h)

Spec == Init /\ [][Next]_vars

-----------------------------------------------------------------------------
Work == [pc : {"idle", "validating"}, generation : Nat, fork : Fork, epoch : Nat]
Guard == [pc : {"none", "captured", "held"}, generation : Nat, fork : Fork,
          required : SUBSET Account]

(* The fields keep their types and nothing is validated that is not
   required: mark_validated() intersects the reported keys with _required. *)
TypeOK ==
    /\ fork \in Fork
    /\ generation \in Nat
    /\ state \in States
    /\ required \in SUBSET Account
    /\ validated \in SUBSET required
    /\ work \in [Worker -> Work]
    /\ guards \in [Holder -> Guard]
    /\ continuity \in {"intact", "lost"}
    /\ epoch \in Nat
    /\ evidence \in SUBSET [key : Account, fork : Fork, epoch : Nat]

Usable(h) == guards[h].pc = "held" /\ Current(h)

(* Ready means every required account was validated by work that began after
   the last interrupt and the last recovery, against the selected fork.  A
   worker that was loading accounts when the stream broke, or loads them from
   a fork given up since, contributes nothing (mark_validated's token check). *)
ReadyOnFreshEvidence ==
    state = "ready" =>
        \A k \in required : [key |-> k, fork |-> fork, epoch |-> epoch] \in evidence

(* Only an explicit recovery ends an interruption: discovering accounts while
   the stream is broken leads nowhere (the comment in require_accounts()). *)
ReadyNeedsContinuity == state = "ready" => continuity = "intact"

(* A guard that still passes sees the fork and the set of dependencies it was
   issued under: whatever changes either invalidates the guards taken before. *)
UsableGuardSeesSameWorld ==
    \A h \in Holder :
        Usable(h) => guards[h].fork = fork /\ guards[h].required = required

(* A guard that was refused once is refused for ever, whatever recovery
   follows: "old guarded snapshots stay invalid" (docs/USAGE.md). *)
OnceRefusedAlwaysRefused ==
    [][\A h \in Holder :
          guards[h].pc = "held" /\ ~ Usable(h) /\ guards'[h] = guards[h]
              => ~ Usable(h)']_vars

-----------------------------------------------------------------------------
(* The inductive strengthening proved in SubscriptionReadiness_proofs. *)

ValidatedHasEvidence ==
    \A k \in validated : [key |-> k, fork |-> fork, epoch |-> epoch] \in evidence

(* A token of the present generation was taken in the present epoch. *)
TokensAreDated ==
    \A w \in Worker :
        work[w].pc = "validating" =>
            /\ work[w].generation <= generation
            /\ work[w].generation = generation => work[w].epoch = epoch

BrokenMeansLost == continuity = "lost" <=> state = "continuity-broken"

ReadyIsComplete == state = "ready" => validated = required

(* A guard of the present generation sees the present fork and dependencies,
   and a guard issued in the present generation finds it still ready. *)
GuardsAreDated ==
    \A h \in Holder :
        /\ guards[h].pc # "none" => guards[h].generation <= generation
        /\ guards[h].pc = "held" /\ guards[h].generation = generation =>
               /\ state = "ready"
               /\ guards[h].fork = fork
               /\ guards[h].required = required

IInv ==
    /\ TypeOK
    /\ ValidatedHasEvidence
    /\ TokensAreDated
    /\ BrokenMeansLost
    /\ ReadyIsComplete
    /\ GuardsAreDated
=============================================================================
