--------------------- MODULE SubscriptionReadiness_proofs ---------------------
(***************************************************************************)
(* Proofs that the continuity gate keeps its promises for every set of      *)
(* accounts, forks, workers and guard holders.                              *)
(*                                                                          *)
(* The stated invariants are not inductive: that a "ready" gate rests on    *)
(* fresh evidence needs tokens to be dated (TokensAreDated), and that a     *)
(* usable guard sees an unchanged world needs guards to be dated            *)
(* (GuardsAreDated).  IInv conjoins them and is shown inductive.            *)
(***************************************************************************)
EXTENDS SubscriptionReadiness, TLAPS

(* The constructor establishes the inductive invariant. *)
LEMMA InitIInv == Init => IInv
<1>1. SUFFICES ASSUME Init PROVE IInv
  OBVIOUS
<1>2. TypeOK
  BY <1>1, ReadinessConstants
  DEF Init, TypeOK, States, Work, Guard, IdleWork, NoGuard
<1>3. ValidatedHasEvidence /\ TokensAreDated /\ BrokenMeansLost /\ ReadyIsComplete
  BY <1>1 DEF Init, ValidatedHasEvidence, TokensAreDated, BrokenMeansLost,
              ReadyIsComplete, IdleWork
<1>4. GuardsAreDated
  BY <1>1 DEF Init, GuardsAreDated, NoGuard
<1>5. QED
  BY <1>2, <1>3, <1>4 DEF IInv

-----------------------------------------------------------------------------
(* interrupt(): a new generation dates every earlier token and guard. *)
LEMMA InterruptKeeps == IInv /\ Interrupt => IInv'
<1>1. SUFFICES ASSUME IInv, Interrupt PROVE IInv'
  OBVIOUS
<1> USE <1>1 DEF IInv, Interrupt
<1>2. TypeOK'
  BY DEF TypeOK, States
<1>3. ValidatedHasEvidence' /\ BrokenMeansLost' /\ ReadyIsComplete'
  BY DEF ValidatedHasEvidence, BrokenMeansLost, ReadyIsComplete
<1>4. TokensAreDated'
  BY DEF TypeOK, TokensAreDated, Work
<1>5. GuardsAreDated'
  BY DEF TypeOK, GuardsAreDated, Guard
<1>6. QED
  BY <1>2, <1>3, <1>4, <1>5

(* begin_recovery(): the same, for the fork selected now. *)
LEMMA BeginRecoveryKeeps ==
  ASSUME NEW f \in Fork, IInv, BeginRecovery(f)
  PROVE  IInv'
<1> USE DEF IInv, BeginRecovery
<1>1. TypeOK'
  BY DEF TypeOK, States
<1>2. ValidatedHasEvidence' /\ BrokenMeansLost' /\ ReadyIsComplete'
  BY DEF ValidatedHasEvidence, BrokenMeansLost, ReadyIsComplete
<1>3. TokensAreDated'
  BY DEF TypeOK, TokensAreDated, Work
<1>4. GuardsAreDated'
  BY DEF TypeOK, GuardsAreDated, Guard
<1>5. QED
  BY <1>1, <1>2, <1>3, <1>4

(* require_accounts() with something new: the generation moves on. *)
LEMMA RequireAccountsKeeps ==
  ASSUME NEW keys \in SUBSET Account, IInv, RequireAccounts(keys)
  PROVE  IInv'
<1> USE DEF IInv, RequireAccounts, StateAfterDiscovery, history
<1>1. TypeOK'
  BY DEF TypeOK, States
<1>2. ValidatedHasEvidence'
  BY DEF ValidatedHasEvidence
<1>3. BrokenMeansLost' /\ ReadyIsComplete'
  BY DEF BrokenMeansLost, ReadyIsComplete
<1>4. TokensAreDated'
  BY DEF TypeOK, TokensAreDated, Work
<1>5. GuardsAreDated'
  BY DEF TypeOK, GuardsAreDated, Guard
<1>6. QED
  BY <1>1, <1>2, <1>3, <1>4, <1>5

(* A worker takes a token: it is dated by construction. *)
LEMMA BeginValidationKeeps ==
  ASSUME NEW w \in Worker, NEW f \in Fork, IInv, BeginValidation(w, f)
  PROVE  IInv'
<1> USE DEF IInv, BeginValidation, object, history
<1>1. TypeOK'
  BY DEF TypeOK, Work
<1>2. TokensAreDated'
  BY DEF TypeOK, TokensAreDated, Work
<1>3. ValidatedHasEvidence' /\ BrokenMeansLost' /\ ReadyIsComplete' /\ GuardsAreDated'
  BY DEF ValidatedHasEvidence, BrokenMeansLost, ReadyIsComplete, GuardsAreDated
<1>4. QED
  BY <1>1, <1>2, <1>3

(* mark_validated() accepts: the token is of this generation and fork, so the
   work behind it is of this epoch. *)
LEMMA MarkValidatedKeeps ==
  ASSUME NEW w \in Worker, NEW keys \in SUBSET Account, IInv, MarkValidated(w, keys)
  PROVE  IInv'
<1> USE DEF IInv, MarkValidated
<1>1. work[w].epoch = epoch /\ work[w].fork = fork
  BY DEF TokensAreDated, Accepts
<1>2. TypeOK'
  <2>1. validated' \in SUBSET required'
    BY DEF TypeOK, Accepted
  <2>2. evidence' \in SUBSET [key : Account, fork : Fork, epoch : Nat]
    BY <1>1 DEF TypeOK
  <2>3. work' \in [Worker -> Work]
    BY ReadinessConstants DEF TypeOK, Work, IdleWork
  <2>4. QED
    BY <2>1, <2>2, <2>3 DEF TypeOK, States
<1>3. ValidatedHasEvidence'
  BY <1>1 DEF ValidatedHasEvidence, Accepted
<1>4. TokensAreDated'
  BY DEF TypeOK, TokensAreDated, IdleWork
<1>5. BrokenMeansLost'
  BY DEF BrokenMeansLost, Accepts
<1>6. ReadyIsComplete'
  BY DEF ReadyIsComplete, Accepted, TypeOK
<1>7. GuardsAreDated'
  BY DEF GuardsAreDated, ReadyIsComplete, Accepted, TypeOK
<1>8. QED
  BY <1>2, <1>3, <1>4, <1>5, <1>6, <1>7

(* mark_validated() refuses: only the worker's token goes. *)
LEMMA MarkRejectedKeeps ==
  ASSUME NEW w \in Worker, IInv, MarkRejected(w)
  PROVE  IInv'
<1> USE DEF IInv, MarkRejected, object, history
<1>1. TypeOK'
  BY ReadinessConstants DEF TypeOK, Work, IdleWork
<1>2. TokensAreDated'
  BY DEF TypeOK, TokensAreDated, IdleWork
<1>3. ValidatedHasEvidence' /\ BrokenMeansLost' /\ ReadyIsComplete' /\ GuardsAreDated'
  BY DEF ValidatedHasEvidence, BrokenMeansLost, ReadyIsComplete, GuardsAreDated
<1>4. QED
  BY <1>1, <1>2, <1>3

(* The two critical sections of guard(), and its refusal. *)
LEMMA TakeGuardKeeps ==
  ASSUME NEW h \in Holder, IInv, TakeGuard(h)
  PROVE  IInv'
<1> USE DEF IInv
<1>1. CASE GuardCapture(h)
  <2> USE <1>1 DEF GuardCapture, object, history
  <2>1. TypeOK'
    BY ReadinessConstants DEF TypeOK, Guard, NoGuard
  <2>2. GuardsAreDated'
    BY DEF TypeOK, GuardsAreDated, Guard, NoGuard
  <2>3. QED
    BY <2>1, <2>2 DEF ValidatedHasEvidence, TokensAreDated, BrokenMeansLost, ReadyIsComplete
<1>2. CASE GuardCheck(h)
  <2> USE <1>2 DEF GuardCheck, Current, object, history
  <2>1. TypeOK'
    BY DEF TypeOK, Guard
  <2>2. GuardsAreDated'
    BY DEF TypeOK, GuardsAreDated, Guard
  <2>3. QED
    BY <2>1, <2>2 DEF ValidatedHasEvidence, TokensAreDated, BrokenMeansLost, ReadyIsComplete
<1>3. CASE GuardRefused(h)
  <2> USE <1>3 DEF GuardRefused, object, history
  <2>1. TypeOK'
    BY ReadinessConstants DEF TypeOK, Guard, NoGuard
  <2>2. GuardsAreDated'
    BY DEF TypeOK, GuardsAreDated, NoGuard
  <2>3. QED
    BY <2>1, <2>2 DEF ValidatedHasEvidence, TokensAreDated, BrokenMeansLost, ReadyIsComplete
<1>4. QED
  BY <1>1, <1>2, <1>3 DEF TakeGuard

(* A step that changes nothing. *)
LEMMA StutterKeeps == IInv /\ UNCHANGED vars => IInv'
BY DEF IInv, vars, object, history, TypeOK, ValidatedHasEvidence, TokensAreDated,
       BrokenMeansLost, ReadyIsComplete, GuardsAreDated

LEMMA NextKeeps == IInv /\ [Next]_vars => IInv'
<1>1. SUFFICES ASSUME IInv, [Next]_vars PROVE IInv'
  OBVIOUS
<1>2. CASE Supervise
  BY <1>1, <1>2, InterruptKeeps, BeginRecoveryKeeps, RequireAccountsKeeps DEF Supervise
<1>3. ASSUME NEW w \in Worker, Validate(w) PROVE IInv'
  BY <1>1, <1>3, BeginValidationKeeps, MarkValidatedKeeps, MarkRejectedKeeps DEF Validate
<1>4. ASSUME NEW h \in Holder, TakeGuard(h) PROVE IInv'
  BY <1>1, <1>4, TakeGuardKeeps
<1>5. CASE UNCHANGED vars
  BY <1>1, <1>5, StutterKeeps
<1>6. QED
  BY <1>1, <1>2, <1>3, <1>4, <1>5 DEF Next

-----------------------------------------------------------------------------
(* The inductive invariant holds in every reachable state. *)
THEOREM Inductive == Spec => []IInv
BY InitIInv, NextKeeps, PTL DEF Spec

(* The fields of the gate keep their types, and nothing is validated that is
   not required. *)
THEOREM TypeCorrect == Spec => []TypeOK
<1>1. IInv => TypeOK
  BY DEF IInv
<1>2. QED
  BY <1>1, Inductive, PTL

(* A ready gate rests on validations begun after the last interrupt and the
   last recovery, against the selected fork. *)
THEOREM FreshEvidence == Spec => []ReadyOnFreshEvidence
<1>1. IInv => ReadyOnFreshEvidence
  BY DEF IInv, ReadyOnFreshEvidence, ReadyIsComplete, ValidatedHasEvidence
<1>2. QED
  BY <1>1, Inductive, PTL

(* Nothing but begin_recovery() ends an interruption. *)
THEOREM ExplicitRecovery == Spec => []ReadyNeedsContinuity
<1>1. IInv => ReadyNeedsContinuity
  BY DEF IInv, TypeOK, BrokenMeansLost, ReadyNeedsContinuity
<1>2. QED
  BY <1>1, Inductive, PTL

(* A guard that passes sees the fork and dependencies it was issued under. *)
THEOREM SameWorld == Spec => []UsableGuardSeesSameWorld
<1>1. IInv => UsableGuardSeesSameWorld
  BY DEF IInv, UsableGuardSeesSameWorld, Usable, Current, GuardsAreDated
<1>2. QED
  BY <1>1, Inductive, PTL

(* The generation never goes back. *)
LEMMA GenerationGrows ==
  ASSUME IInv, [Next]_vars
  PROVE  generation' >= generation
<1>1. generation \in Nat
  BY DEF IInv, TypeOK
<1>2. CASE Supervise
  BY <1>1, <1>2 DEF Supervise, Interrupt, BeginRecovery, RequireAccounts
<1>3. ASSUME NEW w \in Worker, Validate(w) PROVE generation' = generation
  BY <1>3 DEF Validate, BeginValidation, MarkValidated, MarkRejected, object
<1>4. ASSUME NEW h \in Holder, TakeGuard(h) PROVE generation' = generation
  BY <1>4 DEF TakeGuard, GuardCapture, GuardCheck, GuardRefused, object
<1>5. CASE UNCHANGED vars
  BY <1>1, <1>5 DEF vars, object
<1>6. QED
  BY <1>1, <1>2, <1>3, <1>4, <1>5 DEF Next

(* Refusal is final: a held guard that does not pass is of an older generation,
   and generations never come back. *)
THEOREM RefusalIsFinal == Spec => OnceRefusedAlwaysRefused
<1>1. ASSUME IInv, [Next]_vars, NEW h \in Holder,
             guards[h].pc = "held", ~ Usable(h), guards'[h] = guards[h]
      PROVE  ~ Usable(h)'
  <2>1. guards[h].generation < generation
    BY <1>1 DEF IInv, TypeOK, Guard, GuardsAreDated, Usable, Current
  <2>2. generation' >= generation
    BY <1>1, GenerationGrows
  <2>3. guards[h].generation \in Nat /\ generation \in Nat /\ generation' \in Nat
    BY <1>1, NextKeeps DEF IInv, TypeOK, Guard
  <2>4. QED
    BY <1>1, <2>1, <2>2, <2>3 DEF Usable, Current
<1>2. IInv /\ [Next]_vars =>
        [\A h \in Holder :
           guards[h].pc = "held" /\ ~ Usable(h) /\ guards'[h] = guards[h]
             => ~ Usable(h)']_vars
  BY <1>1
<1>3. QED
  BY <1>2, Inductive, PTL DEF Spec, OnceRefusedAlwaysRefused
=============================================================================
