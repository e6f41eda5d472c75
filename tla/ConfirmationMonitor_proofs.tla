---------------------- MODULE ConfirmationMonitor_proofs ----------------------
(***************************************************************************)
(* Proofs that a reported confirmation is real and that a signature which   *)
(* is no longer tracked stays forgotten, for any signatures, checks and     *)
(* waits.                                                                   *)
(*                                                                          *)
(* That a successful wait is right about the chain rests on every status    *)
(* on its way to the wait: the answers of the checks and what is tracked.   *)
(* The chain may give up what is only processed, so an old answer need not  *)
(* be true any more; of CONFIRMED and FINALIZED it stays true (Backs).      *)
(***************************************************************************)
EXTENDS ConfirmationMonitor, TLAPS

(* What the chain says of s is at least what a confirmed `status` claims. *)
Backs(s, status) ==
    /\ status = "CONFIRMED" => chain[s] \in {"CONFIRMED", "FINALIZED"}
    /\ status = "FINALIZED" => chain[s] = "FINALIZED"

Answers == UNION {[S -> Status] : S \in SUBSET Signature}
Checking == [pc : {"idle", "fetching", "answered", "updating", "calling"}, answer : Answers]
Waiting == [pc : {"new", "waiting", "returned"}, signature : Signature \cup {Untracked},
            target : Target, result : Status \cup {"none", "TIMEOUT", "DROPPED"}]

(* What TypeOK leaves open of checks and waits. *)
Typed ==
    /\ TypeOK
    /\ lock \in Check \cup {Free}
    /\ checks \in [Check -> Checking]
    /\ waits \in [Wait -> Waiting]
    /\ \A w \in Wait : waits[w].pc # "new" => waits[w].signature \in Signature

TrackedIsBacked == \A s \in Signature : Backs(s, tracked[s])
AnswersAreBacked == \A c \in Check : \A s \in DOMAIN checks[c].answer : Backs(s, checks[c].answer[s])
ResultsAreBacked ==
    \A w \in Wait : waits[w].result \in Target =>
        /\ waits[w].pc = "returned"
        /\ Backs(waits[w].signature, waits[w].result)
        /\ Level(waits[w].result) >= Level(waits[w].target)

IInv == Typed /\ TrackedIsBacked /\ AnswersAreBacked /\ ResultsAreBacked

(* An answer is a function on some signatures. *)
LEMMA AnswerIs ==
  /\ \A answer \in Answers : DOMAIN answer \subseteq Signature
                             /\ \A s \in DOMAIN answer : answer[s] \in Status
  /\ \A S \in SUBSET Signature : [S -> Status] \subseteq Answers
  BY DEF Answers

LEMMA WithoutIs ==
  ASSUME NEW answer \in Answers, NEW s
  PROVE  /\ Without(answer, s) \in Answers
         /\ DOMAIN Without(answer, s) = DOMAIN answer \ {s}
         /\ \A t \in DOMAIN answer \ {s} : Without(answer, s)[t] = answer[t]
<1>1. DOMAIN answer \ {s} \in SUBSET Signature
  BY AnswerIs
<1>2. Without(answer, s) \in [DOMAIN answer \ {s} -> Status]
  BY AnswerIs DEF Without
<1>3. QED
  BY <1>1, <1>2, AnswerIs DEF Without

(* _tracked is empty, nobody asks and nobody waits. *)
LEMMA InitIInv == Init => IInv
<1>1. SUFFICES ASSUME Init PROVE IInv
  OBVIOUS
<1> USE <1>1, MonitorConstants DEF Init
<1>2. IdleCheck \in Checking /\ DOMAIN IdleCheck.answer = {} /\ IdleCheck.pc = "idle"
  <2>1. [s \in {} |-> "PENDING"] \in [{} -> Status]
    BY DEF Status
  <2>2. QED
    BY <2>1, AnswerIs DEF IdleCheck, Checking
<1>3. NewWait \in Waiting
  BY DEF NewWait, Waiting, Target, Status
<1>4. TypeOK
  BY <1>2 DEF TypeOK, Status, NewWait
<1>5. Typed
  BY <1>2, <1>3, <1>4 DEF Typed, NewWait
<1>6. TrackedIsBacked
  BY DEF TrackedIsBacked, Backs
<1>7. AnswersAreBacked
  BY <1>2 DEF AnswersAreBacked
<1>8. ResultsAreBacked
  BY DEF ResultsAreBacked, NewWait, Target
<1>9. QED
  BY <1>5, <1>6, <1>7, <1>8 DEF IInv

-----------------------------------------------------------------------------
(* track() starts from PENDING, which claims nothing. *)
LEMMA TrackKeeps ==
  ASSUME NEW s \in Signature, NEW with_callback \in BOOLEAN, IInv, Track(s, with_callback)
  PROVE  IInv'
<1> USE MonitorConstants DEF IInv, Track, Restarted
<1>1. TypeOK'
  BY DEF Typed, TypeOK, Tracked, Status
<1>2. Typed'
  BY <1>1 DEF Typed
<1>3. TrackedIsBacked'
  BY DEF Typed, TypeOK, TrackedIsBacked, Backs
<1>4. AnswersAreBacked' /\ ResultsAreBacked'
  BY DEF AnswersAreBacked, ResultsAreBacked, Backs
<1>5. QED
  BY <1>2, <1>3, <1>4

(* untrack() *)
LEMMA UntrackKeeps ==
  ASSUME NEW s \in Signature, IInv, Untrack(s)
  PROVE  IInv'
<1> USE MonitorConstants DEF IInv, Untrack
<1>1. TypeOK'
  BY DEF Typed, TypeOK, Tracked, Status
<1>2. Typed'
  BY <1>1 DEF Typed
<1>3. TrackedIsBacked'
  BY DEF Typed, TypeOK, TrackedIsBacked, Backs
<1>4. AnswersAreBacked' /\ ResultsAreBacked'
  BY DEF AnswersAreBacked, ResultsAreBacked, Backs
<1>5. QED
  BY <1>2, <1>3, <1>4

(* wait_for_confirmation() tracks from PENDING, too. *)
LEMMA BeginWaitKeeps ==
  ASSUME NEW w \in Wait, NEW s \in Signature, NEW target \in Target, IInv,
         BeginWait(w, s, target)
  PROVE  IInv'
<1> USE MonitorConstants DEF IInv, BeginWait, Restarted
<1>1. waits' \in [Wait -> Waiting]
  BY DEF Typed, Waiting
<1>2. TypeOK'
  BY DEF Typed, TypeOK, Tracked, Status, Waiting
<1>3. Typed'
  BY <1>1, <1>2 DEF Typed
<1>4. TrackedIsBacked'
  BY DEF Typed, TypeOK, TrackedIsBacked, Backs
<1>5. AnswersAreBacked'
  BY DEF AnswersAreBacked, Backs
<1>6. ResultsAreBacked'
  BY DEF Typed, ResultsAreBacked, Backs, Target
<1>7. QED
  BY <1>3, <1>4, <1>5, <1>6

(* A wait returns with what its look found. *)
LEMMA LookKeeps ==
  ASSUME NEW w \in Wait, NEW condition, NEW result \in Status \cup {"TIMEOUT", "DROPPED"},
         IInv, Look(w, condition, result),
         result \in Target => /\ Backs(waits[w].signature, result)
                              /\ Level(result) >= Level(waits[w].target)
  PROVE  IInv'
<1> USE DEF IInv, Look
<1>1. waits' \in [Wait -> Waiting]
  BY DEF Typed, Waiting
<1>2. /\ waits'[w].pc = "returned" /\ waits'[w].result = result
      /\ waits'[w].signature = waits[w].signature /\ waits'[w].target = waits[w].target
      /\ \A v \in Wait \ {w} : waits'[v] = waits[v]
  BY DEF Typed, Waiting
<1>3. Typed'
  BY <1>1, <1>2 DEF Typed, TypeOK, Tracked, Waiting
<1>4. TrackedIsBacked' /\ AnswersAreBacked'
  BY DEF TrackedIsBacked, AnswersAreBacked, Backs
<1>5. ResultsAreBacked'
  <2>1. ASSUME NEW v \in Wait, waits'[v].result \in Target
        PROVE  /\ waits'[v].pc = "returned"
               /\ Backs(waits'[v].signature, waits'[v].result)
               /\ Level(waits'[v].result) >= Level(waits'[v].target)
    <3>1. CASE v = w
      BY <1>2, <2>1, <3>1
    <3>2. CASE v # w
      BY <1>2, <2>1, <3>2 DEF ResultsAreBacked
    <3>3. QED
      BY <3>1, <3>2
  <2>2. \A s, status : Backs(s, status)' <=> Backs(s, status)
    BY DEF Backs
  <2>3. QED
    BY <2>1, <2>2 DEF ResultsAreBacked
<1>6. QED
  BY <1>3, <1>4, <1>5

LEMMA WaitReturnsKeeps ==
  ASSUME NEW w \in Wait, IInv, WaitReturns(w)
  PROVE  IInv'
<1>1. waits[w].pc = "waiting" => waits[w].signature \in Signature
  BY DEF IInv, Typed
<1>2. CASE WaitDropped(w)
  BY <1>2, LookKeeps DEF WaitDropped, Target
<1>3. CASE WaitReached(w)
  <2> DEFINE status == tracked[waits[w].signature]
  <2>1. /\ waits[w].pc = "waiting" /\ status \in Status
        /\ Look(w, Reached(status, waits[w].target), status)
    BY <1>3 DEF WaitReached
  <2>2. Backs(waits[w].signature, status)
    BY <1>1, <2>1 DEF IInv, TrackedIsBacked
  <2>3. Level(status) >= Level(waits[w].target)
    BY <2>1 DEF Look, Reached
  <2>4. QED
    BY <2>1, <2>2, <2>3, LookKeeps
<1>4. CASE WaitTimesOut(w)
  BY <1>4, LookKeeps DEF WaitTimesOut, Target
<1>5. QED
  BY <1>2, <1>3, <1>4 DEF WaitReturns

-----------------------------------------------------------------------------
(* A check moves on: what it holds is still backed, and the lock is its own
   exactly while it updates. *)
LEMMA CheckMoves ==
  ASSUME NEW c \in Check, IInv, NEW run \in Checking,
         checks' = [checks EXCEPT ![c] = run],
         \A s \in DOMAIN run.answer : Backs(s, run.answer[s]),
         lock' \in Check \cup {Free},
         \A d \in Check \ {c} : lock' = d <=> lock = d,
         lock' = c <=> run.pc \in {"updating", "calling"},
         UNCHANGED <<tracked, callback, waits, chain>>
  PROVE  IInv'
<1> USE DEF IInv
<1>1. checks' \in [Check -> Checking] /\ checks'[c] = run
      /\ \A d \in Check \ {c} : checks'[d] = checks[d]
  BY DEF Typed
<1>2. TypeOK'
  <2>1. ASSUME NEW d \in Check
        PROVE  /\ checks'[d].pc \in {"idle", "fetching", "answered", "updating", "calling"}
               /\ DOMAIN checks'[d].answer \subseteq Signature
               /\ lock' = d <=> checks'[d].pc \in {"updating", "calling"}
    <3>1. checks'[d] \in Checking
      BY <1>1
    <3>2. lock' = d <=> checks'[d].pc \in {"updating", "calling"}
      BY <1>1 DEF Typed, TypeOK
    <3>3. QED
      BY <3>1, <3>2, AnswerIs DEF Checking
  <2>2. QED
    BY <2>1 DEF Typed, TypeOK, Tracked
<1>3. Typed'
  BY <1>1, <1>2 DEF Typed
<1>4. AnswersAreBacked'
  BY <1>1 DEF AnswersAreBacked, Backs
<1>5. TrackedIsBacked' /\ ResultsAreBacked'
  BY DEF TrackedIsBacked, ResultsAreBacked, Backs
<1>6. QED
  BY <1>3, <1>4, <1>5

LEMMA IdleCheckIs ==
  IdleCheck \in Checking /\ DOMAIN IdleCheck.answer = {} /\ IdleCheck.pc = "idle"
<1>1. [s \in {} |-> "PENDING"] \in [{} -> Status]
  BY DEF Status
<1>2. QED
  BY <1>1, AnswerIs DEF IdleCheck, Checking

(* The lock is nobody's when it is free, and one's when it is his. *)
LEMMA LockIs ==
  ASSUME IInv, NEW c \in Check
  PROVE  /\ checks[c] \in Checking
         /\ lock = c <=> checks[c].pc \in {"updating", "calling"}
         /\ lock \in Check \cup {Free} /\ Free \notin Check
  BY MonitorConstants DEF IInv, Typed, TypeOK

LEMMA AskKeeps ==
  ASSUME NEW c \in Check, IInv, Ask(c)
  PROVE  IInv'
<1> DEFINE run == [pc |-> "fetching", answer |-> [s \in Tracked |-> "PENDING"]]
<1>1. run.answer \in [Tracked -> Status] /\ Tracked \in SUBSET Signature
  BY DEF Status, Tracked
<1>2. run \in Checking
  BY <1>1, AnswerIs DEF Checking
<1>3. \A s \in DOMAIN run.answer : Backs(s, run.answer[s])
  BY DEF Backs
<1>4. QED
  BY <1>2, <1>3, CheckMoves, LockIs DEF Ask

(* The server answers with what the chain says now. *)
LEMMA FetchedKeeps ==
  ASSUME NEW c \in Check, IInv, Fetched(c)
  PROVE  IInv'
<1> DEFINE answer == [s \in DOMAIN checks[c].answer |-> chain[s]]
           run == [checks[c] EXCEPT !.pc = "answered", !.answer = answer]
<1>1. checks[c] \in Checking
  BY LockIs
<1>2. DOMAIN checks[c].answer \in SUBSET Signature
  BY <1>1, AnswerIs DEF Checking
<1>3. answer \in [DOMAIN checks[c].answer -> Status]
  BY <1>2 DEF IInv, Typed, TypeOK
<1>4. run \in Checking /\ run.pc = "answered" /\ run.answer = answer
  <2>1. answer \in Answers
    BY <1>2, <1>3, AnswerIs
  <2> HIDE DEF answer
  <2>2. QED
    BY <1>1, <2>1 DEF Checking
<1>5. checks' = [checks EXCEPT ![c] = run]
  BY DEF Fetched
<1>6. \A s \in DOMAIN answer : Backs(s, answer[s])
  BY DEF Backs
<1>7. checks[c].pc = "fetching" /\ UNCHANGED <<lock, tracked, callback, waits, chain>>
  BY DEF Fetched
<1>8. QED
  BY <1>4, <1>5, <1>6, <1>7, CheckMoves, LockIs

LEMMA FetchFailsKeeps ==
  ASSUME NEW c \in Check, IInv, FetchFails(c)
  PROVE  IInv'
  BY CheckMoves, IdleCheckIs, LockIs DEF FetchFails

(* The same answer at another place in check_now(). *)
LEMMA StepKeeps ==
  ASSUME NEW c \in Check, IInv, NEW pc \in {"answered", "updating", "calling"},
         checks' = [checks EXCEPT ![c].pc = pc],
         lock' \in Check \cup {Free},
         \A d \in Check \ {c} : lock' = d <=> lock = d,
         lock' = c <=> pc \in {"updating", "calling"},
         UNCHANGED <<tracked, callback, waits, chain>>
  PROVE  IInv'
<1> DEFINE run == [checks[c] EXCEPT !.pc = pc]
<1>1. run \in Checking /\ run.pc = pc /\ run.answer = checks[c].answer
  BY LockIs DEF Checking
<1>2. checks' = [checks EXCEPT ![c] = run]
  BY DEF IInv, Typed
<1>3. \A s \in DOMAIN run.answer : Backs(s, run.answer[s])
  BY <1>1 DEF IInv, AnswersAreBacked
<1>4. QED
  BY <1>1, <1>2, <1>3, CheckMoves

LEMMA AcquireKeeps ==
  ASSUME NEW c \in Check, IInv, Acquire(c)
  PROVE  IInv'
  BY StepKeeps, LockIs DEF Acquire

LEMMA CallbackReturnsKeeps ==
  ASSUME NEW c \in Check, IInv, CallbackReturns(c)
  PROVE  IInv'
  BY StepKeeps, LockIs DEF CallbackReturns

LEMMA CheckEndsKeeps ==
  ASSUME NEW c \in Check, IInv, CheckEnds(c)
  PROVE  IInv'
  BY CheckMoves, IdleCheckIs, LockIs DEF CheckEnds

(* One signature of the answer: it was backed when it came and still is. *)
LEMMA UpdateKeeps ==
  ASSUME NEW c \in Check, NEW s \in DOMAIN checks[c].answer, IInv, Update(c, s)
  PROVE  IInv'
<1> DEFINE rest == Without(checks[c].answer, s)
           pc == IF callback[s] /\ tracked'[s] # tracked[s] THEN "calling" ELSE checks[c].pc
           run == [checks[c] EXCEPT !.answer = rest, !.pc = pc]
<1>1. checks[c] \in Checking /\ checks[c].pc = "updating" /\ s \in Signature
      /\ checks[c].answer[s] \in Status
  BY LockIs, AnswerIs DEF Update, Checking
<1>2. rest \in Answers /\ DOMAIN rest = DOMAIN checks[c].answer \ {s}
      /\ \A t \in DOMAIN checks[c].answer \ {s} : rest[t] = checks[c].answer[t]
  BY <1>1, WithoutIs DEF Checking
<1>3. pc \in {"updating", "calling"} /\ checks' = [checks EXCEPT ![c] = run]
  BY <1>1 DEF Update
<1>4. run \in Checking /\ run.pc = pc /\ run.answer = rest
  BY <1>1, <1>2, <1>3 DEF Checking
<1>5. checks' \in [Check -> Checking] /\ checks'[c] = run
      /\ \A d \in Check \ {c} : checks'[d] = checks[d]
  BY <1>3, <1>4 DEF IInv, Typed
<1>6. /\ tracked' = [tracked EXCEPT ![s] = IF @ = Untracked THEN @ ELSE checks[c].answer[s]]
      /\ UNCHANGED <<lock, callback, waits, chain>>
  BY DEF Update
<1>7. tracked' \in [Signature -> Status \cup {Untracked}]
      /\ \A t \in Signature : tracked'[t] = Untracked <=> tracked[t] = Untracked
  BY <1>1, <1>6, MonitorConstants DEF IInv, Typed, TypeOK, Status
<1>8. TypeOK'
  <2>1. ASSUME NEW d \in Check
        PROVE  /\ checks'[d].pc \in {"idle", "fetching", "answered", "updating", "calling"}
               /\ DOMAIN checks'[d].answer \subseteq Signature
               /\ lock' = d <=> checks'[d].pc \in {"updating", "calling"}
    <3>1. checks'[d] \in Checking
      BY <1>5
    <3>2. lock' = d <=> checks'[d].pc \in {"updating", "calling"}
      BY <1>1, <1>3, <1>5, <1>6 DEF IInv, Typed, TypeOK
    <3>3. QED
      BY <3>1, <3>2, AnswerIs DEF Checking
  <2>2. QED
    BY <1>6, <1>7, <2>1 DEF IInv, Typed, TypeOK, Tracked
<1>9. Typed'
  BY <1>5, <1>6, <1>8 DEF IInv, Typed
<1>10. \A t, status : Backs(t, status)' <=> Backs(t, status)
  BY <1>6 DEF Backs
<1>11. TrackedIsBacked'
  <2>1. Backs(s, checks[c].answer[s])
    BY DEF IInv, AnswersAreBacked
  <2>2. \A t \in Signature : tracked'[t] = tracked[t] \/ (t = s /\ tracked'[t] = checks[c].answer[s])
    BY <1>1, <1>6 DEF IInv, Typed, TypeOK
  <2>3. QED
    BY <1>10, <2>1, <2>2 DEF IInv, TrackedIsBacked
<1>12. AnswersAreBacked'
  <2>1. SUFFICES ASSUME NEW d \in Check, NEW t \in DOMAIN checks'[d].answer
                 PROVE  Backs(t, checks'[d].answer[t])
    BY <1>10 DEF AnswersAreBacked
  <2>2. CASE d = c
    <3>1. checks'[d].answer = rest
      BY <1>4, <1>5, <2>2
    <3>2. t \in DOMAIN checks[c].answer /\ checks'[d].answer[t] = checks[c].answer[t]
      BY <1>2, <2>1, <3>1
    <3>3. QED
      BY <3>2 DEF IInv, AnswersAreBacked
  <2>3. CASE d # c
    BY <1>5, <2>1, <2>3 DEF IInv, AnswersAreBacked
  <2>4. QED
    BY <2>2, <2>3
<1>13. ResultsAreBacked'
  BY <1>6, <1>10 DEF IInv, ResultsAreBacked
<1>14. QED
  BY <1>9, <1>11, <1>12, <1>13 DEF IInv

-----------------------------------------------------------------------------
(* The cluster: only what is no more than processed is given up. *)
LEMMA ChainMovesKeeps ==
  ASSUME NEW s \in Signature, IInv, ChainMoves(s)
  PROVE  IInv'
<1>1. PICK status \in Progress[chain[s]] : chain' = [chain EXCEPT ![s] = status]
  BY DEF ChainMoves
<1>2. UNCHANGED <<lock, tracked, callback, checks, waits>>
  BY DEF ChainMoves
<1>3. chain[s] \in Status
  BY DEF IInv, Typed, TypeOK
<1>4. status \in Status /\ chain[s] # "FINALIZED" /\ (chain[s] = "CONFIRMED" => status = "FINALIZED")
  BY <1>1, <1>3 DEF Progress, Status
<1>5. Typed'
  BY <1>1, <1>2, <1>4 DEF IInv, Typed, TypeOK, Tracked
<1>6. \A t \in Signature : \A claim : Backs(t, claim) => Backs(t, claim)'
  BY <1>1, <1>4 DEF IInv, Typed, TypeOK, Backs
<1>7. TrackedIsBacked'
  BY <1>2, <1>6 DEF IInv, TrackedIsBacked
<1>8. AnswersAreBacked'
  <2>1. \A c \in Check : DOMAIN checks[c].answer \subseteq Signature
    BY DEF IInv, Typed, TypeOK
  <2>2. QED
    BY <1>2, <1>6, <2>1 DEF IInv, AnswersAreBacked
<1>9. ResultsAreBacked'
  <2>1. \A w \in Wait : waits[w].result \in Target => waits[w].signature \in Signature
    BY DEF IInv, Typed, ResultsAreBacked
  <2>2. QED
    BY <1>2, <1>6, <2>1 DEF IInv, ResultsAreBacked
<1>10. QED
  BY <1>5, <1>7, <1>8, <1>9 DEF IInv

LEMMA StutterKeeps == IInv /\ UNCHANGED vars => IInv'
  BY DEF IInv, vars, Typed, TypeOK, Tracked, TrackedIsBacked, AnswersAreBacked, ResultsAreBacked,
         Backs

LEMMA NextKeeps == IInv /\ [Next]_vars => IInv'
<1>1. SUFFICES ASSUME IInv, [Next]_vars PROVE IInv'
  OBVIOUS
<1>2. ASSUME NEW s \in Signature,
             \/ \E with_callback \in BOOLEAN : Track(s, with_callback)
             \/ Untrack(s)
             \/ ChainMoves(s)
             \/ \E w \in Wait, target \in Target : BeginWait(w, s, target)
      PROVE  IInv'
  BY <1>1, <1>2, TrackKeeps, UntrackKeeps, ChainMovesKeeps, BeginWaitKeeps
<1>3. ASSUME NEW c \in Check, Ask(c) \/ CheckStep(c) PROVE IInv'
  BY <1>1, <1>3, AskKeeps, FetchedKeeps, FetchFailsKeeps, AcquireKeeps, UpdateKeeps,
     CallbackReturnsKeeps, CheckEndsKeeps
  DEF CheckStep
<1>4. ASSUME NEW w \in Wait, WaitReturns(w) PROVE IInv'
  BY <1>1, <1>4, WaitReturnsKeeps
<1>5. QED
  BY <1>1, <1>2, <1>3, <1>4, StutterKeeps DEF Next

(* What is tracked, answered and returned is backed by the chain in every
   reachable state. *)
THEOREM Inductive == Spec => []IInv
  BY InitIInv, NextKeeps, PTL DEF Spec

(* _lock, _tracked and the callbacks are well formed, and exactly the check
   that updates holds the lock. *)
THEOREM TypeCorrect == Spec => []TypeOK
<1>1. IInv => TypeOK
  BY DEF IInv, Typed
<1>2. QED
  BY <1>1, Inductive, PTL

(* wait_for_confirmation() for CONFIRMED or FINALIZED that reports success is
   right about the chain, whatever answers were late, doubled or reordered. *)
THEOREM ConfirmationIsReal == Spec => []SuccessIsReal
<1>1. IInv => SuccessIsReal
  <2>1. SUFFICES ASSUME IInv, NEW w \in Wait,
                        waits[w].result \in Target, waits[w].target # "PROCESSED"
                 PROVE  /\ chain[waits[w].signature] # "FAILED"
                        /\ Level(chain[waits[w].signature]) >= Level(waits[w].target)
    BY DEF SuccessIsReal
  <2>2. waits[w].target \in {"CONFIRMED", "FINALIZED"}
    BY <2>1 DEF IInv, Typed, Waiting, Target
  <2>3. /\ Backs(waits[w].signature, waits[w].result)
        /\ Level(waits[w].result) >= Level(waits[w].target)
    BY <2>1 DEF IInv, ResultsAreBacked
  <2>4. QED
    BY <2>1, <2>2, <2>3 DEF Backs, Level, Target
<1>2. QED
  BY <1>1, Inductive, PTL

(* untrack() is final: only track() and wait_for_confirmation() bring a
   signature back, from PENDING and while no check moves. *)
THEOREM ForgottenStaysForgotten == Spec => LateAnswersForgotten
<1>1. ASSUME IInv, [Next]_vars
      PROVE  [\A s \in Signature :
                 tracked[s] = Untracked /\ tracked'[s] # Untracked =>
                     tracked'[s] = "PENDING" /\ checks' = checks]_vars
  <2>1. SUFFICES ASSUME NEW s \in Signature, tracked[s] = Untracked, tracked'[s] # Untracked
                 PROVE  tracked'[s] = "PENDING" /\ checks' = checks
    OBVIOUS
  <2>2. tracked \in [Signature -> Status \cup {Untracked}]
    BY <1>1 DEF IInv, Typed, TypeOK
  <2>3. ASSUME NEW t \in Signature, tracked' = Restarted(t), checks' = checks
        PROVE  tracked'[s] = "PENDING" /\ checks' = checks
    BY <2>1, <2>2, <2>3 DEF Restarted
  <2>4. ASSUME NEW t \in Signature, Untrack(t) PROVE FALSE
    BY <2>1, <2>2, <2>4 DEF Untrack
  <2>5. ASSUME NEW c \in Check, NEW t, Update(c, t) PROVE FALSE
    BY <2>1, <2>2, <2>5 DEF Update
  <2>6. tracked' # tracked
    BY <2>1
  <2>7. QED
    BY <1>1, <2>3, <2>4, <2>5, <2>6
    DEF Next, vars, Track, ChainMoves, BeginWait, Ask, CheckStep, Fetched, FetchFails, Acquire,
        CallbackReturns, CheckEnds, WaitReturns, WaitDropped, WaitReached, WaitTimesOut, Look
<1>2. QED
  BY <1>1, Inductive, PTL DEF Spec, LateAnswersForgotten

=============================================================================
