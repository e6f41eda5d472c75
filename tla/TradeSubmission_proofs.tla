------------------------ MODULE TradeSubmission_proofs ------------------------
(***************************************************************************)
(* Proofs that a trade made with a durable nonce takes effect at most once  *)
(* per nonce value, and that what a call of _execute_transaction() reports  *)
(* is real, for any calls, lanes, tips and nonce values.                    *)
(*                                                                          *)
(* Two things carry the first result: a lane sends nothing but what was     *)
(* signed with its call's nonce (SignedFor), and whatever landed with a     *)
(* nonce used up that value of the nonce account (LandedIsSpent), so no     *)
(* later transaction of the same value can land.  The second follows the    *)
(* signatures of a call from the lanes that accepted them to the report     *)
(* (Agrees).                                                                *)
(***************************************************************************)
EXTENDS TradeSubmission, TLAPS

(* What a transaction of call a is signed with. *)
SignedFor(a, tx) == tx.hash = EffectiveHash(a) /\ tx.given = call[a].nonce

LanesAreSigned ==
    \A a \in Attempt : \A l \in Lane :
        lanes[a][l].pc # "none" =>
            /\ SignedFor(a, lanes[a][l].tx)
            /\ call[a].pc # "idle"

(* What landed with a nonce was signed with it, and advanced it. *)
LandedIsSpent ==
    \A r \in chain : r.tx.given \in Nonces => r.tx.given < nonce

(* The record c of call a tells no more than lanes and chain do. *)
Agrees(a, c) ==
    /\ c.pc \in {"idle", "building", "sending"} => c.signatures = {} /\ ~ c.success
    /\ c.signatures \subseteq Accepted(a)
    /\ c.to_poll \subseteq c.signatures
    /\ c.pc = "done" /\ c.success => c.signatures # {}
    /\ c.pc = "done" /\ c.success /\ c.wait =>
           \E tx \in c.signatures : Executed(tx)

IInv ==
    /\ TypeOK
    /\ LanesAreSigned
    /\ LandedIsSpent
    /\ NonceTakesEffectOnce
    /\ \A a \in Attempt : Agrees(a, call[a])

-----------------------------------------------------------------------------
(* clients without a tip are left out, the rest are lanes. *)
LEMMA SelectedAreLanes == \A a : Selected(a) \subseteq Lane
  BY DEF Selected, Lane

(* A nonce is never mistaken for no nonce or for a recent blockhash. *)
LEMMA HashesDiffer ==
  /\ Nonces \subseteq Nat /\ Recent \notin Nonces
  /\ (Unhashed \cup {NoNonce}) \cap Nonces = {}
  BY SubmissionConstants DEF Nonces

LEMMA InitIInv == Init => IInv
<1>1. SUFFICES ASSUME Init PROVE IInv
  OBVIOUS
<1> USE <1>1, SubmissionConstants DEF Init
<1>2. NewCall \in CallRecord
  BY DEF NewCall, CallRecord, Given
<1>3. NewSend \in Send /\ NewSend.pc = "none"
  BY DEF NewSend, Send, NoTx, Tx, Given
<1>4. TypeOK
  <2>1. 0 \in Nonces
    BY DEF Nonces
  <2>2. Mev \subseteq Lane
    BY DEF Lane
  <2>3. QED
    BY <1>2, <1>3, <2>1, <2>2 DEF TypeOK
<1>5. LanesAreSigned /\ LandedIsSpent /\ NonceTakesEffectOnce
  BY <1>3 DEF LanesAreSigned, LandedIsSpent, NonceTakesEffectOnce
<1>6. \A a \in Attempt : Agrees(a, call[a])
  BY DEF Agrees, NewCall
<1>7. QED
  BY <1>4, <1>5, <1>6 DEF IInv

-----------------------------------------------------------------------------
(* A step of the call itself: nothing is sent.  Only a call with nothing built
   yet changes what its lanes are selected and signed by. *)
LEMMA CallStepKeeps ==
  ASSUME NEW a \in Attempt, IInv, NEW c \in CallRecord,
         call' = [call EXCEPT ![a] = c], UNCHANGED <<lanes, nonce, chain>>,
         \/ c.nonce = call[a].nonce /\ c.with_tip = call[a].with_tip
         \/ \A l \in Lane : lanes[a][l].pc = "none",
         c.pc # "idle",
         Agrees(a, c)
  PROVE  IInv'
<1> USE DEF IInv
<1>1. /\ call' \in [Attempt -> CallRecord] /\ call'[a] = c
      /\ \A b \in Attempt \ {a} : call'[b] = call[b]
  BY DEF TypeOK
<1>2. Mev \subseteq Lane
  BY DEF Lane
<1>3. TypeOK'
  <2>1. ASSUME NEW b \in Attempt, NEW l \in Mev, ~ call'[b].with_tip
        PROVE  lanes[b][l].pc = "none"
    BY <1>1, <1>2, <2>1 DEF TypeOK
  <2>2. QED
    BY <1>1, <2>1 DEF TypeOK
<1>4. LanesAreSigned'
  <2>1. SUFFICES ASSUME NEW b \in Attempt, NEW l \in Lane, lanes[b][l].pc # "none"
        PROVE  SignedFor(b, lanes[b][l].tx)' /\ call'[b].pc # "idle"
    BY DEF LanesAreSigned
  <2>2. SignedFor(b, lanes[b][l].tx) /\ call[b].pc # "idle"
    BY <2>1 DEF LanesAreSigned
  <2>3. call'[b].nonce = call[b].nonce /\ call'[b].pc # "idle"
    BY <1>1, <2>1, <2>2
  <2>4. QED
    BY <2>2, <2>3 DEF SignedFor, EffectiveHash
<1>5. LandedIsSpent' /\ NonceTakesEffectOnce'
  BY DEF LandedIsSpent, NonceTakesEffectOnce
<1>6. ASSUME NEW b \in Attempt PROVE Accepted(b)' = Accepted(b)
  <2>1. CASE call'[b].with_tip = call[b].with_tip
    <3>1. Selected(b)' = Selected(b)
      BY <2>1 DEF Selected
    <3>2. QED
      BY <3>1 DEF Accepted
  <2>2. CASE call'[b].with_tip # call[b].with_tip
    <3>1. \A l \in Lane : lanes[b][l].pc = "none"
      BY <1>1, <2>2
    <3>2. Selected(b) \subseteq Lane /\ Selected(b)' \subseteq Lane
      BY SelectedAreLanes DEF Selected, Lane
    <3>3. QED
      BY <3>1, <3>2 DEF Accepted
  <2>3. QED
    BY <2>1, <2>2
<1>7. ASSUME NEW b \in Attempt PROVE Agrees(b, call[b])'
  <2>1. \A tx : Executed(tx)' <=> Executed(tx)
    BY DEF Executed
  <2>2. Agrees(b, call'[b])
    BY <1>1
  <2>3. QED
    BY <1>6, <2>1, <2>2 DEF Agrees
<1>8. QED
  BY <1>3, <1>4, <1>5, <1>7

(* A step of one lane, which undoes no answer given before. *)
LEMMA LaneStepKeeps ==
  ASSUME NEW a \in Attempt, IInv, NEW l \in Lane, NEW s \in Send,
         lanes' = [lanes EXCEPT ![a][l] = s], UNCHANGED <<call, nonce, chain>>,
         lanes[a][l].pc # "accepted", call[a].pc # "idle",
         SignedFor(a, s.tx),
         l \in Mev => call[a].with_tip
  PROVE  IInv'
<1> USE DEF IInv
<1>1. /\ lanes' \in [Attempt -> [Lane -> Send]] /\ lanes'[a][l] = s
      /\ \A b \in Attempt, m \in Lane : <<b, m>> # <<a, l>> => lanes'[b][m] = lanes[b][m]
  BY DEF TypeOK
<1>2. Mev \subseteq Lane
  BY DEF Lane
<1>3. TypeOK'
  <2>1. ASSUME NEW b \in Attempt, NEW m \in Mev, ~ call[b].with_tip
        PROVE  lanes'[b][m].pc = "none"
    BY <1>1, <1>2, <2>1 DEF TypeOK
  <2>2. QED
    BY <1>1, <2>1 DEF TypeOK
<1>4. \A b, tx : SignedFor(b, tx)' <=> SignedFor(b, tx)
  BY DEF SignedFor, EffectiveHash
<1>5. LanesAreSigned'
  <2>1. SUFFICES ASSUME NEW b \in Attempt, NEW m \in Lane, lanes'[b][m].pc # "none"
        PROVE  SignedFor(b, lanes'[b][m].tx) /\ call[b].pc # "idle"
    BY <1>4 DEF LanesAreSigned
  <2>2. CASE <<b, m>> = <<a, l>>
    BY <1>1, <2>2
  <2>3. CASE <<b, m>> # <<a, l>>
    BY <1>1, <2>1, <2>3 DEF LanesAreSigned
  <2>4. QED
    BY <2>2, <2>3
<1>6. LandedIsSpent' /\ NonceTakesEffectOnce'
  BY DEF LandedIsSpent, NonceTakesEffectOnce
<1>7. ASSUME NEW b \in Attempt PROVE Accepted(b) \subseteq Accepted(b)'
  <2>1. Selected(b)' = Selected(b) /\ Selected(b) \subseteq Lane
    BY SelectedAreLanes DEF Selected
  <2>2. \A m \in Lane : lanes[b][m].pc = "accepted" => lanes'[b][m] = lanes[b][m]
    BY <1>1
  <2>3. QED
    BY <2>1, <2>2 DEF Accepted
<1>8. ASSUME NEW b \in Attempt PROVE Agrees(b, call[b])'
  <2>1. \A tx : Executed(tx)' <=> Executed(tx)
    BY DEF Executed
  <2>2. QED
    BY <1>7, <2>1 DEF Agrees
<1>9. QED
  BY <1>3, <1>5, <1>6, <1>8

-----------------------------------------------------------------------------
(* The call of a caller. *)

LEMMA BeginKeeps ==
  ASSUME NEW a \in Attempt, IInv, NEW n \in Given,
         NEW with_tip \in BOOLEAN, NEW wait \in BOOLEAN, NEW wait_all \in BOOLEAN,
         Begin(a, n, with_tip, wait, wait_all)
  PROVE  IInv'
<1> DEFINE c == [call[a] EXCEPT !.pc = "building", !.nonce = n, !.with_tip = with_tip,
                                !.wait = wait, !.wait_all = wait_all]
<1>1. call[a] \in CallRecord /\ Agrees(a, call[a]) /\ call[a].pc = "idle"
  BY DEF IInv, TypeOK, Begin
<1>2. /\ c \in CallRecord /\ c.pc = "building" /\ c.success = call[a].success
      /\ c.signatures = call[a].signatures /\ c.to_poll = call[a].to_poll
  BY <1>1 DEF CallRecord
<1>3. call' = [call EXCEPT ![a] = c] /\ UNCHANGED <<lanes, nonce, chain>>
  BY DEF Begin, IInv, TypeOK
<1> HIDE DEF c
<1>4. Agrees(a, c)
  BY <1>1, <1>2 DEF Agrees
<1>5. \A l \in Lane : lanes[a][l].pc = "none"
  BY <1>1 DEF IInv, LanesAreSigned
<1>6. QED
  BY <1>2, <1>3, <1>4, <1>5, CallStepKeeps

(* A call that raises before anything was sent. *)
LEMMA RaiseKeeps ==
  ASSUME NEW a \in Attempt, IInv, call[a].pc = "building",
         call' = [call EXCEPT ![a].pc = "done"], UNCHANGED <<lanes, nonce, chain>>
  PROVE  IInv'
<1> DEFINE c == [call[a] EXCEPT !.pc = "done"]
<1>1. call[a] \in CallRecord /\ Agrees(a, call[a])
  BY DEF IInv, TypeOK
<1>2. /\ c \in CallRecord /\ c.pc = "done" /\ c.success = call[a].success
      /\ c.signatures = call[a].signatures /\ c.to_poll = call[a].to_poll
      /\ c.nonce = call[a].nonce /\ c.with_tip = call[a].with_tip
  BY <1>1 DEF CallRecord
<1>3. call' = [call EXCEPT ![a] = c]
  BY DEF IInv, TypeOK
<1> HIDE DEF c
<1>4. Agrees(a, c)
  BY <1>1, <1>2 DEF Agrees
<1>5. QED
  BY <1>2, <1>3, <1>4, CallStepKeeps

(* The lanes of the call are signed and sent to, the others are not. *)
LEMMA SendAllKeeps ==
  ASSUME NEW a \in Attempt, IInv, NEW tip \in [Selected(a) -> Tip \cup {NoTip}],
         SendAll(a, tip)
  PROVE  IInv'
<1> USE DEF IInv
<1> DEFINE c == [call[a] EXCEPT !.pc = "sending"]
           tx(l) == [hash |-> EffectiveHash(a), tip |-> tip[l], given |-> call[a].nonce]
           f == [l \in Lane |-> IF l \in Selected(a) THEN [pc |-> "primary", tx |-> tx(l)]
                                                     ELSE lanes[a][l]]
<1>1. call[a] \in CallRecord /\ Agrees(a, call[a]) /\ call[a].pc = "building"
  BY DEF TypeOK, SendAll
<1>2. /\ c \in CallRecord /\ c.pc = "sending" /\ c.success = call[a].success
      /\ c.signatures = call[a].signatures /\ c.to_poll = call[a].to_poll
      /\ c.nonce = call[a].nonce /\ c.with_tip = call[a].with_tip
  BY <1>1 DEF CallRecord
<1>3. \A l \in Selected(a) : tx(l) \in Tx /\ SignedFor(a, tx(l))
  BY <1>1 DEF EffectiveHash, CallRecord, SignedFor, Tx, Given
<1>4. /\ call' = [call EXCEPT ![a] = c] /\ lanes' = [lanes EXCEPT ![a] = f]
      /\ UNCHANGED <<nonce, chain>>
  BY DEF SendAll, TypeOK
<1> HIDE DEF c, tx
<1>5. /\ f \in [Lane -> Send]
      /\ \A l \in Lane \ Selected(a) : f[l] = lanes[a][l]
      /\ \A l \in Lane : f[l].pc # "none" => SignedFor(a, f[l].tx)
  <2>1. \A l \in Lane : lanes[a][l] \in Send
    BY DEF TypeOK
  <2>2. \A l \in Lane : lanes[a][l].pc # "none" => SignedFor(a, lanes[a][l].tx)
    BY DEF LanesAreSigned
  <2>3. QED
    BY <1>3, <2>1, <2>2 DEF Send
<1>6. \A l \in Mev : l \in Selected(a) => call[a].with_tip
  BY SubmissionConstants DEF Selected
<1> HIDE DEF f
<1>7. /\ call' \in [Attempt -> CallRecord] /\ call'[a] = c
      /\ lanes' \in [Attempt -> [Lane -> Send]] /\ lanes'[a] = f
      /\ \A b \in Attempt \ {a} : call'[b] = call[b] /\ lanes'[b] = lanes[b]
  BY <1>2, <1>4, <1>5 DEF TypeOK
<1>8. TypeOK'
  <2>1. ASSUME NEW b \in Attempt, NEW l \in Mev, ~ call'[b].with_tip
        PROVE  lanes'[b][l].pc = "none"
    <3>1. l \in Lane
      BY DEF Lane
    <3>2. CASE b = a
      BY <1>2, <1>5, <1>6, <1>7, <2>1, <3>1, <3>2 DEF TypeOK
    <3>3. CASE b # a
      BY <1>7, <2>1, <3>3 DEF TypeOK
    <3>4. QED
      BY <3>2, <3>3
  <2>2. QED
    BY <1>4, <1>7, <2>1 DEF TypeOK
<1>9. LanesAreSigned'
  <2>1. SUFFICES ASSUME NEW b \in Attempt, NEW l \in Lane, lanes'[b][l].pc # "none"
        PROVE  SignedFor(b, lanes[b][l].tx)' /\ call'[b].pc # "idle"
    BY DEF LanesAreSigned
  <2>2. SignedFor(b, lanes'[b][l].tx) /\ call'[b].pc # "idle"
    <3>1. CASE b = a
      BY <1>2, <1>5, <1>7, <2>1, <3>1
    <3>2. CASE b # a
      BY <1>7, <2>1, <3>2 DEF LanesAreSigned
    <3>3. QED
      BY <3>1, <3>2
  <2>3. call'[b].nonce = call[b].nonce
    BY <1>2, <1>7
  <2>4. QED
    BY <2>2, <2>3 DEF SignedFor, EffectiveHash
<1>10. LandedIsSpent' /\ NonceTakesEffectOnce'
  BY <1>4 DEF LandedIsSpent, NonceTakesEffectOnce
<1>11. ASSUME NEW b \in Attempt PROVE Agrees(b, call[b])'
  <2>1. CASE b = a
    BY <1>1, <1>2, <1>7, <2>1 DEF Agrees
  <2>2. CASE b # a
    <3>1. call'[b] = call[b] /\ lanes'[b] = lanes[b]
      BY <1>7, <2>2
    <3>2. Selected(b)' = Selected(b)
      BY <3>1 DEF Selected
    <3>3. Accepted(b)' = Accepted(b)
      BY <3>1, <3>2 DEF Accepted
    <3>4. \A x : Executed(x)' <=> Executed(x)
      BY <1>4 DEF Executed
    <3>5. QED
      BY <3>1, <3>3, <3>4 DEF Agrees
  <2>3. QED
    BY <2>1, <2>2
<1>12. QED
  BY <1>8, <1>9, <1>10, <1>11

(* The call ends with a report that lanes and chain bear out. *)
LEMMA FinishKeeps ==
  ASSUME NEW a \in Attempt, IInv, NEW success \in BOOLEAN, NEW signatures \in SUBSET Tx,
         Finish(a, success, signatures),
         signatures \subseteq Accepted(a),
         success => signatures # {},
         success /\ call[a].wait => \E tx \in signatures : Executed(tx)
  PROVE  IInv'
<1> DEFINE c == [call[a] EXCEPT !.pc = "done", !.success = success,
                                !.signatures = signatures, !.to_poll = {}]
<1>1. call[a] \in CallRecord
  BY DEF IInv, TypeOK
<1>2. /\ c \in CallRecord /\ c.pc = "done" /\ c.success = success
      /\ c.signatures = signatures /\ c.to_poll = {} /\ c.wait = call[a].wait
      /\ c.nonce = call[a].nonce /\ c.with_tip = call[a].with_tip
  BY <1>1 DEF CallRecord
<1>3. call' = [call EXCEPT ![a] = c] /\ UNCHANGED <<lanes, nonce, chain>>
  BY DEF Finish, IInv, TypeOK
<1> HIDE DEF c
<1>4. Agrees(a, c)
  BY <1>2 DEF Agrees
<1>5. QED
  BY <1>2, <1>3, <1>4, CallStepKeeps

LEMMA AcceptedAreTransactions ==
  ASSUME NEW a \in Attempt, IInv
  PROVE  Accepted(a) \subseteq Tx
<1>1. \A l \in Selected(a) : lanes[a][l].tx \in Tx
  BY SelectedAreLanes DEF IInv, TypeOK, Send
<1>2. QED
  BY <1>1 DEF Accepted

LEMMA CollectKeeps ==
  ASSUME NEW a \in Attempt, IInv,
         \/ \E tx \in Accepted(a) : FirstAccepted(a, tx)
         \/ AllFailed(a) \/ Gathered(a) \/ StartPolling(a)
         \/ \E tx \in call[a].to_poll :
                PollConfirmed(a, tx) \/ PollGivesUp(a, tx) \/ PollEnds(a, tx)
  PROVE  IInv'
<1>1. call[a] \in CallRecord /\ Agrees(a, call[a])
  BY DEF IInv, TypeOK
<1>2. Accepted(a) \subseteq Tx
  BY AcceptedAreTransactions
<1>3. ASSUME NEW tx \in Accepted(a), FirstAccepted(a, tx) PROVE IInv'
  <2>1. ~ call[a].wait /\ Finish(a, TRUE, {tx})
    BY <1>3 DEF FirstAccepted, WaitsForAll
  <2>2. {tx} \in SUBSET Tx /\ {tx} \subseteq Accepted(a) /\ {tx} # {}
    BY <1>2
  <2>3. QED
    BY <2>1, <2>2, FinishKeeps
<1>4. CASE AllFailed(a)
  BY <1>4, FinishKeeps DEF AllFailed
<1>5. CASE Gathered(a)
  BY <1>2, <1>5, FinishKeeps DEF Gathered
<1>6. CASE StartPolling(a)
  <2> DEFINE c == [call[a] EXCEPT !.pc = "polling", !.signatures = Accepted(a),
                                  !.to_poll = Accepted(a)]
  <2>1. Accepted(a) \in SUBSET Tx
    BY <1>2
  <2>2. /\ c \in CallRecord /\ c.pc = "polling" /\ c.signatures = Accepted(a)
        /\ c.to_poll = Accepted(a)
        /\ c.nonce = call[a].nonce /\ c.with_tip = call[a].with_tip
    BY <1>1, <2>1 DEF CallRecord
  <2>3. call' = [call EXCEPT ![a] = c] /\ UNCHANGED <<lanes, nonce, chain>>
    BY <1>6 DEF StartPolling, IInv, TypeOK
  <2> HIDE DEF c
  <2>4. Agrees(a, c)
    BY <2>2 DEF Agrees
  <2>5. QED
    BY <2>2, <2>3, <2>4, CallStepKeeps
<1>7. call[a].signatures \in SUBSET Tx /\ call[a].signatures \subseteq Accepted(a)
      /\ call[a].to_poll \subseteq call[a].signatures
  BY <1>1 DEF CallRecord, Agrees
<1>8. ASSUME NEW tx \in call[a].to_poll, PollConfirmed(a, tx) PROVE IInv'
  BY <1>7, <1>8, FinishKeeps DEF PollConfirmed
<1>9. ASSUME NEW tx \in call[a].to_poll, PollGivesUp(a, tx) PROVE IInv'
  <2> DEFINE rest == call[a].to_poll \ {tx}
             c == [call[a] EXCEPT !.to_poll = rest]
  <2>1. rest \in SUBSET Tx /\ rest \subseteq call[a].signatures
    BY <1>7
  <2>2. call' = [call EXCEPT ![a] = c] /\ UNCHANGED <<lanes, nonce, chain>>
        /\ call[a].pc = "polling"
    BY <1>9 DEF PollGivesUp, IInv, TypeOK
  <2> HIDE DEF rest
  <2>3. /\ c \in CallRecord /\ c.pc = call[a].pc /\ c.signatures = call[a].signatures
        /\ c.to_poll = rest
        /\ c.nonce = call[a].nonce /\ c.with_tip = call[a].with_tip
    BY <1>1, <2>1 DEF CallRecord
  <2> HIDE DEF c
  <2>4. Agrees(a, c)
    BY <1>7, <2>1, <2>2, <2>3 DEF Agrees
  <2>5. QED
    BY <2>2, <2>3, <2>4, CallStepKeeps
<1>10. ASSUME NEW tx \in call[a].to_poll, PollEnds(a, tx) PROVE IInv'
  BY <1>7, <1>10, FinishKeeps DEF PollEnds
<1>11. QED
  BY <1>3, <1>4, <1>5, <1>6, <1>8, <1>9, <1>10

-----------------------------------------------------------------------------
(* The lanes and the chain. *)

LEMMA LaneAnswersKeep ==
  ASSUME NEW a \in Attempt, IInv, NEW l \in Lane, LaneAnswers(a, l)
  PROVE  IInv'
<1>1. PICK pc \in {"accepted", "failed", "fallback"} :
          lanes[a][l].pc \in InFlight /\ Answer(a, l, pc)
  BY DEF LaneAnswers, Accept, Reject, FallBack, InFlight
<1> DEFINE s == [lanes[a][l] EXCEPT !.pc = pc]
<1>2. lanes[a][l] \in Send
  BY DEF IInv, TypeOK
<1>3. s \in Send /\ s.tx = lanes[a][l].tx
  BY <1>2 DEF Send
<1>4. lanes' = [lanes EXCEPT ![a][l] = s] /\ UNCHANGED <<call, nonce, chain>>
  BY <1>1 DEF Answer, IInv, TypeOK
<1> HIDE DEF s
<1>5. lanes[a][l].pc \notin {"none", "accepted"}
  BY <1>1 DEF InFlight
<1>6. SignedFor(a, s.tx) /\ call[a].pc # "idle"
  BY <1>3, <1>5 DEF IInv, LanesAreSigned
<1>7. l \in Mev => call[a].with_tip
  BY <1>5 DEF IInv, TypeOK
<1>8. QED
  BY <1>3, <1>4, <1>5, <1>6, <1>7, LaneStepKeeps

(* A transaction that lands was signed with the nonce its call was given, and
   nothing of that nonce landed before: it would have advanced it. *)
LEMMA LandKeeps ==
  ASSUME NEW tx \in Sent, NEW ok \in BOOLEAN, IInv, Land(tx, ok)
  PROVE  IInv'
<1> USE DEF IInv, Land
<1>1. PICK a \in Attempt, l \in Lane : tx = lanes[a][l].tx /\ lanes[a][l].pc # "none"
  BY DEF Sent, SentLanes
<1>2. tx \in Tx /\ SignedFor(a, tx) /\ call[a] \in CallRecord
  BY <1>1 DEF TypeOK, Send, LanesAreSigned
<1>3. tx.given \in Nonces => tx.hash = tx.given
  BY <1>2 DEF SignedFor, EffectiveHash
<1>4. tx.given \in Nonces => tx.given = nonce /\ nonce' = nonce + 1
  BY <1>3, HashesDiffer DEF Advances
<1>5. nonce \in Nat /\ nonce' \in Nat /\ nonce' >= nonce /\ nonce' \in Nonces
  BY SubmissionConstants DEF TypeOK, Nonces
<1> DEFINE new == [tx |-> tx, ok |-> ok]
<1>6. new.tx = tx /\ new \in [tx : Tx, ok : BOOLEAN] /\ chain' = chain \cup {new}
  BY <1>2
<1> HIDE DEF new
<1>7. TypeOK'
  BY <1>5, <1>6 DEF TypeOK
<1>8. LanesAreSigned'
  BY DEF LanesAreSigned, SignedFor, EffectiveHash
<1>9. LandedIsSpent'
  <2>1. SUFFICES ASSUME NEW r \in chain', r.tx.given \in Nonces
        PROVE  r.tx.given < nonce'
    BY DEF LandedIsSpent
  <2>2. CASE r = new
    BY <1>4, <1>5, <1>6, <2>1, <2>2
  <2>3. CASE r \in chain
    <3>1. r.tx.given < nonce /\ r.tx.given \in Nat
      BY <2>1, <2>3, HashesDiffer DEF LandedIsSpent
    <3> HIDE DEF Land, IInv
    <3>2. QED
      BY <1>5, <3>1
  <2>4. QED
    BY <1>6, <2>2, <2>3
<1>10. NonceTakesEffectOnce'
  <2>1. \A r \in chain : r.tx.given = tx.given => tx.given \notin Nonces
    BY <1>4, <1>5 DEF LandedIsSpent
  <2>2. QED
    BY <1>6, <2>1 DEF NonceTakesEffectOnce
<1>11. ASSUME NEW b \in Attempt PROVE Agrees(b, call[b])'
  <2>1. Selected(b)' = Selected(b)
    BY DEF Selected
  <2>2. Accepted(b)' = Accepted(b)
    BY <2>1 DEF Accepted
  <2>3. \A x : Executed(x) => Executed(x)'
    BY <1>6 DEF Executed
  <2>4. QED
    BY <2>2, <2>3 DEF Agrees
<1>12. QED
  BY <1>7, <1>8, <1>9, <1>10, <1>11

LEMMA NextKeeps == IInv /\ [Next]_vars => IInv'
<1>1. SUFFICES ASSUME IInv, [Next]_vars PROVE IInv'
  OBVIOUS
<1>2. ASSUME NEW a \in Attempt, NEW n \in Given,
             NEW with_tip \in BOOLEAN, NEW wait \in BOOLEAN, NEW wait_all \in BOOLEAN,
             Begin(a, n, with_tip, wait, wait_all)
      PROVE  IInv'
  BY <1>1, <1>2, BeginKeeps
<1>3. ASSUME NEW a \in Attempt, Proceed(a) PROVE IInv'
  <2>1. CASE Refuse(a) \/ BuildFails(a)
    BY <1>1, <2>1, RaiseKeeps DEF Refuse, BuildFails
  <2>2. ASSUME NEW tip \in [Selected(a) -> Tip \cup {NoTip}], SendAll(a, tip) PROVE IInv'
    BY <1>1, <2>2, SendAllKeeps
  <2>3. QED
    BY <1>1, <1>3, <2>1, <2>2, CollectKeeps DEF Proceed
<1>4. ASSUME NEW a \in Attempt, NEW l \in Lane, LaneAnswers(a, l) PROVE IInv'
  BY <1>1, <1>4, LaneAnswersKeep
<1>5. ASSUME NEW tx \in Sent, NEW ok \in BOOLEAN, Land(tx, ok) PROVE IInv'
  BY <1>1, <1>5, LandKeeps
<1>6. CASE UNCHANGED vars
  <2> USE <1>1, <1>6 DEF IInv, vars
  <2>1. TypeOK' /\ LanesAreSigned' /\ LandedIsSpent' /\ NonceTakesEffectOnce'
    BY DEF TypeOK, LanesAreSigned, SignedFor, EffectiveHash, LandedIsSpent,
       NonceTakesEffectOnce
  <2>2. ASSUME NEW b \in Attempt PROVE Agrees(b, call[b])'
    <3>1. Selected(b)' = Selected(b)
      BY DEF Selected
    <3>2. Accepted(b)' = Accepted(b)
      BY <3>1 DEF Accepted
    <3>3. \A x : Executed(x)' <=> Executed(x)
      BY DEF Executed
    <3>4. QED
      BY <3>2, <3>3 DEF Agrees
  <2>3. QED
    BY <2>1, <2>2
<1>7. QED
  BY <1>1, <1>2, <1>3, <1>4, <1>5, <1>6 DEF Next

-----------------------------------------------------------------------------
(* The invariant holds of every reachable state of _execute_transaction(), its
   lanes and the chain, for any calls, lanes, tips and nonce values. *)
THEOREM Inductive == Spec => []IInv
<1>1. QED
  BY InitIInv, NextKeeps, PTL DEF Spec

(* Every reachable state is typed, and a lane that expects a tip is sent no
   trade made without one. *)
THEOREM TypeCorrect == Spec => []TypeOK
<1>1. IInv => TypeOK
  BY DEF IInv
<1>2. QED
  BY <1>1, Inductive, PTL

(* A trade made with a durable nonce takes effect at most once per nonce value,
   over all lanes, transports and retries: EffectiveHash prefers the nonce. *)
THEOREM NonceIsSpentOnce == Spec => []NonceTakesEffectOnce
<1>1. IInv => NonceTakesEffectOnce
  BY DEF IInv
<1>2. QED
  BY <1>1, Inductive, PTL

(* Whatever a call reports was accepted by one of its lanes, and a call that
   waited reports success only for a transaction the chain executed. *)
THEOREM ReportsAreReal == Spec => []ReportIsReal
<1>1. IInv => ReportIsReal
  BY DEF IInv, Agrees, ReportIsReal, ConfirmedSuccessIsReal, ReportedWereAccepted
<1>2. QED
  BY <1>1, Inductive, PTL

===============================================================================
