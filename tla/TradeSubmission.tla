--------------------------- MODULE TradeSubmission ---------------------------
(***************************************************************************)
(* TradingClient._execute_transaction() of src/src/__init__.py: one signed  *)
(* transaction per configured SWQOS lane, sent concurrently, with or        *)
(* without a durable nonce, and the calls a caller makes one after another  *)
(* when it retries a trade.                                                 *)
(*                                                                          *)
(* A transaction of the trade is what its signature is made of: the hash it *)
(* was signed with and the account it tips.  Two lanes with different tips  *)
(* send different transactions, and the chain would execute both: only a    *)
(* durable nonce, which the first of them to land advances, prevents that.  *)
(* The lanes go on after the call has returned.  The chain and the lanes'   *)
(* servers are external: any request may be lost before or after it took    *)
(* effect.  Operators introduced as a faulty variant are used by nothing:   *)
(* each is a mistake the properties catch.                                  *)
(***************************************************************************)
EXTENDS Naturals, FiniteSets

CONSTANTS
    Attempt,     \* calls of buy() or sell() for one trade
    Mev,         \* configured lanes that are not Default
    DefaultLane, \* the Default lane that every configuration contains
    Rpc,         \* the client's own RPC connection
    Tip,         \* tip accounts of the lanes
    NoTip,       \* no tip instruction
    NoNonce,     \* durable_nonce is None
    Unhashed,    \* nonce accounts a caller names with an empty nonce_hash
    Recent,      \* the recent blockhash
    MaxNonce     \* bound: advances of the nonce account

VARIABLES
    call,        \* call[a]: the state of call a
    lanes,       \* lanes[a][l]: the send of call a through lane l
    nonce,       \* the nonce account's value
    chain        \* transactions that landed: [tx, ok]

vars == <<call, lanes, nonce, chain>>

Lane == Mev \cup {DefaultLane, Rpc}

ASSUME SubmissionConstants ==
    /\ MaxNonce \in Nat
    /\ DefaultLane # Rpc
    /\ {DefaultLane, Rpc} \cap Mev = {}
    /\ NoTip \notin Tip
    /\ {NoNonce, Recent} \cap Nat = {}
    /\ Unhashed \cap ({NoNonce, Recent} \cup Nat) = {}

Nonces == 0..MaxNonce
Given == Nonces \cup Unhashed \cup {NoNonce}

(* `given` is the durable nonce the call was made with: not part of the wire,
   it says on whose behalf the transaction exists. *)
Tx == [hash : Nonces \cup {Recent}, tip : Tip \cup {NoTip}, given : Given]

NoTx == [hash |-> Recent, tip |-> NoTip, given |-> NoNonce]

NewCall == [pc |-> "idle", nonce |-> NoNonce, with_tip |-> FALSE, wait |-> FALSE,
            wait_all |-> FALSE, success |-> FALSE, signatures |-> {}, to_poll |-> {}]
NewSend == [pc |-> "none", tx |-> NoTx]

Init ==
    /\ call = [a \in Attempt |-> NewCall]
    /\ lanes = [a \in Attempt |-> [l \in Lane |-> NewSend]]
    /\ nonce = 0
    /\ chain = {}

-----------------------------------------------------------------------------
(* Building. *)

(* Lanes that expect a tip are left out of a trade without one; without such
   lanes the transaction goes to the RPC connection. *)
Selected(a) ==
    IF Mev = {} THEN {Rpc}
    ELSE {DefaultLane} \cup {l \in Mev : call[a].with_tip}

(* Faulty variant: the recent blockhash is preferred. *)
EffectiveHashRecent(a) == Recent

(* The hash of the nonce, or without one the recent blockhash. *)
EffectiveHash(a) == IF call[a].nonce \in Nonces THEN call[a].nonce ELSE Recent

(* A caller starts a call with a nonce it knows, current or out of date, with
   the account of one alone, or with a recent blockhash; it retries only when the
   call before ended. *)
Begin(a, n, with_tip, wait, wait_all) ==
    /\ call[a].pc = "idle"
    /\ \A b \in Attempt : call[b].pc \in {"idle", "done"}
    /\ n \in 0..nonce \cup Unhashed \cup {NoNonce}
    /\ call' = [call EXCEPT ![a].pc = "building", ![a].nonce = n, ![a].with_tip = with_tip,
                            ![a].wait = wait, ![a].wait_all = wait_all]
    /\ UNCHANGED <<lanes, nonce, chain>>

Refused(a) == Cardinality(Selected(a) \cap Mev) > 1 /\ call[a].nonce = NoNonce

(* "Multiple SWQOS transactions require durable_nonce to be set" *)
Refuse(a) ==
    /\ call[a].pc = "building"
    /\ Refused(a)
    /\ call' = [call EXCEPT ![a].pc = "done"]
    /\ UNCHANGED <<lanes, nonce, chain>>

Tips(l) == IF l \in Mev THEN Tip \cup {NoTip} ELSE {NoTip}

(* There is no hash to sign with, or a lane cannot be built (client, tip account,
   transaction too large): nothing is sent. *)
BuildFails(a) ==
    /\ call[a].pc = "building"
    /\ ~ Refused(a)
    /\ call' = [call EXCEPT ![a].pc = "done"]
    /\ UNCHANGED <<lanes, nonce, chain>>

(* The loop over the lanes, client, tip account and transaction of each, awaits
   nothing; then the sends of all are started at once. *)
SendAll(a, tip) ==
    /\ call[a].pc = "building"
    /\ ~ Refused(a)
    /\ \A l \in Selected(a) : tip[l] \in Tips(l)
    /\ call' = [call EXCEPT ![a].pc = "sending"]
    /\ lanes' = [lanes EXCEPT ![a] = [l \in Lane |->
                    IF l \in Selected(a)
                    THEN [pc |-> "primary",
                          tx |-> [hash |-> EffectiveHash(a), tip |-> tip[l],
                                  given |-> call[a].nonce]]
                    ELSE lanes[a][l]]]
    /\ UNCHANGED <<nonce, chain>>

-----------------------------------------------------------------------------
(* The lanes. *)

InFlight == {"primary", "fallback"}

Answer(a, l, pc) ==
    /\ lanes' = [lanes EXCEPT ![a][l].pc = pc]
    /\ UNCHANGED <<call, nonce, chain>>

Accept(a, l) == lanes[a][l].pc \in InFlight /\ Answer(a, l, "accepted")
Reject(a, l) == lanes[a][l].pc \in InFlight /\ Answer(a, l, "failed")

(* FallbackSwqosClient: the same bytes through the second transport. *)
FallBack(a, l) == l \in Mev /\ lanes[a][l].pc = "primary" /\ Answer(a, l, "fallback")

Settled(a) == \A l \in Selected(a) : lanes[a][l].pc \in {"accepted", "failed"}
Accepted(a) == {lanes[a][l].tx : l \in {m \in Selected(a) : lanes[a][m].pc = "accepted"}}

-----------------------------------------------------------------------------
(* The chain (external). *)

SentLanes(a) == {l \in Lane : lanes[a][l].pc # "none"}
Sent == UNION {{lanes[a][l].tx : l \in SentLanes(a)} : a \in Attempt}

Landed == {r.tx : r \in chain}
OnWire(tx) == [hash |-> tx.hash, tip |-> tx.tip]

(* A transaction lands once; signed with a nonce only while the nonce account
   still has that value, and then advances it, executed or not.  One that names
   a nonce but was signed with a recent blockhash advances it when executed. *)
Advances(tx, ok) == tx.hash # Recent \/ (tx.given \in Unhashed /\ ok)
Land(tx, ok) ==
    /\ tx \in Sent
    /\ \A other \in Landed : OnWire(other) # OnWire(tx)
    /\ tx.hash # Recent => tx.hash = nonce
    /\ Advances(tx, ok) => nonce < MaxNonce
    /\ chain' = chain \cup {[tx |-> tx, ok |-> ok]}
    /\ nonce' = IF Advances(tx, ok) THEN nonce + 1 ELSE nonce
    /\ UNCHANGED <<call, lanes>>

Executed(tx) == \E r \in chain : OnWire(r.tx) = OnWire(tx) /\ r.ok

-----------------------------------------------------------------------------
(* Collecting the answers. *)

WaitsForAll(a) == call[a].wait \/ call[a].wait_all

Finish(a, success, signatures) ==
    /\ call' = [call EXCEPT ![a].pc = "done", ![a].success = success,
                            ![a].signatures = signatures, ![a].to_poll = {}]
    /\ UNCHANGED <<lanes, nonce, chain>>

(* as_completed(): the first lane that accepts ends the call, not the others. *)
FirstAccepted(a, tx) ==
    /\ call[a].pc = "sending"
    /\ ~ WaitsForAll(a)
    /\ tx \in Accepted(a)
    /\ Finish(a, TRUE, {tx})

(* Faulty variant: that no lane accepted is not noticed. *)
AllFailedUnnoticed(a) ==
    /\ call[a].pc = "sending"
    /\ Settled(a)
    /\ Accepted(a) = {}
    /\ Finish(a, TRUE, {})

AllFailed(a) ==
    /\ call[a].pc = "sending"
    /\ Settled(a)
    /\ Accepted(a) = {}
    /\ Finish(a, FALSE, {})

(* gather(): every lane has answered. *)
Gathered(a) ==
    /\ call[a].pc = "sending"
    /\ WaitsForAll(a)
    /\ Settled(a)
    /\ Accepted(a) # {}
    /\ ~ call[a].wait
    /\ Finish(a, TRUE, Accepted(a))

StartPolling(a) ==
    /\ call[a].pc = "sending"
    /\ Settled(a)
    /\ Accepted(a) # {}
    /\ call[a].wait
    /\ call' = [call EXCEPT ![a].pc = "polling", ![a].signatures = Accepted(a),
                            ![a].to_poll = Accepted(a)]
    /\ UNCHANGED <<lanes, nonce, chain>>

PollConfirmed(a, tx) ==
    /\ call[a].pc = "polling"
    /\ tx \in call[a].to_poll
    /\ Executed(tx)
    /\ Finish(a, TRUE, call[a].signatures)

(* The transaction failed on chain or did not show up in time. *)
PollGivesUp(a, tx) ==
    /\ call[a].pc = "polling"
    /\ tx \in call[a].to_poll
    /\ call[a].to_poll # {tx}
    /\ call' = [call EXCEPT ![a].to_poll = @ \ {tx}]
    /\ UNCHANGED <<lanes, nonce, chain>>

(* Faulty variant: a confirmation that timed out is not told from one found. *)
PollEndsWell(a, tx) ==
    /\ call[a].pc = "polling"
    /\ call[a].to_poll = {tx}
    /\ Finish(a, TRUE, call[a].signatures)

PollEnds(a, tx) ==
    /\ call[a].pc = "polling"
    /\ call[a].to_poll = {tx}
    /\ Finish(a, FALSE, call[a].signatures)

(* The steps of the call itself ... *)
Proceed(a) ==
    \/ Refuse(a)
    \/ BuildFails(a)
    \/ \E tip \in [Selected(a) -> Tip \cup {NoTip}] : SendAll(a, tip)
    \/ \E tx \in Accepted(a) : FirstAccepted(a, tx)
    \/ AllFailed(a)
    \/ Gathered(a)
    \/ StartPolling(a)
    \/ \E tx \in call[a].to_poll : PollConfirmed(a, tx) \/ PollGivesUp(a, tx) \/ PollEnds(a, tx)

(* ... and the answers of a lane, which its HTTP timeout bounds. *)
LaneAnswers(a, l) == Accept(a, l) \/ Reject(a, l) \/ FallBack(a, l)

Next ==
    \/ \E a \in Attempt :
          \/ \E n \in Given, with_tip, wait, wait_all \in BOOLEAN :
                Begin(a, n, with_tip, wait, wait_all)
          \/ Proceed(a)
          \/ \E l \in Lane : LaneAnswers(a, l)
    \/ \E tx \in Sent, ok \in BOOLEAN : Land(tx, ok)

Spec == Init /\ [][Next]_vars

(* The event loop runs what is ready, every request has a time limit. *)
FairSpec ==
    /\ Spec
    /\ \A a \in Attempt : WF_vars(Proceed(a))
    /\ \A a \in Attempt, l \in Lane : WF_vars(LaneAnswers(a, l))

-----------------------------------------------------------------------------
CallRecord == [pc : {"idle", "building", "sending", "polling", "done"},
         nonce : Given, with_tip : BOOLEAN, wait : BOOLEAN,
         wait_all : BOOLEAN, success : BOOLEAN, signatures : SUBSET Tx, to_poll : SUBSET Tx]
Send == [pc : {"none", "primary", "fallback", "accepted", "failed"}, tx : Tx]

(* The state is well formed, and lanes that expect a tip see no trade made
   without one. *)
TypeOK ==
    /\ call \in [Attempt -> CallRecord]
    /\ lanes \in [Attempt -> [Lane -> Send]]
    /\ nonce \in Nonces
    /\ chain \in SUBSET [tx : Tx, ok : BOOLEAN]
    /\ \A a \in Attempt : \A l \in Mev :
          ~ call[a].with_tip => lanes[a][l].pc = "none"

(* A trade made with a durable nonce takes effect at most once per nonce value,
   over all lanes, both transports of a lane, and every retry of the caller
   with the same nonce, whatever answers were lost. *)
NonceTakesEffectOnce ==
    \A r, s \in chain :
        r.tx.given = s.tx.given /\ r.tx.given \in Nonces => r = s

(* A call that waited and reports success has an executed transaction among the
   signatures it reports. *)
ConfirmedSuccessIsReal ==
    \A a \in Attempt :
        call[a].pc = "done" /\ call[a].wait /\ call[a].success =>
            \E tx \in call[a].signatures : Executed(tx)

(* Every signature a call reports was accepted by a lane, and a successful call
   reports one. *)
ReportedWereAccepted ==
    \A a \in Attempt :
        call[a].pc = "done" =>
            /\ call[a].signatures \subseteq Accepted(a)
            /\ call[a].success => call[a].signatures # {}

(* What a call reports is real, in whatever order the lanes answer. *)
ReportIsReal == ConfirmedSuccessIsReal /\ ReportedWereAccepted

(* A call ends, whatever the lanes and the chain do, and so does every send it
   started, also those it no longer waits for. *)
CallsAndSendsEnd ==
    \A a \in Attempt :
        /\ call[a].pc = "building" ~> call[a].pc = "done"
        /\ \A l \in Lane : lanes[a][l].pc = "primary" ~> lanes[a][l].pc \in {"accepted", "failed"}
=============================================================================
