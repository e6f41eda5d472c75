---------------------------- MODULE SwqosRelays ----------------------------
(***************************************************************************)
(* The SWQOS clients of swqos/clients.py: what a client makes of a relay's *)
(* answer, how it walks through a list of transactions, which failures it  *)
(* answers by sending again over another transport, and the persistent     *)
(* QUIC connection two calls share under a lock.                           *)
(*                                                                         *)
(* A relay answers with a status and a body, and either takes the          *)
(* transactions of a request or does not.  A signature is one of "own" (of *)
(* the transaction itself), "other", "bundle" and "text" (whatever text    *)
(* came back).  An exception is its code; exceptions that are no           *)
(* TradeError are Broken (the transport's own) and Unforeseen.             *)
(***************************************************************************)
EXTENDS Integers, Sequences, FiniteSets

CONSTANTS
    Senders,        \* calls that may run at the same time
    Configs,        \* the configurations clients are built from
    MaxBatch,       \* bound: transactions of one call
    BatchLimit,     \* TEMPORAL_MAX_BATCH_SIZE
    Nobody,         \* the lock is free, no connection, no result yet
    Open            \* an established connection

VARIABLES
    legs,       \* the transports of the client: the first, and its fallback
    batch,      \* [Senders -> the transactions handed over, and how]
    at,         \* [Senders -> where the call stands: step, leg, second try]
    done,       \* [Senders -> signatures collected so far]
    sent,       \* [Senders -> [transactions -> times on the wire]]
    took,       \* [Senders -> transactions some relay took]
    refused,    \* [Senders -> transactions a relay refused for good]
    result,     \* [Senders -> Nobody, or the code raised (0: returned)]
    holder,     \* the call that holds the client's lock
    link,       \* Nobody, Open, or the code the peer closed it with
    opened      \* connections entered and not yet left

relayVars == <<legs, batch, at, done, sent, took, refused, result, holder, link,
               opened>>

SwqosType ==
    {"jito", "nextblock", "zeroslot", "temporal", "bloxroute", "node1", "flash", "razor",
     "astralane", "stellium", "lightspeed", "soyas", "speedlanding", "helius", "solami",
     "lunar", "glaive", "default"}

SwqosTransport == {"none", "Http", "Grpc", "Quic"}

ASSUME RelayAssumption ==
    /\ Configs \subseteq [type : SwqosType, transport : SwqosTransport, custom : BOOLEAN]
    /\ MaxBatch \in Nat \ {0} /\ BatchLimit \in Nat \ {0}
    /\ Nobody \notin Senders /\ Nobody # Open
    /\ {Nobody, Open} \cap Int = {}      \* no status, no code

Broken == 1000
Unforeseen == 1

Answered(s) == [code |-> 0, sig |-> s]
Raised(code) == [code |-> code, sig |-> "none"]

Ok(a) == a.status \in 200..299

(* Faulty variant: every error of a relay goes to the fallback. *)
WorthResendingRefused(code) == code >= 400

(* _should_fallback_transport: server errors, request timeouts and the      *)
(* transport's own exceptions; a refusal is final.                          *)
WorthResending(code) == code >= 500 \/ code \in {408, 425}

(* _extract_signature *)
Extracted(a) == IF a.body \in {"own", "other", "text"} THEN Answered(a.body)
                                                         ELSE Raised(500)

(* _signature_from_serialized_transaction: of the only signer, or 400. *)
OwnSignature(c) == IF batch[c].single THEN Answered("own") ELSE Raised(400)

---------------------------------------------------------------------------
(* What the clients make of an answer.  "error" is an error object with a  *)
(* JSON-RPC code, "errortext" an error that is a string, "reason" a        *)
(* refusal in words, "text" a body that is not JSON.                       *)

JsonRpcAnswer(a) ==
    CASE a.body = "text" -> Raised(Broken)
      [] a.body # "text" /\ ~Ok(a) -> Raised(a.status)
      [] Ok(a) /\ a.body = "error" -> Raised(-32002)
      [] Ok(a) /\ a.body = "errortext" -> Raised(500)
      [] Ok(a) /\ a.body = "empty" -> Raised(Unforeseen)
      [] OTHER -> Extracted(a)

JitoAnswer(a) == IF Ok(a) /\ a.body = "errortext" THEN Raised(Unforeseen)
                                                  ELSE JsonRpcAnswer(a)

JitoBundleAnswer(a) == LET r == JitoAnswer(a) IN
    IF r.code = 0 THEN Answered("bundle") ELSE r

ReasonAnswer(a) == IF Ok(a) /\ a.body = "reason" THEN Raised(500)
                                                 ELSE JsonRpcAnswer(a)

BloxrouteAnswer(a) ==
    IF Ok(a) /\ a.body \in {"error", "errortext"} THEN Raised(500) ELSE ReasonAnswer(a)
ZeroSlotAnswer(a) == JsonRpcAnswer(a)
HeliusAnswer(a) == JsonRpcAnswer(a)
Node1Answer(a) == JsonRpcAnswer(a)
StelliumAnswer(a) == JsonRpcAnswer(a)
LightspeedAnswer(a) == JsonRpcAnswer(a)

(* A signature that does not confirm is a failure with code 500. *)
DefaultAnswer(a, confirms) == LET r == JsonRpcAnswer(a) IN
    IF r.code = 0 /\ ~confirms THEN Raised(500) ELSE r

FlashAnswer(a) ==
    IF Ok(a) /\ a.body \in {"list", "empty"} THEN Answered("text") ELSE JsonRpcAnswer(a)

(* Of a list every item is a signature; of anything else its text is one. *)
FlashBatchAnswer(a) ==
    CASE Ok(a) /\ a.body \in {"error", "errortext"} -> Raised(500)
      [] Ok(a) /\ a.body = "list" -> Answered("own")
      [] Ok(a) /\ a.body \notin {"error", "errortext", "list", "text"} -> Answered("text")
      [] OTHER -> JsonRpcAnswer(a)

TemporalAnswer(a, c) == IF Ok(a) THEN OwnSignature(c) ELSE Raised(a.status)

BlockRazorAnswer(a, c) ==
    CASE ~Ok(a) -> Raised(a.status)
      [] Ok(a) /\ a.body = "empty" -> OwnSignature(c)
      [] Ok(a) /\ a.body = "text" -> Answered("text")
      [] OTHER -> JsonRpcAnswer(a)

BlockRazorGrpcAnswer(a) ==
    CASE ~Ok(a) -> Raised(IF WorthResending(a.status) THEN Broken ELSE Unforeseen)
      [] Ok(a) /\ a.body \in {"own", "other"} -> Answered(a.body)
      [] OTHER -> Raised(502)

AstralaneAnswer(a, c) ==
    CASE Ok(a) /\ a.body = "text" -> Answered("text")
      [] Ok(a) /\ a.body \in {"empty", "none", "reason", "list"} -> OwnSignature(c)
      [] ~Ok(a) -> Raised(a.status)
      [] OTHER -> JsonRpcAnswer(a)

(* The authentication reply is judged before the transaction is sent. *)
Node1QuicAnswer(a, c) == IF a.status = 200 THEN OwnSignature(c) ELSE Raised(a.status)

(* Faulty variant: only a server error counts. *)
LunarLanderAnswerLenient(a, c) ==
    IF a.status >= 500 THEN Raised(a.status) ELSE OwnSignature(c)

LunarLanderAnswer(a, c) == IF a.status >= 400 THEN Raised(a.status) ELSE OwnSignature(c)

GlaiveAnswer(a) ==
    CASE a.body \in {"text", "empty", "error", "errortext"} -> Raised(500)
      [] a.status >= 400 /\ a.body \notin {"text", "empty", "error", "errortext"} ->
             Raised(a.status)
      [] a.body = "own" /\ a.status < 400 -> Answered("own")
      [] OTHER -> Raised(500)

---------------------------------------------------------------------------
(* ClientFactory.create_client: the transports a configuration stands for, *)
(* or none when it is refused.                                             *)

Refusal == <<>>

TemporalLegs(cfg) ==
    CASE cfg.transport = "Http" \/ (cfg.custom /\ cfg.transport = "none") -> <<"temporal http">>
      [] cfg.transport = "Quic" -> <<"temporal quic">>
      [] cfg.transport = "none" /\ ~cfg.custom -> <<"temporal quic", "temporal http">>
      [] OTHER -> Refusal

BlockRazorLegs(cfg) ==
    CASE cfg.transport = "Http" \/ (cfg.custom /\ cfg.transport = "none") -> <<"razor http">>
      [] cfg.transport = "Grpc" -> <<"razor grpc">>
      [] cfg.transport = "none" /\ ~cfg.custom -> <<"razor grpc", "razor http">>
      [] OTHER -> Refusal

AstralaneLegs(cfg) ==
    CASE cfg.transport = "Http" \/ (cfg.custom /\ cfg.transport = "none") -> <<"astralane http">>
      [] cfg.transport = "Quic" -> <<"astralane quic">>
      [] cfg.transport = "none" /\ ~cfg.custom -> <<"astralane quic", "astralane http">>
      [] OTHER -> Refusal

Node1Legs(cfg) == IF cfg.transport = "Quic" THEN <<"node1 quic">> ELSE <<"node1">>

LunarLanderLegs(cfg) ==
    CASE cfg.transport = "Grpc" -> Refusal
      [] cfg.transport \in {"none", "Quic"} -> <<"lunar quic">>
      [] OTHER -> <<"lunar http">>

GlaiveLegs(cfg) ==
    CASE cfg.transport = "Grpc" -> Refusal
      [] cfg.transport \in {"none", "Quic"} -> <<"glaive quic">>
      [] OTHER -> <<"glaive http">>

Legs(cfg) ==
    CASE cfg.type = "nextblock" -> Refusal          \* blacklisted
      [] cfg.type = "temporal" -> TemporalLegs(cfg)
      [] cfg.type = "razor" -> BlockRazorLegs(cfg)
      [] cfg.type = "astralane" -> AstralaneLegs(cfg)
      [] cfg.type = "node1" -> Node1Legs(cfg)
      [] cfg.type = "lunar" -> LunarLanderLegs(cfg)
      [] cfg.type = "glaive" -> GlaiveLegs(cfg)
      [] OTHER -> <<cfg.type>>

---------------------------------------------------------------------------
(* Relays and their answers. *)

Persistent == {"temporal quic", "astralane quic"}
Bundled == {"jito", "flash"}
OneWay == {"soyas", "speedlanding", "solami", "lunar quic", "glaive quic"}
Acknowledging(t) == t \notin OneWay \cup {"astralane quic"}

StatusOnly == {"temporal http", "temporal quic", "lunar http", "node1 quic"}
Bodies(t) ==
    CASE t \in StatusOnly -> {"none"}
      [] t = "razor grpc" -> {"own", "other", "none"}
      [] t = "bloxroute" -> {"own", "other", "none", "reason", "text", "empty"}
      [] OTHER -> {"own", "other", "none", "error", "errortext", "list", "text", "empty"}
Answers(t) ==
    [status : {200}, body : Bodies(t)]
        \cup [status : {400, 503}, body : {"error", "text"}]
        \cup {[status |-> Broken, body |-> "lost"]}

(* A relay that answers without an error took what was sent; one that      *)
(* answers with an error did not; after a server error or no answer at     *)
(* all nobody knows.                                                       *)
MayTake(a) == ~Ok(a) => WorthResending(a.status)
MayLeave(a) == ~Ok(a) \/ a.body \in {"error", "errortext", "reason"}
Honest(a, taken) ==
    IF taken THEN MayTake(a) /\ ~(Ok(a) /\ MayLeave(a)) ELSE MayLeave(a)
Refuses(a) == a.status \in 400..407 \/ (Ok(a) /\ a.body = "error")

Transport(c) == legs[at[c].leg]

(* What the client of transport t returns or raises for answer a. *)
Outcome(t, a, c, confirms) ==
    CASE a.body = "lost" -> Raised(Broken)
      [] a.body # "lost" /\ t = "jito" ->
             IF batch[c].listed THEN JitoBundleAnswer(a) ELSE JitoAnswer(a)
      [] a.body # "lost" /\ t = "flash" ->
             IF batch[c].listed THEN FlashBatchAnswer(a) ELSE FlashAnswer(a)
      [] a.body # "lost" /\ t = "default" -> DefaultAnswer(a, confirms)
      [] a.body # "lost" /\ t = "bloxroute" -> BloxrouteAnswer(a)
      [] a.body # "lost" /\ t = "zeroslot" -> ZeroSlotAnswer(a)
      [] a.body # "lost" /\ t = "helius" -> HeliusAnswer(a)
      [] a.body # "lost" /\ t = "node1" -> Node1Answer(a)
      [] a.body # "lost" /\ t = "stellium" -> StelliumAnswer(a)
      [] a.body # "lost" /\ t = "lightspeed" -> LightspeedAnswer(a)
      [] a.body # "lost" /\ t \in {"temporal http", "temporal quic"} -> TemporalAnswer(a, c)
      [] a.body # "lost" /\ t = "razor http" -> BlockRazorAnswer(a, c)
      [] a.body # "lost" /\ t = "razor grpc" -> BlockRazorGrpcAnswer(a)
      [] a.body # "lost" /\ t = "astralane http" -> AstralaneAnswer(a, c)
      [] a.body # "lost" /\ t = "node1 quic" -> Node1QuicAnswer(a, c)
      [] a.body # "lost" /\ t = "lunar http" -> LunarLanderAnswer(a, c)
      [] a.body # "lost" /\ t = "glaive http" -> GlaiveAnswer(a)
      [] OTHER -> OwnSignature(c)

(* The refusals of a client that need no relay: sizes, and the signature   *)
(* Glaive compares with.                                                   *)
RefusedUnsent(t, c) ==
    \/ ~batch[c].fits /\ t \in Persistent \cup {"temporal http", "node1 quic",
                                                "lunar quic", "glaive quic"}
    \/ ~batch[c].single /\ t = "glaive http"

(* The transactions the next request carries. *)
Slice(c) ==
    LET next == Len(done[c]) + 1
    IN  CASE batch[c].listed /\ Transport(c) \in Bundled -> next..batch[c].n
          [] Transport(c) \in {"temporal http", "temporal quic"} ->
                 {i \in next..batch[c].n : i < next + BatchLimit}
          [] OTHER -> {next}

---------------------------------------------------------------------------
(* The steps of a call. *)

RelayInit ==
    /\ legs \in {Legs(cfg) : cfg \in Configs} \ {Refusal}
    /\ batch = [c \in Senders |-> Nobody]
    /\ at = [c \in Senders |-> [step |-> "idle", leg |-> 1, again |-> FALSE]]
    /\ done = [c \in Senders |-> <<>>]
    /\ sent = [c \in Senders |-> [i \in 1..MaxBatch |-> 0]]
    /\ took = [c \in Senders |-> {}]
    /\ refused = [c \in Senders |-> {}]
    /\ result = [c \in Senders |-> Nobody]
    /\ holder = Nobody
    /\ link = Nobody
    /\ opened = 0

Batches ==
    {b \in [n : 1..MaxBatch, listed : BOOLEAN, single : BOOLEAN, fits : BOOLEAN,
            wire : BOOLEAN] :
        /\ b.listed = (b.n > 1)
        /\ b.wire => ~b.listed /\ b.single
        /\ ~b.fits => b.single}

OneTransaction == [n |-> 1, listed |-> FALSE, single |-> TRUE, fits |-> TRUE, wire |-> FALSE]

(* send_transaction, send_transactions or a cached wire submit is called (a *)
(* wire without exactly one signature is refused before that).  Bound: only *)
(* a client that keeps a connection is called again, for one transaction.   *)
Submit(c, b) ==
    /\ at[c].step = "idle"
    /\ \/ \A d \in Senders : at[d].step = "idle"
       \/ legs[1] \in Persistent /\ b = OneTransaction
    /\ batch' = [batch EXCEPT ![c] = b]
    /\ at' = [at EXCEPT ![c].step = "ready"]
    /\ UNCHANGED <<legs, done, sent, took, refused, result, holder, link, opened>>

(* The call ends in an exception, or the client's fallback starts with the  *)
(* whole list from its beginning.                                           *)
FailsWith(c, code) ==
    IF WorthResending(code) /\ at[c].leg < Len(legs)
    THEN /\ at' = [at EXCEPT ![c] = [step |-> "ready", leg |-> @.leg + 1, again |-> FALSE]]
         /\ done' = [done EXCEPT ![c] = <<>>]
         /\ UNCHANGED result
    ELSE /\ at' = [at EXCEPT ![c].step = "end"]
         /\ result' = [result EXCEPT ![c] = code]
         /\ UNCHANGED done

(* A request was answered: its signatures are collected, and with the last  *)
(* one the call returns.  A wire submit compares the signature with its     *)
(* transaction's.                                                           *)
Collects(c, sig) ==
    LET dict == Transport(c) = "flash" /\ batch[c].listed /\ sig = "text"
        new == [i \in 1..(IF dict THEN 1 ELSE Cardinality(Slice(c))) |-> sig]
        all == done[c] \o new
        last == dict \/ Len(all) = batch[c].n
    IN  /\ done' = [done EXCEPT ![c] = all]
        /\ IF last
           THEN /\ result' = [result EXCEPT
                        ![c] = IF batch[c].wire /\ sig # "own" THEN 400 ELSE 0]
                /\ at' = [at EXCEPT ![c].step = "end"]
           ELSE /\ at' = [at EXCEPT ![c].step = "ready", ![c].again = FALSE]
                /\ UNCHANGED result

Concludes(c, r) == IF r.code = 0 THEN Collects(c, r.sig) ELSE FailsWith(c, r.code)

(* A transaction of the wrong size, or one Glaive could not compare, is     *)
(* refused without a relay.                                                 *)
Reject(c) ==
    /\ at[c].step = "ready" /\ RefusedUnsent(Transport(c), c)
    /\ FailsWith(c, 400)
    /\ UNCHANGED <<legs, batch, sent, took, refused, holder, link, opened>>

GoesOut(c) == sent' = [sent EXCEPT ![c] = [i \in 1..MaxBatch |->
                           @[i] + IF i \in Slice(c) THEN 1 ELSE 0]]

(* One request over HTTP, gRPC or Node1's QUIC: posted, and answered or not. *)
Exchange(c, a, taken, confirms) ==
    /\ at[c].step = "ready"
    /\ Transport(c) \notin Persistent \cup OneWay
    /\ ~RefusedUnsent(Transport(c), c)
    /\ confirms \/ Transport(c) = "default"
    /\ Honest(a, taken)
    /\ GoesOut(c)
    /\ took' = [took EXCEPT ![c] = IF taken THEN @ \cup Slice(c) ELSE @]
    /\ refused' = [refused EXCEPT ![c] = IF Refuses(a) THEN @ \cup Slice(c) ELSE @]
    /\ \E r \in {Outcome(Transport(c), a, c, confirms)} : Concludes(c, r)
    /\ UNCHANGED <<legs, batch, holder, link, opened>>

(* A connection of its own, the transaction on it and no answer: Soyas,     *)
(* Speedlanding, Solami, LunarLander, Glaive.  The last two take a          *)
(* connection the peer ends for a transaction that was sent.                *)
Shoot(c, connected, written, taken) ==
    /\ at[c].step = "ready"
    /\ Transport(c) \in OneWay /\ ~RefusedUnsent(Transport(c), c)
    /\ written => connected
    /\ connected /\ ~written => Transport(c) \in {"lunar quic", "glaive quic"}
    /\ taken => written
    /\ IF written THEN GoesOut(c) ELSE UNCHANGED sent
    /\ took' = [took EXCEPT ![c] = IF taken THEN @ \cup Slice(c) ELSE @]
    /\ IF connected THEN Concludes(c, OwnSignature(c)) ELSE FailsWith(c, Broken)
    /\ UNCHANGED <<legs, batch, refused, holder, link, opened>>

---------------------------------------------------------------------------
(* The persistent connection: taken under the client's lock, made when      *)
(* there is none, dropped and made once more when a request fails.          *)

(* Faulty variant: the connection is used without the lock. *)
LockFree(c) ==
    /\ at[c].step = "ready"
    /\ Transport(c) \in Persistent /\ ~RefusedUnsent(Transport(c), c)
    /\ holder' = c
    /\ at' = [at EXCEPT ![c].step = "connect", ![c].again = FALSE]
    /\ UNCHANGED <<legs, batch, done, sent, took, refused, result, link, opened>>

Lock(c) ==
    /\ at[c].step = "ready"
    /\ Transport(c) \in Persistent /\ ~RefusedUnsent(Transport(c), c)
    /\ holder = Nobody
    /\ holder' = c
    /\ at' = [at EXCEPT ![c].step = "connect", ![c].again = FALSE]
    /\ UNCHANGED <<legs, batch, done, sent, took, refused, result, link, opened>>

Leave == IF link = Nobody THEN 0 ELSE 1

(* Temporal keeps what it has; Astralane drops a connection it saw end. *)
Connect(c) ==
    /\ at[c].step = "connect"
    /\ IF link = Open \/ (link # Nobody /\ Transport(c) = "temporal quic")
       THEN /\ at' = [at EXCEPT ![c].step = "send"]
            /\ UNCHANGED <<link, opened>>
       ELSE /\ at' = [at EXCEPT ![c].step = "opening"]
            /\ link' = Nobody
            /\ opened' = opened - Leave
    /\ UNCHANGED <<legs, batch, done, sent, took, refused, result, holder>>

Opened(c) ==
    /\ at[c].step = "opening"
    /\ link' = Open
    /\ opened' = opened + 1
    /\ at' = [at EXCEPT ![c].step = "send"]
    /\ UNCHANGED <<legs, batch, done, sent, took, refused, result, holder>>

(* A failure the first time drops the connection and tries once more, under *)
(* the lock; the second leaves the lock and the connection as it is.        *)
Trouble(c, code) ==
    IF WorthResending(code) /\ ~at[c].again
    THEN /\ link' = Nobody
         /\ opened' = opened - Leave
         /\ at' = [at EXCEPT ![c].step = "connect", ![c].again = TRUE]
         /\ UNCHANGED <<holder, result, done>>
    ELSE /\ holder' = Nobody
         /\ FailsWith(c, code)
         /\ UNCHANGED <<link, opened>>

CannotOpen(c) ==
    /\ at[c].step = "opening"
    /\ Trouble(c, Broken)
    /\ UNCHANGED <<legs, batch, sent, took, refused>>

(* On a connection that ended Astralane raises what it ended with, before   *)
(* anything is written; Temporal waits for an answer that does not come.    *)
SendOnDead(c) ==
    /\ at[c].step = "send" /\ link # Open
    /\ Trouble(c, IF Transport(c) = "temporal quic" \/ link = Nobody THEN Broken ELSE link)
    /\ refused' = [refused EXCEPT ![c] =
           IF Transport(c) = "astralane quic" /\ link \in 400..407 THEN @ \cup Slice(c) ELSE @]
    /\ UNCHANGED <<legs, batch, sent, took>>

(* The request goes out.  Temporal's is answered with a status; Astralane's *)
(* counts as sent unless the connection ends under it.                      *)
SendOnOpen(c, status, taken) ==
    /\ at[c].step = "send" /\ link = Open
    /\ IF Transport(c) = "temporal quic"
       THEN Honest([status |-> status, body |-> "none"], taken)
       ELSE ~taken     \* nothing tells, and nothing depends on it
    /\ GoesOut(c)
    /\ took' = [took EXCEPT ![c] = IF taken THEN @ \cup Slice(c) ELSE @]
    /\ refused' = [refused EXCEPT ![c] =
           IF status \in 400..407 THEN @ \cup Slice(c) ELSE @]
    /\ IF status = 200
       THEN /\ holder' = Nobody
            /\ Concludes(c, OwnSignature(c))
            /\ UNCHANGED <<link, opened>>
       ELSE Trouble(c, status)
    /\ UNCHANGED <<legs, batch>>

(* The peer ends the connection while calls are under way; Astralane's says *)
(* whether it refuses the caller.                                           *)
PeerCloses(code) ==
    /\ link = Open
    /\ code = 401 => legs[1] = "astralane quic"
    /\ \E c \in Senders : at[c].step \notin {"idle", "end"}
    /\ link' = code
    /\ UNCHANGED <<legs, batch, at, done, sent, took, refused, result, holder, opened>>

RelayNext ==
    \/ \E c \in Senders, b \in Batches : Submit(c, b)
    \/ \E c \in Senders : Reject(c)
    \/ \E c \in Senders, taken, confirms \in BOOLEAN : \E a \in Answers(Transport(c)) :
           Exchange(c, a, taken, confirms)
    \/ \E c \in Senders, connected, written, taken \in BOOLEAN :
           Shoot(c, connected, written, taken)
    \/ \E c \in Senders : Lock(c)
    \/ \E c \in Senders : Connect(c)
    \/ \E c \in Senders : Opened(c)
    \/ \E c \in Senders : CannotOpen(c)
    \/ \E c \in Senders : SendOnDead(c)
    \/ \E c \in Senders, status \in {200, 401, 503}, taken \in BOOLEAN :
           SendOnOpen(c, status, taken)
    \/ \E code \in {401, 503} : PeerCloses(code)

RelaySpec == RelayInit /\ [][RelayNext]_relayVars

---------------------------------------------------------------------------
(* A call that returned over a transport with answers had every one of its *)
(* transactions taken by a relay and reports one signature each; a wire    *)
(* submit returns the signature of its own transaction.  (FlashBlock's     *)
(* answer to a list may be one text for all.)                              *)
SuccessCoversBatch ==
    \A c \in Senders : result[c] = 0 =>
        /\ Acknowledging(Transport(c)) => took[c] = 1..batch[c].n
        /\ Transport(c) # "flash" => Len(done[c]) = batch[c].n
        /\ batch[c].wire => done[c] = <<"own">>

(* A refusal is final: what a relay refused for its content or its sender  *)
(* is not sent again by that call, over no transport.                      *)
RefusalIsFinal ==
    [][\A c \in Senders : \A i \in refused[c] : sent'[c][i] = sent[c][i]]_relayVars

(* However calls, failures and reconnections interleave, the client holds  *)
(* at most one connection, and it is the one its calls use.                *)
OneConnection == opened = (IF link = Nobody THEN 0 ELSE 1)

=============================================================================
