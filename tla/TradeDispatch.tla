--------------------------- MODULE TradeDispatch ---------------------------
(***************************************************************************)
(* Handing one transaction to several providers: SwqosManager              *)
(* (swqos/providers.py) under the four submit modes of AsyncTradeExecutor  *)
(* (trading/core/async_executor.py), and the sequential and parallel        *)
(* submission of TradeExecutor (trading/executor.py) and HotPathExecutor    *)
(* (hotpath/executor.py).                                                   *)
(*                                                                         *)
(* A job is one execute() call.  What a provider does with a submission is *)
(* abstracted to whether it took the transaction and whether it reports    *)
(* success; a report of success stands for a transaction taken, which is   *)
(* what SwqosRelays!SuccessCoversBatch says of the clients behind it.      *)
(* Placeholder providers send nothing.                                     *)
(***************************************************************************)
EXTENDS Integers, Sequences, FiniteSets
Seqs == INSTANCE SequencesExt

CONSTANTS
    Jobs,
    Providers,
    Placeholders,       \* the providers that only return a made-up signature
    DefaultProvider,    \* SwqosType.DEFAULT
    MaxConcurrent,      \* ExecutionConfig.max_concurrent
    RetryAttempts,      \* ExecutionConfig.retry_attempts, TradeConfig.max_retries
    MaxChanges,         \* bound: changes of the set of clients
    Unset

VARIABLES
    facade,     \* "manager", "executor" or "hotpath": who dispatches
    clients,    \* the clients, in the order they were added
    disabled,   \* the clients whose config is not enabled
    order,      \* SwqosManager._fallback_order
    praised,    \* providers with a success in their statistics
    permits,    \* free places of the semaphore
    changes,    \* changes made so far
    job         \* [Jobs -> its record]; stayed and removed: of the walk's list, who
                \* has been in it all through the walk, and how many have left it

dispatchVars == <<facade, clients, disabled, order, praised, permits, changes, job>>

ASSUME DispatchAssumption ==
    /\ MaxConcurrent \in Nat \ {0} /\ RetryAttempts \in Nat \ {0}
    /\ IsFiniteSet(Providers)
    /\ Placeholders \subseteq Providers /\ DefaultProvider \in Providers
    /\ Unset \notin {"success", "failed", "raised"} /\ Unset \notin Seq(Providers)

Modes == IF facade = "manager" THEN {"single", "parallel", "fallback", "broadcast"}
                               ELSE {"trade", "race"}
InTurn(mode) == mode \in {"single", "fallback", "trade"}

Present == Seqs!ToSet(clients)
Enabled == Present \ disabled

Idle == [mode |-> "none", step |-> "idle", attempt |-> 0, list |-> Unset, at |-> 0,
         flight |-> {}, asked |-> {}, took |-> {}, said |-> {}, stayed |-> {},
         removed |-> 0, result |-> Unset]

(* TradeConfig.__post_init__: the default client is never missing. *)
Configured(chosen) ==
    IF DefaultProvider \in Seqs!ToSet(chosen) THEN chosen ELSE Append(chosen, DefaultProvider)

DispatchInit ==
    /\ facade \in {"manager", "executor", "hotpath"}
    /\ \E chosen \in Seqs!SetToSeqs(Providers \ {DefaultProvider}) :
           clients = IF facade = "executor" THEN Configured(chosen) ELSE chosen
    /\ order = IF facade = "manager" THEN clients ELSE <<>>
    /\ disabled \in {{}} \cup {{p} : p \in Placeholders}
    /\ praised = {}
    /\ permits = MaxConcurrent
    /\ changes = 0
    /\ job = [j \in Jobs |-> Idle]

---------------------------------------------------------------------------
(* Clients come and go. *)

Walking == {j \in Jobs : job[j].mode = "fallback" /\ job[j].step = "running"}

AddClient(p) ==
    /\ facade = "manager" /\ p \notin Present /\ changes < MaxChanges
    /\ clients' = Append(clients, p)
    /\ order' = IF p \in Seqs!ToSet(order) THEN order ELSE Append(order, p)
    /\ changes' = changes + 1
    /\ UNCHANGED <<facade, disabled, praised, permits, job>>

(* A dict or a list without p, which is in it once at most. *)
Dropped(s, p) ==
    IF p \in Seqs!ToSet(s) THEN Seqs!RemoveAt(s, CHOOSE i \in DOMAIN s : s[i] = p) ELSE s

(* The walks over the manager's own list. *)
Sharing == {j \in Walking : job[j].list = Unset}

Gone(p) ==
    [j \in Jobs |-> IF j \in Sharing
                    THEN [job[j] EXCEPT !.stayed = @ \ {p}, !.removed = @ + 1]
                    ELSE [job[j] EXCEPT !.stayed = @ \ {p}]]

RemoveClient(p) ==
    /\ facade = "manager" /\ p \in Present /\ changes < MaxChanges
    /\ clients' = Dropped(clients, p)
    /\ order' = Dropped(order, p)
    /\ changes' = changes + 1
    /\ job' = Gone(p)
    /\ UNCHANGED <<facade, disabled, praised, permits>>

Wanted == Seqs!SetToSeqs(Providers)

(* Those of the wanted providers that are there, in the wanted order. *)
ThoseThere(wanted) ==
    {s \in Seqs!SetToSeqs(Seqs!ToSet(wanted) \cap Present) :
        \A i, k \in DOMAIN s : i < k =>
            \E a, b \in DOMAIN wanted : a < b /\ wanted[a] = s[i] /\ wanted[b] = s[k]}

(* A new list takes the place of the old one; a walk that is under way goes *)
(* on over the list it began with.                                          *)
SetFallbackOrder(wanted) ==
    /\ facade = "manager" /\ changes < MaxChanges
    /\ order' \in ThoseThere(wanted)
    /\ changes' = changes + 1
    /\ job' = [j \in Jobs |->
           IF j \in Sharing THEN [job[j] EXCEPT !.list = order] ELSE job[j]]
    /\ UNCHANGED <<facade, clients, disabled, praised, permits>>

(* add_swqos_client, remove_swqos_client *)
ExecutorAdds(p) ==
    /\ facade # "manager" /\ p \notin Present /\ changes < MaxChanges
    /\ clients' = IF facade = "executor" THEN Configured(Append(clients, p))
                                         ELSE Append(clients, p)
    /\ changes' = changes + 1
    /\ UNCHANGED <<facade, disabled, order, praised, permits, job>>

ExecutorRemoves(p) ==
    /\ facade # "manager" /\ p \in Present /\ changes < MaxChanges
    /\ clients' = Dropped(clients, p)
    /\ changes' = changes + 1
    /\ UNCHANGED <<facade, disabled, order, praised, permits, job>>

---------------------------------------------------------------------------
(* A job begins: it waits for a place, then asks its providers. *)

Execute(j, mode) ==
    /\ job[j].step = "idle" /\ mode \in Modes
    /\ job' = [job EXCEPT ![j] = [@ EXCEPT !.mode = mode, !.step = "waiting"]]
    /\ UNCHANGED <<facade, clients, disabled, order, praised, permits, changes>>

(* get_best_client: a provider with successes, or else the first one. *)
Best == IF Enabled \cap praised # {} THEN Enabled \cap praised
        ELSE {clients[i] : i \in {i \in DOMAIN clients :
                  clients[i] \in Enabled /\ \A k \in 1..(i - 1) : clients[k] \notin Enabled}}

(* Those a list of its own or the fallback list holds to be asked. *)
Due(list) == IF list = Unset THEN Seqs!ToSet(order) \cap Enabled ELSE Seqs!ToSet(list)

Begins(j, mode, list, targets) ==
    job' = [job EXCEPT ![j] = [@ EXCEPT !.step = "running", !.mode = mode, !.list = list,
                                        !.at = 0, !.asked = targets, !.flight = targets,
                                        !.stayed = Due(list), !.removed = 0]]

(* The place in AsyncTradeExecutor's semaphore; TradeExecutor has none. *)
Freed == IF facade = "manager" THEN permits + 1 ELSE permits

Ends(j, result) == [job EXCEPT ![j] = [@ EXCEPT !.step = "end", !.result = result]]

(* TradeExecutor with no client left builds them anew from its configuration. *)
Initialised == IF facade = "executor" /\ clients = <<>> THEN <<DefaultProvider>> ELSE clients

(* HotPathExecutor does not race a single client. *)
Races == facade = "executor" \/ Len(clients) > 1

(* TradeExecutor.execute_parallel: all at once; execute_trade: in turn. *)
RaceBegins(j) == Begins(j, "race", Unset, Seqs!ToSet(Initialised))
TradeBegins(j) == Begins(j, "trade", Initialised, {})

Admit(j) ==
    /\ job[j].step = "waiting"
    /\ facade = "manager" => permits > 0
    /\ permits' = IF facade = "manager" THEN permits - 1 ELSE permits
    /\ clients' = IF facade = "executor" THEN Initialised ELSE clients
    /\ LET mode == job[j].mode IN
       CASE mode = "fallback" -> Begins(j, mode, Unset, {})
         [] mode = "single" /\ Enabled # {} -> \E p \in Best : Begins(j, mode, <<p>>, {})
         [] mode \in {"parallel", "broadcast"} -> Begins(j, mode, Unset, Enabled)
         [] mode = "race" /\ Races -> RaceBegins(j)
         [] mode = "trade" \/ (mode = "race" /\ ~Races) -> TradeBegins(j)
         [] OTHER -> Begins(j, mode, <<>>, {})
    /\ UNCHANGED <<facade, disabled, order, praised, changes>>

---------------------------------------------------------------------------
(* One after the other: the best client, the fallback list (the manager's   *)
(* own list, by index), the snapshot of a TradeExecutor.                    *)

List(j) == IF job[j].list = Unset THEN order ELSE job[j].list

AskNext(j) ==
    /\ job[j].step = "running" /\ InTurn(job[j].mode) /\ job[j].flight = {}
    /\ job[j].at < Len(List(j))
    /\ LET p == List(j)[job[j].at + 1]
           asks == IF job[j].mode = "fallback" /\ p \notin Enabled THEN {} ELSE {p}
       IN job' = [job EXCEPT ![j] = [@ EXCEPT
                !.at = job[j].at + 1, !.flight = asks, !.asked = job[j].asked \cup asks]]
    /\ UNCHANGED <<facade, clients, disabled, order, praised, permits, changes>>

(* Faulty variant: the list is given up one provider too early. *)
RoundOverEarly(j) ==
    /\ job[j].step = "running" /\ InTurn(job[j].mode) /\ job[j].flight = {}
    /\ job[j].at + 1 >= Len(List(j))
    /\ job' = Ends(j, "failed")
    /\ permits' = Freed
    /\ UNCHANGED <<facade, clients, disabled, order, praised, changes>>

(* Every provider of the list failed: once more after a pause, or the job   *)
(* has failed.  A single submission with nobody to send it fails at once.   *)
RoundOver(j) ==
    /\ job[j].step = "running" /\ InTurn(job[j].mode) /\ job[j].flight = {}
    /\ job[j].at >= Len(List(j))
    /\ IF job[j].attempt + 1 < RetryAttempts /\ (job[j].mode = "fallback" \/ List(j) # <<>>)
       THEN /\ job' = [job EXCEPT ![j] = [@ EXCEPT
                   !.step = "resting", !.attempt = job[j].attempt + 1]]
            /\ UNCHANGED permits
       ELSE /\ job' = Ends(j, "failed")
            /\ permits' = Freed
    /\ UNCHANGED <<facade, clients, disabled, order, praised, changes>>

(* The pause is over: the walk begins anew, over the manager's list as it   *)
(* is by then.                                                              *)
Resumes(j) ==
    /\ job[j].step = "resting"
    /\ LET list == IF job[j].mode = "fallback" THEN Unset ELSE job[j].list
       IN  job' = [job EXCEPT ![j] = [@ EXCEPT !.step = "running", !.at = 0, !.asked = {},
                       !.list = list, !.stayed = Due(list), !.removed = 0]]
    /\ UNCHANGED <<facade, clients, disabled, order, praised, permits, changes>>

(* Faulty variant: the made-up signature of a placeholder is a success. *)
ReportedPlaceholder(p, ok) == ok

(* A provider answers.  TransactionResult.__post_init__ turns the made-up   *)
(* signature of a placeholder into a failure; its statistics count a        *)
(* success all the same.                                                    *)
Reported(p, ok) == ok /\ p \notin Placeholders

Counted(p, ok) == IF ok \/ p \in Placeholders THEN praised \cup {p} ELSE praised

Decides(j, said, flight) ==
    CASE InTurn(job[j].mode) -> said # {}
      [] job[j].mode \in {"parallel", "race"} -> said # {} \/ flight = {}
      [] OTHER -> flight = {}

Verdict(j, said) ==
    IF job[j].mode = "broadcast"
    THEN IF 2 * Cardinality(said) > Cardinality(job[j].asked) THEN "success" ELSE "failed"
    ELSE IF said # {} THEN "success" ELSE "failed"

Answer(j, p, took, ok) ==
    /\ p \in job[j].flight
    /\ ok => took \/ p \in Placeholders
    /\ took => p \notin Placeholders
    /\ praised' = Counted(p, ok)
    /\ LET said == job[j].said \cup (IF Reported(p, ok) THEN {p} ELSE {})
           flight == job[j].flight \ {p}
           over == job[j].step = "running" /\ Decides(j, said, flight)
       IN  /\ job' = [job EXCEPT ![j] = [@ EXCEPT
                 !.flight = flight, !.said = said,
                 !.took = job[j].took \cup (IF took THEN {p} ELSE {}),
                 !.step = IF over THEN "end" ELSE job[j].step,
                 !.result = IF over THEN Verdict(j, said) ELSE job[j].result]]
           /\ permits' = IF over THEN Freed ELSE permits
    /\ UNCHANGED <<facade, clients, disabled, order, changes>>

(* A client raises instead of answering.  submit_with_fallback() has nothing *)
(* to catch it: the walk ends, with it the job and its retries.  Everybody   *)
(* else takes it for a failure: an answer that is not ok.                    *)
Raises(j, p, took) ==
    /\ p \in job[j].flight /\ job[j].mode = "fallback"
    /\ took => p \notin Placeholders
    /\ job' = [job EXCEPT ![j] = [@ EXCEPT
           !.flight = {}, !.step = "end", !.result = "raised",
           !.took = job[j].took \cup (IF took THEN {p} ELSE {})]]
    /\ permits' = Freed
    /\ UNCHANGED <<facade, clients, disabled, order, praised, changes>>

(* HotPathExecutor refuses to send while its blockhash is not fresh. *)
StaleBlockhash(j) ==
    /\ facade = "hotpath" /\ job[j].step = "waiting"
    /\ job' = Ends(j, "failed")
    /\ UNCHANGED <<facade, clients, disabled, order, praised, permits, changes>>

(* Nobody to ask: the job ends at once. *)
NobodyToAsk(j) ==
    /\ job[j].step = "running" /\ ~InTurn(job[j].mode) /\ job[j].flight = {}
    /\ job' = Ends(j, "failed")
    /\ permits' = Freed
    /\ UNCHANGED <<facade, clients, disabled, order, praised, changes>>

(* The timeout of a single submission, or the deadline of a parallel round: *)
(* what is still running is cancelled, wherever the transaction got to.     *)
TimesOut(j, took) ==
    /\ job[j].step = "running" /\ job[j].flight # {}
    /\ job[j].mode \in {"single", "parallel"}
    /\ took \subseteq job[j].flight \ Placeholders
    /\ IF job[j].mode = "single"
       THEN /\ job' = [job EXCEPT ![j] = [@ EXCEPT !.flight = {}, !.took = job[j].took \cup took]]
            /\ UNCHANGED permits
       ELSE /\ job' = [job EXCEPT ![j] = [@ EXCEPT !.flight = {}, !.took = job[j].took \cup took,
                   !.step = "end", !.result = "failed"]]
            /\ permits' = Freed
    /\ UNCHANGED <<facade, clients, disabled, order, praised, changes>>

DispatchNext ==
    \/ \E p \in Providers : AddClient(p)
    \/ \E p \in Providers : RemoveClient(p)
    \/ \E p \in Providers : ExecutorAdds(p)
    \/ \E p \in Providers : ExecutorRemoves(p)
    \/ \E wanted \in Wanted : SetFallbackOrder(wanted)
    \/ \E j \in Jobs : \E mode \in Modes : Execute(j, mode)
    \/ \E j \in Jobs : Admit(j)
    \/ \E j \in Jobs : AskNext(j)
    \/ \E j \in Jobs : RoundOver(j)
    \/ \E j \in Jobs : Resumes(j)
    \/ \E j \in Jobs, p \in Providers, took, ok \in BOOLEAN : Answer(j, p, took, ok)
    \/ \E j \in Jobs, p \in Providers, took \in BOOLEAN : Raises(j, p, took)
    \/ \E j \in Jobs : StaleBlockhash(j)
    \/ \E j \in Jobs : NobodyToAsk(j)
    \/ \E j \in Jobs : \E took \in SUBSET job[j].flight : TimesOut(j, took)

DispatchSpec == DispatchInit /\ [][DispatchNext]_dispatchVars

---------------------------------------------------------------------------
(* A success is reported only for a transaction a provider took; a         *)
(* broadcast only when more than half of those it asked took it.           *)
DispatchSuccessIsReal ==
    \A j \in Jobs : job[j].result = "success" =>
        /\ job[j].took # {}
        /\ job[j].mode = "broadcast" => 2 * Cardinality(job[j].took) > Cardinality(job[j].asked)

(* A walk whose providers all answered gives up only after asking, in its   *)
(* last round, every provider that was in its list (and, of the fallback    *)
(* list, enabled and not removed) all through that round, but for one at    *)
(* most for each client removed from under it: submit_with_fallback()       *)
(* iterates over the very list remove_client() shortens.                    *)
GivesUpAfterAll ==
    \A j \in Jobs : job[j].mode \in {"fallback", "trade"} /\ job[j].result = "failed" =>
        Cardinality(job[j].stayed \ job[j].asked) <= job[j].removed

(* The result of a dispatched job, success or failure, is what the          *)
(* providers made of it.                                                    *)
DispatchTellsTruth == DispatchSuccessIsReal /\ GivesUpAfterAll

=============================================================================
