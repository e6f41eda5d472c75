--------------------------- MODULE WebSocketHandle ---------------------------
(***************************************************************************)
(* A WebSocketSubscription (common/subscription_handle.py): its transport,  *)
(* the readers that receive from it, the queue, the runners that hand       *)
(* messages to the callback, and the application that connects, pauses,     *)
(* resumes and stops it, from outside or from a callback.  Tasks interleave *)
(* where the code awaits.  self._ws, self._session, self._reader and        *)
(* self._task name the last of each; what they no longer name runs on.      *)
(*                                                                         *)
(* A connect() that gets through makes reader c and, if none runs for the   *)
(* handle, runner c.  Reader 0 stands for connect() itself, which opens a   *)
(* transport the way a reader does.  A link is a client session with the    *)
(* connection over it; 0 is none.                                           *)
(***************************************************************************)
EXTENDS Integers, FiniteSets

CONSTANTS
    BufferSize,     \* SubscriptionConfig.buffer_size
    MaxReconnects,  \* SubscriptionConfig.max_reconnect_attempts
    OneShot,        \* a signature subscription: the final answer ends it
    MaxTasks,       \* bound: readers, and runners, alive at a time
    MaxLinks,       \* bound: sessions opened
    MaxMessages,    \* bound: notifications taken
    MaxBreaks       \* bound: connections that break

VARIABLES
    handleState, \* self._state
    ws,         \* self._ws
    session,    \* self._session
    open,       \* links whose session is open
    links,      \* links made so far
    broken,     \* links whose connection broke
    reader,     \* [Readers -> where the reader stands, or "none"]
    mine,       \* [Readers -> the link it opens, reads or closes]
    current,    \* self._reader
    runner,     \* [Tasks -> where the runner stands, or "none"]
    serving,    \* self._task
    queue,      \* messages in the queue
    tries,      \* _reconnect_attempts
    lock,       \* who holds _transport_lock
    halfway,    \* has the stop() that holds it cancelled the reader
    told,       \* [arrived, delivered, dropped]
    past        \* history: what has happened, see Events

transport == <<ws, session, open, links, broken>>
readers == <<reader, mine, current>>
runners == <<runner, serving>>
handleVars == <<handleState, transport, readers, runners, queue, tries, lock, halfway, told, past>>

ASSUME HandleAssumption ==
    BufferSize \in Nat \ {0} /\ MaxReconnects \in Nat /\ MaxTasks \in Nat /\ MaxLinks \in Nat

Tasks == 1..MaxTasks
Readers == 0..MaxTasks

Unlocked == [who |-> "nobody", task |-> 0]
Connecting == [who |-> "connect", task |-> 0]
Application == [who |-> "application", task |-> 0]
Reader(c) == [who |-> "reader", task |-> c]
Runner(c) == [who |-> "runner", task |-> c]

(* "stopped": a stop() the application called has returned, and it has not  *)
(* connected since; "asked": it called stop(), "from error": in its error   *)
(* callback; "closed": the handle was closed once; "cut": a reader was      *)
(* cancelled while it closed a session; "overlap": connect() began while a  *)
(* reader was alive.                                                        *)
Events == {"stopped", "asked", "from error", "closed", "cut", "overlap"}

HandleInit ==
    /\ handleState = "PENDING"
    /\ ws = 0 /\ session = 0 /\ open = {} /\ links = 0 /\ broken = {}
    /\ reader = [c \in Readers |-> "none"] /\ mine = [c \in Readers |-> 0] /\ current = 0
    /\ runner = [c \in Tasks |-> "none"] /\ serving = 0
    /\ queue = 0 /\ tries = 0
    /\ lock = Unlocked /\ halfway = FALSE
    /\ told = [arrived |-> 0, delivered |-> 0, dropped |-> 0]
    /\ past = {}

---------------------------------------------------------------------------
(* _open_transport(): a session, a connection over it, the subscription.    *)

Opens(c) ==
    /\ links < MaxLinks
    /\ links' = links + 1 /\ session' = links + 1 /\ open' = open \cup {links + 1}
    /\ mine' = [mine EXCEPT ![c] = links + 1]
    /\ reader' = [reader EXCEPT ![c] = "opening"]
    /\ UNCHANGED <<ws, broken, current>>

Free(c) == reader[c] = "none" /\ runner[c] = "none"

(* connect() does something on an open handle without a connection.         *)
ConnectBegins ==
    /\ lock = Unlocked /\ handleState # "CLOSED" /\ ws = 0
    /\ \E c \in Tasks : Free(c)
    /\ Opens(0)
    /\ lock' = Connecting
    /\ past' = (past \ {"stopped"})
                  \cup (IF \E c \in Tasks : reader[c] # "none" THEN {"overlap"} ELSE {})
    /\ UNCHANGED <<handleState, runners, queue, tries, halfway, told>>

WsConnected(c) ==
    /\ reader[c] = "opening" /\ mine[c] \in open
    /\ ws' = mine[c]
    /\ reader' = [reader EXCEPT ![c] = "subscribing"]
    /\ UNCHANGED <<handleState, session, open, links, broken, mine, current, runners, queue, tries,
                   lock, halfway, told, past>>

(* The acknowledgement comes from whatever self._ws is by then.  On a       *)
(* handle that was closed meanwhile start() raises, and the transport stays. *)
Connected ==
    /\ reader[0] = "subscribing" /\ ws # 0
    /\ tries' = 0 /\ lock' = Unlocked
    /\ IF handleState = "CLOSED"
       THEN /\ reader' = [reader EXCEPT ![0] = "none"]
            /\ UNCHANGED <<handleState, current, runners>>
       ELSE \E c \in Tasks :
            /\ Free(c)
            /\ handleState' = "ACTIVE"
            /\ reader' = [reader EXCEPT ![0] = "none", ![c] = "starting"] /\ current' = c
            /\ IF serving # 0 /\ runner[serving] # "none"
               THEN UNCHANGED runners
               ELSE runner' = [runner EXCEPT ![c] = "ready"] /\ serving' = c
    /\ UNCHANGED <<transport, mine, queue, halfway, told, past>>

(* _close_transport() closes what the fields name, whoever opened it.       *)
ClosesTransport ==
    /\ ws' = 0 /\ session' = 0 /\ open' = open \ {session}
    /\ broken' = broken \cup ({ws} \ {0, session})
    /\ UNCHANGED links

ConnectFails ==
    /\ reader[0] \in {"opening", "subscribing"}
    /\ ClosesTransport
    /\ reader' = [reader EXCEPT ![0] = "none"] /\ lock' = Unlocked
    /\ UNCHANGED <<handleState, mine, current, runners, queue, tries, halfway, told, past>>

Pause ==
    /\ handleState = "ACTIVE" /\ handleState' = "PAUSED"
    /\ UNCHANGED <<transport, readers, runners, queue, tries, lock, halfway, told, past>>

Resume ==
    /\ handleState = "PAUSED" /\ handleState' = "ACTIVE"
    /\ UNCHANGED <<transport, readers, runners, queue, tries, lock, halfway, told, past>>

---------------------------------------------------------------------------
(* A reader: _receive().                                                    *)

(* Reads from what self._ws is now, if the handle is not closed.            *)
Reads(c) ==
    /\ reader' = [reader EXCEPT ![c] = IF handleState = "CLOSED" THEN "none" ELSE "reading"]
    /\ mine' = [mine EXCEPT ![c] = ws]
    /\ UNCHANGED <<transport, current>>

(* Lets go of the fields, and begins to close what they named.              *)
LetsGo(c) ==
    /\ reader' = [reader EXCEPT ![c] = "closing"]
    /\ mine' = [mine EXCEPT ![c] = session]
    /\ ws' = 0 /\ session' = 0
    /\ broken' = broken \cup ({ws} \ {0, session})
    /\ UNCHANGED <<open, links, current>>

ReaderStarts(c) ==
    /\ reader[c] = "starting"
    /\ IF handleState # "CLOSED" /\ ws = 0 THEN LetsGo(c) ELSE Reads(c)
    /\ UNCHANGED <<handleState, runners, queue, tries, lock, halfway, told, past>>

Up(c) == mine[c] \in open \ broken

(* A notification into the queue: a full one drops it, and counts that; a   *)
(* closed handle takes none.                                                *)
Notified(c, final) ==
    /\ reader[c] = "reading" /\ Up(c) /\ told.arrived < MaxMessages
    /\ final => OneShot
    /\ queue' = IF handleState # "CLOSED" /\ queue < BufferSize THEN queue + 1 ELSE queue
    /\ told' = [told EXCEPT !.arrived = @ + 1,
                   !.dropped = IF handleState = "CLOSED" \/ queue < BufferSize THEN @ ELSE @ + 1]
    /\ reader' = [reader EXCEPT ![c] = IF final THEN "joining" ELSE "reading"]
    /\ UNCHANGED <<handleState, transport, mine, current, runners, tries, lock, halfway, past>>

Breaks(c) ==
    /\ reader[c] = "reading" /\ Up(c) /\ Cardinality(broken) < MaxBreaks
    /\ broken' = broken \cup {mine[c]}
    /\ UNCHANGED <<handleState, ws, session, open, links, readers, runners, queue, tries, lock,
                   halfway, told, past>>

(* Its connection ended, or another reader waits for the same one.          *)
ReaderLosesIt(c) ==
    /\ reader[c] = "reading"
    /\ ~Up(c) \/ \E d \in Tasks \ {c} : reader[d] = "reading" /\ mine[d] = mine[c]
    /\ \/ LetsGo(c)
       \/ /\ handleState = "CLOSED"
          /\ reader' = [reader EXCEPT ![c] = "none"]
          /\ UNCHANGED <<transport, mine, current>>
    /\ UNCHANGED <<handleState, runners, queue, tries, lock, halfway, told, past>>

(* The transport is closed; _handle_error() awaits the error callback.      *)
HandleError(c) ==
    /\ reader[c] = "closing"
    /\ open' = open \ {mine[c]}
    /\ IF handleState = "CLOSED"
       THEN reader' = [reader EXCEPT ![c] = "none"] /\ UNCHANGED handleState
       ELSE reader' = [reader EXCEPT ![c] = "callback"] /\ handleState' = "ERROR"
    /\ UNCHANGED <<ws, session, links, broken, mine, current, runners, queue, tries, lock,
                   halfway, told, past>>

(* Another attempt after a delay, whatever the callback did to the handle.  *)
CallbackReturns(c) ==
    /\ reader[c] = "callback" /\ lock # Reader(c)
    /\ IF tries < MaxReconnects
       THEN /\ tries' = tries + 1 /\ reader' = [reader EXCEPT ![c] = "waiting"]
            /\ UNCHANGED <<handleState, past>>
       ELSE /\ handleState' = "CLOSED" /\ reader' = [reader EXCEPT ![c] = "ending"]
            /\ past' = past \cup {"closed"} /\ UNCHANGED tries
    /\ UNCHANGED <<transport, mine, current, runners, queue, lock, halfway, told>>

(* The delay is over: whatever the state was meanwhile, it is active again. *)
Reopens(c) ==
    /\ reader[c] = "waiting"
    /\ handleState' = "ACTIVE" /\ Opens(c)
    /\ UNCHANGED <<runners, queue, tries, lock, halfway, told, past>>

Reopened(c) ==
    /\ reader[c] = "subscribing" /\ ws # 0
    /\ tries' = 0 /\ Reads(c)
    /\ UNCHANGED <<handleState, runners, queue, lock, halfway, told, past>>

ReopenFails(c) ==
    /\ reader[c] \in {"opening", "subscribing"}
    /\ LetsGo(c)
    /\ UNCHANGED <<handleState, runners, queue, tries, lock, halfway, told, past>>

(* The final answer of a signature: queue.join(), then stop().              *)
Joined(c) ==
    /\ reader[c] = "joining" /\ queue = 0
    /\ \A d \in Tasks : runner[d] \notin {"holding", "calling"}
    /\ reader' = [reader EXCEPT ![c] = "ending"]
    /\ UNCHANGED <<handleState, transport, mine, current, runners, queue, tries, lock, halfway,
                   told, past>>

---------------------------------------------------------------------------
(* A runner: _run().                                                        *)

Takes(c) ==
    /\ runner[c] = "ready" /\ queue > 0
    /\ queue' = queue - 1 /\ runner' = [runner EXCEPT ![c] = "holding"]
    /\ UNCHANGED <<handleState, transport, readers, serving, tries, lock, halfway, told, past>>

Delivers(c) ==
    /\ runner[c] = "holding" /\ handleState \notin {"PAUSED", "CLOSED"}
    /\ told' = [told EXCEPT !.delivered = @ + 1]
    /\ runner' = [runner EXCEPT ![c] = "calling"]
    /\ UNCHANGED <<handleState, transport, readers, serving, queue, tries, lock, halfway, past>>

Returns(c) ==
    /\ runner[c] = "calling" /\ lock # Runner(c)
    /\ runner' = [runner EXCEPT ![c] = IF handleState = "CLOSED" THEN "none" ELSE "ready"]
    /\ UNCHANGED <<handleState, transport, readers, serving, queue, tries, lock, halfway, told, past>>

RunnerEnds(c) ==
    /\ runner[c] \in {"ready", "holding"} /\ handleState = "CLOSED"
    /\ runner' = [runner EXCEPT ![c] = "none"]
    /\ UNCHANGED <<handleState, transport, readers, serving, queue, tries, lock, halfway, told, past>>

---------------------------------------------------------------------------
(* stop(): lock, unsubscribe (awaited), close, cancel and await the reader,  *)
(* then the runner, unless it is one of them that stops; the transport.     *)

StopBegins(w) ==
    /\ lock = Unlocked
    /\ lock' = w
    /\ past' = past \cup (CASE w = Application \/ w.who = "runner" -> {"asked"}
                            [] w.who = "reader" /\ reader[w.task] = "callback" -> {"asked", "from error"}
                            [] OTHER -> {})
    /\ UNCHANGED <<handleState, transport, readers, runners, queue, tries, halfway, told>>

Stop == StopBegins(Application)
CallbackStops(c) == runner[c] = "calling" /\ StopBegins(Runner(c))
ReaderStops(c) == reader[c] \in {"callback", "ending"} /\ StopBegins(Reader(c))

Stopping == lock \notin {Unlocked, Connecting}

(* Faulty variant: the reader is not cancelled. *)
StopClosesHalf ==
    /\ Stopping /\ ~halfway
    /\ handleState' = "CLOSED" /\ halfway' = TRUE
    /\ past' = past \cup {"closed"}
    /\ UNCHANGED <<transport, readers, runners, queue, tries, lock, told>>

(* A reader cancelled while it opens a transport closes it; one cancelled   *)
(* while it closes one leaves the session open.                             *)
StopCloses ==
    /\ Stopping /\ ~halfway
    /\ handleState' = "CLOSED" /\ halfway' = TRUE
    /\ IF current = 0 \/ lock = Reader(current)
       THEN /\ past' = past \cup {"closed"}
            /\ UNCHANGED <<transport, reader>>
       ELSE /\ reader' = [reader EXCEPT ![current] = "none"]
            /\ past' = past \cup {"closed"}
                   \cup (IF reader[current] = "closing" THEN {"cut"} ELSE {})
            /\ IF reader[current] \in {"opening", "subscribing"} THEN ClosesTransport
                                                                 ELSE UNCHANGED transport
    /\ UNCHANGED <<mine, current, runners, queue, tries, lock, told>>

StopEnds ==
    /\ Stopping /\ halfway
    /\ lock' = Unlocked /\ halfway' = FALSE
    /\ runner' = IF serving = 0 \/ lock = Runner(serving) THEN runner
                 ELSE [runner EXCEPT ![serving] = "none"]
    /\ current' = 0 /\ serving' = 0
    /\ ClosesTransport
    /\ IF lock.who = "reader" /\ reader[lock.task] = "ending"
       THEN reader' = [reader EXCEPT ![lock.task] = "none"] /\ UNCHANGED past
       ELSE past' = past \cup {"stopped"} /\ UNCHANGED reader
    /\ UNCHANGED <<handleState, mine, queue, tries, told>>

HandleNext ==
    \/ ConnectBegins \/ Connected \/ ConnectFails \/ Pause \/ Resume
    \/ \E c \in Readers : WsConnected(c)
    \/ \E c \in Tasks :
          \/ ReaderStarts(c) \/ Breaks(c) \/ ReaderLosesIt(c)
          \/ \E final \in BOOLEAN : Notified(c, final)
          \/ HandleError(c) \/ CallbackReturns(c)
          \/ Reopens(c) \/ Reopened(c) \/ ReopenFails(c) \/ Joined(c)
          \/ Takes(c) \/ Delivers(c) \/ Returns(c) \/ RunnerEnds(c)
          \/ CallbackStops(c) \/ ReaderStops(c)
    \/ Stop \/ StopCloses \/ StopEnds

HandleSpec == HandleInit /\ [][HandleNext]_handleVars

---------------------------------------------------------------------------
(* What stop() of WebSocketSubscription achieves once it has returned, as    *)
(* long as the application did not call connect() while a reader was        *)
(* reconnecting: no runner has a message left to hand out; and unless it    *)
(* was called from the error callback, the handle stays closed, no reader   *)
(* lives, the handle holds no connection, and no session stays open but the *)
(* one whose closing the stop() may have cut short.                         *)
StoppedForGood ==
    "stopped" \in past /\ "overlap" \notin past =>
        /\ \A c \in Tasks : runner[c] \notin {"ready", "holding"}
        /\ "from error" \notin past =>
               /\ handleState = "CLOSED" /\ ws = 0 /\ session = 0
               /\ \A c \in Readers : reader[c] = "none"
               /\ "cut" \notin past => open = {}
               /\ \A k, l \in open : k = l

InHand == IF \E c \in Tasks : runner[c] = "holding" THEN 1 ELSE 0

(* Whatever overlaps: until the handle is closed no notification is lost    *)
(* without being counted, it was delivered, is queued, in hand, or counted  *)
(* as dropped; and a handle that closes itself on the final answer has      *)
(* delivered all that came.                                                 *)
NothingLostSilently ==
    /\ "closed" \notin past =>
           told.arrived = told.delivered + told.dropped + queue + InHand
    /\ OneShot /\ handleState = "CLOSED" /\ "asked" \notin past /\ broken = {} =>
           told.arrived = told.delivered + told.dropped

\* The two promises of a handle together.
HandleKeepsItsWord == StoppedForGood /\ NothingLostSilently

(* A handle whose stop() has returned stays closed until the application    *)
(* connects it anew, from which callback ever it was stopped: the test of a *)
(* stop() in the message callback finds it CLOSED, and its start() refused. *)
StopIsFinal == "stopped" \in past => handleState = "CLOSED"

=============================================================================
