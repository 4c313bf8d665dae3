------------------------------- MODULE Webhook -------------------------------
(***************************************************************************)
(* The webhook server: it reads the contract's event stream from a cursor, *)
(* hands every message to a handler of its own, and saves the cursor when  *)
(* a handler ends.  Handlers overlap: nothing waits for the one before.    *)
(*                                                                         *)
(* Events are numbered in the order of the stream; the number stands for   *)
(* the paging token.  A handler moves at its awaits.  The memory store's   *)
(* has and add run without anything in between; those of the Redis store   *)
(* are two calls, each of which may fail, and then the handler ends.  A    *)
(* delivery that is never answered has no timeout: its handler waits until *)
(* the run ends.  Messages without a token are dropped and left out.       *)
(***************************************************************************)
EXTENDS Integers, FiniteSets

CONSTANTS
    Handlers,    \* bound of the model: handlers in flight at once
    MAX_RETRIES, \* attempts to deliver an event
    Stores,      \* the idempotency stores the server may be built with
    FromNow,     \* CURSOR is not set: without a file, the stream starts now
    MaxEvents,   \* bound of the model: events published
    MaxFaults,   \* bound of the model: connections lost and processes ended
    NoEntry

ASSUME WebhookAssumption ==
    /\ MAX_RETRIES \in Nat \ {0}
    /\ Stores \subseteq {"memory", "redis"}
    /\ FromNow \in BOOLEAN
    /\ {MaxEvents, MaxFaults} \subseteq Nat

VARIABLES
    published,   \* how many events the contract has published
    running,     \* the process runs
    stream,      \* the last event the connection sent, NoEntry without one
    handler,     \* the messages being handled
    store,       \* which idempotency store the server was built with
    seen,        \* what it holds
    cursor_file, \* .webhook-cursor
    arrived,     \* what reached WEBHOOK_URL: how often each event, at most twice
    acknowledged, \* history: events whose delivery was answered with success
    given_up,    \* history: events that MAX_RETRIES attempts did not deliver
    begun,       \* history: how often each event was handed on in this run, at most twice
    hung,        \* events whose delivery is never answered in this run
    lost,        \* history: events that were let go, each for a reason that its step names
    faults

storeVars == <<store, seen, cursor_file>>
historyVars == <<acknowledged, given_up, begun, lost>>
vars == <<published, running, stream, handler, hung, storeVars, arrived, historyVars, faults>>

Events == 1..MaxEvents

\* The number of no event.
EmptyFile == 0

Idle == [pc |-> "idle"]

InFlight == [pc : {"has", "add", "post", "save"}, event : Events, attempt : 1..MAX_RETRIES]

TypeOK ==
    /\ published \in 0..MaxEvents
    /\ running \in BOOLEAN
    /\ stream \in 0..MaxEvents \cup {NoEntry}
    /\ handler \in [Handlers -> InFlight \cup {Idle}]
    /\ store \in Stores
    /\ seen \subseteq Events
    /\ cursor_file \in Events \cup {EmptyFile, NoEntry}
    /\ arrived \in [Events -> 0..2]
    /\ begun \in [Events -> 0..2]
    /\ hung \cup acknowledged \cup given_up \cup lost \subseteq Events
    /\ faults \in 0..MaxFaults

Init ==
    /\ published = 0
    /\ running = TRUE
    /\ stream = NoEntry
    /\ handler = [h \in Handlers |-> Idle]
    /\ store \in Stores
    /\ hung = {}
    /\ seen = {}
    /\ cursor_file = NoEntry
    /\ arrived = [e \in Events |-> 0]
    /\ acknowledged = {}
    /\ given_up = {}
    /\ begun = [e \in Events |-> 0]
    /\ lost = {}
    /\ faults = 0

\* The events at work: in a handler that moves, or in one that waits for ever.
InHand == hung \cup {handler[h].event : h \in {g \in Handlers : handler[g] # Idle}}

\* No handler will come back to these events, unless the stream sends them again.
Lose(events) == lost' = lost \cup (events \ (acknowledged \cup given_up))

-----------------------------------------------------------------------------
(* The stream *)

\* Any event of the contract.
Publish ==
    /\ published < MaxEvents
    /\ published' = published + 1
    /\ UNCHANGED <<running, stream, handler, hung, storeVars, arrived, historyVars, faults>>

\* A slip: the file is read at the first connection only.
loadCursor_now == IF faults = 0 /\ ~FromNow THEN 0 ELSE published

\* A slip: the cursor is taken for the next event to come.
loadCursor_next ==
    IF cursor_file # NoEntry THEN cursor_file + 1
    ELSE IF FromNow THEN published ELSE 0

\* Where to go on is not known, or not asked for: the stream is opened at "now",
\* which it takes for its end.
StartsNow == cursor_file = EmptyFile \/ (cursor_file = NoEntry /\ FromNow)

\* The file; "now" for an empty one; CURSOR, else "now", without one.
loadCursor ==
    IF StartsNow THEN published
    ELSE IF cursor_file = NoEntry THEN 0
    ELSE cursor_file

\* A start from now lets go what was published while nobody listened.
connect ==
    /\ running
    /\ stream = NoEntry
    /\ stream' = loadCursor
    /\ IF StartsNow THEN Lose(1..published \ InHand) ELSE lost' = lost
    /\ UNCHANGED <<published, running, handler, hung, storeVars, arrived, acknowledged, given_up,
                   begun, faults>>

\* The stream sends the next event; its handler starts.
OnMessage(h) ==
    /\ running
    /\ stream # NoEntry
    /\ stream < published
    /\ handler[h] = Idle
    /\ stream' = stream + 1
    /\ handler' = [handler EXCEPT ![h] = [pc |-> "has", event |-> stream + 1, attempt |-> 1]]
    /\ UNCHANGED <<published, running, hung, storeVars, arrived, historyVars, faults>>

\* The connection is closed, and opened again later; handlers go on.
OnError ==
    /\ running
    /\ stream # NoEntry
    /\ faults < MaxFaults
    /\ faults' = faults + 1
    /\ stream' = NoEntry
    /\ UNCHANGED <<published, running, handler, hung, storeVars, arrived, historyVars>>

-----------------------------------------------------------------------------
(* handleMessage *)

handlerOnly == <<published, running, stream, faults>>

Twice(n) == IF n < 2 THEN n + 1 ELSE 2

\* The event goes on to deliverWithRetry.
HandOn(h) ==
    /\ handler' = [handler EXCEPT ![h].pc = "post"]
    /\ seen' = seen \cup {handler[h].event}
    /\ begun' = [begun EXCEPT ![handler[h].event] = Twice(@)]
    /\ UNCHANGED <<handlerOnly, hung, store, cursor_file, arrived, acknowledged, given_up, lost>>

\* A slip: the event is not recorded before it is delivered.
CheckStore_unrecorded(h) ==
    /\ handler[h].pc = "has"
    /\ handler[h].event \notin seen
    /\ handler' = [handler EXCEPT ![h].pc = "post"]
    /\ begun' = [begun EXCEPT ![handler[h].event] = Twice(@)]
    /\ UNCHANGED <<handlerOnly, hung, storeVars, arrived, acknowledged, given_up, lost>>

\* has, and with the memory store add.
CheckStore(h) ==
    /\ handler[h].pc = "has"
    /\ handler[h].event \notin seen
    /\ IF store = "redis"
       THEN /\ handler' = [handler EXCEPT ![h].pc = "add"]
            /\ UNCHANGED <<handlerOnly, hung, storeVars, arrived, historyVars>>
       ELSE HandOn(h)

\* A duplicate ends its handler: the cursor stays where it is.
SkipDuplicate(h) ==
    /\ handler[h].pc = "has"
    /\ handler[h].event \in seen
    /\ handler' = [handler EXCEPT ![h] = Idle]
    /\ UNCHANGED <<handlerOnly, hung, storeVars, arrived, historyVars>>

\* Whether the key was there already does not matter to add.
AddToStore(h) == handler[h].pc = "add" /\ HandOn(h)

\* A call to Redis is rejected, an add perhaps after it was done: the error is
\* caught where the handler was started, and the event is let go.
StoreFails(h, recorded) ==
    /\ store = "redis"
    /\ handler[h].pc \in {"has", "add"}
    /\ recorded => handler[h].pc = "add"
    /\ seen' = IF recorded THEN seen \cup {handler[h].event} ELSE seen
    /\ handler' = [handler EXCEPT ![h] = Idle]
    /\ Lose({handler[h].event})
    /\ UNCHANGED <<handlerOnly, hung, store, cursor_file, arrived, acknowledged, given_up, begun>>

\* Another attempt, or none left.
Retry(h) ==
    IF handler[h].attempt < MAX_RETRIES
    THEN /\ handler' = [handler EXCEPT ![h].attempt = @ + 1]
         /\ given_up' = given_up
    ELSE /\ handler' = [handler EXCEPT ![h].pc = "save"]
         /\ given_up' = given_up \cup {handler[h].event}

\* One attempt: it does not arrive, or arrives and is refused, or its answer is
\* lost, or it is answered with success.
deliverWithRetry(h, arrives, answered) ==
    LET e == handler[h].event IN
    /\ handler[h].pc = "post"
    /\ answered => arrives
    /\ arrived' = IF arrives THEN [arrived EXCEPT ![e] = Twice(@)] ELSE arrived
    /\ IF answered
       THEN /\ handler' = [handler EXCEPT ![h].pc = "save"]
            /\ acknowledged' = acknowledged \cup {e}
            /\ given_up' = given_up
       ELSE /\ Retry(h)
            /\ acknowledged' = acknowledged
    /\ UNCHANGED <<handlerOnly, hung, storeVars, begun, lost>>

\* An attempt whose answer never comes, and no error either.  The handler is not
\* heard of again; others take its place.
DeliveryHangs(h, arrives) ==
    LET e == handler[h].event IN
    /\ handler[h].pc = "post"
    /\ arrived' = IF arrives THEN [arrived EXCEPT ![e] = Twice(@)] ELSE arrived
    /\ hung' = hung \cup {e}
    /\ handler' = [handler EXCEPT ![h] = Idle]
    /\ UNCHANGED <<handlerOnly, storeVars, historyVars>>

\* After a delivery that was given up as well.  Writing the file may fail, before
\* it is emptied or after, and the error is ignored.
saveCursor(h, written) ==
    /\ handler[h].pc = "save"
    /\ written \in {handler[h].event, cursor_file, EmptyFile}
    /\ cursor_file' = written
    /\ handler' = [handler EXCEPT ![h] = Idle]
    /\ UNCHANGED <<handlerOnly, hung, store, seen, arrived, historyVars>>

Handle(h) ==
    \/ CheckStore(h)
    \/ SkipDuplicate(h)
    \/ AddToStore(h)
    \/ \E recorded \in BOOLEAN : StoreFails(h, recorded)
    \/ \E arrives, answered \in BOOLEAN : deliverWithRetry(h, arrives, answered)
    \/ \E arrives \in BOOLEAN : DeliveryHangs(h, arrives)
    \/ \E written \in 0..MaxEvents \cup {NoEntry} : saveCursor(h, written)

-----------------------------------------------------------------------------
(* The process *)

\* shutdown calls process.exit, which waits for no handler, as a crash does not;
\* a crash may leave the file empty that a handler was about to write.  A later
\* run does not handle what a cursor has passed, or what is in a store that
\* outlives this one.
Stop(emptied) ==
    /\ running
    /\ faults < MaxFaults
    /\ emptied => \E h \in Handlers : handler[h].pc = "save"
    /\ faults' = faults + 1
    /\ running' = FALSE
    /\ stream' = NoEntry
    /\ handler' = [h \in Handlers |-> Idle]
    /\ hung' = {}
    /\ seen' = IF store = "redis" THEN seen ELSE {}
    /\ cursor_file' = IF emptied THEN EmptyFile ELSE cursor_file
    /\ begun' = [e \in Events |-> 0]
    /\ Lose({e \in InHand : \/ cursor_file' # NoEntry /\ e <= cursor_file'
                           \/ e \in seen'})
    /\ UNCHANGED <<published, store, arrived, acknowledged, given_up>>

\* The cluster that runs the server starts it again.
Restart ==
    /\ ~running
    /\ running' = TRUE
    /\ UNCHANGED <<published, stream, handler, hung, storeVars, arrived, historyVars, faults>>

Next ==
    \/ Publish
    \/ connect
    \/ \E h \in Handlers : OnMessage(h)
    \/ OnError
    \/ \E h \in Handlers : Handle(h)
    \/ \E emptied \in BOOLEAN : Stop(emptied)
    \/ Restart

\* The event loop runs every handler and every timer, a call to Redis ends, if
\* only in an error, an open stream sends what there is, and a process that ended
\* is started again.  Of a delivery nothing is assumed: it may hang.
Fairness ==
    /\ WF_vars(connect)
    /\ WF_vars(\E h \in Handlers : OnMessage(h))
    /\ \A h \in Handlers : WF_vars(Handle(h))
    /\ WF_vars(Restart)

Spec == Init /\ [][Next]_vars /\ Fairness

-----------------------------------------------------------------------------
(* Properties *)

\* While the process runs on the memory store, every event is handed on for
\* delivery at most once, however often the connection is lost, the stream sends
\* it again and its handlers overlap (handleMessage: at most once within a
\* single run).
OncePerRun == store = "memory" => \A e \in Events : begun[e] <= 1

\* The stream or the cursor is past the event, or the store holds it.
Passed(e) ==
    \/ stream # NoEntry /\ e <= stream
    \/ cursor_file # NoEntry /\ e <= cursor_file
    \/ e \in seen

\* Nothing is overlooked: an event that the stream or the cursor has passed, or
\* that the store holds, so that nobody will ask for it again, was delivered or
\* given up, is at work, or was let go in one of four ways: its run ended when a
\* faster handler's cursor had passed it, or when it was in a store that outlives
\* the run; Redis rejected a call; or the file that held the cursor was empty.
\* However handlers overlap and end out of order, connections are lost and runs
\* end, there is no other way (connect, handleMessage, saveCursor).
NothingOverlooked ==
    \A e \in Events :
        Passed(e) => e \in acknowledged \cup given_up \cup lost \cup InHand

\* Every published event is in the end delivered, given up after MAX_RETRIES
\* attempts or let go in one of those ways, for good, unless its delivery hangs:
\* whatever happens, the server asks for it until then (connect's cursor).
EventuallyHandled ==
    \A e \in Events :
        <>(e <= published) => <>[](e \in acknowledged \cup given_up \cup lost \cup hung)

-----------------------------------------------------------------------------
(* What the documentation says and the code does not do *)

\* webhook-server.js: reconnections and network retries never deliver the same
\* event twice.
NeverTwice == \A e \in Events : arrived[e] <= 1

\* webhook-server.js and its README: the stream resumes from the correct
\* position after a restart.
NothingLost == lost = {}

\* handleMessage's comment: at most once within a single run.  Two handlers may
\* both find the Redis store without the event.
OncePerRunOnRedis == \A e \in Events : begun[e] <= 1

\* webhook-server.js: the cursor is persisted after successful processing.
CursorAfterSuccess == cursor_file \in Events => cursor_file \in acknowledged

=============================================================================
