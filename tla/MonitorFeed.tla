---------------------------- MODULE MonitorFeed ----------------------------
(***************************************************************************)
(* The monitor's live feed: the event log of services/monitor_service.py,  *)
(* the broadcast task and the WebSocket endpoint of api/websocket.py, and  *)
(* the browser's side of it, frontend/src/hooks/useWebSocket.ts, with a    *)
(* network that breaks connections and a backend that goes down and comes  *)
(* up.  A snapshot is known by the number of events logged before it was   *)
(* built.                                                                  *)
(***************************************************************************)
EXTENDS Naturals, FiniteSets

CONSTANTS
    Tabs,        \* browser tabs that may show the monitor page
    Conns,       \* identities of WebSocket connections
    NoTab,
    MaxLog,      \* bound: events logged by one backend process
    MaxChurn     \* bound: pages opened and closed, connections broken, stops

ASSUME MonitorAssumption ==
    /\ NoTab \notin Tabs /\ IsFiniteSet(Conns)
    /\ MaxLog \in Nat /\ MaxChurn \in Nat

VARIABLES
    up,          \* the backend process runs
    log,         \* events in _event_log since the process began
    clients,     \* _clients
    task,        \* the broadcast: "off", "idle", "build" or "send"
    round,       \* its message, the set's size, who was met, did one join
    conn,        \* per connection: whose, its state, its endpoint coroutine
    page,        \* is the page mounted
    sock,        \* the hook: "none", "connecting", "open" or "wait"
    seen,        \* the snapshot a tab shows, 0 for none of this process
    greeted,     \* tabs sent a connection's first snapshot during this round
    churn

vars == <<up, log, clients, task, round, conn, page, sock, seen, greeted, churn>>

NoConn == [tab |-> NoTab, st |-> "free", h |-> "none"]

NoRound == [msg |-> 0, size |-> 0, sent |-> {}, joined |-> FALSE, dead |-> {}]

TypeOK ==
    /\ up \in BOOLEAN
    /\ log \in 0 .. MaxLog
    /\ clients \subseteq Conns
    /\ task \in {"off", "idle", "build", "send"}
    /\ round \in [msg : 0 .. MaxLog, size : 0 .. Cardinality(Conns),
                  sent : SUBSET Conns, joined : BOOLEAN, dead : SUBSET Conns]
    /\ conn \in [Conns -> [tab : Tabs \cup {NoTab}, st : {"free", "live", "gone"},
                           h : {"none", "build", "receive"}]]
    /\ \A c \in Conns : conn[c].st = "free" => c \notin clients /\ conn[c] = NoConn
    /\ page \in [Tabs -> BOOLEAN]
    /\ sock \in [Tabs -> {"none", "connecting", "open", "wait"}]
    /\ seen \in [Tabs -> 0 .. MaxLog]
    /\ greeted \subseteq Tabs
    /\ churn \in 0 .. MaxChurn

\* start_broadcast is part of the start of the process.
Init ==
    /\ up = TRUE
    /\ log = 0
    /\ clients = {}
    /\ task = "idle"
    /\ round = NoRound
    /\ conn = [c \in Conns |-> NoConn]
    /\ page = [t \in Tabs |-> FALSE]
    /\ sock = [t \in Tabs |-> "none"]
    /\ seen = [t \in Tabs |-> 0]
    /\ greeted = {}
    /\ churn = 0

Churn == churn < MaxChurn /\ churn' = churn + 1

\* The browser's side of connection c ends; its endpoint will hear of it.
Gone(c) == [conn[c] EXCEPT !.st = "gone"]

----------------------------------------------------------------------------
(* monitor_service *)

log_event ==
    /\ up
    /\ log < MaxLog
    /\ log' = log + 1
    /\ UNCHANGED <<up, clients, task, round, conn, page, sock, seen, greeted, churn>>

----------------------------------------------------------------------------
(* useWebSocket *)

Mount(t) ==
    /\ ~ page[t]
    /\ sock[t] = "none"
    /\ Churn
    /\ page' = [page EXCEPT ![t] = TRUE]
    /\ sock' = [sock EXCEPT ![t] = "connecting"]
    /\ seen' = [seen EXCEPT ![t] = 0]
    /\ UNCHANGED <<up, log, clients, task, round, conn, greeted>>

\* Mutant: the timer of a reconnect is not cleared.
KeepTimer(t) == IF sock[t] = "wait" THEN "wait" ELSE "none"

\* The effect's cleanup: the timer is cleared, the socket closed for good.
Dispose(t) == "none"

Unmount(t) ==
    /\ page[t]
    /\ Churn
    /\ page' = [page EXCEPT ![t] = FALSE]
    /\ sock' = [sock EXCEPT ![t] = Dispose(t)]
    /\ conn' = [c \in Conns |-> IF conn[c].tab = t /\ conn[c].st = "live"
                                THEN Gone(c) ELSE conn[c]]
    /\ UNCHANGED <<up, log, clients, task, round, seen, greeted>>

\* onclose of a socket that could not connect.
Refused(t) ==
    /\ sock[t] = "connecting"
    /\ ~ up
    /\ sock' = [sock EXCEPT ![t] = "wait"]
    /\ UNCHANGED <<up, log, clients, task, round, conn, page, seen, greeted, churn>>

\* The reconnect timer, after whatever back-off.
Reconnect(t) ==
    /\ sock[t] = "wait"
    /\ sock' = [sock EXCEPT ![t] = "connecting"]
    /\ UNCHANGED <<up, log, clients, task, round, conn, page, seen, greeted, churn>>

\* The connection breaks, and the browser notices.
Break(c) ==
    /\ conn[c].st = "live"
    /\ Churn
    /\ sock' = [sock EXCEPT ![conn[c].tab] = "wait"]
    /\ conn' = [conn EXCEPT ![c] = Gone(c)]
    /\ UNCHANGED <<up, log, clients, task, round, page, seen, greeted>>

----------------------------------------------------------------------------
(* monitor_websocket *)

\* accept, onopen in the browser, and the connection joins the clients.
Accept(t) ==
    /\ up
    /\ sock[t] = "connecting"
    /\ \E c \in Conns : conn[c] = NoConn
    /\ LET c == CHOOSE b \in Conns : conn[b] = NoConn IN
          /\ conn' = [conn EXCEPT ![c] = [tab |-> t, st |-> "live", h |-> "build"]]
          /\ clients' = clients \cup {c}
    /\ round' = [round EXCEPT !.joined = @ \/ task = "send"]
    /\ sock' = [sock EXCEPT ![t] = "open"]
    /\ UNCHANGED <<up, log, task, page, seen, greeted, churn>>

\* The snapshot on connect is built and sent in one turn; sending on a
\* connection that has gone raises, or is lost unnoticed.
Greet(c) ==
    /\ conn[c].h = "build"
    /\ conn' = [conn EXCEPT ![c].h = "receive"]
    /\ seen' = IF conn[c].st = "live" THEN [seen EXCEPT ![conn[c].tab] = log] ELSE seen
    /\ greeted' = IF task = "send" THEN greeted \cup {conn[c].tab} ELSE greeted
    /\ UNCHANGED <<up, log, clients, task, round, page, sock, churn>>

\* Mutant: the client is not discarded on the way out.
StaysClient(c) == clients

\* The finally of the endpoint.
Discarded(c) == clients \ {c}

\* Its identity may be used again: the round's account of it is dropped.
Forgotten(c) == [round EXCEPT !.sent = @ \ {c}, !.dead = @ \ {c}]

\* The database fails: the endpoint ends, and with it the connection.
GreetFails(c) ==
    /\ conn[c].h = "build"
    /\ Churn
    /\ clients' = Discarded(c)
    /\ conn' = [conn EXCEPT ![c] = NoConn]
    /\ sock' = IF conn[c].st = "live" THEN [sock EXCEPT ![conn[c].tab] = "wait"] ELSE sock
    /\ round' = Forgotten(c)
    /\ UNCHANGED <<up, log, task, page, seen, greeted>>

\* The endpoint hears that its connection has gone and leaves the clients.
Leave(c) ==
    /\ conn[c].st = "gone"
    /\ clients' = Discarded(c)
    /\ conn' = [conn EXCEPT ![c] = NoConn]
    /\ round' = Forgotten(c)
    /\ UNCHANGED <<up, log, task, page, sock, seen, greeted, churn>>

----------------------------------------------------------------------------
(* _broadcast_loop *)

\* After its sleep: get_snapshot awaits the database if there are clients.
Wake ==
    /\ task = "idle"
    /\ clients # {}
    /\ task' = "build"
    /\ UNCHANGED <<up, log, clients, round, conn, page, sock, seen, greeted, churn>>

\* Mutant: the snapshot of the round before.
OldMessage == round.msg

Message == log

\* The snapshot is built and the iteration over the set of clients begins.
Build ==
    /\ task = "build"
    /\ task' = "send"
    /\ round' = [NoRound EXCEPT !.msg = Message, !.size = Cardinality(clients)]
    /\ greeted' = {}
    /\ UNCHANGED <<up, log, clients, conn, page, sock, seen, churn>>

\* The next client of the iteration.  Python's set iterator raises when the
\* size of the set has changed.  A send to a connection that has gone may
\* raise.
Send(c) ==
    /\ task = "send"
    /\ Cardinality(clients) = round.size
    /\ c \in clients \ round.sent
    /\ \/ round' = [round EXCEPT !.sent = @ \cup {c}]
       \/ conn[c].st # "live" /\ round' = [round EXCEPT !.sent = @ \cup {c},
                                                        !.dead = @ \cup {c}]
    /\ seen' = IF conn[c].st = "live" THEN [seen EXCEPT ![conn[c].tab] = round.msg] ELSE seen
    /\ UNCHANGED <<up, log, clients, task, conn, page, sock, greeted, churn>>

\* All were met, or one joined while another left, so that the table may
\* have moved under the iterator: the ones that raised are discarded.
Sent ==
    /\ task = "send"
    /\ Cardinality(clients) = round.size
    /\ clients \subseteq round.sent \/ round.joined
    /\ clients' = clients \ round.dead
    /\ task' = "idle"
    /\ round' = [NoRound EXCEPT !.msg = round.msg]
    /\ greeted' = {}
    /\ UNCHANGED <<up, log, conn, page, sock, seen, churn>>

\* Mutant: the exception ends the task.
BroadcastDies == "off"

AfterError == "idle"

\* "Set changed size during iteration": logged, and the next round begins
\* after the same sleep.
Disrupted ==
    /\ task = "send"
    /\ Cardinality(clients) # round.size
    /\ task' = AfterError
    /\ round' = [NoRound EXCEPT !.msg = round.msg]
    /\ greeted' = {}
    /\ UNCHANGED <<up, log, clients, conn, page, sock, seen, churn>>

\* The database fails while the snapshot is built.
BuildFails ==
    /\ task = "build"
    /\ Churn
    /\ task' = AfterError
    /\ UNCHANGED <<up, log, clients, round, conn, page, sock, seen, greeted>>

----------------------------------------------------------------------------
(* The process ends, by stop_broadcast and shutdown or in a crash: every
   connection closes, and the log and the clients were in memory. *)
Down ==
    /\ up
    /\ Churn
    /\ up' = FALSE
    /\ log' = 0
    /\ clients' = {}
    /\ task' = "off"
    /\ round' = NoRound
    /\ conn' = [c \in Conns |-> NoConn]
    /\ sock' = [t \in Tabs |-> IF sock[t] = "open" THEN "wait" ELSE sock[t]]
    /\ seen' = [t \in Tabs |-> 0]
    /\ greeted' = {}
    /\ UNCHANGED page

Boot ==
    /\ ~ up
    /\ up' = TRUE
    /\ task' = "idle"
    /\ UNCHANGED <<log, clients, round, conn, page, sock, seen, greeted, churn>>

Next ==
    \/ log_event \/ Wake \/ Build \/ Sent \/ Disrupted \/ BuildFails \/ Down \/ Boot
    \/ \E t \in Tabs : Mount(t) \/ Unmount(t) \/ Refused(t) \/ Reconnect(t) \/ Accept(t)
    \/ \E c \in Conns : Break(c) \/ Greet(c) \/ GreetFails(c) \/ Leave(c) \/ Send(c)

\* The event loop, the browser's timers and the network get on; nobody has
\* to open or close a page, log an event or stop the backend.
Fairness ==
    /\ WF_vars(Wake) /\ WF_vars(Build) /\ WF_vars(Sent) /\ WF_vars(Disrupted)
    /\ \A t \in Tabs : WF_vars(Reconnect(t)) /\ WF_vars(Accept(t)) /\ WF_vars(Refused(t))
    /\ \A c \in Conns : WF_vars(Greet(c)) /\ WF_vars(Leave(c)) /\ WF_vars(Send(c))

Spec == Init /\ [][Next]_vars /\ Fairness

----------------------------------------------------------------------------
(* A page has at most one open connection, and a page that was left has none
   and never gets one: the hook's cleanup stops the reconnects for good. *)
OneSocketPerTab ==
    \A t \in Tabs :
        LET live == {c \in Conns : conn[c].tab = t /\ conn[c].st = "live"} IN
          /\ Cardinality(live) <= 1
          /\ ~ page[t] => live = {} /\ sock[t] = "none"
          /\ sock[t] = "open" <=> live # {}

(* A tab never falls back to older data, except when the broadcast that is
   going round was built before the first snapshot of a connection of the
   tab, which overtook it. *)
OnlyGreetedFallBack ==
    [][\A t \in Tabs :
          up' /\ page[t] /\ seen'[t] < seen[t] =>
             task = "send" /\ seen'[t] = round.msg /\ t \in greeted]_vars

(* An event reaches every open page: through broken connections, aborted
   rounds, reconnects and dead clients in the set, once these stop, unless
   the backend that logged it ends. *)
EventReachesTab ==
    \A t \in Tabs : \A n \in 1 .. MaxLog :
        (page[t] /\ log >= n) ~> (seen[t] >= n \/ ~ page[t] \/ log < n)
=============================================================================
