------------------------------ MODULE MqttAdapter ------------------------------
(***************************************************************************)
(* backend/app/protocols/mqtt_adapter.py for one broker: its client, the    *)
(* reconnect task that brings a lost connection back, the publish tasks of  *)
(* the devices, and the requests that start and stop all of them            *)
(* (api/routes/mqtt.py, services/mqtt_service.py, device_service.py).       *)
(*                                                                          *)
(* asyncio runs one coroutine at a time, until an await suspends it.  A     *)
(* request is the list of instructions it still has to execute; the ones    *)
(* that do not suspend are executed in one turn of the event loop, whose    *)
(* holder is the variable loop.  The turns of a background task are short   *)
(* enough to be single actions.                                             *)
(***************************************************************************)
EXTENDS Naturals, Sequences, FiniteSets

CONSTANTS
    Devices,    \* devices with a publish config for the broker
    Calls,      \* API requests in progress at once
    Main,       \* the application's lifespan: startup and shutdown
    Pubs,       \* identities of publish tasks (reused when free)
    Recs,       \* identities of reconnect tasks
    None

ASSUME MqttAssumption ==
    /\ Main \notin Calls
    /\ None \notin Pubs \cup Recs \cup Calls \cup {Main}
    /\ Pubs \cap Recs = {}
    /\ IsFiniteSet(Pubs) /\ IsFiniteSet(Recs)

VARIABLES
    row,        \* database: the broker is configured
    config,     \* database: each device's publish config: none, off or on
    device,     \* database: the status of each device
    net,        \* the broker can be reached
    broker,     \* _broker_info, _broker_settings: absent, or connected or not
    client,     \* _clients: none, open, or dead (its connection is lost)
    leaked,     \* history: a client was replaced without being closed
    recon,      \* _reconnect_tasks
    rtask,      \* the reconnect tasks
    pub,        \* _publish_tasks
    pconf,      \* devices in _publish_configs
    ptask,      \* the publish tasks
    call,       \* the requests in progress
    loop,       \* the request that holds the event loop
    overlap,    \* history: two requests were in progress at once
    untold      \* history: devices whose flag last changed, or went with the
                \*   config, without a word to the adapter

db == <<row, config, device>>
connection == <<net, broker, client, leaked>>
recons == <<recon, rtask>>
hist == <<overlap, untold>>
publishers == <<pub, pconf, ptask>>
vars == <<row, config, device, net, broker, client, leaked, recon, rtask, pub,
          pconf, ptask, call, loop, overlap, untold>>

Threads == Calls \cup {Main}

FreeRec == [pc |-> "free", cancelled |-> FALSE]
FreePub == [pc |-> "free", dev |-> None, conn |-> "none", cancelled |-> FALSE]
Idle == [code |-> <<>>, wait |-> "ready", on |-> None]

Ops == {"open", "reopen", "recon", "close", "forget", "list", "cancels", "query",
        "configs", "starts", "check", "try", "create", "enable", "disable",
        "drop", "running", "stopped", "exit"}

(* An instruction of a request, for a set of devices.                       *)
I(op, S) == [op |-> op, devs |-> S]

TypeOK ==
    /\ row \in BOOLEAN
    /\ config \in [Devices -> {"none", "off", "on"}]
    /\ device \in [Devices -> {"stopped", "running", "error", "deleted"}]
    /\ net \in BOOLEAN
    /\ broker \in {"absent", "down", "up"}
    /\ client \in {"none", "open", "dead"}
    /\ leaked \in BOOLEAN
    /\ recon \in Recs \cup {None}
    /\ rtask \in [Recs -> [pc : {"free", "new", "sleep", "closing", "opening"},
                           cancelled : BOOLEAN]]
    /\ pub \in [Devices -> Pubs \cup {None}]
    /\ pconf \in SUBSET Devices
    /\ ptask \in [Pubs -> [pc : {"free", "new", "sleep", "sent"}, dev : Devices \cup {None},
                           conn : {"none", "this", "old"}, cancelled : BOOLEAN]]
    /\ call \in [Threads -> [code : Seq([op : Ops, devs : SUBSET Devices]),
                             wait : {"ready", "db", "net", "task"},
                             on : Pubs \cup Recs \cup {None}]]
    /\ loop \in Threads \cup {None}
    /\ overlap \in BOOLEAN
    /\ untold \in SUBSET Devices

-----------------------------------------------------------------------------
LivePub(p) == ptask[p].pc # "free"
LiveRec(r) == rtask[r].pc # "free"
Busy(c) == call[c].code # <<>> \/ call[c].wait # "ready"

(* Identities nobody refers to any more.                                    *)
SparePubs == {p \in Pubs : ~LivePub(p) /\ (\A d \in Devices : pub[d] # p)
                                       /\ \A c \in Threads : call[c].on # p}
SpareRecs == {r \in Recs : ~LiveRec(r) /\ recon # r /\ \A c \in Threads : call[c].on # r}

(* MqttAdapter.start, then resume_running_devices.                          *)
Boot == (IF row THEN <<I("open", {})>> ELSE <<>>) \o <<I("query", Devices)>>

Booting == [c \in Threads |-> IF c = Main THEN [Idle EXCEPT !.code = Boot] ELSE Idle]

Init ==
    /\ row \in BOOLEAN /\ net \in BOOLEAN
    /\ config \in [Devices -> IF row THEN {"none", "off", "on"} ELSE {"none"}]
    /\ device \in [Devices -> {"stopped", "running", "error"}]
    /\ broker = "absent" /\ client = "none" /\ leaked = FALSE
    /\ recon = None /\ rtask = [r \in Recs |-> FreeRec]
    /\ pub = [d \in Devices |-> None] /\ pconf = {}
    /\ ptask = [p \in Pubs |-> FreePub]
    /\ call = Booting /\ loop = None
    /\ overlap = FALSE /\ untold = {}

-----------------------------------------------------------------------------
(* Connections.                                                             *)

(* What becomes of the messages in flight on the client.                    *)
InFlight(becomes) ==
    ptask' = [p \in Pubs |-> IF ptask[p].conn = "this"
                             THEN [ptask[p] EXCEPT !.conn = becomes] ELSE ptask[p]]

(* The client is taken out of _clients and closed: what is in flight on it  *)
(* fails.                                                                   *)
CloseClient == client' = "none" /\ InFlight("none")

(* Mutation for TypeOK: a lost connection is a state of its own.            *)
Lost == "lost"

Disconnected == IF broker = "absent" THEN "absent" ELSE "down"
Connected == IF broker = "absent" THEN "absent" ELSE "up"

(* _try_connect succeeds.  A client that was there stays open, forgotten.   *)
Connect ==
    /\ client' = "open"
    /\ leaked' = (leaked \/ client # "none")
    /\ InFlight(IF client = "open" THEN "old" ELSE "none")
    /\ broker' = Connected

(* Mutation for BrokerComesBack: a lost connection is only recorded.        *)
ScheduleNothing == UNCHANGED recons

(* _schedule_reconnect.                                                     *)
Schedule ==
    IF broker = "absent" \/ (recon # None /\ LiveRec(recon)) THEN UNCHANGED recons
    ELSE LET r == CHOOSE x \in SpareRecs : TRUE IN
         /\ SpareRecs # {}
         /\ recon' = r
         /\ rtask' = [rtask EXCEPT ![r] = [FreeRec EXCEPT !.pc = "new"]]

-----------------------------------------------------------------------------
(* Requests.  A request is admitted after the startup, and not after two    *)
(* have overlapped (until the next restart).                                *)

Admitted ==
    /\ ~Busy(Main) /\ loop = None /\ ~overlap
    /\ overlap' = \E x \in Calls : Busy(x)

(* A request that calls the adapter waits for a free identity for a         *)
(* reconnect task.                                                          *)
Begin(c, code) ==
    /\ Admitted /\ ~Busy(c) /\ SpareRecs # {}
    /\ call' = [call EXCEPT ![c].code = code]

(* Mutation for OnePublisher: the running publish task is not stopped first.*)
StartAnother(check, d) == <<I(check, {d}), I("create", {d})>>

StartPublishing(check, d) == <<I(check, {d}), I("list", {d}), I("create", {d})>>

CreateBroker(c) ==
    /\ ~row /\ row' = TRUE
    /\ Begin(c, <<I("open", {})>>)
    /\ UNCHANGED <<config, device, connection, recons, publishers, loop, untold>>

(* Mutation for NoLeakedConnection: the pending retry is left alone.        *)
KeepRetry == <<I("list", Devices), I("close", {})>>

(* What disconnect_broker and reconnect_broker begin with.                  *)
DropConnection == <<I("recon", {}), I("list", Devices), I("close", {})>>

(* PUT .../brokers: reconnect_broker, then resume if it connected.          *)
UpdateBroker(c) ==
    /\ row
    /\ Begin(c, DropConnection \o <<I("reopen", {}), I("query", Devices)>>)
    /\ UNCHANGED <<db, connection, recons, publishers, loop, untold>>

DeleteBroker(c) ==
    /\ row /\ (\A d \in Devices : config[d] = "none")
    /\ row' = FALSE
    /\ Begin(c, DropConnection \o <<I("forget", {})>>)
    /\ UNCHANGED <<config, device, connection, recons, publishers, loop, untold>>

(* upsert_publish_config touches nothing but the database.                  *)
UpsertConfig(d) ==
    /\ row /\ config[d] = "none" /\ device[d] # "deleted" /\ loop = None
    /\ config' = [config EXCEPT ![d] = "off"]
    /\ UNCHANGED <<row, device, connection, recons, publishers, call, loop, hist>>

DeleteConfig(c, d) ==
    /\ config[d] # "none"
    /\ Begin(c, <<I("drop", {d}), I("list", {d})>>)
    /\ UNCHANGED <<db, connection, recons, publishers, loop, untold>>

(* POST .../mqtt/start and .../mqtt/stop                                    *)
StartMqttPublishing(c, d) ==
    /\ config[d] # "none"
    /\ Begin(c, <<I("enable", {d})>> \o StartPublishing("try", d))
    /\ UNCHANGED <<db, connection, recons, publishers, loop, untold>>

StopMqttPublishing(c, d) ==
    /\ config[d] # "none"
    /\ Begin(c, <<I("disable", {d}), I("list", {d})>>)
    /\ UNCHANGED <<db, connection, recons, publishers, loop, untold>>

StartDevice(c, d) ==
    /\ device[d] = "stopped"
    /\ Begin(c, <<I("configs", {d}), I("running", {d})>>)
    /\ UNCHANGED <<db, connection, recons, publishers, loop, untold>>

StopDevice(c, d) ==
    /\ device[d] \in {"running", "error"}
    /\ Begin(c, <<I("list", {d}), I("stopped", {d})>>)
    /\ UNCHANGED <<db, connection, recons, publishers, loop, untold>>

(* Requests that never call the adapter: one commit is all they do.         *)

(* delete_device; the publish config goes with the device.                  *)
DeleteDevice(d) ==
    /\ device[d] \in {"stopped", "error"}
    /\ Admitted
    /\ device' = [device EXCEPT ![d] = "deleted"]
    /\ config' = [config EXCEPT ![d] = "none"]
    /\ untold' = untold \cup {d}
    /\ UNCHANGED <<row, connection, recons, publishers, call, loop>>

(* What an import makes of a publish config: it may not name the device.    *)
Imports(d) ==
    {config[d]} \cup (IF row' /\ device[d] # "deleted" THEN {"off", "on"} ELSE {})

(* import_system: it may create the broker, mark running devices stopped    *)
(* and write their flags.                                                   *)
ImportSystem ==
    /\ Admitted
    /\ row' \in {row, TRUE}
    /\ \E stops \in SUBSET Devices :
         device' = [d \in Devices |-> IF d \in stops /\ device[d] = "running"
                                     THEN "stopped" ELSE device[d]]
    /\ config' \in [Devices -> {"none", "off", "on"}]
    /\ \A d \in Devices : config'[d] \in Imports(d)
    /\ untold' = untold \cup {d \in Devices : config'[d] # config[d]}
    /\ UNCHANGED <<connection, recons, publishers, call, loop>>

(* MqttAdapter.stop, once the server has let the last request finish.  Only *)
(* a restart follows the exit.                                              *)
Shutdown ==
    /\ \A c \in Calls : ~Busy(c)
    /\ ~Busy(Main) /\ loop = None
    /\ call' = [call EXCEPT ![Main].code =
                  <<I("list", Devices), I("recon", {}), I("close", {}), I("forget", {}),
                    I("exit", {})>>]
    /\ UNCHANGED <<db, connection, recons, publishers, loop, hist>>

-----------------------------------------------------------------------------
(* The instructions.                                                        *)

Op(c) == Head(call[c].code).op
Devs(c) == Head(call[c].code).devs
Dev(c) == CHOOSE d \in Devs(c) : TRUE
Holds(c, ops) == loop = c /\ call[c].code # <<>> /\ Op(c) \in ops

(* The request goes on with code in the same turn of the loop, or suspends. *)
GoesOn(c, code) ==
    /\ call' = [call EXCEPT ![c].code = code]
    /\ loop' = IF code = <<>> THEN None ELSE c
Suspends(c, code, wait, on) ==
    /\ call' = [call EXCEPT ![c] = [code |-> code, wait |-> wait, on |-> on]]
    /\ loop' = None
Rest(c) == Tail(call[c].code)

(* The event loop resumes a request whose await is over.                    *)
Resume(c) ==
    /\ loop = None /\ Busy(c)
    /\ \/ call[c].wait = "ready"
       \/ call[c].wait = "task" /\ call[c].on \in Pubs /\ ~LivePub(call[c].on)
       \/ call[c].wait = "task" /\ call[c].on \in Recs /\ ~LiveRec(call[c].on)
    /\ loop' = IF call[c].code = <<>> THEN None ELSE c
    /\ call' = [call EXCEPT ![c].wait = "ready", ![c].on = None]
    /\ pconf' = IF call[c].on \in Pubs THEN pconf \ {ptask[call[c].on].dev} ELSE pconf
    /\ UNCHANGED <<db, connection, recons, pub, ptask, hist>>

(* _cancel_reconnect_task: pop it, cancel it, await it.                     *)
CancelReconnect(c) ==
    /\ Holds(c, {"recon"})
    /\ recon' = None
    /\ IF recon # None /\ LiveRec(recon)
       THEN /\ rtask' = [rtask EXCEPT ![recon].cancelled = TRUE]
            /\ Suspends(c, Rest(c), "task", recon)
       ELSE GoesOn(c, Rest(c)) /\ UNCHANGED rtask
    /\ UNCHANGED <<db, connection, publishers, hist>>

(* The keys of _publish_tasks a cancellation works through, listed first.   *)
ListTasks(c) ==
    /\ Holds(c, {"list"})
    /\ GoesOn(c, <<I("cancels", {d \in Devs(c) : pub[d] # None})>> \o Rest(c))
    /\ UNCHANGED <<db, connection, recons, publishers, hist>>

(* _cancel_publish_task for each of them.  A dead task is only forgotten.   *)
CancelPublish(c) ==
    /\ Holds(c, {"cancels"})
    /\ \/ /\ Devs(c) = {}
          /\ GoesOn(c, Rest(c))
          /\ UNCHANGED publishers
       \/ \E d \in Devs(c) :
            LET next == <<I("cancels", Devs(c) \ {d})>> \o Rest(c) IN
            /\ pub' = [pub EXCEPT ![d] = None]
            /\ IF pub[d] # None /\ LivePub(pub[d])
               THEN /\ ptask' = [ptask EXCEPT ![pub[d]].cancelled = TRUE]
                    /\ Suspends(c, next, "task", pub[d])
                    /\ UNCHANGED pconf
               ELSE /\ pconf' = pconf \ {d}
                    /\ GoesOn(c, next)
                    /\ UNCHANGED ptask
    /\ UNCHANGED <<db, connection, recons, hist>>

(* _close_client: the state is set after the close, here and on resuming.   *)
Close(c) ==
    /\ Holds(c, {"close"})
    /\ IF client # "none"
       THEN /\ CloseClient
            /\ Suspends(c, call[c].code, "ready", None)
            /\ UNCHANGED broker
       ELSE /\ broker' = Disconnected
            /\ GoesOn(c, Rest(c))
            /\ UNCHANGED <<client, ptask>>
    /\ UNCHANGED <<db, net, leaked, recons, pub, pconf, hist>>

(* disconnect_broker's last lines: info and settings are popped.            *)
Forget(c) ==
    /\ Holds(c, {"forget"})
    /\ broker' = "absent"
    /\ GoesOn(c, Rest(c))
    /\ UNCHANGED <<db, net, client, leaked, recons, publishers, hist>>

(* connect_broker records the broker, then opens a client ...               *)
Open(c) ==
    /\ Holds(c, {"open", "reopen"})
    /\ broker' = "down"
    /\ Suspends(c, call[c].code, "net", None)
    /\ UNCHANGED <<db, net, client, leaked, recons, publishers, hist>>

(* ... and schedules a reconnect when that fails.                           *)
Opened(c) ==
    /\ loop = None /\ call[c].wait = "net"
    /\ IF net
       THEN /\ Connect
            /\ call' = [call EXCEPT ![c].code = Rest(c), ![c].wait = "ready"]
            /\ UNCHANGED recons
       ELSE /\ Schedule
            /\ call' = [call EXCEPT ![c].code = IF Op(c) = "open" THEN Rest(c) ELSE <<>>,
                                    ![c].wait = "ready"]
            /\ UNCHANGED <<client, leaked, broker, ptask>>
    /\ loop' = IF call'[c].code = <<>> THEN None ELSE c
    /\ UNCHANGED <<db, net, pub, pconf, hist>>

(* A statement is sent to the database ...                                  *)
Execute(c) ==
    /\ Holds(c, {"query", "configs", "enable", "disable", "drop", "running", "stopped"})
    /\ Suspends(c, call[c].code, "db", None)
    /\ UNCHANGED <<db, connection, recons, publishers, hist>>

SetConfig(d, enabled) == IF config[d] = "none" THEN config ELSE [config EXCEPT ![d] = enabled]

SetDevice(d, status) ==
    IF device[d] = "deleted" THEN device ELSE [device EXCEPT ![d] = status]

(* Mutation for PublishesEnabled: whatever is configured is started.        *)
Configured(S) == {d \in S : config[d] # "none"}

Enabled(S) == {d \in S : config[d] = "on"}

(* ... and takes effect there; the request learns of it when it resumes.    *)
Database(c) ==
    LET d == Dev(c)
        found == CASE Op(c) = "query" -> {x \in Enabled(Devs(c)) : device[x] = "running"}
                   [] Op(c) = "configs" -> Enabled(Devs(c))
                   [] OTHER -> {} IN
    /\ call[c].wait = "db"
    /\ config' = CASE Op(c) = "enable" -> SetConfig(d, "on")
                   [] Op(c) = "disable" -> SetConfig(d, "off")
                   [] Op(c) = "drop" -> [config EXCEPT ![d] = "none"]
                   [] OTHER -> config
    /\ device' = IF Op(c) \in {"running", "stopped"} THEN SetDevice(d, Op(c)) ELSE device
    /\ call' = [call EXCEPT ![c].wait = "ready",
                            ![c].code = (IF found = {} THEN <<>> ELSE <<I("starts", found)>>) \o Rest(c)]
    /\ UNCHANGED <<row, connection, recons, publishers, loop, hist>>

(* start_publishing for every config found.                                 *)
Starts(c) ==
    /\ Holds(c, {"starts"})
    /\ \E d \in Devs(c) :
         GoesOn(c, StartPublishing("check", d)
                   \o (IF Devs(c) = {d} THEN <<>> ELSE <<I("starts", Devs(c) \ {d})>>) \o Rest(c))
    /\ UNCHANGED <<db, connection, recons, publishers, hist>>

(* It raises when the broker is not connected: a resume and a device's      *)
(* start go on with the next config, the request to start publishing puts   *)
(* the flag back.                                                           *)
Check(c) ==
    /\ Holds(c, {"check", "try"})
    /\ GoesOn(c, CASE broker = "up" -> Rest(c)
                   [] broker # "up" /\ Op(c) = "check" -> SubSeq(call[c].code, 4, Len(call[c].code))
                   [] OTHER -> <<I("disable", Devs(c))>>)
    /\ untold' = IF broker # "up" /\ Op(c) = "try" THEN untold \cup Devs(c) ELSE untold
    /\ UNCHANGED <<db, connection, recons, publishers, overlap>>

Create(c) ==
    LET d == Dev(c)
        p == CHOOSE x \in SparePubs : TRUE IN
    /\ Holds(c, {"create"}) /\ SparePubs # {}
    /\ pconf' = pconf \cup {d}
    /\ pub' = [pub EXCEPT ![d] = p]
    /\ ptask' = [ptask EXCEPT ![p] = [FreePub EXCEPT !.pc = "new", !.dev = d]]
    /\ GoesOn(c, Rest(c))
    /\ untold' = untold \ {d}
    /\ UNCHANGED <<db, connection, recons, overlap>>

-----------------------------------------------------------------------------
(* _reconnect_loop.  Its finally takes whatever is registered out.          *)
Reconnected(r) == recon' = None /\ rtask' = [rtask EXCEPT ![r] = FreeRec]

ReconnectCancelled(r) ==
    /\ loop = None /\ LiveRec(r) /\ rtask[r].cancelled
    /\ IF rtask[r].pc = "new"
       THEN rtask' = [rtask EXCEPT ![r] = FreeRec] /\ UNCHANGED recon
       ELSE Reconnected(r)
    /\ UNCHANGED <<db, connection, publishers, call, loop, hist>>

ReconnectStarts(r) ==
    /\ loop = None /\ rtask[r].pc = "new" /\ ~rtask[r].cancelled
    /\ rtask' = [rtask EXCEPT ![r].pc = "sleep"]
    /\ UNCHANGED <<db, connection, recon, publishers, call, loop, hist>>

(* After the delay: end if the broker is gone, else close what there is ... *)
ReconnectWakes(r) ==
    /\ loop = None /\ rtask[r].pc = "sleep" /\ ~rtask[r].cancelled
    /\ CASE broker = "absent" ->
              Reconnected(r) /\ UNCHANGED <<connection, publishers>>
         [] broker # "absent" /\ client # "none" ->
              /\ CloseClient
              /\ rtask' = [rtask EXCEPT ![r].pc = "closing"]
              /\ UNCHANGED <<net, broker, leaked, recon, pub, pconf>>
         [] OTHER ->
              /\ broker' = "down"
              /\ rtask' = [rtask EXCEPT ![r].pc = "opening"]
              /\ UNCHANGED <<net, client, leaked, recon, publishers>>
    /\ UNCHANGED <<db, call, loop, hist>>

ReconnectClosed(r) ==
    /\ loop = None /\ rtask[r].pc = "closing" /\ ~rtask[r].cancelled
    /\ broker' = Disconnected
    /\ rtask' = [rtask EXCEPT ![r].pc = "opening"]
    /\ UNCHANGED <<db, net, client, leaked, recon, publishers, call, loop, hist>>

(* Mutation for DownIsRetried: one attempt is all.                          *)
GiveUp == "free"

AfterFailure == "sleep"

(* ... and try to connect.                                                  *)
ReconnectOpened(r) ==
    /\ loop = None /\ rtask[r].pc = "opening" /\ ~rtask[r].cancelled
    /\ IF net THEN Connect /\ Reconnected(r)
       ELSE /\ rtask' = [rtask EXCEPT ![r].pc = AfterFailure]
            /\ UNCHANGED <<client, leaked, broker, recon, ptask>>
    /\ UNCHANGED <<db, net, pub, pconf, call, loop, hist>>

(* _publish_loop.  A turn that a fault drops, that finds no values or no    *)
(* connection counts an error and sleeps again: nothing here changes.       *)
PublishCancelled(p) ==
    /\ loop = None /\ LivePub(p) /\ ptask[p].cancelled
    /\ ptask' = [ptask EXCEPT ![p] = [FreePub EXCEPT !.dev = ptask[p].dev]]
    /\ UNCHANGED <<db, connection, recons, pub, pconf, call, loop, hist>>

PublishStarts(p) ==
    /\ loop = None /\ ptask[p].pc = "new" /\ ~ptask[p].cancelled
    /\ ptask' = [ptask EXCEPT ![p].pc = IF ptask[p].dev \in pconf THEN "sleep" ELSE "free"]
    /\ UNCHANGED <<db, connection, recons, pub, pconf, call, loop, hist>>

PublishWakes(p) ==
    /\ loop = None /\ ptask[p].pc = "sleep" /\ ~ptask[p].cancelled
    /\ broker = "up" /\ client # "none"
    /\ ptask' = [ptask EXCEPT ![p].pc = "sent", ![p].conn = "this"]
    /\ UNCHANGED <<db, connection, recons, pub, pconf, call, loop, hist>>

(* The message is out; with a message per register the next one follows.    *)
Published(p) ==
    /\ loop = None /\ ptask[p].pc = "sent" /\ ~ptask[p].cancelled
    /\ ptask[p].conn = "old" \/ (ptask[p].conn = "this" /\ client = "open")
    /\ \/ ptask' = [ptask EXCEPT ![p].pc = "sleep", ![p].conn = "none"]
       \/ client # "none" /\ ptask' = [ptask EXCEPT ![p].conn = "this"]
    /\ UNCHANGED <<db, connection, recons, pub, pconf, call, loop, hist>>

(* MqttError: a lost connection or a timeout.  _mark_broker_disconnected.   *)
PublishFails(p) ==
    /\ loop = None /\ ptask[p].pc = "sent" /\ ~ptask[p].cancelled
    /\ ptask' = [ptask EXCEPT ![p].pc = "sleep", ![p].conn = "none"]
    /\ broker' = Disconnected
    /\ Schedule
    /\ UNCHANGED <<db, net, client, leaked, pub, pconf, call, loop, hist>>

-----------------------------------------------------------------------------
(* The world.                                                               *)

(* _set_device_error of the simulation engine, after too many failed ticks. *)
DeviceFails(d) ==
    /\ loop = None /\ device[d] = "running"
    /\ device' = [device EXCEPT ![d] = "error"]
    /\ UNCHANGED <<row, config, connection, recons, publishers, call, loop, hist>>

NetDrops ==
    /\ net /\ net' = FALSE
    /\ client' = IF client = "open" THEN "dead" ELSE client
    /\ ptask' = [p \in Pubs |-> [ptask[p] EXCEPT !.conn = IF @ = "old" THEN "none" ELSE @]]
    /\ UNCHANGED <<db, broker, leaked, recons, pub, pconf, call, loop, hist>>

NetReturns ==
    /\ ~net /\ net' = TRUE
    /\ UNCHANGED <<db, broker, client, leaked, recons, publishers, call, loop, hist>>

(* The process dies, or ends after its shutdown, and is started again: what *)
(* the database holds is all that is left.                                  *)
Restart ==
    /\ broker' = "absent" /\ client' = "none" /\ leaked' = FALSE
    /\ recon' = None /\ rtask' = [r \in Recs |-> FreeRec]
    /\ pub' = [d \in Devices |-> None] /\ pconf' = {}
    /\ ptask' = [p \in Pubs |-> FreePub]
    /\ call' = Booting /\ loop' = None
    /\ overlap' = FALSE /\ untold' = {}
    /\ UNCHANGED <<db, net>>

-----------------------------------------------------------------------------
CallStep(c) ==
    \/ Resume(c) \/ CancelReconnect(c) \/ ListTasks(c) \/ CancelPublish(c) \/ Close(c)
    \/ Forget(c) \/ Open(c) \/ Opened(c) \/ Execute(c) \/ Database(c) \/ Starts(c)
    \/ Check(c) \/ Create(c)

ReconStep(r) ==
    \/ ReconnectCancelled(r) \/ ReconnectStarts(r) \/ ReconnectWakes(r)
    \/ ReconnectClosed(r) \/ ReconnectOpened(r)

PubStep(p) ==
    \/ PublishCancelled(p) \/ PublishStarts(p) \/ PublishWakes(p)
    \/ Published(p) \/ PublishFails(p)

Request(c) ==
    \/ CreateBroker(c) \/ UpdateBroker(c) \/ DeleteBroker(c)
    \/ \E d \in Devices : \/ DeleteConfig(c, d) \/ StartMqttPublishing(c, d)
                          \/ StopMqttPublishing(c, d) \/ StartDevice(c, d) \/ StopDevice(c, d)

Next ==
    \/ \E c \in Calls : Request(c)
    \/ \E c \in Threads : CallStep(c)
    \/ \E d \in Devices : UpsertConfig(d) \/ DeleteDevice(d) \/ DeviceFails(d)
    \/ ImportSystem
    \/ \E r \in Recs : ReconStep(r)
    \/ \E p \in Pubs : PubStep(p)
    \/ Shutdown \/ NetDrops \/ NetReturns \/ Restart

(* The event loop resumes a request whose await is over and never passes    *)
(* over a reconnect task that is ready for ever, however many turns the     *)
(* others take in between; the database answers, connection attempts end.   *)
Spec == /\ Init /\ [][Next]_vars
        /\ \A c \in Threads : WF_vars(CallStep(c))
        /\ \A p \in Pubs : WF_vars(PublishCancelled(p))
        /\ \A r \in Recs : SF_vars(ReconStep(r))

-----------------------------------------------------------------------------
Quiet == loop = None /\ \A c \in Threads : ~Busy(c)

(* A broker the status shows as not connected is being retried: between     *)
(* requests there is a reconnect task for it, whatever failed before.       *)
DownIsRetried == Quiet /\ broker = "down" => \E r \in Recs : LiveRec(r)

Pending(c) == {call[c].code[i].op : i \in DOMAIN call[c].code}

(* As long as requests do not overlap, a device has one publish task, the   *)
(* registered one that stop_publishing can cancel.                          *)
OnePublisher ==
    ~overlap => \A p \in Pubs : LivePub(p) /\ ~ptask[p].cancelled => pub[ptask[p].dev] = p

(* ... no client is replaced while it is still open: requests and the       *)
(* reconnect task do not connect at the same time.                          *)
NoLeakedConnection ==
    ~overlap => ~leaked

(* ... and between requests only what is enabled in the database is         *)
(* published, unless the adapter was not told: a start that failed has put  *)
(* the flag to off, an import has, or the device was deleted.               *)
PublishesEnabled ==
    Quiet /\ ~overlap => \A p \in Pubs : LivePub(p) =>
        config[ptask[p].dev] = "on" \/ ptask[p].dev \in untold

(* From some time on the broker can be reached and the process runs.        *)
Settled == <>[](net /\ "exit" \notin Pending(Main)) /\ <>[][~Restart]_vars

(* Then its status does not stay "not connected": the retries succeed.      *)
BrokerComesBack == Settled => []<>(broker # "down")

(* CHANGELOG: publish loops resume on reconnect, also for a broker that was *)
(* down at startup or after a settings update.                              *)
EnabledIsPublished ==
    Settled => \A d \in Devices :
        <>[](row /\ config[d] = "on" /\ device[d] = "running" /\ d \notin untold)
            => []<>(\E p \in Pubs : LivePub(p) /\ ptask[p].dev = d)
=============================================================================
