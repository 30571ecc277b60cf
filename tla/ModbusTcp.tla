----------------------------- MODULE ModbusTcp -----------------------------
(***************************************************************************)
(* protocols/modbus_tcp.py: one pymodbus server whose context maps slave   *)
(* ids to datastores.  A timeout or intermittent fault takes the slave out *)
(* of the server's context and a task puts it back 0.1 s later; the        *)
(* request that met the fault is looked up in the context only after       *)
(* trace_pdu has returned, in a later turn of the event loop.              *)
(***************************************************************************)
EXTENDS DeviceComms, Sequences

CONSTANTS
    Slaves,      \* slave ids
    Requests,    \* requests being tracked at the same time
    Tids         \* transaction ids (each client numbers its own)

ASSUME SlavesAssumption == None \notin Slaves

\* A datastore is the one _slave_contexts holds for its slave, or one that
\* an earlier registration of the slave held.
Contexts == {"current", "stale"}

VARIABLES
    mRunning,    \* _context and _server exist
    slaveOf,     \* _device_to_slave
    slaveDev,    \* _slave_to_device, and the keys of _slave_contexts
    served,      \* _context._devices: the datastore, or "none"
    restores,    \* pending _restore tasks in the order of their timers
    started,     \* transaction ids in _request_start_times
    req,         \* what has happened to each request
    refilled,    \* slaves added while a _restore for them was pending
    leftBehind   \* slaves whose device was added again, under another one

modbusVars == <<mRunning, slaveOf, slaveDev, served, restores, started, req, refilled,
                leftBehind>>

NoReq == [st |-> "idle", slave |-> None, tid |-> None,
          counts |-> 0, crossed |-> FALSE]

ModbusTypeOK ==
    /\ mRunning \in BOOLEAN
    /\ slaveOf \in [Devices -> Slaves \cup {None}]
    /\ slaveDev \in [Slaves -> Devices \cup {None}]
    /\ served \in [Slaves -> Contexts \cup {"none"}]
    /\ restores \in Seq([slave : Slaves, ctx : Contexts, by : Requests])
    /\ started \subseteq Tids
    /\ req \in [Requests ->
                  [st : {"idle", "arrived", "ended"},
                   slave : Slaves \cup {None}, tid : Tids \cup {None},
                   counts : 0 .. 2, crossed : BOOLEAN]]
    /\ refilled \subseteq Slaves
    /\ leftBehind \subseteq Slaves

ModbusInit ==
    /\ mRunning = TRUE
    /\ slaveOf = [d \in Devices |-> None]
    /\ slaveDev = [s \in Slaves |-> None]
    /\ served = [s \in Slaves |-> "none"]
    /\ restores = <<>>
    /\ started = {}
    /\ req = [r \in Requests |-> NoReq]
    /\ refilled = {}
    /\ leftBehind = {}

Pending(s) == \E i \in 1 .. Len(restores) : restores[i].slave = s

Open(r) == req[r].st = "arrived"

\* Note that something else happened to the slaves of ss, or with
\* transaction id t, while a request was on its way.
Cross(q, ss, t) ==
    [r \in Requests |-> IF q[r].st = "arrived" /\ (q[r].slave \in ss \/ q[r].tid = t)
                        THEN [q[r] EXCEPT !.crossed = TRUE] ELSE q[r]]

\* The slaves that answer for d.  An import can mark a device "stopped" that
\* is still registered, and an update can give it another slave id then: the
\* next start adds it a second time.
SlavesOf(d) == {s \in Slaves : slaveDev[s] = d}

----------------------------------------------------------------------------
(* add_device, remove_device.  Neither awaits anything. *)

\* The slave id is taken: ValueError, and base.add_device drops the
\* statistics entry of the device.
ModbusAddRefused(d, s) ==
    /\ mRunning
    /\ slaveDev[s] # None
    /\ DropStats(d)
    /\ req' = Cross(req, SlavesOf(d), None)
    /\ UNCHANGED <<fault, events, unread, mRunning, slaveOf, slaveDev, served,
                   restores, started, refilled, leftBehind>>

\* A slave id the device had before stays in the other maps and is served.
ModbusAdd(d, s) ==
    /\ mRunning
    /\ slaveDev[s] = None
    /\ served' = [served EXCEPT ![s] = "current"]
    /\ slaveOf' = [slaveOf EXCEPT ![d] = s]
    /\ slaveDev' = [slaveDev EXCEPT ![s] = d]
    /\ refilled' = IF Pending(s) THEN refilled \cup {s} ELSE refilled \ {s}
    /\ leftBehind' = leftBehind \cup ({slaveOf[d]} \ {None})
    /\ req' = Cross(req, {s} \cup SlavesOf(d), None)
    /\ AddStats(d)
    /\ UNCHANGED <<fault, events, unread, mRunning, restores, started>>

\* A pending _restore holds on to the datastore it took out.
Outdate(s) ==
    [i \in 1 .. Len(restores) |->
        IF restores[i].slave = s THEN [restores[i] EXCEPT !.ctx = "stale"]
        ELSE restores[i]]

ModbusRemove(d) ==
    /\ mRunning
    /\ slaveOf[d] # None
    /\ slaveOf' = [slaveOf EXCEPT ![d] = None]
    /\ slaveDev' = [slaveDev EXCEPT ![slaveOf[d]] = None]
    /\ served' = [served EXCEPT ![slaveOf[d]] = "none"]
    /\ restores' = Outdate(slaveOf[d])
    /\ Forget({d})
    /\ DropStats(d)
    /\ req' = Cross(req, SlavesOf(d), None)
    /\ UNCHANGED <<fault, mRunning, started, refilled, leftBehind>>

----------------------------------------------------------------------------
(* stop.  While it awaits the server's shutdown nothing can happen that
   could not have happened before it, so it is one step; the process ends
   after it. *)

ModbusStop ==
    /\ mRunning
    /\ mRunning' = FALSE
    /\ Forget({d \in Devices : slaveOf[d] # None})
    /\ counting' = {}
    /\ slaveOf' = [d \in Devices |-> None]
    /\ slaveDev' = [s \in Slaves |-> None]
    /\ served' = [s \in Slaves |-> "none"]
    /\ started' = {}
    /\ req' = [r \in Requests |-> IF Open(r) THEN NoReq ELSE req[r]]
    /\ UNCHANGED <<fault, restores, refilled, leftBehind>>

----------------------------------------------------------------------------
(* trace_pdu *)

\* Mutant: the slave is never put back.
SuppressForGood(r, s) ==
    /\ served' = [served EXCEPT ![s] = "none"]
    /\ UNCHANGED restores

\* _suppress_slave: take the slave's context out, put it back in 0.1 s.
Suppress(r, s) ==
    /\ served' = [served EXCEPT ![s] = "none"]
    /\ restores' = Append(restores, [slave |-> s, ctx |-> "current", by |-> r])

\* A delay fault sleeps in trace_pdu, which holds up the whole event loop but
\* leaves no trace in its state: it is not told from no fault.
ModbusFaults == FaultTypes \ {"delay"}

\* Incoming: a read, or a write that is recorded.  A slave the adapter does
\* not know is passed on untouched.
ModbusArrive(r, s, t, write, drop) ==
    /\ mRunning
    /\ req[r].st = "idle"
    /\ LET d == slaveDev[s]
           q == [st |-> "arrived", slave |-> s, tid |-> t,
                 counts |-> IF drop /\ d \in counting THEN 1 ELSE 0,
                 crossed |-> \/ d \notin counting \/ Pending(s)
                             \/ \E o \in Requests : Open(o) /\ req[o].tid = t]
       IN IF d = None
          THEN /\ ~ drop /\ ~ write
               /\ req' = [Cross(req, {}, t) EXCEPT ![r] = q]
               /\ UNCHANGED <<events, unread, served, restores, started>>
          ELSE /\ started' = started \cup {t}
               /\ IF write THEN record(d) ELSE UNCHANGED <<events, unread>>
               /\ IF drop THEN MayDrop(d) /\ Suppress(r, s)
                  ELSE MayPass(d) /\ UNCHANGED <<served, restores>>
               /\ req' = [Cross(req, IF drop THEN {s} ELSE {}, t) EXCEPT ![r] = q]
    /\ UNCHANGED <<fault, counting, mRunning, slaveOf, slaveDev, refilled, leftBehind>>

\* Mutant: an exception response also counts as a success.
CountTwice(d, t) == IF fault[d] = "exception" THEN 2 ELSE 1

\* Outgoing: an exception counts as an error; any other answer as a success
\* if the time its transaction id started is still known.
Counted(d, t) == IF fault[d] = "exception" \/ t \in started THEN 1 ELSE 0

\* pymodbus looks the slave up; ignore_missing_devices makes an absent one
\* silent.  The answer passes trace_pdu before it is sent.
ModbusLookup(r) ==
    /\ Open(r)
    /\ LET s == req[r].slave
           t == req[r].tid
           d == slaveDev[s]
       IN IF served[s] = "none"
          THEN /\ req' = [req EXCEPT ![r].st = "ended", ![r].slave = None, ![r].tid = None]
               /\ UNCHANGED started
          ELSE /\ req' = [req EXCEPT
                            ![r].st = "ended", ![r].slave = None, ![r].tid = None,
                            ![r].counts = IF d \in counting /\ @ < 2
                                          THEN @ + Counted(d, t) ELSE @]
               /\ started' = IF d = None THEN started ELSE started \ {t}
    /\ UNCHANGED <<commVars, mRunning, slaveOf, slaveDev, served, restores, refilled,
                   leftBehind>>

\* Mutant: the slave is put back whether or not it is still registered.
RestoreAnyway(s, c) == served' = [served EXCEPT ![s] = c]

PutBack(s, c) ==
    IF slaveDev[s] # None THEN served' = [served EXCEPT ![s] = c] ELSE UNCHANGED served

\* The timers all run 0.1 s, so they end in the order they began, and the
\* lookup of a request is in the loop's queue before its own timer ends.
ModbusRestore ==
    /\ restores # <<>>
    /\ ~ Open(Head(restores).by)
    /\ PutBack(Head(restores).slave, Head(restores).ctx)
    /\ restores' = Tail(restores)
    /\ UNCHANGED <<commVars, mRunning, slaveOf, slaveDev, started, req, refilled,
                   leftBehind>>

\* A request that has ended is no longer of interest.
ModbusEnd(r) ==
    /\ req[r].st = "ended"
    /\ \A i \in 1 .. Len(restores) : restores[i].by # r
    /\ req' = [req EXCEPT ![r] = NoReq]
    /\ UNCHANGED <<commVars, mRunning, slaveOf, slaveDev, served, restores, started,
                   refilled, leftBehind>>

\* Steps of the adapter and its clients when the devices of ds use it.
ModbusNext(ds) ==
    \/ \E d \in ds, s \in Slaves : ModbusAdd(d, s) \/ ModbusAddRefused(d, s)
    \/ \E d \in ds : ModbusRemove(d)
    \/ ModbusStop
    \/ \E r \in Requests, s \in Slaves, t \in Tids, write, drop \in BOOLEAN :
          ModbusArrive(r, s, t, write, drop)
    \/ \E r \in Requests : ModbusLookup(r) \/ ModbusEnd(r)
    \/ ModbusRestore
    \/ \E d \in ds : /\ mRunning
                     /\ SetFault(d, ModbusFaults) \/ ClearFault(d) \/ mark_read(d)
                     /\ UNCHANGED modbusVars

\* The event loop runs what is ready.
ModbusFairness ==
    /\ \A r \in Requests : WF_<<commVars, modbusVars>>(ModbusLookup(r))
    /\ WF_<<commVars, modbusVars>>(ModbusRestore)

ModbusSpec ==
    /\ ModbusInit /\ CommsInit
    /\ [][ModbusNext(Devices)]_<<commVars, modbusVars>>
    /\ ModbusFairness

----------------------------------------------------------------------------
(* _restore never puts back a slave that was removed in the meantime
   (modbus_tcp.py:219-220), so the server answers for a slave only while its
   device is registered under it, and with the datastore update_register
   writes to.  There are two ways out, each through a second add: a slave left behind by
   an add of its device under another id (lines 278 and 303) is served for
   ever with a datastore nobody writes to, and one that was added again while
   a _restore of its old datastore was pending is served the old one. *)
ServedIsRegistered ==
    \A s \in Slaves :
        served[s] # "none" =>
            /\ slaveDev[s] # None
            /\ slaveOf[slaveDev[s]] = s \/ s \in leftBehind
            /\ served[s] = "stale" => s \in refilled

(* A request to a device with statistics is counted exactly once, answered or
   left silent, if nothing else crossed its way: a pending _restore, another request with
   its transaction id, a fault another request met, or an add, remove or
   stop of its slave. *)
RequestCountedOnce ==
    \A r \in Requests :
        req[r].st = "ended" /\ ~ req[r].crossed => req[r].counts = 1

(* A slave that was taken out of the context to simulate a timeout is served
   again, or removed. *)
SuppressedComesBack ==
    \A s \in Slaves :
        (slaveDev[s] # None /\ served[s] = "none")
            ~> (slaveDev[s] = None \/ served[s] # "none")
=============================================================================
