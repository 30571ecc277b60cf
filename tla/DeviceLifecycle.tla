---------------------------- MODULE DeviceLifecycle ----------------------------
(***************************************************************************)
(* backend/app/services/device_service.py with what it drives: the rows of  *)
(* device_instances, the Modbus adapter's registry (protocols/base.py,      *)
(* manager.py, modbus_tcp.py) and, abstracted to "is d simulated", the      *)
(* simulation engine.  Only the rows survive a crash of the process; at the *)
(* next boot resume_running_devices rebuilds the rest from them.            *)
(*                                                                          *)
(* A step is the code between two awaits that really suspend: a request     *)
(* reads a row, acts on the runtime and commits in different steps.         *)
(***************************************************************************)
EXTENDS Naturals, FiniteSets

CONSTANTS
    Devices,     \* ids of devices of one template, and so of one port
    Slaves,      \* slave ids
    Calls,       \* API requests that can be in progress at once
    NoDevice, NoSlave

ASSUME LifecycleAssumption ==
    /\ NoDevice \notin Devices
    /\ NoSlave \notin Slaves

VARIABLES
    row,         \* DB: device_instances
    known,       \* DB: the template's protocol is modbus_tcp, not a name
                 \* without an adapter
    slaveOf,     \* adapter: _device_to_slave
    owner,       \* adapter: _slave_to_device and the contexts being served
    stats,       \* adapter: is d a key of _device_stats
    simulated,   \* does the engine have an entry for d
    failing,     \* is the engine writing status "error" for d
    call,        \* the API requests in progress
    up,          \* does the process run
    serving,     \* protocol_manager.is_running
    disturbed    \* history: since the last boot two operations on d were in
                 \* progress together, or an import or a template update
                 \* changed its row or its adapter behind the runtime's back

adapterVars == <<slaveOf, owner, stats>>
engineVars == <<simulated, failing>>
process == <<up, serving>>
vars == <<row, known, slaveOf, owner, stats, simulated, failing, call, up,
          serving, disturbed>>

-----------------------------------------------------------------------------
NoRow == [status |-> "absent", slave |-> NoSlave]

Idle == [pc |-> "idle", dev |-> NoDevice, slave |-> NoSlave]

RowRecord == [status : {"absent", "stopped", "running", "error"},
              slave : Slaves \cup {NoSlave}]

CallRecord == [pc : {"idle", "add", "simulate", "running", "error", "stop", "remove",
                     "stopped", "update", "delete", "import"},
               dev : Devices \cup {NoDevice},
               slave : Slaves \cup {NoSlave}]

TypeOK ==
    /\ row \in [Devices -> RowRecord]
    /\ known \in BOOLEAN
    /\ slaveOf \in [Devices -> Slaves \cup {NoSlave}]
    /\ owner \in [Slaves -> Devices \cup {NoDevice}]
    /\ stats \in [Devices -> BOOLEAN]
    /\ simulated \in [Devices -> BOOLEAN]
    /\ failing \in [Devices -> BOOLEAN]
    /\ call \in [Calls -> CallRecord]
    /\ up \in BOOLEAN /\ serving \in BOOLEAN
    /\ disturbed \in [Devices -> BOOLEAN]

Nowhere == [d \in Devices |-> FALSE]

Init ==
    /\ row = [d \in Devices |-> NoRow]
    /\ known = TRUE
    /\ slaveOf = [d \in Devices |-> NoSlave]
    /\ owner = [s \in Slaves |-> NoDevice]
    /\ stats = Nowhere /\ simulated = Nowhere /\ failing = Nowhere
    /\ call = [c \in Calls |-> Idle]
    /\ up = FALSE /\ serving = FALSE
    /\ disturbed = Nowhere

Exists(d) == row[d].status # "absent"

(* _check_slave_id_available, and the constraint uq_device_slave_port.      *)
SlaveAvailable(s, d) == \A e \in Devices \ {d} : row[e].slave # s

(* The history variable disturbed.                                          *)
Busy(d) == failing[d] \/ \E c \in Calls : call[c].dev = d

Mark(d) == disturbed' = [disturbed EXCEPT ![d] = @ \/ Busy(d)]

(* A request reads d's row and goes on to phase pc.                         *)
Begin(c, d, pc) ==
    /\ up /\ call[c].pc = "idle"
    /\ call' = [call EXCEPT ![c] = [pc |-> pc, dev |-> d, slave |-> row[d].slave]]
    /\ Mark(d)
    /\ UNCHANGED <<row, known, adapterVars, engineVars, process>>

Finish(c) == call' = [call EXCEPT ![c] = Idle]

-----------------------------------------------------------------------------
(* start_device reads the row ...                                           *)
StartDevice(c, d) == row[d].status = "stopped" /\ Begin(c, d, "add")

(* Mutation for TypeOK: _slave_to_device gets the slave id itself.          *)
RegisterSwapped(d, s) ==
    /\ slaveOf' = [slaveOf EXCEPT ![d] = s]
    /\ owner' = [owner EXCEPT ![s] = s]
    /\ stats' = [stats EXCEPT ![d] = TRUE]

(* _do_add_device on a free slave id, with the statistics entry.            *)
Register(d, s) ==
    /\ slaveOf' = [slaveOf EXCEPT ![d] = s]
    /\ owner' = [owner EXCEPT ![s] = d]
    /\ stats' = [stats EXCEPT ![d] = TRUE]

(* Mutation for OwnSlave: a slave id in use is taken over.                  *)
SlaveTaken(s) == s \in Slaves

SlaveFree(s) == owner[s] = NoDevice

(* ... register_device_runtime adds the device to the adapter.  Without a   *)
(* running protocol manager it returns at once.  add_device first makes the *)
(* statistics entry and pops it when the registration raises, which it does *)
(* for a slave id in use.  A protocol without an adapter raises before that.*)
AddDevice(c) ==
    LET d == call[c].dev
        s == call[c].slave IN
    /\ call[c].pc = "add"
    /\ \/ /\ ~serving
          /\ call' = [call EXCEPT ![c].pc = "running"]
          /\ UNCHANGED adapterVars
       \/ /\ serving /\ ~known
          /\ call' = [call EXCEPT ![c].pc = "error"]
          /\ UNCHANGED adapterVars
       \/ /\ serving /\ known /\ SlaveFree(s)
          /\ Register(d, s)
          /\ call' = [call EXCEPT ![c].pc = "simulate"]
       \/ /\ serving /\ known /\ ~SlaveFree(s)
          /\ stats' = [stats EXCEPT ![d] = FALSE]
          /\ call' = [call EXCEPT ![c].pc = "error"]
          /\ UNCHANGED <<slaveOf, owner>>
    /\ UNCHANGED <<row, known, engineVars, process, disturbed>>

(* ... starts the simulation, which may have nothing to run or fail ...     *)
StartEngine(c) ==
    LET d == call[c].dev IN
    /\ call[c].pc = "simulate"
    /\ \E launched \in BOOLEAN :
          simulated' = [simulated EXCEPT ![d] = @ \/ launched]
    /\ call' = [call EXCEPT ![c].pc = "running"]
    /\ UNCHANGED <<row, known, adapterVars, failing, process, disturbed>>

(* ... and commits the status, as stop_device does.  The UPDATE of a row    *)
(* that is gone raises and changes nothing.                                 *)
CommitStatus(c) ==
    LET d == call[c].dev IN
    /\ call[c].pc \in {"running", "error", "stopped"}
    /\ row' = IF Exists(d) THEN [row EXCEPT ![d].status = call[c].pc] ELSE row
    /\ Finish(c)
    /\ UNCHANGED <<known, adapterVars, engineVars, process, disturbed>>

-----------------------------------------------------------------------------
(* stop_device reads the row ...                                            *)
StopDevice(c, d) == row[d].status \in {"running", "error"} /\ Begin(c, d, "stop")

(* ... stops the simulation (an error write on its way may be cancelled or  *)
(* not) ...                                                                 *)
StopEngine(c) ==
    LET d == call[c].dev IN
    /\ call[c].pc = "stop"
    /\ simulated' = [simulated EXCEPT ![d] = FALSE]
    /\ \E still \in BOOLEAN : failing' = [failing EXCEPT ![d] = @ /\ still]
    /\ call' = [call EXCEPT ![c].pc = "remove"]
    /\ UNCHANGED <<row, known, adapterVars, process, disturbed>>

(* Mutation for NoGhostSlave: the slave's context is left in the server.    *)
UnregisterKeepsContext(d) ==
    /\ slaveOf' = [slaveOf EXCEPT ![d] = NoSlave]
    /\ stats' = [stats EXCEPT ![d] = FALSE]
    /\ UNCHANGED owner

(* Mutation for StoppedIsGone: the statistics entry stays.                  *)
UnregisterKeepsStats(d) ==
    /\ slaveOf' = [slaveOf EXCEPT ![d] = NoSlave]
    /\ owner' = [s \in Slaves |-> IF s = slaveOf[d] THEN NoDevice ELSE owner[s]]
    /\ UNCHANGED stats

(* _do_remove_device, with the statistics entry.                            *)
Unregister(d) ==
    /\ slaveOf' = [slaveOf EXCEPT ![d] = NoSlave]
    /\ owner' = [s \in Slaves |-> IF s = slaveOf[d] THEN NoDevice ELSE owner[s]]
    /\ stats' = [stats EXCEPT ![d] = FALSE]

(* ... and removes the device from the adapter its template names now.      *)
RemoveDevice(c) ==
    LET d == call[c].dev IN
    /\ call[c].pc = "remove"
    /\ IF serving /\ known THEN Unregister(d) ELSE UNCHANGED adapterVars
    /\ call' = [call EXCEPT ![c].pc = "stopped"]
    /\ UNCHANGED <<row, known, engineVars, process, disturbed>>

-----------------------------------------------------------------------------
(* create_device and batch_create_devices; a new device has a fresh id.     *)
(* _resolve_port raises for a protocol it does not know.                    *)
CreateDevice(d) ==
    /\ up /\ known /\ ~Exists(d)
    /\ ~Busy(d) /\ ~stats[d] /\ ~simulated[d] /\ \A s \in Slaves : owner[s] # d
    /\ \E s \in Slaves :
          /\ SlaveAvailable(s, d)
          /\ row' = [row EXCEPT ![d] = [status |-> "stopped", slave |-> s]]
    /\ disturbed' = [disturbed EXCEPT ![d] = FALSE]
    /\ UNCHANGED <<known, adapterVars, engineVars, call, process>>

(* Mutation for LegalTransitions: a running device may be updated.          *)
UpdateDeviceUnguarded(c, d) == Exists(d) /\ Begin(c, d, "update")

(* update_device and delete_device only refuse a device that is "running".  *)
UpdateDevice(c, d) == row[d].status \in {"stopped", "error"} /\ Begin(c, d, "update")

CommitUpdate(c) ==
    LET d == call[c].dev IN
    /\ call[c].pc = "update"
    /\ IF Exists(d) /\ known
       THEN \E s \in Slaves : /\ SlaveAvailable(s, d)
                              /\ row' = [row EXCEPT ![d].slave = s]
       ELSE UNCHANGED row
    /\ Finish(c)
    /\ UNCHANGED <<known, adapterVars, engineVars, process, disturbed>>

DeleteDevice(c, d) == row[d].status \in {"stopped", "error"} /\ Begin(c, d, "delete")

CommitDelete(c) ==
    /\ call[c].pc = "delete"
    /\ row' = [row EXCEPT ![call[c].dev] = NoRow]
    /\ Finish(c)
    /\ UNCHANGED <<known, adapterVars, engineVars, process, disturbed>>

(* system_service.import_system over a row that runs: the row becomes       *)
(* "stopped", the runtime is left alone.                                    *)
ImportSystem(c, d) == row[d].status = "running" /\ Begin(c, d, "import")

CommitImport(c) ==
    LET d == call[c].dev IN
    /\ call[c].pc = "import"
    /\ row' = IF Exists(d) THEN [row EXCEPT ![d].status = "stopped"] ELSE row
    /\ disturbed' = [disturbed EXCEPT ![d] = TRUE]
    /\ Finish(c)
    /\ UNCHANGED <<known, adapterVars, engineVars, process>>

(* update_template may give the template any protocol name, at any time.    *)
UpdateTemplate ==
    /\ up
    /\ known' = ~known
    /\ disturbed' = [d \in Devices |-> TRUE]
    /\ UNCHANGED <<row, adapterVars, engineVars, call, process>>

-----------------------------------------------------------------------------
(* The engine gives a device up and sets its status in a session of its own;*)
(* a database failure is swallowed.                                         *)
EngineGivesUp(d) ==
    /\ up /\ simulated[d]
    /\ simulated' = [simulated EXCEPT ![d] = FALSE]
    /\ failing' = [failing EXCEPT ![d] = TRUE]
    /\ Mark(d)
    /\ UNCHANGED <<row, known, adapterVars, call, process>>

SetDeviceError(d) ==
    /\ up /\ failing[d]
    /\ failing' = [failing EXCEPT ![d] = FALSE]
    /\ \/ row' = IF Exists(d) THEN [row EXCEPT ![d].status = "error"] ELSE row
       \/ UNCHANGED row
    /\ UNCHANGED <<known, adapterVars, simulated, call, process, disturbed>>

(* The process ends, in an orderly way or not: only the database is left.   *)
Crash ==
    /\ up /\ up' = FALSE /\ serving' = FALSE
    /\ slaveOf' = [d \in Devices |-> NoSlave]
    /\ owner' = [s \in Slaves |-> NoDevice]
    /\ stats' = Nowhere /\ simulated' = Nowhere /\ failing' = Nowhere
    /\ call' = [c \in Calls |-> Idle]
    /\ disturbed' = Nowhere
    /\ UNCHANGED <<row, known>>

(* Mutation for RunningIsServed: boot resumes errored devices, not running  *)
(* ones.                                                                    *)
ResumesErrored(d) == row[d].status = "error" /\ known

(* Is d registered again at boot.                                           *)
Resumes(d) == row[d].status = "running" /\ known

(* The lifespan's start, before the first request: the adapters start (if   *)
(* one fails the manager does not count as running), then every device      *)
(* marked running is registered again; a failure leaves its status alone.   *)
Boot ==
    /\ ~up /\ up' = TRUE
    /\ serving' \in BOOLEAN
    /\ LET resumed == {d \in Devices : serving' /\ Resumes(d)} IN
       /\ slaveOf' = [d \in Devices |-> IF d \in resumed THEN row[d].slave ELSE NoSlave]
       /\ owner' = [s \in Slaves |->
                      IF \E d \in resumed : row[d].slave = s
                      THEN CHOOSE d \in resumed : row[d].slave = s ELSE NoDevice]
       /\ stats' = [d \in Devices |-> d \in resumed]
       /\ \E launched \in SUBSET resumed : simulated' = [d \in Devices |-> d \in launched]
    /\ UNCHANGED <<row, known, failing, call, disturbed>>

-----------------------------------------------------------------------------
CallStep(c) ==
    \/ AddDevice(c) \/ StartEngine(c) \/ CommitStatus(c) \/ StopEngine(c)
    \/ RemoveDevice(c) \/ CommitUpdate(c) \/ CommitDelete(c) \/ CommitImport(c)

Next ==
    \/ \E c \in Calls, d \in Devices :
          \/ StartDevice(c, d) \/ StopDevice(c, d) \/ UpdateDevice(c, d)
          \/ DeleteDevice(c, d) \/ ImportSystem(c, d)
    \/ \E c \in Calls : CallStep(c)
    \/ \E d \in Devices :
          CreateDevice(d) \/ EngineGivesUp(d) \/ SetDeviceError(d)
    \/ UpdateTemplate \/ Crash \/ Boot

Spec == Init /\ [][Next]_vars /\ \A c \in Calls : WF_vars(CallStep(c))

-----------------------------------------------------------------------------
(* No operation is in progress, none raced with another since the last boot,*)
(* and no import or template update went behind the runtime's back.         *)
Settled(d) == ~Busy(d) /\ ~disturbed[d]

(* However requests interleave, a device answers only under a slave id that *)
(* belongs to it: two devices never share one, and stopping a device never  *)
(* takes another device's slave away.                                       *)
OwnSlave ==
    \A d \in Devices : slaveOf[d] # NoSlave => owner[slaveOf[d]] = d

(* A running device is served, under the slave id of its row and with its   *)
(* statistics, also after a crash: if the adapters came up at boot.         *)
RunningIsServed ==
    \A d \in Devices :
        row[d].status = "running" /\ up /\ serving /\ known /\ Settled(d)
            => slaveOf[d] = row[d].slave /\ owner[row[d].slave] = d /\ stats[d]

(* A stopped device has no runtime left: no slave, statistics or simulation.*)
StoppedIsGone ==
    \A d \in Devices :
        row[d].status = "stopped" /\ Settled(d)
            => /\ slaveOf[d] = NoSlave /\ \A s \in Slaves : owner[s] # d
               /\ ~stats[d] /\ ~simulated[d]

(* Without races and bypasses the adapter serves no slave that remove_device*)
(* could not find again.                                                    *)
NoGhostSlave ==
    \A d \in Devices, s \in Slaves :
        owner[s] = d /\ ~disturbed[d] => slaveOf[d] = s

(* A running device is neither deleted nor given another slave id, and an   *)
(* errored one is stopped before it runs again, unless requests raced.      *)
LegalTransitions ==
    [][\A d \in Devices : ~disturbed[d] =>
         /\ row[d].status = "running" => row'[d].slave = row[d].slave
         /\ row[d].status = "error" => row'[d].status # "running"]_vars

(* What base.py says of add_device: a failed add leaves no trace.           *)
FailedAddLeavesNoTrace ==
    [][\A c \in Calls :
         AddDevice(c) /\ call'[c].pc = "error" => UNCHANGED adapterVars]_vars
=============================================================================
