# A TLA+ model of GhostMeter

GhostMeter simulates field devices (power meters, inverters, UPSs) that clients poll over
Modbus TCP, SNMP, OPC UA, BACnet and MQTT. A FastAPI backend keeps devices, templates and
simulation configs in PostgreSQL and runs everything else on one asyncio event loop in one
process. There are no locks: what protects a piece of state is that no other coroutine
runs between two awaits. This project models that concurrency: a step of a module is the
code between two awaits that really suspend, and requests, simulation tasks,
done-callbacks, timers and crashes interleave at that grain.

## Inventory

| Part | State | Operations | Hard behaviour | What makes it correct |
|---|---|---|---|---|
| Simulation engine (`simulation/engine.py`) | `_device_states`, `_device_values`, one task per device | start, stop, reload, restart after a crash, give up, shutdown | check-then-await-then-write in start; stop against a delayed restart; late done-callbacks; restart counter carried through a pop | one live, registered task per device; no dead entry; no silent death; restarts end; writes take effect |
| Scenario runner (`services/scenario_runner.py`, `scenario_service.py`, `routes/scenarios.py`) | `_running`, a timeline task per device, `active_anomalies` | start, stop, poll, status; step validation | start re-checks after an await; stop awaits the cancelled timeline while another scenario may start; late polls; adjacent steps | one timeline; nothing injected outlives its scenario; a step holds for its window; scenarios end |
| Anomaly injector (`simulation/anomaly_injector.py`) | real-time anomalies and schedules per device | inject, remove, clear, load schedules, apply | several writers: API, scenario, engine | as above; adjacent schedules |
| Device service (`services/device_service.py`) | rows of `device_instances` (status, slave id) | create, update, delete, start, stop, batch, resume at boot | every request reads a row, awaits, acts, awaits, commits | status, Modbus registry and simulation agree; slave ids are not shared; a crash is repaired at boot |
| Protocol manager, adapter base (`protocols/manager.py`, `base.py`) | adapters, running flag, statistics | start and stop all, add, remove, reset | roll-back of a failed add; one adapter failing at start | a failed add leaves no trace |
| Modbus TCP adapter (`protocols/modbus_tcp.py`) | slave contexts, both directions of the slave map, fault state, start times | add, remove, trace, suppress, write a register | a suppressed slave restored after the device was replaced; limits of the maps | a device answers only under its own slave id |
| MQTT adapter and service (`protocols/mqtt_adapter.py`, `services/mqtt_service.py`, `routes/mqtt.py`) | clients, publish tasks, reconnect tasks, publish configs | connect, reconnect, publish, stop, resume at boot | tasks that overwrite each other's registry entries; resume after reconnect; an unreliable network | one publish task per device and broker; a lost broker is retried; publishing resumes |
| OPC UA adapter (`protocols/opcua_agent.py`) | nodes, `_faulted`, value callbacks | add, remove, update, apply and remove a fault, client writes | an await per node while other requests change the same device | callbacks agree with the fault and go with it |
| SNMP adapter (`protocols/snmp_agent.py`) | OID map, OIDs per device, sorted keys | add, remove, GET, GETNEXT, deferred answers | the map changes during a walk; values appear late | a walk goes forward and leaves nothing out |
| BACnet adapter (`protocols/bacnet_agent.py`) | an application per device, instances, the virtual LAN | add, remove, read, write, tear down | a half-built application; closing does not detach its node | one node per application, no shared address |
| Fault simulator, write tracker | a fault per device; a ring buffer and an unread count per device | set, clear; record, acknowledge, clear | two maps kept in step; limits | events belong to a live registration; the list holds the unread ones |
| Monitor and WebSocket (`services/monitor_service.py`, `api/websocket.py`) | event log, set of clients, broadcast task | log, connect, greet, broadcast, stop | iteration over a set with awaits inside; failures in the middle of a round | events reach every open page |
| Templates, profiles, system import | rows | CRUD, clone, import, export | an import over running devices; concurrent default profiles; clone loses fields | round trips; one default per template |
| Data generator, expression parser | none | generate a value | floating point | out of TLC's reach |
| Frontend (`hooks/useWebSocket.ts`) | stores, a reconnecting WebSocket | connect, reconnect, dispose | a timer that outlives its page | reconnects until disposed, one socket per page |

The parts talk by direct calls: `device_service` calls the protocol manager, the engine,
the scenario runner and the MQTT adapter; `simulation_service` calls the engine; the engine
and the scenario runner share the anomaly injector; the engine writes the device's status
in a session of its own. `PROJECT.json` lists every component with its status and the
hazards found at their lines.

## Plan

1. `SimulationEngine`: the core, with its callers. **Done, safety proved.**
2. `ScenarioRunner`: timelines and the real-time part of the injector. **Done, safety
   proved.**
3. `DeviceLifecycle`: rows, Modbus registry, crash and resume, with the engine abstracted
   to "is the device simulated". **Done, safety proved.**
4. `MqttAdapter`: connections, reconnect and publish tasks with their requests. **Done,
   safety proved.**
5. `DeviceComms`, `ModbusTcp`, `OpcUaAgent`, `SnmpAgent`, `BacnetAgent`, composed by
   `ProtocolServers`: the request, fault and registration paths of the servers. **Done,
   safety proved.**
6. `MonitorFeed`: event log, broadcast and the browser's reconnect. **Done, safety proved.**
7. `ScenarioContract`: what the scenario runner promises, and the refinement. **Done, the
   safety half proved, the liveness half model-checked.**

Every safety property of a passing run is stated by a theorem; what is left to TLC is liveness.

## Modules

### SimulationEngine

`entry` and `attempts` are `_device_states` (task and restart count), `values` the keys of
`_device_values`, `task` the asyncio tasks, `call` the requests in progress, `config`,
`known` and `status` the rows the engine and its callers read and write. A task identity
names the simulation task and, after a crash, the background job its done-callback creates.
An action is one stretch of code between awaits:

| Code | Actions |
|---|---|
| `device_service.start_device`, up to the adapter, its failure, and its last commit | `StartDevice`, `RegisterFails`, `CommitRunning` |
| the engine's `start_device`, `_launch_device_task` | `EngineStart`, `CallReadsConfigs`, `CallLaunches`, `CallLoadFails` |
| `device_service.stop_device`, up to the engine, and its last commit | `StopDevice`, `CommitStopped` |
| the engine's `stop_device`, `reload_device` | `EngineStop`, `BeginStop`, `StopResumes` |
| `_reload_if_running` after a commit | `CommitConfigs`, `ReloadIfRunning` |
| `_run_device` | `RunDevice`, `Tick`, `GiveUp`, `Cancelled` |
| `_on_task_done` | `OnTaskReturned`, `OnTaskCrashed` |
| `_delayed_restart` | `DelayedRestart`, `RestartReadsConfigs`, `RestartLaunches`, `RestartFails`, `SetDeviceError` |
| `shutdown` | `Shutdown`, `ShutdownResumes` |
| `import_system`, `delete_device`, `update_template` | `ImportSystem`, `DeleteDevice`, `UpdateTemplate` |

`CallbacksRun` is the one fact taken from asyncio: a done-callback is queued in the loop
iteration that ends its task, so it runs before a database answer or timer noticed later;
a request that is already runnable may still come first. A start is
refused unless the row says "stopped", a stop if it does, at the moment the request reads
the row; what the request writes at its end it writes over whatever the row says by then
(`CommitRunning`, `CommitStopped`). `UpdateTemplate` exists because the only way
`_run_device` crashes is a protocol without an adapter.

An import and a deletion never call the engine. An import replaces the configs of a device
and marks it stopped if it was running, in one transaction and at any time; a deletion
takes a device that is not running and its configs away. Neither is a request in progress:
they overlap nothing and are admitted next to everything else.

Many promises hold only while operations on a device do not overlap. The history variable
`overlap` records that they did, also that a start overwrote an error its device reported
meanwhile; `intent` records what the last request asked for; `unread` that an import or a
deletion changed the configs and the engine has not read them since. Properties that
mention them say what is guaranteed without a race and without an import; those that do
not (`TypeOK`, `NoDeadEntry`) hold in every interleaving.

### ScenarioRunner (TLC: MCScenarioRunner)

One device. `running` is `_running[device_id]`, `run` the `RunningScenario` objects with
their timelines, `injected` the real-time anomalies with who put them there, `device` the
status. `Turn` is one turn of `_drive_timeline`: inject, then remove, then complete or
sleep, in that order. Time is whole seconds, because the code compares elapsed time only
with integers; a poll may be up to `MaxGap` seconds late. `StopDevice`, `StopScenario`,
`StopEngine`, `CommitStopped` are the stretches of `device_service.stop_device`. The other
writers of the injector are actions of their own; the history bit `clean` says that nobody
else wrote it during a run, `raced` that the run was started while its device was stopped,
`imported` that it was an import, and no request, that marked the device stopped: an import
leaves the scenario running.

### DeviceLifecycle (TLC: MCDeviceLifecycle)

`row` and `known` are the database; `slaveOf`, `owner` and `stats` the Modbus registry;
`simulated` and `failing` abstract the engine. A request is `StartDevice`, `StopDevice`,
`UpdateDevice`, `DeleteDevice` or `ImportSystem` (it reads the row), followed by the steps
that act and commit. `Crash` keeps only the rows; `Boot` starts the adapters and resumes
the running devices before the first request, so it is one step. The devices share one
template, and so one protocol and port. `disturbed` records that operations on a device
overlapped, or that an import or a template update changed the row or the adapter behind
the runtime's back; a crash clears it, because boot rebuilds the runtime from the rows.
MQTT publishing and scenarios, which start and stop also drive, are not part of this module.

### ScenarioContract

The runner's promise to everybody else who uses a device's anomalies, without time, steps
or requests: one run is in charge (`slot`), only that one marks registers, a cancelled one
is `owed` until it has taken its marks away, and neither lasts for ever. `ScenarioRunner`
instantiates it as `Contract`, with `slot` the registered run, `owed` the cancelled ones
and `marks` who injected what is on a register. `Safety` is the part of the contract
without fairness, which `RunnerKeepsContract` proves the runner to keep.

### MqttAdapter

One broker and the devices that publish to it. `row`, `config` and `device` are the
database; `broker`, `client`, `recon`, `pub` and `pconf` the adapter's maps; `rtask` and
`ptask` the tasks those maps register; `net` whether the broker can be reached. A request,
the start-up and the shutdown are lists of instructions (`call`); the ones that do not
suspend run in one turn, held by `loop`, so a request gives way exactly where the code
awaits. Tasks: `ReconnectStarts` to `ReconnectOpened` are `_reconnect_loop` with
`_close_client` and `_try_connect`, `PublishStarts` to `PublishFails` are `_publish_loop`
with `_publish_one`. `NetDrops`, `NetReturns` and `Restart` are the environment.

What the code guarantees only while requests do not overlap is guarded by the history bit
`overlap`; two requests that overlap leave the adapter as they please (an update and a start
can both leave publish tasks that no registry holds), so after an overlap the model lets
the requests finish and begins no other until the process restarts. `untold` are the
devices whose flag changed without a word to the adapter, so that a task that runs goes on:
by a failed `POST mqtt/start` that puts its flag to off while the old task lives, by an
import (`ImportSystem`, which writes flags, may add the broker's row and marks running
devices stopped), or by the deletion of a device, with which its config goes
(`DeleteDevice`). A broker row that came with an import is one the adapter does not know:
it is not retried until something connects it, and `DownIsRetried` speaks of the brokers the
adapter knows. `DeviceFails` is the simulation engine's error, from "running" only: here the
status decides what a resume starts and what may be deleted, and nothing else.

With a second device `NoLeakedConnection` no longer holds: a publisher that fails while an
update awaits the cancellation of the retry or of another publisher schedules a reconnect
task, which then connects at the same time as the update. `OnlyRacesLeak` proves that this
race is the only way to leak a client while requests do not overlap.

### DeviceComms, ModbusTcp, OpcUaAgent, SnmpAgent, BacnetAgent, ProtocolServers (TLC: MCProtocolServers)

`DeviceComms` holds what all servers share about a device: its fault, its write events
with the unread count, and whether it has a statistics entry. Each server's module extends
it and takes the devices that use the server as a parameter of its next-state relation;
`ProtocolServers` composes them. Servers share nothing else, so a behaviour follows one
server (`protocol`), which keeps the state space a sum and not a product.

- `ModbusTcp`: pymodbus calls `trace_pdu` when a request arrives (`ModbusArrive`), looks
  the slave up in a later turn and calls it again for the answer (`ModbusLookup`).
  `Suppress` takes the slave out of the server's context, `ModbusRestore` puts it back when
  its timer ends; timers end in the order they began, and a request's own lookup is queued
  before its timer ends. A delay fault blocks the loop inside `trace_pdu` and is therefore
  no step. `refilled` marks a slave added again while a restore of its old datastore was
  pending (the old one then replaces the new one), `leftBehind` a slave whose device was
  added again under another id (an import left it registered, an update renumbered it): only
  the slave id is checked, so the old one is served for ever; `crossed` a request that met
  something else on its way (the same transaction id, a pending restore, an add, a remove;
  a request to a slave nobody registered crosses others of its transaction id as well: if
  the slave is added before its lookup, its answer takes the other's start time).
- `OpcUaAgent`: every await inside `_do_add_device`, `_do_remove_device` and
  `remove_fault` is taken as a place where other requests may run, since asyncua is free to
  suspend there. The write of a tick begins (`OpcUpdate`, which looks `_faulted` up) and
  ends (`OpcUpdated`) in different turns. `oHooked` are the nodes that carry a fault
  callback; a write takes it off. A second add makes new nodes and leaves the old ones, with
  their callbacks, in the address space (`oLeft`), where clients can still write them.
  `oCrossed` marks devices on which a fault request overlapped another operation,
  `oUnhooked` those that were in `_faulted` before their nodes were made.
- `SnmpAgent`: `oidMap`, `deviceOids` and `sortedOids` are the adapter's maps; an answer is
  computed in one turn (`Answer`), now or, under a delay fault, later from the maps of that
  moment. A PDU has one variable binding. `stranded` are OIDs a second add of a device left
  behind. The fault gate looks at the OID the client names, not at the one it is answered with.
- `BacnetAgent`: `apps`, `instanceOwner` and, per LAN address, the number of `nodes`.
  `BacnetAddFails` is the add whose application is half built; `outlived` marks instances
  that stay reserved after the application they were for was replaced or failed to be rebuilt.

### MonitorFeed

`log` counts the events of the process, and a snapshot is known by how many it holds.
`clients` is `_clients`, `task` and `round` the broadcast task and its iteration, `conn` the
connections with their endpoint coroutines, `sock` the hook of each tab. Python's iterator
raises when the set has another size than at its start (`Disrupted`); if one client left
and another joined the newcomer may be met or some client missed, which `Sent` allows.
`GreetFails` and `BuildFails` are database failures, `Break` a connection that breaks,
`Down` and `Boot` the end and start of the process. `greeted` are tabs that got a first
snapshot during the present round. Not modelled: a connection that is dead without either
side noticing, and a client so slow that its send holds up the round.

## Runs

| Run | Shows | Bounds |
|---|---|---|
| `engine` | types and limits (`TypeOK`); no dead registry entry (`NoDeadEntry`); without overlap no orphan task (`NoOrphan`), every tick finds its values (`TickFindsValues`), a launched device is simulated or shown as error (`NoSilentDeath`), the configs in the database run, unless an import or a deletion changed them (`RunsCommittedConfig`); restarts end (`RestartsEnd`) | 1 device, 1 request, 2 tasks, 2 config versions, limits 1 and 2; 905,016 states |
| `engine_stop` (violated) | a stop during the back-off does not prevent the restart (`StoppedMeansStopped`) | 1 request |
| `scenario` | `TypeOK`; one timeline (`OneTimeline`); no leaked anomaly (`NoLeakedAnomaly`); validated steps never share a register at one time (`OneActiveStepPerRegister`); a step alone on its register is injected exactly in its window (`LoneStepHolds`); a device that a request stopped has no scenario (`NoScenarioOnStoppedDevice`); scenarios end (`ScenarioEnds`); the runner implements its contract (`ImplementsContract`): a cancelled timeline never injects again, and its stop takes away everything it left | 2 registers, 2 runs, 2 requests, step lists of up to three steps, polls up to 2 s apart; 86,468 states |
| `scenario_step` (violated) | of two adjacent steps on a register the second is removed when it is injected (`StepLastsItsDuration`) | 1 run, 1 request |
| `lifecycle` | `TypeOK`; slave ids are never shared (`OwnSlave`); without disturbance a running device is served (`RunningIsServed`) and a stopped one gone (`StoppedIsGone`), also after crashes; no slave is left behind (`NoGhostSlave`); no illegal transition (`LegalTransitions`) | 2 devices, 2 slaves, 2 requests, symmetric |
| `lifecycle_add` (violated) | a failed add of a registered device drops the live statistics (`FailedAddLeavesNoTrace`) | 1 device |
| `mqtt` | `TypeOK`; a broker that is down has a task that retries it (`DownIsRetried`); without overlap a device has one publish task, the registered one (`OnePublisher`), no client is replaced while open (`NoLeakedConnection`) and only what is enabled is published, changes the adapter is not told of apart (`PublishesEnabled`); a broker that can be reached does not stay down (`BrokerComesBack`) | 1 device, 2 requests and the lifespan, 2 publish and 2 reconnect tasks; 627,595 states |
| `mqtt_resume` (violated) | a broker that was down at start-up is connected later, but an enabled config on a running device is never published (`EnabledIsPublished`) | as `mqtt`, 1 request |
| `servers` | `TypeOK`; Modbus serves a slave only for the device registered under it, ids left behind by a second add apart, and an old datastore only after a re-add (`ServedIsRegistered`); Modbus and BACnet count a request once (`CountedOnce`); OPC UA callbacks agree with the fault (`CallbacksMatchFault`); SNMP walks are complete (`WalkIsComplete`); the BACnet LAN has one node per application (`VlanMatchesApps`); write events belong to a live registration and the unread ones are listed (`EventsOfServed`) | Modbus and OPC UA 1 device, SNMP and BACnet 2; 2 slaves, 2 Modbus requests, 2 transaction ids; 2 nodes, 2 clears; 3 OIDs in two templates; 2 BACnet addresses; ring buffer of 1, at most 2 unread writes, symmetric; 552,362 states |
| `servers_fair` | a suppressed Modbus slave comes back (`SuppressedComesBack`); the callbacks of a cleared fault go from the nodes the engine keeps updating (`CallbacksGo`) | 1 Modbus slave, 1 OPC UA device with 2 nodes, at most 1 unread write; 134,360 states |
| `opcua_fault_start` (violated) | a fault set on a stopped OPC UA device is not applied when it starts (`FaultIsApplied`) | as `servers`, OPC UA only |
| `monitor` | `TypeOK`; a page has one socket and a page that was left none (`OneSocketPerTab`); a tab falls back to older data only when a first snapshot overtook the round (`OnlyGreetedFallBack`); an event reaches every open page (`EventReachesTab`) | 2 tabs, 3 connections, 2 events, 3 disturbances (`MaxChurn`) |

Why the bounds suffice: devices do not share engine or timeline state, so one is enough
there. Two tasks give the race of a task with the one that replaces it. Restarts, crashes,
imports and deletions meet the one request of `engine` at every await; a second request on
the same device only adds overlap, which all of that run's properties except but `TypeOK`
and `NoDeadEntry`. With two requests and one config version the invariants were checked
once, with symmetry (1.37 million states), and their proofs take any number. One restart
and two errors distinguish below, at and above a limit. Two steps suffice for the order of
injection and removal on a register, two registers for their independence. In the lifecycle
two devices compete for two slave ids. An MQTT broker's state is its own, so one broker is
enough; one device keeps the run within minutes, and the case that needs two is told above.
Modbus slaves share nothing but transaction ids: two requests with two ids give equal and
different ones, two slaves a device that is added under another id. OPC UA devices share
nothing; two nodes give a clear that is half done. The liveness of the servers is checked
in a run of its own, where symmetry cannot be used, so on one slave and one unread write.
The OIDs of one SNMP template enclose those of the other, so a walk has to skip a device
and to conflict with one. A ring buffer of one event is full at the second write. Three
disturbances are what the monitor's races need: two pages and a break, so that one client
leaves and another joins in a round.

Deadlock is checked except in `engine`, `servers`, `servers_fair` and `monitor`: there the
application, or the server, may shut down and stop for good, and the feed is idle when
nobody watches it.

Fairness is weak fairness of each request's and each task's own steps, because the event
loop runs every ready callback and timer and a database access returns or fails. Requests,
template changes and failures are never assumed to come. `mqtt` assumes in addition strong
fairness of the reconnect tasks: they sleep and connect next to requests that take the loop
in turns, and the loop's queue is first in, first out. `servers_fair` assumes that lookups
and restores run and that a write that has begun ends. That the engine updates a node again
and again is no assumption but the premise of `CallbacksGo` (`KeepsUpdating`): it holds of
a register with an enabled config on a device with a live task, and of no other. `monitor`
assumes that the loop, the network and the browser's timers go on, never that a page is
opened or the backend restarted.

Findings (runs that expect a violation) are described in `PROJECT.json` with the line of
the documentation, comment or test they contradict: a stop that a delayed restart undoes,
adjacent scenario steps, statistics lost by a refused add, MQTT publishing that does not
resume, and a fault set before an OPC UA device starts. What else the models show and no
document denies is told by the hazards and the modules: a start that overwrites the error
its device reported meanwhile, the first configs of a running device, an import that stops a
row and not its device, and OPC UA nodes that a second add leaves behind.

Each checked property is accompanied by a mutation of a definition (marked in the modules)
that imitates a plausible bug and makes TLC report the property.

## Proofs

The theorems hold for any number of devices, requests, tasks, registers, slaves, nodes, tabs
and connections, any step lists and any limits, but `ConnectsInTurn`, which is about one
device. They assume what the modules assume of their constants: that a "none" value is no
member of its set, that limits are natural numbers, and that the identities of tasks and
connections are finite in number where a step counts them or picks a new one
(`EngineAssumption`, `ScenarioAssumption`, `LifecycleAssumption`, `CommsAssumption`,
`SnmpAssumption`, `BacnetAssumption`, `FleetAssumption`, `MonitorAssumption`,
`MqttAssumption`). `MqttAssumption` also says that publish tasks and reconnect tasks are
different things, `FleetAssumption` that every server has a set of devices.

Every argument has the same shape: an invariant that the initial state satisfies and every
action preserves, a lemma per action, and the property as a consequence. The table names
the invariant; below it is what it adds and why the property alone is not enough.

| Module | Theorems | Invariants |
|---|---|---|
| `SimulationEngineProofs` | `TypeCorrect`, `RegistryIsLive` | `IInv` |
| `SimulationEngineAloneProofs` | `LiveTaskIsRegistered` (`NoOrphan`), `TicksFindValues`, `DeathsAreReported` (`NoSilentDeath`), `CommittedConfigRuns` (`RunsCommittedConfig`) | `IInv`, `AInv` |
| `ScenarioRunnerProofs` | `OneTimelinePerDevice`, `AnomaliesAreCleanedUp` (`NoLeakedAnomaly`) | `IInv` |
| `ScenarioContractProofs` | `RunnerKeepsContract`, `RunnerTypes`, `StoppedDevicesRest` (`NoScenarioOnStoppedDevice`), `StepsDoNotOverlap` (`OneActiveStepPerRegister`), `LoneStepsHold` | `IInv`, `Marked`, `RacedKnown`, `Validated`, `Timeline` |
| `DeviceLifecycleProofs` | `LifecycleTypes`, `SlavesAreOwned` (`OwnSlave`), `RunningDevicesServed`, `StoppedDevicesGone`, `NoSlaveIsLost` (`NoGhostSlave`), `TransitionsAreLegal` | `IInv`, `SInv` |
| `ProtocolServersProofs` | `ServerTypes`, `RemovedSlavesAreSilent` (`ServedIsRegistered`), `RequestsCountedOnce`, `CallbacksFollowFault`, `WalksAreComplete`, `OneNodePerApplication` (`VlanMatchesApps`), `EventsBelongToServed` | `ServersInv` |
| `MonitorFeedProofs` | `FeedTypesHold`, `PagesHaveOneSocket`, `TabsMoveForward` (`OnlyGreetedFallBack`) | `FeedInv` |
| `MqttAdapterProofs` | `MqttTypes`, `DownBrokersAreRetried`, `OnePublisherEach`, `EnabledArePublished`, `ConnectsInTurn` and `OnlyRacesLeak` (`NoLeakedConnection`) | `MInv`, `RInv`, `AInv`, `LInv` |

**Engine.** `IInv` adds `InProgress`: a task or request in progress knows its device, a
stop knows its task, a sleeping task is below the error limit. A step reads the device from
its own record, and entries of a popped task must not reappear. The properties about a
device whose operations do not overlap have a common reason, `AInv`: such a device has at
most one request and one task and a request, unless it only has its commit to come,
excludes a delayed restart (`OneEach`), a launch
finds no entry to replace (`ClearToLaunch`), someone is still at work where an entry is
missing or its end is in the row (`Reported`), and the configs a task or a launch carries are
those in the database, unless a commit has yet to reload them or nobody will, after an import
or a deletion (`Fresh`). `Awaited` (a cancelled task is awaited by
exactly one stop) is what makes that one stop, and not two, resume.

**Scenario runner.** `IInv` adds `Draining`: each cancelled run is awaited by the one
request that popped it; without it the stop that resumes might free a run that has been
registered again. `RunnerKeepsContract` is the safety half of the refinement: the runner's
initial states and steps, mapped to slot, debts and marks, are those of the contract.
`Marked` relates the injector's entries to the runs they name, as the contract has no other
notion of who is answerable. A device stopped by a request has no scenario but one whose
start came between the stop's look at the scenario and its commit (`RacedKnown`): nothing
weaker survives the commit. `OneActiveStepPerRegister` says that a list whose neighbours on
a register do not overlap has no overlap at all: of two overlapping steps the nearest pair
would be neighbours, a minimal counterexample that needs only the well-foundedness of `<`.
`Timeline` says that a live run has triggered exactly the steps whose time has come,
however late its polls.

**Lifecycle.** Rows have distinct slave ids and a request in progress has read one
(`IInv`), since boot rebuilds the registry from the rows. What holds of a device at rest is
not inductive: a request passes through phases in which row and runtime disagree. `SInv`
says for a device that nothing disturbed how far its only request has come (`Phase`), and
that without adapters nothing is registered or simulated (`Unplugged`), which a crash and
boot rely on.

**Servers.** One invariant per server, and the frame lemmas that a step of one leaves the
others alone. Modbus: a datastore that was replaced while its restore is pending is the one
the property excepts (`StaleIsRefilled`), a slave of a device that is registered under
another was left behind (`SlaveMaps`, `ServedHasDevice`), a registered slave that is not
served has a pending restore (`AbsentIsPending`), and a request that nothing crossed was
counted on arrival or will be by its lookup, and not both (`RequestsOnCourse`). That proof
found an error in the model: a request to a slave that nobody registered also crosses the
ones with its transaction id, because when the slave is added before its lookup it takes
the start time of the other. OPC UA: the callbacks of a device depend on how far an add and
a clear have come (`HookedInTime`). SNMP: an OID a device lists is mapped to it
(`ListedIsMapped`). BACnet: the LAN has one node at the address of each application
(`NodePerApp`) and an instance's owner has the application, unless it outlived it. Write
events go with the registration of the server in charge (`LogsBelong`).

**Monitor.** A page has its socket open exactly when one live connection is its own
(`HookMatchesConn`), so a timer that fires late finds the page disposed or without a socket;
a tab that is ahead of the round in progress was greeted during it (`AheadIsGreeted`), which
is the case that `OnlyGreetedFallBack`, an action property, excepts.

**MQTT.** A suspended request is the code it has yet to execute, and what the proofs need
of it is how its instructions go together (`Formed`): a create has its cancellation before
it, whoever cancels a retry or closes the client has still to connect again or to forget the
broker, an update of a flag comes first. `RInv`: a cancelled retry is awaited by a request
that will recover the broker, and a broker that is down is retried or about to be. `AInv`:
while requests do not overlap there is one at a time, an uncancelled task is the registered
one, a create finds no task (`CreateReady`), what is started is enabled (`StartsEnabled`)
and what is disabled is about to be stopped (`DisableStops`, `Wanted`).

That no client is leaked needs to know at every await of a request who may still open one.
`LInv` reads it off the code that is left (`Phase`): once the cancellation of the retry is
behind a request the only retry alive is the one it awaits (`RetryGone`, `AwaitsRetry`), once
the cancellations of the publish tasks are behind it no task is left that could fail and
schedule another (`SendersGone`), and once the close is behind it there is no client
(`ClientGone`). For that the instructions that cancel, close and connect come once and in
the code's order (`Shaped`). In between there is one retry at most, registered unless it is
cancelled, of a broker that is down, and without a client from its close to its end
(`OneRetry`); a broker without a row has nothing left to connect (`Unconfigured`). The gap
is a publish task that fails while a request is past its cancellation of the retry, as it
may before the request has reached the task (`RacingFailure`). `OnlyRacesLeak` excludes such
steps by name and holds for any number of devices; `ConnectsInTurn` shows that with one
device they cannot do harm: the one task is awaited as soon as the request gives way, and a
retry exists only while nothing is being sent.

Only model-checked:

- liveness (`RestartsEnd`, `ScenarioEnds`, `BrokerComesBack`, `SuppressedComesBack`,
  `CallbacksGo`, `EventReachesTab` and the `Live` half of `ImplementsContract`): arguments
  from fairness need ENABLED, which the prover does not support;
- the properties of the runs that expect a violation.

No proof module uses RECURSIVE operators, for which the prover has no backend, and nothing
is proved by induction over step lists.

## Not modelled

Contents of registers and generated values, their encoding for a protocol (`encode_value`,
the coercion of OPC UA, SNMP and BACnet values) and MQTT payloads and topics: floating
point and formatting, with no control of their own. The schedules of the anomaly injector,
which act on those values. Templates, profiles, export and import beyond what they write
under running parts: checks on one document in one transaction. Logging, HTTP and schema
validation, seeding; the frontend's pages, stores and forms. The acknowledgement of write
events covers writes that arrive after the list was read, and the fault gate of an SNMP walk
may ask another device than the one that answers; both are listed as hazards without a
property, because nothing but the code says what should happen. A deleted device whose
scenario is still running is outside the present modules.
