--------------------------- MODULE SimulationEngine ---------------------------
(***************************************************************************)
(* backend/app/simulation/engine.py: one asyncio task per simulated device, *)
(* its registry (_device_states), its crash restarts and its callers.       *)
(*                                                                          *)
(* Everything runs on one event loop, so a step here is the code between    *)
(* two awaits that really suspend.  Callers (device_service.start_device    *)
(* and stop_device, simulation_service's config writes) interleave with the *)
(* simulation tasks, their done-callbacks and the delayed restarts.  Two    *)
(* requests never call the engine: an import rewrites configs and status,   *)
(* and a deletion takes the device and its configs away.                    *)
(*                                                                          *)
(* A member t of Tasks is the identity of an asyncio task.  When the task   *)
(* crashes, t goes on to name the background job its done-callback creates  *)
(* (_delayed_restart or _set_device_error), and becomes free when that ends.*)
(***************************************************************************)
EXTENDS Naturals, FiniteSets

CONSTANTS
    Devices,               \* device ids
    Calls,                 \* API requests that can be in progress at once
    Tasks,                 \* identities for simulation tasks (reused when free)
    Configs,               \* versions of a device's non-empty simulation config
    NoTask, NoDevice, NoConfig,
    MaxRestartAttempts,    \* MAX_RESTART_ATTEMPTS
    MaxConsecutiveErrors   \* the literal 5 of _run_device

ASSUME EngineAssumption ==
    /\ MaxRestartAttempts \in Nat
    /\ MaxConsecutiveErrors \in Nat \ {0}
    /\ NoTask \notin Tasks
    /\ NoDevice \notin Devices
    /\ NoConfig \notin Configs

VARIABLES
    entry,       \* _device_states[d].task, NoTask when d has no entry
    attempts,    \* _device_states[d].restart_count, 0 when d has no entry
    values,      \* is d a key of _device_values
    task,        \* every simulation task and the job that follows its crash
    call,        \* the API requests in progress
    config,      \* DB: enabled simulation configs of d (NoConfig: none)
    known,       \* DB: the template's protocol names a registered adapter
    status,      \* DB: the device's status ("deleted": it has no row)
    up,          \* FALSE from the moment the application shuts down
    intent,      \* history: was d last stopped or started by a request, and is
                 \* a started device "launched": it had configs to run, and
                 \* the database has not failed the engine since
    overlap,     \* history: two operations on d were in progress together
    unread       \* history: an import or a deletion changed the configs of d,
                 \* and the engine has not read them since

engineVars == <<entry, attempts, values>>
dbVars == <<config, known, status>>
history == <<intent, overlap, unread>>
vars == <<entry, attempts, values, task, call, config, known, status, up,
          intent, overlap, unread>>

-----------------------------------------------------------------------------
(* The phases of a task: created; at the sleep between two ticks; in        *)
(* _set_device_error after too many errors; ended (its done-callback or the *)
(* awaiting stop has not run yet).  Then, after a crash: in the back-off    *)
(* sleep; reading the configs; reading the schedules; setting the error.    *)
Alive == {"new", "run", "setting"}
Ended == {"returned", "crashed", "cancelled"}
Job == {"sleep", "load", "loaded", "seterr"}

JobTask(phase, d, n) ==
    [pc |-> phase, dev |-> d, cancel |-> FALSE, errors |-> 0,
     config |-> NoConfig, known |-> FALSE, attempt |-> n]

FreeTask == JobTask("free", NoDevice, 0)

(* The phases of a request: start_device is at the adapter's add_device, or *)
(* past the engine and on its way to its commit; stop_device is at the stop *)
(* of publishing and scenario, or past the engine; a config write has       *)
(* committed; the engine awaits a cancelled task, or the two database reads *)
(* of a launch.                                                             *)
Request(pc, d, reload) ==
    [pc |-> pc, dev |-> d, reload |-> reload,
     task |-> NoTask, config |-> NoConfig, known |-> FALSE]

IdleCall == Request("idle", NoDevice, FALSE)

PastEngine == {"starting", "unregister"}

TaskRecord == [pc : {"free"} \cup Alive \cup Ended \cup Job,
               dev : Devices \cup {NoDevice},
               cancel : BOOLEAN,                    \* cancel() was called
               errors : 0..MaxConsecutiveErrors,    \* error_count
               config : Configs \cup {NoConfig},    \* the configs loaded for it
               known : BOOLEAN,                     \* the adapter was found
               attempt : 0..MaxRestartAttempts]     \* a restart's restart_count

CallRecord == [pc : {"idle", "register", "quiesce", "commit", "stopping",
                     "load", "loaded"} \cup PastEngine,
               dev : Devices \cup {NoDevice},
               reload : BOOLEAN,                    \* reload_device, not stop_device
               task : Tasks \cup {NoTask},          \* the cancelled task it awaits
               config : Configs \cup {NoConfig},
               known : BOOLEAN]

TypeOK ==
    /\ entry \in [Devices -> Tasks \cup {NoTask}]
    /\ attempts \in [Devices -> 0..MaxRestartAttempts]
    /\ values \in [Devices -> BOOLEAN]
    /\ task \in [Tasks -> TaskRecord]
    /\ call \in [Calls -> CallRecord]
    /\ config \in [Devices -> Configs \cup {NoConfig}]
    /\ known \in [Devices -> BOOLEAN]
    /\ status \in [Devices -> {"stopped", "running", "error", "deleted"}]
    /\ up \in BOOLEAN
    /\ intent \in [Devices -> {"stopped", "started", "launched"}]
    /\ overlap \in [Devices -> BOOLEAN]
    /\ unread \in [Devices -> BOOLEAN]

Init ==
    /\ entry = [d \in Devices |-> NoTask]
    /\ attempts = [d \in Devices |-> 0]
    /\ values = [d \in Devices |-> FALSE]
    /\ task = [t \in Tasks |-> FreeTask]
    /\ call = [c \in Calls |-> IdleCall]
    /\ config \in [Devices -> Configs \cup {NoConfig}]
    /\ known = [d \in Devices |-> TRUE]
    /\ status = [d \in Devices |-> "stopped"]
    /\ up = TRUE
    /\ intent = [d \in Devices |-> "stopped"]
    /\ overlap = [d \in Devices |-> FALSE]
    /\ unread = [d \in Devices |-> FALSE]

-----------------------------------------------------------------------------
(* The history variable overlap: an operation begins on d while a request,  *)
(* a pending done-callback, a delayed restart or an error write for d is    *)
(* still in progress.                                                       *)
Busy(d) ==
    \/ \E c \in Calls : call[c].dev = d
    \/ \E t \in Tasks : task[t].dev = d /\ task[t].pc \in Ended \cup Job \cup {"setting"}

Mark(d) == overlap' = [overlap EXCEPT ![d] = @ \/ Busy(d)]

Drop(d) == /\ entry' = [entry EXCEPT ![d] = NoTask]
           /\ attempts' = [attempts EXCEPT ![d] = 0]

NewTask(d, cfg, knows) ==
    [pc |-> "new", dev |-> d, cancel |-> FALSE, errors |-> 0,
     config |-> cfg, known |-> knows, attempt |-> 0]

(* The end of _launch_device_task, after its last await: the task is        *)
(* created and _device_states is overwritten, whatever it held.             *)
Launch(u, d, n) ==
    /\ entry' = [entry EXCEPT ![d] = u]
    /\ attempts' = [attempts EXCEPT ![d] = n]
    /\ intent' = [intent EXCEPT ![d] = IF @ = "stopped" THEN @ ELSE "launched"]

(* _load_device_data found no enabled configs, or the database failed.      *)
NothingToRun(d) ==
    intent' = [intent EXCEPT ![d] = IF @ = "stopped" THEN @ ELSE "started"]

(* A done-callback is queued in the loop iteration that ends its task, so   *)
(* it runs before any database answer or timer noticed later.  A request    *)
(* that was already runnable in that iteration can still come first.        *)
CallbacksRun(d) ==
    \A t \in Tasks : task[t].dev = d => task[t].pc \notin {"returned", "crashed"}

-----------------------------------------------------------------------------
(* Requests.                                                                *)

(* Mutation for NoOrphan: start_device does not look for an entry.          *)
NeverStarted(d) == d \notin Devices

AlreadyStarted(d) == entry[d] # NoTask

(* device_service.start_device: only a stopped device is started.  It then  *)
(* awaits the template and the adapter's add_device.                        *)
StartDevice(c, d) ==
    /\ up /\ call[c].pc = "idle" /\ status[d] = "stopped"
    /\ Mark(d)
    /\ call' = [call EXCEPT ![c] = Request("register", d, FALSE)]
    /\ UNCHANGED <<engineVars, task, dbVars, up, intent, unread>>

(* The adapter refuses the device: its row is marked "error".               *)
RegisterFails(c) ==
    LET d == call[c].dev IN
    /\ call[c].pc = "register"
    /\ status' = [status EXCEPT ![d] = IF @ = "deleted" THEN @ ELSE "error"]
    /\ call' = [call EXCEPT ![c] = IdleCall]
    /\ UNCHANGED <<engineVars, task, config, known, up, history>>

(* The engine's start_device launches nothing when d has an entry.          *)
EngineStart(c) ==
    LET d == call[c].dev IN
    /\ call[c].pc = "register"
    /\ intent' = [intent EXCEPT ![d] = IF @ = "stopped" THEN "started" ELSE @]
    /\ call' = [call EXCEPT ![c].pc =
                    IF AlreadyStarted(d) THEN "starting" ELSE "load"]
    /\ UNCHANGED <<engineVars, task, dbVars, up, overlap, unread>>

(* The end of device_service.start_device, after the awaits on MQTT: the    *)
(* row becomes "running" whatever it says by then.  An "error" the device's *)
(* simulation committed meanwhile is lost, and the two overlapped.          *)
CommitRunning(c) ==
    LET d == call[c].dev IN
    /\ call[c].pc = "starting"
    /\ status' = [status EXCEPT ![d] = IF @ = "deleted" THEN @ ELSE "running"]
    /\ overlap' = [overlap EXCEPT ![d] = @ \/ status[d] = "error"]
    /\ call' = [call EXCEPT ![c] = IdleCall]
    /\ UNCHANGED <<engineVars, task, config, known, up, intent, unread>>

(* What the engine's stop_device does up to its await: pop the entry and    *)
(* cancel the task.  Awaiting a task that has already ended does not        *)
(* suspend: a crashed one re-raises its exception, which skips the clean-up *)
(* and, in reload_device, the start (the config request fails, while        *)
(* device_service.stop_device goes on); one that returned leaves the await  *)
(* normally.                                                                *)
AfterStop(d, reload) == Request(IF reload THEN "load" ELSE "unregister", d, reload)

BeginStop(c, d, reload) ==
    LET t == entry[d] IN
    /\ Drop(d)
    /\ CASE task[t].pc \in Alive ->
              /\ task' = [task EXCEPT ![t].cancel = TRUE]
              /\ call' = [call EXCEPT ![c] =
                              [Request("stopping", d, reload) EXCEPT !.task = t]]
              /\ UNCHANGED values
         [] task[t].pc = "returned" ->
              /\ values' = [values EXCEPT ![d] = FALSE]
              /\ call' = [call EXCEPT ![c] = AfterStop(d, reload)]
              /\ UNCHANGED task
         [] OTHER ->
              /\ call' = [call EXCEPT ![c] =
                              IF reload THEN IdleCall ELSE AfterStop(d, FALSE)]
              /\ UNCHANGED <<task, values>>

(* device_service.stop_device: a device that is not stopped.  It first      *)
(* awaits the stop of its publishing and of its scenario ...                *)
StopDevice(c, d) ==
    /\ up /\ call[c].pc = "idle" /\ status[d] \in {"running", "error"}
    /\ Mark(d)
    /\ call' = [call EXCEPT ![c] = Request("quiesce", d, FALSE)]
    /\ UNCHANGED <<engineVars, task, dbVars, up, intent, unread>>

(* ... then stops the simulation, a no-op when d has no entry ...           *)
EngineStop(c) ==
    LET d == call[c].dev IN
    /\ call[c].pc = "quiesce"
    /\ intent' = [intent EXCEPT ![d] = "stopped"]
    /\ IF entry[d] = NoTask
       THEN /\ call' = [call EXCEPT ![c] = AfterStop(d, FALSE)]
            /\ UNCHANGED <<engineVars, task>>
       ELSE BeginStop(c, d, FALSE)
    /\ UNCHANGED <<dbVars, up, overlap, unread>>

(* ... and ends, the adapter's remove_device done, with the commit.         *)
CommitStopped(c) ==
    LET d == call[c].dev IN
    /\ call[c].pc = "unregister"
    /\ status' = [status EXCEPT ![d] = IF @ = "deleted" THEN @ ELSE "stopped"]
    /\ call' = [call EXCEPT ![c] = IdleCall]
    /\ UNCHANGED <<engineVars, task, config, known, up, history>>

(* A config write commits, then refreshes its rows from the database ...    *)
CommitConfigs(c, d) ==
    /\ up /\ call[c].pc = "idle" /\ status[d] # "deleted"
    /\ \E v \in (Configs \cup {NoConfig}) \ {config[d]} :
          config' = [config EXCEPT ![d] = v]
    /\ Mark(d)
    /\ call' = [call EXCEPT ![c] = Request("commit", d, TRUE)]
    /\ UNCHANGED <<engineVars, task, known, status, up, intent, unread>>

(* Mutation for RunsCommittedConfig: no device counts as simulated.         *)
NotSimulating(d) == d \notin Devices

IsDeviceSimulating(d) == entry[d] # NoTask

(* ... and reloads the device only if it has an entry (_reload_if_running). *)
ReloadIfRunning(c) ==
    LET d == call[c].dev IN
    /\ call[c].pc = "commit"
    /\ IF IsDeviceSimulating(d)
       THEN BeginStop(c, d, TRUE)
       ELSE /\ call' = [call EXCEPT ![c] = IdleCall]
            /\ UNCHANGED <<engineVars, task>>
    /\ UNCHANGED <<dbVars, up, history>>

(* stop_device resumes once the cancelled task has ended, and cleans up;    *)
(* reload_device goes on with the engine's start_device.                    *)
StopResumes(c) ==
    LET d == call[c].dev
        t == call[c].task IN
    /\ call[c].pc = "stopping" /\ task[t].pc = "cancelled"
    /\ CallbacksRun(d)
    /\ values' = [values EXCEPT ![d] = FALSE]
    /\ task' = [task EXCEPT ![t] = FreeTask]
    /\ call' = [call EXCEPT ![c] = IF call[c].reload /\ entry[d] # NoTask
                    THEN IdleCall ELSE AfterStop(d, call[c].reload)]
    /\ UNCHANGED <<entry, attempts, dbVars, up, history>>

(* The launch is over, or was not needed: reload_device is done, and        *)
(* device_service.start_device goes on to its commit (it only logs an       *)
(* exception of the engine).                                                *)
AfterLaunch(c) == IF call[c].reload THEN IdleCall
                  ELSE Request("starting", call[c].dev, FALSE)

(* _load_device_data returns; without enabled configs the launch ends.      *)
CallReadsConfigs(c) ==
    LET d == call[c].dev IN
    /\ call[c].pc = "load"
    /\ CallbacksRun(d)
    /\ call' = [call EXCEPT ![c] = IF config[d] = NoConfig THEN AfterLaunch(c)
                    ELSE [@ EXCEPT !.pc = "loaded", !.config = config[d],
                                   !.known = known[d]]]
    /\ IF config[d] = NoConfig THEN NothingToRun(d) ELSE UNCHANGED intent
    /\ unread' = [unread EXCEPT ![d] = FALSE]
    /\ UNCHANGED <<engineVars, task, dbVars, up, overlap>>

CallLaunches(c) ==
    LET d == call[c].dev IN
    /\ call[c].pc = "loaded"
    /\ CallbacksRun(d)
    /\ \E u \in Tasks :
          /\ task[u].pc = "free"
          /\ task' = [task EXCEPT ![u] = NewTask(d, call[c].config, call[c].known)]
          /\ Launch(u, d, 0)
    /\ call' = [call EXCEPT ![c] = AfterLaunch(c)]
    /\ UNCHANGED <<values, dbVars, up, overlap, unread>>

(* A database error in the launch reaches the caller.                       *)
CallLoadFails(c) ==
    /\ call[c].pc \in {"load", "loaded"}
    /\ CallbacksRun(call[c].dev)
    /\ call' = [call EXCEPT ![c] = AfterLaunch(c)]
    /\ NothingToRun(call[c].dev)
    /\ UNCHANGED <<engineVars, task, dbVars, up, overlap, unread>>

-----------------------------------------------------------------------------
(* Simulation tasks.                                                        *)

(* Mutation for TypeOK: the error limit is passed, not reached.             *)
AfterTickOffByOne(t, e) ==
    [task[t] EXCEPT !.errors = e,
                    !.pc = IF e > MaxConsecutiveErrors THEN "setting" ELSE "run"]

(* A tick that leaves t with e consecutive errors: at the limit the task    *)
(* goes to _set_device_error, otherwise to the sleep.                       *)
AfterTick(t, e) ==
    [task[t] EXCEPT !.errors = e,
                    !.pc = IF e >= MaxConsecutiveErrors THEN "setting" ELSE "run"]

(* Mutation for TickFindsValues: the values entry is not created.           *)
KeepValues(d) == UNCHANGED values

CreateValues(d) == values' = [values EXCEPT ![d] = TRUE]

(* The first step of _run_device: no adapter is the one way to crash;       *)
(* otherwise the values entry is created and the first tick runs.           *)
RunDevice(t) ==
    LET d == task[t].dev IN
    /\ task[t].pc = "new" /\ ~task[t].cancel
    /\ IF task[t].known
       THEN /\ CreateValues(d)
            /\ \E e \in {0, 1} : task' = [task EXCEPT ![t] = AfterTick(t, e)]
       ELSE /\ task' = [task EXCEPT ![t].pc = "crashed"]
            /\ UNCHANGED values
    /\ UNCHANGED <<entry, attempts, call, dbVars, up, history>>

(* A later tick; a missing values entry (KeyError) is an error of the tick, *)
(* and so is any failing register.                                          *)
Tick(t) ==
    LET d == task[t].dev IN
    /\ task[t].pc = "run" /\ ~task[t].cancel
    /\ \E ok \in {TRUE, FALSE} :
          /\ ok => values[d]
          /\ task' = [task EXCEPT ![t] =
                         AfterTick(t, IF ok THEN 0 ELSE task[t].errors + 1)]
    /\ UNCHANGED <<engineVars, call, dbVars, up, history>>

(* _set_device_error writes the status of a device that still exists, and   *)
(* swallows a database failure.                                             *)
WriteError(d) ==
    \/ /\ status' = [status EXCEPT ![d] = IF @ = "deleted" THEN @ ELSE "error"]
       /\ UNCHANGED intent
    \/ NothingToRun(d) /\ UNCHANGED status

(* A task that gave up writes the error and returns normally.               *)
GiveUp(t) ==
    /\ task[t].pc = "setting" /\ ~task[t].cancel
    /\ WriteError(task[t].dev)
    /\ task' = [task EXCEPT ![t].pc = "returned"]
    /\ UNCHANGED <<engineVars, call, config, known, up, overlap, unread>>

(* CancelledError reaches the task at its await.                            *)
Cancelled(t) ==
    /\ task[t].pc \in Alive /\ task[t].cancel
    /\ task' = [task EXCEPT ![t].pc = "cancelled"]
    /\ UNCHANGED <<engineVars, call, dbVars, up, history>>

(* Mutation for NoDeadEntry: a normal return leaves the entry.              *)
KeepReturned(d) == UNCHANGED <<entry, attempts>>

DropReturned(d) == Drop(d)

(* _on_task_done of a task that returned: the device's entry goes, whoever  *)
(* it belongs to.                                                           *)
OnTaskReturned(t) ==
    /\ task[t].pc = "returned"
    /\ DropReturned(task[t].dev)
    /\ task' = [task EXCEPT ![t] = FreeTask]
    /\ UNCHANGED <<values, call, dbVars, up, history>>

(* Mutation for NoSilentDeath: the last crash only drops the entry.         *)
NoJob(d) == FreeTask

ErrorJobOf(d) == JobTask("seterr", d, 0)

(* _on_task_done of a task that crashed: another attempt after a back-off,  *)
(* or the error status once the attempts are used up.                       *)
OnTaskCrashed(t) ==
    LET d == task[t].dev
        n == attempts[d] + 1 IN
    /\ task[t].pc = "crashed"
    /\ overlap' = [overlap EXCEPT ![d] =
                      @ \/ \E c \in Calls : call[c].dev = d /\ call[c].pc \notin PastEngine]
    /\ IF n > MaxRestartAttempts
       THEN /\ Drop(d)
            /\ task' = [task EXCEPT ![t] = ErrorJobOf(d)]
       ELSE /\ task' = [task EXCEPT ![t] = JobTask("sleep", d, n)]
            /\ UNCHANGED <<entry, attempts>>
    /\ UNCHANGED <<values, call, dbVars, up, intent, unread>>

-----------------------------------------------------------------------------
(* Jobs of the done-callback.                                               *)

(* _delayed_restart wakes up and pops the device's entry without cancelling *)
(* the task in it.                                                          *)
DelayedRestart(t) ==
    /\ task[t].pc = "sleep"
    /\ CallbacksRun(task[t].dev)
    /\ Drop(task[t].dev)
    /\ task' = [task EXCEPT ![t].pc = "load"]
    /\ UNCHANGED <<values, call, dbVars, up, history>>

RestartReadsConfigs(t) ==
    LET d == task[t].dev IN
    /\ task[t].pc = "load"
    /\ CallbacksRun(d)
    /\ task' = [task EXCEPT ![t] = IF config[d] = NoConfig THEN FreeTask
                    ELSE [@ EXCEPT !.pc = "loaded", !.config = config[d],
                                   !.known = known[d]]]
    /\ IF config[d] = NoConfig THEN NothingToRun(d) ELSE UNCHANGED intent
    /\ unread' = [unread EXCEPT ![d] = FALSE]
    /\ UNCHANGED <<engineVars, call, dbVars, up, overlap>>

(* Mutation for RestartsEnd: the relaunched task starts counting anew.      *)
CountAfresh(t) == 0

RestartCount(t) == task[t].attempt

RestartLaunches(t) ==
    LET d == task[t].dev IN
    /\ task[t].pc = "loaded"
    /\ CallbacksRun(d)
    /\ \E u \in Tasks :
          /\ task[u].pc = "free"
          /\ task' = [task EXCEPT ![t] = FreeTask,
                                  ![u] = NewTask(d, task[t].config, task[t].known)]
          /\ Launch(u, d, RestartCount(t))
    /\ UNCHANGED <<values, call, dbVars, up, overlap, unread>>

(* A restart whose database access fails sets the error status.             *)
RestartFails(t) ==
    /\ task[t].pc \in {"load", "loaded"}
    /\ CallbacksRun(task[t].dev)
    /\ task' = [task EXCEPT ![t] = JobTask("seterr", task[t].dev, 0)]
    /\ UNCHANGED <<engineVars, call, dbVars, up, history>>

SetDeviceError(t) ==
    /\ task[t].pc = "seterr"
    /\ CallbacksRun(task[t].dev)
    /\ WriteError(task[t].dev)
    /\ task' = [task EXCEPT ![t] = FreeTask]
    /\ UNCHANGED <<engineVars, call, config, known, up, overlap, unread>>

-----------------------------------------------------------------------------
(* The rest of the application.                                             *)

(* system_service.import_system, one transaction: a file that names d       *)
(* replaces its configs and marks it stopped if it was running.  The engine *)
(* is not told, and nothing keeps an import from coming at any time.        *)
ImportSystem(d) ==
    /\ up /\ status[d] # "deleted"
    /\ \E v \in Configs \cup {NoConfig} :
          /\ config' = [config EXCEPT ![d] = v]
          /\ unread' = [unread EXCEPT ![d] = @ \/ v # config[d]]
    /\ status' = [status EXCEPT ![d] = IF @ = "running" THEN "stopped" ELSE @]
    /\ UNCHANGED <<engineVars, task, call, known, up, intent, overlap>>

(* device_service.delete_device: any device that is not running; its        *)
(* configs go with its row, and the engine is not told either.              *)
DeleteDevice(d) ==
    /\ up /\ status[d] \in {"stopped", "error"}
    /\ status' = [status EXCEPT ![d] = "deleted"]
    /\ config' = [config EXCEPT ![d] = NoConfig]
    /\ unread' = [unread EXCEPT ![d] = @ \/ config[d] # NoConfig]
    /\ UNCHANGED <<engineVars, task, call, known, up, intent, overlap>>

(* PUT /templates/{id} may give the template any protocol name.             *)
UpdateTemplate(d) ==
    /\ up
    /\ known' = [known EXCEPT ![d] = ~@]
    /\ UNCHANGED <<engineVars, task, call, config, status, up, history>>

(* The lifespan's exit, once the server has finished its requests: shutdown *)
(* empties the registry and cancels the registered tasks.  Restart jobs are *)
(* not in the registry and are left alone.                                  *)
Shutdown ==
    /\ up /\ \A c \in Calls : call[c].pc = "idle"
    /\ up' = FALSE
    /\ task' = [t \in Tasks |->
                  IF task[t].pc \in Alive /\ entry[task[t].dev] = t
                  THEN [task[t] EXCEPT !.cancel = TRUE] ELSE task[t]]
    /\ entry' = [d \in Devices |-> NoTask]
    /\ attempts' = [d \in Devices |-> 0]
    /\ UNCHANGED <<values, call, dbVars, history>>

(* shutdown's gather returns when the cancelled tasks have ended.           *)
ShutdownResumes ==
    /\ ~up
    /\ \E t \in Tasks : task[t].pc = "cancelled"
    /\ \A t \in Tasks : task[t].cancel => task[t].pc = "cancelled"
    /\ values' = [d \in Devices |-> FALSE]
    /\ task' = [t \in Tasks |-> IF task[t].pc = "cancelled" THEN FreeTask ELSE task[t]]
    /\ UNCHANGED <<entry, attempts, call, dbVars, up, history>>

-----------------------------------------------------------------------------
CallStep(c) ==
    \/ RegisterFails(c) \/ EngineStart(c) \/ CommitRunning(c)
    \/ EngineStop(c) \/ CommitStopped(c)
    \/ ReloadIfRunning(c) \/ StopResumes(c) \/ CallReadsConfigs(c)
    \/ CallLaunches(c) \/ CallLoadFails(c)

TaskStep(t) ==
    \/ RunDevice(t) \/ Tick(t) \/ GiveUp(t) \/ Cancelled(t)
    \/ OnTaskReturned(t) \/ OnTaskCrashed(t)
    \/ DelayedRestart(t) \/ RestartReadsConfigs(t) \/ RestartLaunches(t)
    \/ RestartFails(t) \/ SetDeviceError(t)

Next ==
    \/ \E c \in Calls, d \in Devices :
          StartDevice(c, d) \/ StopDevice(c, d) \/ CommitConfigs(c, d)
    \/ \E c \in Calls : CallStep(c)
    \/ \E t \in Tasks : TaskStep(t)
    \/ \E d \in Devices : ImportSystem(d) \/ DeleteDevice(d) \/ UpdateTemplate(d)
    \/ Shutdown \/ ShutdownResumes

(* The event loop runs every ready callback and timer, and a database       *)
(* access returns or fails.  Requests are never assumed to come.            *)
Spec == /\ Init /\ [][Next]_vars
        /\ \A c \in Calls : WF_vars(CallStep(c))
        /\ \A t \in Tasks : WF_vars(TaskStep(t))

-----------------------------------------------------------------------------
Simulates(t, d) == task[t].dev = d /\ task[t].pc \in Alive /\ ~task[t].cancel

Quiet(d) == ~Busy(d)

(* is_device_simulating never reports a simulation that is dead for good:   *)
(* the registered task is alive and not cancelled, or its done-callback or  *)
(* its delayed restart is still to come and will drop the entry.            *)
NoDeadEntry ==
    \A d \in Devices : entry[d] # NoTask =>
        LET t == entry[d] IN
        /\ task[t].dev = d
        /\ \/ Simulates(t, d)
           \/ task[t].pc \in {"returned", "crashed", "sleep"} /\ ~task[t].cancel

(* While operations on a device do not overlap, a live simulation task is   *)
(* the registered one: there is at most one, and stop_device can reach it.  *)
NoOrphan ==
    \A d \in Devices : ~overlap[d] /\ up =>
        \A t \in Tasks : Simulates(t, d) => entry[d] = t

(* While operations do not overlap, every tick finds the device's values    *)
(* entry: no stop pops it under a running task.                             *)
TickFindsValues ==
    \A d \in Devices : ~overlap[d] /\ up =>
        \A t \in Tasks : Simulates(t, d) /\ task[t].pc = "run" => values[d]

(* A simulation does not vanish silently: a device whose configs were       *)
(* launched by an engine the database has not failed since is simulated     *)
(* once nothing is in progress for it, or is shown as "error": every other  *)
(* end of its task (five errors, restarts used up, a restart that failed)   *)
(* commits that status, and no row overwrites it, except for the last write *)
(* of a start the error overlapped with.                                    *)
NoSilentDeath ==
    \A d \in Devices :
        intent[d] = "launched" /\ up /\ Quiet(d) /\ ~overlap[d]
            => entry[d] # NoTask \/ status[d] \in {"error", "deleted"}

(* A config write takes effect: with nothing in progress, the registered    *)
(* task runs the configs in the database, unless they came with an import   *)
(* or went with a deletion, which no reload follows.                        *)
RunsCommittedConfig ==
    \A d \in Devices :
        entry[d] # NoTask /\ Quiet(d) /\ ~overlap[d] /\ ~unread[d]
            => task[entry[d]].config = config[d]

(* What stop_device's name and docstring promise: once a device's last      *)
(* request was a completed stop and no request is in progress, no task      *)
(* simulates it and no restart will.                                        *)
StoppedMeansStopped ==
    \A d \in Devices :
        intent[d] = "stopped" /\ (\A c \in Calls : call[c].dev # d)
            => \A t \in Tasks : ~Simulates(t, d)

(* Restarts are not for ever: once requests stop coming, a device whose     *)
(* operations never overlapped ends up simulated or given up, with no       *)
(* restart pending, however often the restarted task crashes.               *)
RestartsEnd ==
    \A d \in Devices :
        <>[](\A c \in Calls : call[c].pc = "idle")
            => <>[](\/ overlap[d]
                    \/ \A t \in Tasks : task[t].dev = d => task[t].pc \notin Job)
=============================================================================
