------------------------ MODULE SimulationEngineProofs ------------------------
(* Proofs about SimulationEngine, for any number of devices, requests and   *)
(* tasks and any limits: the types, and that the registry never holds a     *)
(* simulation that is dead for good.                                        *)
EXTENDS SimulationEngine, TLAPS

(* What a task or a request in progress always knows: its device, and, for  *)
(* a stop, the task it awaits.  A sleeping task is below the error limit.   *)
InProgress ==
    /\ \A t \in Tasks : /\ task[t].pc # "free" => task[t].dev \in Devices
                        /\ task[t].pc = "run" => task[t].errors < MaxConsecutiveErrors
    /\ \A c \in Calls : /\ call[c].pc # "idle" => call[c].dev \in Devices
                        /\ call[c].pc = "stopping" => call[c].task \in Tasks

IInv == TypeOK /\ InProgress /\ NoDeadEntry

(* The two resting records are records of the right type.                   *)
LEMMA RecordTypes ==
    /\ FreeTask \in TaskRecord /\ FreeTask.pc = "free" /\ ~FreeTask.cancel
    /\ IdleCall \in CallRecord /\ IdleCall.pc = "idle"
BY EngineAssumption DEF FreeTask, JobTask, IdleCall, Request, TaskRecord, CallRecord

(* The updates the actions make to a task's record keep its type.           *)
LEMMA TaskUpdates ==
    ASSUME NEW r \in TaskRecord
    PROVE  /\ \A x \in Alive \cup Ended \cup Job : [r EXCEPT !.pc = x] \in TaskRecord
           /\ [r EXCEPT !.cancel = TRUE] \in TaskRecord
           /\ \A e \in 0..MaxConsecutiveErrors : \A x \in {"run", "setting"} :
                 [r EXCEPT !.errors = e, !.pc = x] \in TaskRecord
           /\ \A v \in Configs \cup {NoConfig} : \A k \in BOOLEAN :
                 [r EXCEPT !.pc = "loaded", !.config = v, !.known = k] \in TaskRecord
BY DEF TaskRecord, Alive, Ended, Job

(* The record of a request that awaits no cancelled task.                   *)
LEMMA Requests ==
    ASSUME NEW d \in Devices, NEW b \in BOOLEAN,
           NEW x \in {"register", "quiesce", "commit", "load"} \cup PastEngine
    PROVE  /\ Request(x, d, b) \in CallRecord
           /\ Request(x, d, b).pc = x /\ Request(x, d, b).dev = d
           /\ Request(x, d, b).reload = b
BY EngineAssumption DEF CallRecord, Request, PastEngine

(* A request's record when it awaits the task it cancelled.                 *)
LEMMA AwaitsTask ==
    ASSUME NEW d \in Devices, NEW b \in BOOLEAN, NEW t \in Tasks
    PROVE  LET r == [Request("stopping", d, b) EXCEPT !.task = t] IN
           r \in CallRecord /\ r.pc = "stopping" /\ r.dev = d /\ r.task = t
BY EngineAssumption DEF CallRecord, Request

(* A request's record after the engine stopped its device.                  *)
LEMMA StopGoesOn ==
    ASSUME NEW d \in Devices, NEW b \in BOOLEAN
    PROVE  /\ AfterStop(d, b) \in CallRecord
           /\ AfterStop(d, b).pc \in {"load", "unregister"} /\ AfterStop(d, b).dev = d
BY Requests DEF AfterStop, PastEngine

(* A request's record after a launch.                                       *)
LEMMA LaunchGoesOn ==
    ASSUME NEW c \in Calls, call[c] \in CallRecord, call[c].dev \in Devices
    PROVE  /\ AfterLaunch(c) \in CallRecord
           /\ \/ AfterLaunch(c) = IdleCall
              \/ AfterLaunch(c).pc = "starting" /\ AfterLaunch(c).dev = call[c].dev
BY RecordTypes, Requests DEF AfterLaunch, PastEngine

(* A request's record once the configs are read.                            *)
LEMMA LoadedCall ==
    ASSUME NEW r \in CallRecord, NEW v \in Configs \cup {NoConfig}, NEW k \in BOOLEAN
    PROVE  [r EXCEPT !.pc = "loaded", !.config = v, !.known = k] \in CallRecord
BY DEF CallRecord

(* The jobs that follow a crash.                                            *)
LEMMA JobRecords ==
    ASSUME NEW d \in Devices, NEW n \in 0..MaxRestartAttempts, NEW x \in Job
    PROVE  /\ JobTask(x, d, n) \in TaskRecord
           /\ JobTask(x, d, n).pc = x /\ JobTask(x, d, n).dev = d
           /\ ~JobTask(x, d, n).cancel
BY EngineAssumption DEF JobTask, TaskRecord

(* The job that sets the error status.                                      *)
LEMMA ErrorJob ==
    ASSUME NEW d \in Devices
    PROVE  /\ JobTask("seterr", d, 0) \in TaskRecord
           /\ JobTask("seterr", d, 0).pc = "seterr" /\ JobTask("seterr", d, 0).dev = d
<1>1. 0 \in 0..MaxRestartAttempts /\ "seterr" \in Job
  BY EngineAssumption DEF Job
<1>2. QED  BY <1>1, JobRecords

(* stop_device up to its await, on a device that has an entry: the entry is *)
(* gone and, alive, the task it held is cancelled and awaited.              *)
LEMMA BeginStopKeeps ==
    ASSUME IInv, NEW c \in Calls, NEW d \in Devices, NEW b \in BOOLEAN,
           entry[d] # NoTask, BeginStop(c, d, b)
    PROVE  /\ entry' \in [Devices -> Tasks \cup {NoTask}]
           /\ attempts' \in [Devices -> 0..MaxRestartAttempts]
           /\ values' \in [Devices -> BOOLEAN]
           /\ task' \in [Tasks -> TaskRecord]
           /\ call' \in [Calls -> CallRecord]
           /\ InProgress' /\ NoDeadEntry'
<1> DEFINE t == entry[d]
<1> USE EngineAssumption DEF IInv, TypeOK
<1>1. t \in Tasks /\ task[t] \in TaskRecord /\ task[t].dev = d
  BY DEF NoDeadEntry
<1>2. /\ entry' = [entry EXCEPT ![d] = NoTask]
      /\ attempts' = [attempts EXCEPT ![d] = 0]
  BY DEF BeginStop, Drop
<1>3. CASE task[t].pc \in Alive
  <2>1. /\ task' = [task EXCEPT ![t].cancel = TRUE]
        /\ call' = [call EXCEPT ![c] = [Request("stopping", d, b) EXCEPT !.task = t]]
        /\ UNCHANGED values
    BY <1>3 DEF BeginStop, Alive
  <2>2. task' \in [Tasks -> TaskRecord] /\ call' \in [Calls -> CallRecord]
    BY <1>1, <2>1, TaskUpdates, AwaitsTask
  <2>3. InProgress'
    <3> DEFINE r == [Request("stopping", d, b) EXCEPT !.task = t]
    <3>1. r.pc = "stopping" /\ r.dev = d /\ r.task = t
      BY DEF Request
    <3> HIDE DEF r
    <3>2. call' = [call EXCEPT ![c] = r]
      BY <2>1 DEF r
    <3> QED
      BY <1>1, <2>1, <3>1, <3>2 DEF InProgress, TaskRecord
  <2>4. NoDeadEntry'
    BY <1>1, <1>2, <2>1 DEF NoDeadEntry, Simulates, TaskRecord
  <2> QED
    BY <1>2, <2>1, <2>2, <2>3, <2>4
<1>4. CASE task[t].pc = "returned"
  <2>1. /\ values' = [values EXCEPT ![d] = FALSE]
        /\ call' = [call EXCEPT ![c] = AfterStop(d, b)]
        /\ UNCHANGED task
    BY <1>4 DEF BeginStop, Alive
  <2>2. call' \in [Calls -> CallRecord]
    BY <2>1, StopGoesOn
  <2>3. InProgress'
    <3>1. AfterStop(d, b).pc # "stopping" /\ AfterStop(d, b).dev \in Devices
      BY StopGoesOn
    <3> QED
      BY <2>1, <3>1 DEF InProgress
  <2>4. NoDeadEntry'
    BY <1>2, <2>1 DEF NoDeadEntry, Simulates
  <2> QED
    BY <1>2, <2>1, <2>2, <2>3, <2>4
<1>5. CASE task[t].pc \notin Alive /\ task[t].pc # "returned"
  <2>1. PICK x \in {IdleCall, AfterStop(d, FALSE)} :
           call' = [call EXCEPT ![c] = x] /\ UNCHANGED <<task, values>>
    BY <1>5 DEF BeginStop
  <2>2. x \in CallRecord /\ x.pc # "stopping" /\ (x.pc # "idle" => x.dev \in Devices)
    <3>1. CASE x = IdleCall
      BY <3>1, RecordTypes
    <3>2. CASE x = AfterStop(d, FALSE)
      <4>1. AfterStop(d, FALSE) \in CallRecord /\ AfterStop(d, FALSE).pc \in {"load", "unregister"}
            /\ AfterStop(d, FALSE).dev = d
        <5>1. FALSE \in BOOLEAN
          OBVIOUS
        <5> QED
          BY <5>1, StopGoesOn
      <4> QED
        BY <3>2, <4>1
    <3> QED
      BY <3>1, <3>2
  <2>4. call' \in [Calls -> CallRecord] /\ InProgress'
    BY <2>1, <2>2 DEF InProgress
  <2>3. NoDeadEntry'
    BY <1>2, <2>1 DEF NoDeadEntry, Simulates
  <2> QED
    BY <1>2, <2>1, <2>3, <2>4
<1> QED
  BY <1>3, <1>4, <1>5

(* The initial states satisfy the inductive invariant.                      *)
LEMMA InitIInv == Init => IInv
BY RecordTypes, EngineAssumption DEF Init, IInv, TypeOK, InProgress, NoDeadEntry

(* Every step of the engine, its callers and the rest of the application    *)
(* preserves the inductive invariant.                                       *)
LEMMA StepIInv == IInv /\ [Next]_vars => IInv'
<1> SUFFICES ASSUME IInv, [Next]_vars PROVE IInv'
  OBVIOUS
<1> USE EngineAssumption, RecordTypes
    DEF IInv, TypeOK, InProgress, NoDeadEntry, Simulates, engineVars, dbVars, history
<1>1. CASE UNCHANGED vars
  BY <1>1 DEF vars
<1>2. ASSUME NEW c \in Calls, NEW d \in Devices, StartDevice(c, d) PROVE IInv'
  <2>1. Request("register", d, FALSE) \in CallRecord
        /\ Request("register", d, FALSE).pc = "register"
        /\ Request("register", d, FALSE).dev = d
    BY Requests
  <2> QED
    BY <1>2, <2>1 DEF StartDevice, Mark, Alive
<1>3. ASSUME NEW c \in Calls, NEW d \in Devices, StopDevice(c, d) PROVE IInv'
  <2>1. Request("quiesce", d, FALSE) \in CallRecord
        /\ Request("quiesce", d, FALSE).pc = "quiesce"
        /\ Request("quiesce", d, FALSE).dev = d
    BY Requests
  <2> QED
    BY <1>3, <2>1 DEF StopDevice, Mark, Alive
<1>25. ASSUME NEW c \in Calls, RegisterFails(c) PROVE IInv'
  BY <1>25 DEF RegisterFails, Alive
<1>26. ASSUME NEW c \in Calls, EngineStart(c) PROVE IInv'
  <2>1. PICK x \in {"starting", "load"} : call' = [call EXCEPT ![c].pc = x]
    BY <1>26 DEF EngineStart
  <2>2. call' \in [Calls -> CallRecord]
    BY <2>1 DEF CallRecord, PastEngine
  <2>3. InProgress'
    BY <1>26, <2>1 DEF EngineStart, CallRecord
  <2> QED
    BY <1>26, <2>2, <2>3 DEF EngineStart, Alive
<1>27. ASSUME NEW c \in Calls, CommitRunning(c) PROVE IInv'
  BY <1>27 DEF CommitRunning, Alive
<1>28. ASSUME NEW c \in Calls, EngineStop(c) PROVE IInv'
  <2> DEFINE d == call[c].dev
  <2>0. d \in Devices
    BY <1>28 DEF EngineStop
  <2>1. CASE entry[d] = NoTask
    <3>1. /\ UNCHANGED <<entry, attempts, values, task>>
          /\ call' = [call EXCEPT ![c] = AfterStop(d, FALSE)]
      BY <1>28, <2>1 DEF EngineStop
    <3>2. /\ AfterStop(d, FALSE) \in CallRecord
          /\ AfterStop(d, FALSE).pc # "stopping" /\ AfterStop(d, FALSE).dev \in Devices
      BY <2>0, StopGoesOn
    <3> QED
      BY <1>28, <2>0, <3>1, <3>2 DEF EngineStop, Alive
  <2>2. CASE entry[d] # NoTask
    <3>1. BeginStop(c, d, FALSE)
      BY <1>28, <2>2 DEF EngineStop
    <3> HIDE DEF InProgress, NoDeadEntry
    <3> QED
      BY <1>28, <2>0, <2>2, <3>1, BeginStopKeeps DEF EngineStop
  <2> QED
    BY <2>1, <2>2
<1>29. ASSUME NEW c \in Calls, CommitStopped(c) PROVE IInv'
  BY <1>29 DEF CommitStopped, Alive
<1>4. ASSUME NEW c \in Calls, NEW d \in Devices, CommitConfigs(c, d) PROVE IInv'
  <2>1. Request("commit", d, TRUE) \in CallRecord
        /\ Request("commit", d, TRUE).pc = "commit"
        /\ Request("commit", d, TRUE).dev = d
    BY Requests
  <2>2. TypeOK'
    <3>1. config' \in [Devices -> Configs \cup {NoConfig}]
      BY <1>4 DEF CommitConfigs
    <3>2. call' \in [Calls -> CallRecord]
      BY <1>4, <2>1 DEF CommitConfigs
    <3>3. overlap' \in [Devices -> BOOLEAN]
      BY <1>4, Zenon DEF CommitConfigs, Mark
    <3> QED
      BY <1>4, <3>1, <3>2, <3>3 DEF CommitConfigs
  <2>3. InProgress' /\ NoDeadEntry'
    BY <1>4, <2>1 DEF CommitConfigs, Alive
  <2> QED
    BY <2>2, <2>3
<1>5. ASSUME NEW c \in Calls, ReloadIfRunning(c) PROVE IInv'
  <2> DEFINE d == call[c].dev
  <2>0. d \in Devices
    BY <1>5 DEF ReloadIfRunning, IsDeviceSimulating
  <2>1. CASE entry[d] = NoTask
    <3>1. /\ UNCHANGED <<entry, attempts, values, task>>
          /\ call' = call \/ call' = [call EXCEPT ![c] = IdleCall]
      BY <1>5, <2>1 DEF ReloadIfRunning, IsDeviceSimulating
    <3> QED
      BY <1>5, <3>1 DEF ReloadIfRunning, IsDeviceSimulating, Alive
  <2>2. CASE entry[d] # NoTask
    <3>1. BeginStop(c, d, TRUE)
      BY <1>5, <2>2 DEF ReloadIfRunning, IsDeviceSimulating
    <3> HIDE DEF InProgress, NoDeadEntry
    <3> QED
      BY <1>5, <2>0, <2>2, <3>1, BeginStopKeeps DEF ReloadIfRunning, IsDeviceSimulating
  <2> QED
    BY <2>1, <2>2
<1>6. ASSUME NEW c \in Calls, StopResumes(c) PROVE IInv'
  <2> DEFINE d == call[c].dev
             t == call[c].task
  <2>1. d \in Devices /\ t \in Tasks /\ call[c].reload \in BOOLEAN
    BY <1>6 DEF StopResumes, CallRecord
  <2>2. PICK x \in CallRecord : /\ call' = [call EXCEPT ![c] = x]
                                /\ x.pc # "idle" => x.dev = d
                                /\ x.pc # "stopping"
    BY <1>6, <2>1, StopGoesOn DEF StopResumes
  <2>3. task' = [task EXCEPT ![t] = FreeTask] /\ \A k \in Devices : entry[k] # t
    BY <1>6 DEF StopResumes, Alive
  <2> QED
    BY <1>6, <2>1, <2>2, <2>3 DEF StopResumes, Alive
<1>7. ASSUME NEW c \in Calls, CallReadsConfigs(c) PROVE IInv'
  <2> DEFINE d == call[c].dev
  <2>1. /\ call' \in [Calls -> CallRecord]
        /\ \A k \in Calls \ {c} : call'[k] = call[k]
        /\ call'[c].pc \in {"idle", "starting", "loaded"}
        /\ call'[c].pc # "idle" => call'[c].dev = d
    <3>1. CASE config[d] = NoConfig
      <4>1. call' = [call EXCEPT ![c] = AfterLaunch(c)] /\ d \in Devices
        BY <1>7, <3>1 DEF CallReadsConfigs
      <4> QED
        BY <4>1, LaunchGoesOn
    <3>2. CASE config[d] # NoConfig
      <4>1. call' = [call EXCEPT ![c] = [call[c] EXCEPT !.pc = "loaded",
                        !.config = config[d], !.known = known[d]]]
        BY <1>7, <3>2 DEF CallReadsConfigs
      <4>2. d \in Devices
        BY <1>7 DEF CallReadsConfigs
      <4> QED
        <5>1. [call[c] EXCEPT !.pc = "loaded", !.config = config[d], !.known = known[d]]
                  \in CallRecord
          BY ZenonT(30), <4>2, LoadedCall
        <5> QED
          BY <4>1, <5>1 DEF CallRecord
    <3> QED
      BY <3>1, <3>2
  <2> QED
    BY <1>7, <2>1 DEF CallReadsConfigs, NothingToRun, Alive
<1>8. ASSUME NEW c \in Calls, CallLaunches(c) PROVE IInv'
  <2> DEFINE d == call[c].dev
  <2>1. d \in Devices /\ call[c].config \in Configs \cup {NoConfig}
          /\ call[c].known \in BOOLEAN /\ 0 \in 0..MaxRestartAttempts
    BY <1>8 DEF CallLaunches, CallRecord
  <2>2. PICK u \in Tasks : /\ task[u].pc = "free" /\ Launch(u, d, 0)
                           /\ task' = [task EXCEPT ![u] = NewTask(d, call[c].config, call[c].known)]
    BY <1>8 DEF CallLaunches
  <2> DEFINE r == NewTask(d, call[c].config, call[c].known)
  <2>3. r \in TaskRecord /\ r.pc = "new" /\ r.dev = d /\ ~r.cancel
    BY <2>1 DEF NewTask, TaskRecord, Alive
  <2>4. \A k \in Devices : entry[k] # u
    BY <2>2 DEF Alive
  <2>5. PICK x \in CallRecord : /\ call' = [call EXCEPT ![c] = x]
                                /\ x.pc # "idle" => x.dev = d
                                /\ x.pc # "stopping"
    BY <1>8, <2>1, LaunchGoesOn DEF CallLaunches
  <2> HIDE DEF r
  <2>6. task' = [task EXCEPT ![u] = r]
    BY <2>2 DEF r
  <2> QED
    BY <1>8, <2>1, <2>2, <2>3, <2>4, <2>5, <2>6 DEF CallLaunches, Launch, Alive
<1>9. ASSUME NEW c \in Calls, CallLoadFails(c) PROVE IInv'
  <2>1. PICK x \in CallRecord : /\ call' = [call EXCEPT ![c] = x]
                                /\ x.pc # "idle" => x.dev \in Devices
                                /\ x.pc # "stopping"
    BY <1>9, LaunchGoesOn DEF CallLoadFails
  <2> QED
    BY <1>9, <2>1 DEF CallLoadFails, NothingToRun, Alive
<1>10. ASSUME NEW t \in Tasks, RunDevice(t) PROVE IInv'
  <2> DEFINE d == task[t].dev
  <2>1. PICK r \in TaskRecord :
           /\ task' = [task EXCEPT ![t] = r]
           /\ r.dev = d /\ ~r.cancel
           /\ r.pc \in {"run", "setting", "crashed"}
           /\ r.pc = "run" => r.errors < MaxConsecutiveErrors
    <3>1. CASE task[t].known
      <4>1. PICK e \in {0, 1} : task' = [task EXCEPT ![t] = AfterTick(t, e)]
        BY <1>10, <3>1 DEF RunDevice, CreateValues
      <4>2. AfterTick(t, e) \in TaskRecord
        <5>1. task[t] \in TaskRecord /\ e \in 0..MaxConsecutiveErrors
          OBVIOUS
        <5> QED
          BY <5>1, TaskUpdates DEF AfterTick
      <4>3. /\ AfterTick(t, e).dev = d /\ ~AfterTick(t, e).cancel
            /\ AfterTick(t, e).pc \in {"run", "setting"}
            /\ AfterTick(t, e).pc = "run" => AfterTick(t, e).errors < MaxConsecutiveErrors
        BY <1>10 DEF RunDevice, CreateValues, AfterTick, TaskRecord
      <4> QED
        BY <4>1, <4>2, <4>3
    <3>2. CASE ~task[t].known
      <4>1. task' = [task EXCEPT ![t] = [task[t] EXCEPT !.pc = "crashed"]]
        BY <1>10, <3>2 DEF RunDevice, CreateValues
      <4>2. [task[t] EXCEPT !.pc = "crashed"] \in TaskRecord
        BY TaskUpdates DEF Ended
      <4> QED
        BY <1>10, <4>1, <4>2 DEF RunDevice, CreateValues, TaskRecord
    <3> QED
      BY <3>1, <3>2 DEF TaskRecord
  <2>2. /\ values' \in [Devices -> BOOLEAN]
        /\ UNCHANGED <<entry, attempts, call, config, known, status, up,
                       intent, overlap, unread>>
    BY <1>10 DEF RunDevice, CreateValues
  <2>3. TypeOK'
    BY <2>1, <2>2
  <2>4. InProgress'
    BY <1>10, <2>1, <2>2 DEF RunDevice, CreateValues
  <2>5. NoDeadEntry'
    BY <2>1, <2>2 DEF Alive
  <2> QED
    BY <2>3, <2>4, <2>5
<1>11. ASSUME NEW t \in Tasks, Tick(t) PROVE IInv'
  <2> DEFINE d == task[t].dev
  <2>1. PICK r \in TaskRecord :
           /\ task' = [task EXCEPT ![t] = r]
           /\ r.dev = d /\ ~r.cancel
           /\ r.pc \in {"run", "setting", "crashed"}
           /\ r.pc = "run" => r.errors < MaxConsecutiveErrors
    <3>1. PICK ok \in BOOLEAN : task' = [task EXCEPT ![t] =
                         AfterTick(t, IF ok THEN 0 ELSE task[t].errors + 1)]
      BY <1>11 DEF Tick
    <3>2. PICK e \in 0..MaxConsecutiveErrors : task' = [task EXCEPT ![t] = AfterTick(t, e)]
      <4>1. 0 \in 0..MaxConsecutiveErrors /\ task[t].errors + 1 \in 0..MaxConsecutiveErrors
        BY <1>11 DEF Tick, TaskRecord
      <4>2. CASE ok
        BY <3>1, <4>1, <4>2
      <4>3. CASE ~ok
        BY <3>1, <4>1, <4>3
      <4> QED
        BY <4>2, <4>3
    <3>3. AfterTick(t, e) \in TaskRecord
      <4>1. task[t] \in TaskRecord
        OBVIOUS
      <4> QED
        BY <4>1, <3>2, TaskUpdates DEF AfterTick
    <3>4. /\ AfterTick(t, e).dev = d /\ ~AfterTick(t, e).cancel
          /\ AfterTick(t, e).pc \in {"run", "setting"}
          /\ AfterTick(t, e).pc = "run" => AfterTick(t, e).errors < MaxConsecutiveErrors
      BY <1>11, <3>2 DEF Tick, AfterTick, TaskRecord
    <3> QED
      BY <3>2, <3>3, <3>4
  <2> QED
    BY <1>11, <2>1 DEF Tick, Alive
<1>12. ASSUME NEW t \in Tasks, GiveUp(t) PROVE IInv'
  <2>1. TypeOK'
    <3>1. task' \in [Tasks -> TaskRecord]
      BY SMTT(30), <1>12 DEF GiveUp, WriteError, NothingToRun, Alive, Ended, Job, TaskRecord, CallRecord
    <3>2. call' \in [Calls -> CallRecord]
      BY <1>12 DEF GiveUp, WriteError, NothingToRun, Alive, Ended, Job, TaskRecord, CallRecord
    <3> QED
      BY <1>12, <3>1, <3>2 DEF GiveUp, WriteError, NothingToRun, Alive, Ended, Job
  <2>2. InProgress'
    BY <1>12 DEF GiveUp, WriteError, NothingToRun, Alive, Ended, Job, TaskRecord, CallRecord
  <2>3. NoDeadEntry'
    BY <1>12 DEF GiveUp, WriteError, NothingToRun, Alive, Ended, Job, TaskRecord, CallRecord
  <2> QED
    BY <2>1, <2>2, <2>3
<1>13. ASSUME NEW t \in Tasks, Cancelled(t) PROVE IInv'
  <2>1. /\ task' = [task EXCEPT ![t] = [task[t] EXCEPT !.pc = "cancelled"]]
        /\ [task[t] EXCEPT !.pc = "cancelled"] \in TaskRecord
    BY <1>13, TaskUpdates DEF Cancelled, Ended
  <2>2. \A d \in Devices : entry[d] # t
    BY <1>13 DEF Cancelled
  <2> QED
    BY <1>13, <2>1, <2>2 DEF Cancelled, Alive, TaskRecord
<1>14. ASSUME NEW t \in Tasks, OnTaskReturned(t) PROVE IInv'
  <2>1. TypeOK'
    BY <1>14 DEF OnTaskReturned, DropReturned, Drop, Alive, Ended, Job, TaskRecord, CallRecord
  <2>2. InProgress'
    BY <1>14 DEF OnTaskReturned, DropReturned, Drop, Alive, Ended, Job, TaskRecord, CallRecord
  <2>3. NoDeadEntry'
    BY <1>14 DEF OnTaskReturned, DropReturned, Drop, Alive, Ended, Job, TaskRecord, CallRecord
  <2> QED
    BY <2>1, <2>2, <2>3
<1>15. ASSUME NEW t \in Tasks, OnTaskCrashed(t) PROVE IInv'
  <2> DEFINE d == task[t].dev
  <2>1. d \in Devices /\ attempts[d] + 1 \in Nat
    BY <1>15 DEF OnTaskCrashed, ErrorJobOf
  <2>2. CASE attempts[d] + 1 > MaxRestartAttempts
    <3> DEFINE r == JobTask("seterr", d, 0)
    <3>1. /\ task' = [task EXCEPT ![t] = r]
          /\ entry' = [entry EXCEPT ![d] = NoTask]
          /\ attempts' = [attempts EXCEPT ![d] = 0]
      BY <1>15, <2>2 DEF OnTaskCrashed, ErrorJobOf, Drop
    <3>2. r \in TaskRecord /\ r.pc = "seterr" /\ r.dev = d
      BY <2>1, ErrorJob
    <3> QED
      BY <1>15, <2>1, <3>1, <3>2 DEF OnTaskCrashed, ErrorJobOf, Alive
  <2>3. CASE ~(attempts[d] + 1 > MaxRestartAttempts)
    <3> DEFINE r == JobTask("sleep", d, attempts[d] + 1)
    <3>1. task' = [task EXCEPT ![t] = r] /\ UNCHANGED <<entry, attempts>>
      BY <1>15, <2>3 DEF OnTaskCrashed, ErrorJobOf
    <3>2. r \in TaskRecord /\ r.pc = "sleep" /\ r.dev = d /\ ~r.cancel
      <4>1. attempts[d] + 1 \in 0..MaxRestartAttempts
        BY <2>1, <2>3
      <4> QED
        BY <2>1, <4>1, JobRecords DEF Job
    <3> QED
      BY <1>15, <2>1, <3>1, <3>2 DEF OnTaskCrashed, ErrorJobOf, Alive
  <2> QED
    BY <2>2, <2>3
<1>16. ASSUME NEW t \in Tasks, DelayedRestart(t) PROVE IInv'
  <2>1. TypeOK'
    BY SMTT(30), <1>16 DEF DelayedRestart, Drop, Alive, Ended, Job, TaskRecord, CallRecord
  <2>2. InProgress'
    BY <1>16 DEF DelayedRestart, Drop, Alive, Ended, Job, TaskRecord, CallRecord
  <2>3. NoDeadEntry'
    BY <1>16 DEF DelayedRestart, Drop, Alive, Ended, Job, TaskRecord, CallRecord
  <2> QED
    BY <2>1, <2>2, <2>3
<1>17. ASSUME NEW t \in Tasks, RestartReadsConfigs(t) PROVE IInv'
  <2> DEFINE d == task[t].dev
  <2>1. d \in Devices
    BY <1>17 DEF RestartReadsConfigs
  <2>2. PICK r \in TaskRecord : /\ task' = [task EXCEPT ![t] = r]
                                /\ r.pc \in {"free", "loaded"}
                                /\ r.pc = "loaded" => r.dev = d
    <3>1. CASE config[d] = NoConfig
      BY <1>17, <3>1 DEF RestartReadsConfigs
    <3>2. CASE config[d] # NoConfig
      <4> DEFINE r == [task[t] EXCEPT !.pc = "loaded", !.config = config[d],
                                      !.known = known[d]]
      <4>1. task' = [task EXCEPT ![t] = r]
        BY <1>17, <3>2 DEF RestartReadsConfigs
      <4>2. r \in TaskRecord /\ r.pc = "loaded" /\ r.dev = d
        <5>1. task[t] \in TaskRecord /\ config[d] \in Configs \cup {NoConfig}
                /\ known[d] \in BOOLEAN
          BY <2>1
        <5>2. r \in TaskRecord
          BY <5>1, TaskUpdates
        <5> QED
          BY <5>1, <5>2 DEF TaskRecord
      <4> QED
        BY <4>1, <4>2
    <3> QED
      BY <3>1, <3>2
  <2>3. \A k \in Devices : entry[k] # t
    BY <1>17 DEF RestartReadsConfigs, Alive
  <2> QED
    BY <1>17, <2>1, <2>2, <2>3 DEF RestartReadsConfigs, NothingToRun, Alive
<1>18. ASSUME NEW t \in Tasks, RestartLaunches(t) PROVE IInv'
  <2> DEFINE d == task[t].dev
  <2>1. d \in Devices /\ task[t].attempt \in 0..MaxRestartAttempts
    BY <1>18 DEF RestartLaunches, RestartCount, TaskRecord
  <2>2. PICK u \in Tasks :
           /\ task[u].pc = "free"
           /\ task' = [task EXCEPT ![t] = FreeTask,
                          ![u] = NewTask(d, task[t].config, task[t].known)]
           /\ Launch(u, d, task[t].attempt)
    BY <1>18 DEF RestartLaunches, RestartCount
  <2> DEFINE r == NewTask(d, task[t].config, task[t].known)
  <2>3. r \in TaskRecord /\ r.pc = "new" /\ r.dev = d /\ ~r.cancel
    BY <2>1 DEF NewTask, TaskRecord, Alive
  <2>4. t # u /\ \A k \in Devices : entry[k] # t /\ entry[k] # u
    BY <1>18, <2>2 DEF RestartLaunches, RestartCount, Alive
  <2> HIDE DEF r
  <2>5. task' = [task EXCEPT ![t] = FreeTask, ![u] = r]
    BY <2>2 DEF r
  <2> QED
    BY <1>18, <2>1, <2>2, <2>3, <2>4, <2>5 DEF RestartLaunches, RestartCount, Launch, Alive
<1>19. ASSUME NEW t \in Tasks, RestartFails(t) PROVE IInv'
  <2> DEFINE r == JobTask("seterr", task[t].dev, 0)
  <2>1. task[t].dev \in Devices /\ \A k \in Devices : entry[k] # t
    BY <1>19 DEF RestartFails, Alive
  <2>2. r \in TaskRecord /\ r.pc = "seterr" /\ r.dev = task[t].dev
    BY <2>1, ErrorJob
  <2> QED
    BY <1>19, <2>1, <2>2 DEF RestartFails
<1>20. ASSUME NEW t \in Tasks, SetDeviceError(t) PROVE IInv'
  <2>1. TypeOK'
    <3>1. task' \in [Tasks -> TaskRecord]
      BY <1>20 DEF SetDeviceError, WriteError, NothingToRun, Alive, Ended, Job, TaskRecord, CallRecord
    <3>2. call' \in [Calls -> CallRecord]
      BY <1>20 DEF SetDeviceError, WriteError, NothingToRun, Alive, Ended, Job, TaskRecord, CallRecord
    <3>3. /\ status' \in [Devices -> {"stopped", "running", "error", "deleted"}]
          /\ intent' \in [Devices -> {"stopped", "started", "launched"}]
      BY <1>20 DEF SetDeviceError, WriteError, NothingToRun
    <3> QED
      BY <1>20, <3>1, <3>2, <3>3 DEF SetDeviceError
  <2>2. InProgress'
    BY <1>20 DEF SetDeviceError, WriteError, NothingToRun, Alive, Ended, Job, TaskRecord, CallRecord
  <2>3. NoDeadEntry'
    BY <1>20 DEF SetDeviceError, WriteError, NothingToRun, Alive, Ended, Job, TaskRecord, CallRecord
  <2> QED
    BY <2>1, <2>2, <2>3
<1>21. ASSUME NEW d \in Devices, ImportSystem(d) PROVE IInv'
  BY <1>21 DEF ImportSystem, Alive
<1>30. ASSUME NEW d \in Devices, DeleteDevice(d) PROVE IInv'
  BY <1>30 DEF DeleteDevice, Alive
<1>22. ASSUME NEW d \in Devices, UpdateTemplate(d) PROVE IInv'
  <2>1. TypeOK'
    BY <1>22 DEF UpdateTemplate, Alive, Ended, Job, TaskRecord, CallRecord
  <2>2. InProgress'
    BY <1>22 DEF UpdateTemplate, Alive, Ended, Job, TaskRecord, CallRecord
  <2>3. NoDeadEntry'
    BY <1>22 DEF UpdateTemplate, Alive, Ended, Job, TaskRecord, CallRecord
  <2> QED
    BY <2>1, <2>2, <2>3
<1>23. CASE Shutdown
  <2>1. task' \in [Tasks -> TaskRecord]
    BY <1>23, TaskUpdates DEF Shutdown
  <2>2. \A t \in Tasks : /\ task'[t].pc = task[t].pc /\ task'[t].dev = task[t].dev
                          /\ task'[t].errors = task[t].errors
    BY <1>23 DEF Shutdown, TaskRecord
  <2>3. /\ entry' = [d \in Devices |-> NoTask]
        /\ attempts' = [d \in Devices |-> 0]
        /\ UNCHANGED <<values, call, config, known, status, intent, overlap, unread>>
        /\ up' = FALSE
    BY <1>23 DEF Shutdown
  <2>4. TypeOK'
    <3>1. /\ entry' \in [Devices -> Tasks \cup {NoTask}]
          /\ attempts' \in [Devices -> 0..MaxRestartAttempts]
      BY <2>3
    <3> QED
      BY <2>1, <2>3, <3>1
  <2> QED
    BY <2>2, <2>3, <2>4
<1>24. CASE ShutdownResumes
  <2>1. TypeOK'
    BY <1>24 DEF ShutdownResumes, Alive, Ended, Job, TaskRecord, CallRecord
  <2>2. InProgress'
    BY <1>24 DEF ShutdownResumes, Alive, Ended, Job, TaskRecord, CallRecord
  <2>3. \A d \in Devices : entry[d] # NoTask => task'[entry[d]] = task[entry[d]]
    BY <1>24 DEF ShutdownResumes, Alive
  <2>4. NoDeadEntry'
    <3>1. UNCHANGED entry
      BY <1>24 DEF ShutdownResumes
    <3> QED
      BY <2>3, <3>1
  <2> QED
    BY <2>1, <2>2, <2>4
<1> QED
  BY <1>1, <1>2, <1>3, <1>4, <1>5, <1>6, <1>7, <1>8, <1>9, <1>10, <1>11, <1>12, <1>13, <1>14, <1>15, <1>16, <1>17, <1>18, <1>19, <1>20, <1>21, <1>22, <1>23, <1>24, <1>25, <1>26, <1>27, <1>28, <1>29, <1>30 DEF Next, CallStep, TaskStep

(* Spec keeps the types of the engine's state, whatever the constants.      *)
THEOREM TypeCorrect == Spec => []TypeOK
<1>1. IInv => TypeOK
  BY DEF IInv
<1> QED
  BY InitIInv, StepIInv, <1>1, PTL DEF Spec

(* is_device_simulating never reports a simulation that is dead for good,   *)
(* for any number of devices, overlapping requests, tasks and restarts.     *)
THEOREM RegistryIsLive == Spec => []NoDeadEntry
<1>1. IInv => NoDeadEntry
  BY DEF IInv
<1> QED
  BY InitIInv, StepIInv, <1>1, PTL DEF Spec
=============================================================================
