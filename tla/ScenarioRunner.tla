---------------------------- MODULE ScenarioRunner ----------------------------
(***************************************************************************)
(* backend/app/services/scenario_runner.py on one device: the timeline task *)
(* that injects and removes anomalies, the requests that start and stop it, *)
(* and everyone else who writes the real-time part of the anomaly injector  *)
(* (backend/app/simulation/anomaly_injector.py): the anomaly API, the       *)
(* engine's stop and reload, device_service.stop_device.                    *)
(*                                                                          *)
(* Times are whole seconds: every comparison of the code is between the     *)
(* elapsed time and an integer, so its integer part decides it.             *)
(***************************************************************************)
EXTENDS Integers, Sequences, FiniteSets, FiniteSetsExt

CONSTANTS
    Registers,     \* register names of the device's template
    Runs,          \* identities of RunningScenario objects (reused when free)
    Calls,         \* API requests that can be in progress at once
    Scenarios,     \* step lists a client may submit
    NoRun,
    MaxGap         \* seconds between two polls of the timeline, at most

Step == [reg : Registers, trigger : Nat, duration : Nat \ {0}]

ASSUME ScenarioAssumption ==
    /\ Scenarios \subseteq Seq(Step)
    /\ NoRun \notin Runs
    /\ MaxGap \in Nat \ {0}

VARIABLES
    running,    \* _running[device_id], NoRun when absent
    run,        \* the RunningScenario objects and their timeline tasks
    injected,   \* AnomalyInjector._active[device_id]
    call,       \* the API requests in progress
    device,     \* the device's status in the database
    imported    \* history: the device is "stopped" by an import, not a stop

vars == <<running, run, injected, call, device, imported>>

-----------------------------------------------------------------------------
End(step) == step.trigger + step.duration

(* _validate_steps: per register, sorted by trigger, no step may begin      *)
(* before the previous one has ended.                                       *)
Before(s, i, j) ==
    /\ s[i].reg = s[j].reg
    /\ \/ s[i].trigger < s[j].trigger
       \/ s[i].trigger = s[j].trigger /\ i < j

(* Mutation for OneActiveStepPerRegister: only the triggers are compared.   *)
ValidateTriggers(s) ==
    \A i, j \in DOMAIN s : Before(s, i, j) => s[i].trigger < s[j].trigger

ValidateSteps(s) ==
    \A i, j \in DOMAIN s :
        Before(s, i, j) /\ (\A k \in DOMAIN s : ~(Before(s, i, k) /\ Before(s, k, j)))
            => End(s[i]) <= s[j].trigger

TotalDuration(s) == Max({0} \cup {End(s[i]) : i \in DOMAIN s})

(* The anomalies on a register: none, one injected over the API, or one a   *)
(* step of a scenario run injected.                                         *)
None == [kind |-> "none", by |-> NoRun, step |-> 0]
User == [kind |-> "user", by |-> NoRun, step |-> 0]
FromStep(r, i) == [kind |-> "step", by |-> r, step |-> i]

FreeRun == [pc |-> "free", steps |-> <<>>, elapsed |-> 0, triggered |-> {},
            active |-> {}, clean |-> TRUE, raced |-> FALSE]

RunRecord == [pc : {"free", "new", "live", "cancelled"},
              steps : Scenarios \cup {<<>>},
              elapsed : Nat,
              triggered : SUBSET Nat,      \* steps already injected
              active : SUBSET Registers,   \* active_anomalies
              clean : BOOLEAN,             \* history: nobody else wrote the
                                           \* injector during the run
              raced : BOOLEAN]             \* history: started during a stop of
                                           \* the device or after it

CallRecord == [pc : {"idle", "checked", "stopping", "draining", "engine", "commit"},
               run : Runs \cup {NoRun},    \* the cancelled run it awaits
               devstop : BOOLEAN]          \* device_service.stop_device

TypeOK ==
    /\ running \in Runs \cup {NoRun}
    /\ run \in [Runs -> RunRecord]
    /\ injected \in [Registers -> [kind : {"none", "user", "step"},
                                   by : Runs \cup {NoRun}, step : Nat]]
    /\ call \in [Calls -> CallRecord]
    /\ device \in {"stopped", "running", "error"}
    /\ imported \in BOOLEAN

IdleCall == [pc |-> "idle", run |-> NoRun, devstop |-> FALSE]

Init ==
    /\ running = NoRun
    /\ run = [r \in Runs |-> FreeRun]
    /\ injected = [g \in Registers |-> None]
    /\ call = [c \in Calls |-> IdleCall]
    /\ device = "stopped"
    /\ imported = FALSE

Driving(r) == run[r].pc \in {"new", "live"}

(* Everybody but q's own timeline wrote the injector: q's run is not clean. *)
Disturb(f, q) == [r \in Runs |-> IF r # q /\ f[r].pc # "free"
                                 THEN [f[r] EXCEPT !.clean = FALSE] ELSE f[r]]

DeviceStopping == \E c \in Calls : call[c].devstop \/ call[c].pc \in {"engine", "commit"}

-----------------------------------------------------------------------------
(* Requests.                                                                *)

(* POST .../scenario/{id}/start: the device runs and has no scenario ...    *)
RequestStart(c) ==
    /\ call[c].pc = "idle" /\ device = "running" /\ running = NoRun
    /\ call' = [call EXCEPT ![c].pc = "checked"]
    /\ UNCHANGED <<running, run, injected, device, imported>>

(* Mutation for OneTimeline: ScenarioRunner.start relies on the request's   *)
(* check.                                                                   *)
Unchecked == FALSE

AlreadyRunning == running # NoRun

(* ... then, with the scenario (validated when it was stored) read from the *)
(* database, ScenarioRunner.start: it raises if another start came first.   *)
Start(c) ==
    /\ call[c].pc = "checked"
    /\ call' = [call EXCEPT ![c] = IdleCall]
    /\ IF AlreadyRunning THEN UNCHANGED <<running, run>>
       ELSE \E r \in Runs, s \in Scenarios :
              /\ run[r].pc = "free" /\ ValidateSteps(s)
              /\ running' = r
              /\ run' = [run EXCEPT ![r] = [FreeRun EXCEPT !.pc = "new", !.steps = s,
                            !.raced = DeviceStopping \/ device = "stopped"]]
    /\ UNCHANGED <<injected, device, imported>>

(* ScenarioRunner.stop up to its await: pop the run and cancel its task.    *)
BeginStop(c, devstop) ==
    /\ running' = NoRun
    /\ run' = [run EXCEPT ![running].pc = "cancelled"]
    /\ call' = [call EXCEPT ![c] = [pc |-> "draining", run |-> running,
                                    devstop |-> devstop]]

(* POST .../scenario/stop                                                   *)
RequestStop(c) ==
    /\ call[c].pc = "idle" /\ running # NoRun
    /\ BeginStop(c, FALSE)
    /\ UNCHANGED <<injected, device, imported>>

(* Mutation for NoLeakedAnomaly: stop leaves the anomalies to the timeline. *)
NotCleared(r) == injected

Cleared(r) == [g \in Registers |-> IF g \in run[r].active THEN None ELSE injected[g]]

(* ScenarioRunner.stop resumes: remove whatever is on the registers the run *)
(* holds active.                                                            *)
StopResumes(c) ==
    LET r == call[c].run IN
    /\ call[c].pc = "draining"
    /\ injected' = Cleared(r)
    /\ run' = [(IF run[r].active = {} THEN run ELSE Disturb(run, r)) EXCEPT ![r] = FreeRun]
    /\ call' = [call EXCEPT ![c] = IF call[c].devstop
                                   THEN [IdleCall EXCEPT !.pc = "engine"] ELSE IdleCall]
    /\ UNCHANGED <<running, device, imported>>

(* device_service.stop_device reads the status ...                          *)
StopDevice(c) ==
    /\ call[c].pc = "idle" /\ device # "stopped"
    /\ call' = [call EXCEPT ![c].pc = "stopping"]
    /\ UNCHANGED <<running, run, injected, device, imported>>

(* Mutation for NoScenarioOnStoppedDevice: stop_device leaves the scenario. *)
StopScenarioSkipped(c) ==
    /\ call[c].pc = "stopping"
    /\ call' = [call EXCEPT ![c].pc = "engine"]
    /\ UNCHANGED <<running, run, injected, device, imported>>

(* ... stops the scenario, if one is running ...                            *)
StopScenario(c) ==
    /\ call[c].pc = "stopping"
    /\ IF running # NoRun THEN BeginStop(c, TRUE)
       ELSE /\ call' = [call EXCEPT ![c].pc = "engine"]
            /\ UNCHANGED <<running, run>>
    /\ UNCHANGED <<injected, device, imported>>

(* ... then the engine, which clears the injector for the device if it      *)
(* simulates it ...                                                         *)
StopEngine(c) ==
    /\ call[c].pc = "engine"
    /\ \/ /\ injected' = [g \in Registers |-> None]
          /\ run' = Disturb(run, NoRun)
       \/ UNCHANGED <<injected, run>>
    /\ call' = [call EXCEPT ![c].pc = "commit"]
    /\ UNCHANGED <<running, device, imported>>

(* ... and then the status.                                                 *)
CommitStopped(c) ==
    /\ call[c].pc = "commit"
    /\ device' = "stopped" /\ imported' = FALSE
    /\ call' = [call EXCEPT ![c] = IdleCall]
    /\ UNCHANGED <<running, run, injected>>

-----------------------------------------------------------------------------
(* The timeline task.                                                       *)

Due(r, e) == {i \in DOMAIN run[r].steps \ run[r].triggered : e >= run[r].steps[i].trigger}

(* Mutation for LoneStepHolds: the step lasts one poll too long.            *)
IsOverLate(step, e) == e > End(step)

IsOver(step, e) == e >= End(step)

(* _drive_timeline, one turn of its loop at elapsed time e: inject the due  *)
(* steps, then remove from the registers of triggered steps that are over,  *)
(* then complete or sleep.                                                  *)
Turn(r, e) ==
    LET s == run[r].steps
        triggered == run[r].triggered \cup Due(r, e)
        active == run[r].active \cup {s[i].reg : i \in Due(r, e)}
        over == {s[i].reg : i \in {j \in triggered : IsOver(s[j], e)}} \cap active
        onto(g) == {i \in Due(r, e) : s[i].reg = g}
        done == e >= TotalDuration(s) /\ active \ over = {} IN
    /\ injected' = [g \in Registers |->
                      CASE g \in over -> None
                        [] g \notin over /\ onto(g) # {} -> FromStep(r, Max(onto(g)))
                        [] OTHER -> injected[g]]
    /\ run' = [run EXCEPT ![r] =
                 IF done THEN FreeRun
                 ELSE [run[r] EXCEPT !.pc = "live", !.elapsed = e,
                         !.triggered = triggered, !.active = active \ over]]
    /\ running' = IF done THEN NoRun ELSE running
    /\ UNCHANGED <<call, device, imported>>

(* Mutation for TypeOK: elapsed time taken from a clock that may be set back.*)
WallClockLate == -1..MaxGap - 1

Late == 0..MaxGap - 1

(* Mutation for ScenarioEnds: elapsed time counted from the last poll.      *)
SinceLast(r, gap) == gap

Elapsed(r, gap) == run[r].elapsed + gap

(* Mutation for ImplementsContract: the timeline swallows its cancellation. *)
PollOn(r) ==
    \/ run[r].pc = "new" /\ \E late \in Late : Turn(r, late)
    \/ run[r].pc \in {"live", "cancelled"} /\ \E gap \in 1..MaxGap : Turn(r, Elapsed(r, gap))

(* The first turn comes as soon as the loop runs the new task, the others   *)
(* after a sleep of one second; either may be late when the loop is busy.   *)
Poll(r) ==
    \/ run[r].pc = "new" /\ \E late \in Late : Turn(r, late)
    \/ run[r].pc = "live" /\ \E gap \in 1..MaxGap : Turn(r, Elapsed(r, gap))

-----------------------------------------------------------------------------
(* The other writers of the injector and of the device's status.            *)

UserInject(g) ==
    /\ injected' = [injected EXCEPT ![g] = User]
    /\ run' = Disturb(run, NoRun)
    /\ UNCHANGED <<running, call, device, imported>>

UserRemove(g) ==
    /\ injected[g] # None
    /\ injected' = [injected EXCEPT ![g] = None]
    /\ run' = Disturb(run, NoRun)
    /\ UNCHANGED <<running, call, device, imported>>

(* DELETE .../anomaly, and the engine's reload after a config write.        *)
ClearAnomalies ==
    /\ injected' = [g \in Registers |-> None]
    /\ run' = Disturb(run, NoRun)
    /\ UNCHANGED <<running, call, device, imported>>

(* start_device commits; one that read "stopped" may come after the "error" *)
(* of another.                                                              *)
StartDevice ==
    /\ device # "running" /\ device' = "running" /\ imported' = FALSE
    /\ UNCHANGED <<running, run, injected, call>>

(* A failed start, or the engine giving up.  The scenario goes on.          *)
DeviceFails ==
    /\ device # "error" /\ device' = "error" /\ imported' = FALSE
    /\ UNCHANGED <<running, run, injected, call>>

(* system_service.import_system marks a running device stopped and does     *)
(* nothing else to it: its scenario goes on.                                *)
ImportSystem ==
    /\ device = "running" /\ device' = "stopped" /\ imported' = TRUE
    /\ UNCHANGED <<running, run, injected, call>>

-----------------------------------------------------------------------------
CallStep(c) ==
    \/ Start(c) \/ StopScenario(c) \/ StopResumes(c) \/ StopEngine(c) \/ CommitStopped(c)

Next ==
    \/ \E c \in Calls : RequestStart(c) \/ RequestStop(c) \/ StopDevice(c) \/ CallStep(c)
    \/ \E r \in Runs : Poll(r)
    \/ \E g \in Registers : UserInject(g) \/ UserRemove(g)
    \/ ClearAnomalies \/ StartDevice \/ DeviceFails \/ ImportSystem

(* The event loop wakes the timeline from its sleep and resumes requests    *)
(* whose awaits are over.                                                   *)
Spec == /\ Init /\ [][Next]_vars
        /\ \A c \in Calls : WF_vars(CallStep(c))
        /\ \A r \in Runs : WF_vars(Poll(r))

-----------------------------------------------------------------------------
(* One timeline per device: the task of the registered run is the only one  *)
(* that still polls, however starts and stops interleave.                   *)
OneTimeline == \A r \in Runs : Driving(r) <=> running = r

(* An anomaly a scenario injected never outlives it: it belongs to a run    *)
(* that still polls, or that a stop is about to clean up, and that run      *)
(* remembers the register as active.                                        *)
NoLeakedAnomaly ==
    \A g \in Registers : injected[g].kind = "step" =>
        LET r == injected[g].by IN
        /\ r \in Runs
        /\ \/ run[r].pc = "live"
           \/ run[r].pc = "cancelled" /\ \E c \in Calls : call[c].pc = "draining" /\ call[c].run = r
        /\ g \in run[r].active

(* _validate_steps leaves at most one step of a register in its time window:*)
(* get_status never reports two anomalies on one register.                  *)
OneActiveStepPerRegister ==
    \A r \in Runs : Driving(r) =>
        \A i, j \in DOMAIN run[r].steps :
            LET s == run[r].steps IN
            i # j /\ s[i].reg = s[j].reg => End(s[i]) <= s[j].trigger \/ End(s[j]) <= s[i].trigger

InWindow(r, i) == LET s == run[r].steps[i] IN
    s.trigger <= run[r].elapsed /\ run[r].elapsed < End(s)

(* A step that has its register to itself is injected during its window     *)
(* and at no other time, as long as nobody else writes the injector.        *)
LoneStepHolds ==
    \A r \in Runs : run[r].pc = "live" /\ run[r].clean =>
        \A i \in DOMAIN run[r].steps :
            (\A j \in DOMAIN run[r].steps \ {i} : run[r].steps[j].reg # run[r].steps[i].reg)
                => (InWindow(r, i) <=> injected[run[r].steps[i].reg] = FromStep(r, i))

(* A device that stop_device stopped has no scenario, however stops, starts *)
(* and imports follow each other, unless the scenario's start had passed    *)
(* its check before the device was stopped.  Only a device that an import   *)
(* marked stopped keeps its scenario.                                       *)
NoScenarioOnStoppedDevice ==
    device = "stopped" /\ ~imported /\ running # NoRun => run[running].raced

(* A scenario ends: it completes by itself or is stopped.                   *)
ScenarioEnds == \A r \in Runs : running = r ~> running # r

(* The contract the rest of the system relies on: only the scenario in      *)
(* charge injects, a cancelled timeline never again, and the stop that      *)
(* cancelled it removes everything it left on the registers.                *)
Contract == INSTANCE ScenarioContract WITH
    slot <- running,
    owed <- {r \in Runs : run[r].pc = "cancelled"},
    marks <- [g \in Registers |-> injected[g].by]

ImplementsContract == Contract!Spec

(* What get_status and the step's duration_seconds say: a step in its time  *)
(* window is injected.                                                      *)
StepLastsItsDuration ==
    \A r \in Runs : run[r].pc = "live" /\ run[r].clean =>
        \A i \in DOMAIN run[r].steps :
            InWindow(r, i) => injected[run[r].steps[i].reg] = FromStep(r, i)
=============================================================================
