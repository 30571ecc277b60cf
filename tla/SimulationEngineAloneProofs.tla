---------------------- MODULE SimulationEngineAloneProofs ----------------------
(***************************************************************************)
(* What a device can count on while the operations on it do not overlap,    *)
(* for any number of devices, requests, tasks and restarts: its live task   *)
(* is the registered one and finds its values, the simulation does not end  *)
(* without an error status, and it runs the configs in the database.        *)
(*                                                                          *)
(* None of these is inductive.  Their common reason is that a device then   *)
(* has at most one request and one task, that a delayed restart and a       *)
(* request exclude each other, and that a launch finds no task to replace.  *)
(***************************************************************************)
EXTENDS SimulationEngineProofs

On(t, d) == task[t].dev = d
Asks(c, d) == call[c].dev = d

(* What is at rest belongs to no device; a cancelled task is awaited by one *)
(* stop until it is reaped; after the lifespan's exit no request is left.   *)
Awaited ==
    /\ \A t \in Tasks :
          /\ task[t].pc = "free" => task[t].dev = NoDevice
          /\ task[t].cancel => task[t].pc \in Alive \cup {"cancelled"}
          /\ task[t].pc = "cancelled" => task[t].cancel
          /\ task[t].cancel /\ up => \E c \in Calls : call[c].pc = "stopping" /\ call[c].task = t
    /\ \A c \in Calls :
          /\ call[c].pc = "idle" => call[c].dev = NoDevice
          /\ call[c].pc = "stopping" => On(call[c].task, call[c].dev) /\ task[call[c].task].cancel
          /\ ~up => call[c].pc = "idle"
    /\ \A c, k \in Calls : call[c].pc = "stopping" /\ call[k].pc = "stopping"
                             /\ call[c].task = call[k].task => c = k

(* One request and one task at a time, and the task is the registered one.  *)
OneEach(d) ==
    /\ \A c, k \in Calls : Asks(c, d) /\ Asks(k, d) => c = k
    /\ \A t, u \in Tasks : On(t, d) /\ On(u, d) => t = u
    /\ \A c \in Calls, t \in Tasks :
          Asks(c, d) /\ On(t, d) /\ task[t].pc \in Job => call[c].pc \in PastEngine
    /\ \A t \in Tasks : Simulates(t, d) => entry[d] = t

(* A request about to launch finds no entry, and no task but one whose      *)
(* done-callback comes first; so does a start that is about to find none.   *)
Clear(x, d) ==
    /\ x.pc \in {"load", "loaded"} => entry[d] = NoTask
    /\ x.pc \in {"load", "loaded"} \/ (x.pc = "register" /\ entry[d] = NoTask) =>
          \A t \in Tasks : On(t, d) => x.pc # "loaded" /\ task[t].pc = "returned"

ClearToLaunch(d) == \A c \in Calls : Asks(c, d) => Clear(call[c], d)

(* Until stop_device commits, its device stays stopped for the engine.      *)
Halting(x) == x.pc = "unregister" \/ (x.pc = "stopping" /\ ~x.reload)

Halted(d) == \A c \in Calls : Asks(c, d) /\ Halting(call[c]) => intent[d] = "stopped"

HasValues(d) == up => \A t \in Tasks : Simulates(t, d) /\ task[t].pc = "run" => values[d]

(* Someone is still to launch the device again or to report it.             *)
Pursued(d) ==
    \/ \E t \in Tasks : On(t, d) /\ task[t].pc \in Job \cup {"crashed"}
    \/ \E c \in Calls : /\ Asks(c, d)
                        /\ call[c].pc \in {"load", "loaded"} \/ (call[c].pc = "stopping" /\ call[c].reload)

(* The end of the simulation shows, or there is nothing left to show it on. *)
Over(d) == status[d] \in {"error", "deleted"}

Reported(d) ==
    /\ intent[d] = "launched" /\ up => entry[d] # NoTask \/ Over(d) \/ Pursued(d)
    /\ \A t \in Tasks : On(t, d) /\ task[t].pc = "returned" => Over(d) \/ intent[d] # "launched"

(* The configs a task runs, or is about to be launched with, are the ones   *)
(* in the database, unless a config write has yet to reload the device or   *)
(* they changed without one.                                                *)
Fresh(d) ==
    /\ \A t \in Tasks : On(t, d) /\ entry[d] = t /\ task[t].pc \notin Job =>
          \/ task[t].config = config[d] \/ unread[d]
          \/ \E c \in Calls : Asks(c, d) /\ call[c].pc = "commit"
    /\ \A c \in Calls : Asks(c, d) /\ call[c].pc = "loaded"
                           => call[c].config = config[d] \/ unread[d]
    /\ \A t \in Tasks : On(t, d) /\ task[t].pc = "loaded"
                           => task[t].config = config[d] \/ unread[d]

Alone(d) == ~overlap[d] => /\ OneEach(d) /\ ClearToLaunch(d) /\ Halted(d)
                           /\ HasValues(d) /\ Reported(d) /\ Fresh(d)

AInv == Awaited /\ \A d \in Devices : Alone(d)

(* No request, task or entry exists before the first start.                 *)
LEMMA InitAInv == Init => AInv
<1> SUFFICES ASSUME Init PROVE AInv
  OBVIOUS
<1>1. \A t \in Tasks : task[t].pc = "free" /\ ~task[t].cancel /\ task[t].dev = NoDevice
  BY DEF Init, FreeTask, JobTask
<1>2. \A c \in Calls : call[c].pc = "idle" /\ call[c].dev = NoDevice
  BY DEF Init, IdleCall, Request
<1>3. up /\ \A d \in Devices : entry[d] = NoTask /\ intent[d] = "stopped"
  BY DEF Init
<1>4. Awaited
  BY <1>1, <1>2, <1>3 DEF Awaited
<1>5. ASSUME NEW d \in Devices PROVE Alone(d)
  <2>1. (\A t \in Tasks : ~On(t, d)) /\ (\A c \in Calls : ~Asks(c, d))
    BY <1>1, <1>2, EngineAssumption DEF On, Asks
  <2>2. OneEach(d) /\ ClearToLaunch(d) /\ Halted(d) /\ HasValues(d)
    BY <2>1 DEF OneEach, ClearToLaunch, Halted, HasValues, Simulates, On
  <2>3. Reported(d) /\ Fresh(d)
    BY <1>3, <2>1 DEF Reported, Fresh
  <2>4. QED  BY <2>2, <2>3 DEF Alone
<1>6. QED  BY <1>4, <1>5 DEF AInv

(* A step that leaves a device, its task and its request as they were.      *)
LEMMA Untouched ==
    ASSUME NEW e \in Devices, Alone(e), up' => up,
           entry'[e] = entry[e], values'[e] = values[e], config'[e] = config[e],
           status'[e] = status[e] /\ unread'[e] = unread[e], intent'[e] = intent[e], overlap[e] => overlap'[e],
           \A t \in Tasks : (On(t, e)' <=> On(t, e)) /\ (On(t, e) => task'[t] = task[t]),
           \A c \in Calls : (Asks(c, e)' <=> Asks(c, e)) /\ (Asks(c, e) => call'[c] = call[c])
    PROVE  Alone(e)'
<1> SUFFICES ASSUME ~overlap'[e] PROVE Alone(e)'
  BY DEF Alone
<1>1. /\ OneEach(e) /\ ClearToLaunch(e) /\ Halted(e)
      /\ HasValues(e) /\ Reported(e) /\ Fresh(e)
  BY DEF Alone
<1>2. \A t \in Tasks : Simulates(t, e)' <=> Simulates(t, e)
  BY DEF Simulates, On
<1>3. OneEach(e)'
  BY <1>1, <1>2 DEF OneEach
<1>4. ClearToLaunch(e)' /\ Halted(e)'
  BY <1>1 DEF ClearToLaunch, Clear, Halted, Halting
<1>5. HasValues(e)'
  BY <1>1, <1>2 DEF HasValues, Simulates, On
<1>6. Pursued(e) => Pursued(e)'
  BY DEF Pursued
<1>7. Reported(e)'
  BY <1>1, <1>6 DEF Reported, Over
<1>8. Fresh(e)'
  BY <1>1 DEF Fresh
<1>9. QED  BY <1>3, <1>4, <1>5, <1>7, <1>8 DEF Alone

(* A step about device d changes only what is d's, or what was or becomes   *)
(* nobody's.                                                                *)
LEMMA OthersAlone ==
    ASSUME AInv, NEW d \in Devices, up' => up,
           \A e \in Devices \ {d} :
              /\ entry'[e] = entry[e] /\ values'[e] = values[e] /\ config'[e] = config[e]
              /\ status'[e] = status[e] /\ unread'[e] = unread[e] /\ intent'[e] = intent[e] /\ overlap'[e] = overlap[e],
           \A t \in Tasks : \/ task'[t] = task[t]
                            \/ task[t].dev \in {d, NoDevice} /\ task'[t].dev \in {d, NoDevice},
           \A c \in Calls : \/ call'[c] = call[c]
                            \/ call[c].dev \in {d, NoDevice} /\ call'[c].dev \in {d, NoDevice}
    PROVE  \A e \in Devices \ {d} : Alone(e)'
<1> SUFFICES ASSUME NEW e \in Devices \ {d} PROVE Alone(e)'
  OBVIOUS
<1>1. \A t \in Tasks : (On(t, e)' <=> On(t, e)) /\ (On(t, e) => task'[t] = task[t])
  BY EngineAssumption DEF On
<1>2. \A c \in Calls : (Asks(c, e)' <=> Asks(c, e)) /\ (Asks(c, e) => call'[c] = call[c])
  BY EngineAssumption DEF Asks
<1>3. Alone(e)
  BY DEF AInv
<1>4. QED  BY <1>1, <1>2, <1>3, Untouched

(* A task moves on: whoever awaits it still does.                           *)
LEMMA TaskKeepsAwaited ==
    ASSUME IInv, Awaited, NEW t \in Tasks, NEW r, task' = [task EXCEPT ![t] = r],
           UNCHANGED <<call, up>>,
           r.pc = "free" => r.dev = NoDevice,
           r.cancel <=> task[t].cancel,
           r.cancel => r.pc \in Alive \cup {"cancelled"} /\ r.dev = task[t].dev,
           r.pc = "cancelled" => r.cancel
    PROVE  Awaited'
<1>1. /\ task'[t] = r /\ \A u \in Tasks \ {t} : task'[u] = task[u]
      /\ \A c \in Calls : call[c].pc = "stopping" => call[c].task \in Tasks
  BY DEF IInv, TypeOK, InProgress
<1>2. ASSUME NEW u \in Tasks
      PROVE  /\ task'[u].pc = "free" => task'[u].dev = NoDevice
             /\ task'[u].cancel => task'[u].pc \in Alive \cup {"cancelled"}
             /\ task'[u].pc = "cancelled" => task'[u].cancel
             /\ task'[u].cancel /\ up =>
                   \E c \in Calls : call[c].pc = "stopping" /\ call[c].task = u
  BY <1>1 DEF Awaited
<1>3. ASSUME NEW c \in Calls, call[c].pc = "stopping"
      PROVE  On(call[c].task, call[c].dev)' /\ task'[call[c].task].cancel
  BY <1>1, <1>3 DEF Awaited, On
<1>4. QED  BY <1>2, <1>3 DEF Awaited

(* What the record of a task that takes a step on its own must satisfy.     *)
LEMMA TaskMoves ==
    ASSUME IInv, AInv, NEW t \in Tasks, NEW d \in Devices, On(t, d), ~overlap[d],
           NEW r, task' = [task EXCEPT ![t] = r], r.dev \in {d, NoDevice},
           UNCHANGED <<call, config, up>>,
           \/ entry'[d] = entry[d]
           \/ entry'[d] = NoTask /\ r.pc \notin Alive /\ (r.pc \in Job \/ r.dev = NoDevice),
           \/ unread[d] => unread'[d]
           \/ task[t].pc \in Job /\ (r.pc \in Job \/ r.dev = NoDevice),
           intent[d] = "stopped" => intent'[d] = "stopped",
           r.pc \in Alive /\ ~r.cancel => Simulates(t, d),
           r.pc \in Job => \/ task[t].pc \in Job
                            \/ \A c \in Calls : Asks(c, d) => call[c].pc \in PastEngine,
           r.pc \notin Job /\ r.dev = d => task[t].pc \notin Job /\ r.config = task[t].config,
           r.pc = "loaded" => r.config = config[d],
           r.dev = d => task[t].pc # "returned",
           up /\ r.pc = "run" /\ ~r.cancel => values'[d],
           r.pc = "returned" => Over(d)' \/ intent'[d] # "launched",
           intent'[d] = "launched" /\ up => entry'[d] # NoTask \/ Over(d)' \/ Pursued(d)'
    PROVE  Alone(d)'
<1>1. /\ OneEach(d) /\ ClearToLaunch(d) /\ Halted(d)
      /\ HasValues(d) /\ Reported(d) /\ Fresh(d)
  BY DEF AInv, Alone
<1>2. task'[t] = r /\ \A u \in Tasks \ {t} : task'[u] = task[u] /\ ~On(u, d)
  BY <1>1 DEF IInv, TypeOK, OneEach
<1>3. \A u \in Tasks : On(u, d)' => u = t /\ r.dev = d
  BY <1>2 DEF On
<1>4. \A c \in Calls : Asks(c, d)' <=> Asks(c, d)
  BY DEF Asks
<1>5. \A u \in Tasks : Simulates(u, d)' => u = t /\ r.pc \in Alive /\ ~r.cancel
  BY <1>2, <1>3 DEF Simulates, On
<1>6. OneEach(d)'
  <2>1. \A u \in Tasks : Simulates(u, d)' => entry'[d] = u
    BY <1>1, <1>5 DEF OneEach
  <2>2. \A c \in Calls, u \in Tasks :
           Asks(c, d)' /\ On(u, d)' /\ task'[u].pc \in Job => call'[c].pc \in PastEngine
    BY <1>1, <1>2, <1>3, <1>4 DEF OneEach
  <2>3. \A u, v \in Tasks : On(u, d)' /\ On(v, d)' => u = v
    BY <1>3
  <2>4. \A c, k \in Calls : Asks(c, d)' /\ Asks(k, d)' => c = k
    BY <1>1, <1>4 DEF OneEach
  <2>5. QED  BY <2>1, <2>2, <2>3, <2>4 DEF OneEach
<1>7. ClearToLaunch(d)' /\ Halted(d)'
  <2>1. ASSUME NEW c \in Calls, Asks(c, d), call[c].pc \in {"register", "load", "loaded"},
               r.dev = d, call[c].pc = "register" => entry'[d] = NoTask
        PROVE  FALSE
    <3>1. r.pc \notin Job
      BY <1>1, <2>1 DEF OneEach, PastEngine
    <3>2. entry[d] = NoTask
      BY <1>1, <2>1, <3>1, EngineAssumption DEF ClearToLaunch, Clear
    <3>3. task[t].pc = "returned"
      BY <1>1, <2>1, <3>2 DEF ClearToLaunch, Clear
    <3> QED
      BY <2>1, <3>3
  <2>2. ASSUME NEW c \in Calls, Asks(c, d) PROVE Clear(call[c], d)'
    BY <1>1, <1>2, <1>3, <2>1, <2>2, EngineAssumption DEF ClearToLaunch, Clear
  <2> QED
    BY <1>1, <1>4, <2>2 DEF ClearToLaunch, Halted
<1>8. HasValues(d)'
  BY <1>2, <1>5 DEF HasValues
<1>9. Reported(d)'
  BY <1>2, <1>3 DEF Reported
<1>10. Fresh(d)'
  <2>1. ASSUME NEW u \in Tasks, On(u, d)', entry'[d] = u, task'[u].pc \notin Job
        PROVE  \/ task'[u].config = config[d] \/ unread'[d]
               \/ \E c \in Calls : Asks(c, d) /\ call[c].pc = "commit"
    <3>1. u = t /\ r.dev = d /\ task'[u] = r
      BY <1>2, <1>3, <2>1
    <3>2. task[t].pc \notin Job /\ r.config = task[t].config /\ entry[d] = t
      BY <2>1, <3>1, EngineAssumption
    <3>3. QED  BY <1>1, <3>1, <3>2 DEF Fresh
  <2>2. \A c \in Calls : Asks(c, d)' /\ call'[c].pc = "loaded"
                            => call'[c].config = config'[d] \/ unread'[d]
    BY <1>1, <1>4 DEF Fresh, OneEach, PastEngine
  <2>3. \A u \in Tasks : On(u, d)' /\ task'[u].pc = "loaded"
                            => task'[u].config = config'[d] \/ unread'[d]
    BY <1>2, <1>3
  <2>4. QED  BY <1>4, <2>1, <2>2, <2>3 DEF Fresh
<1>11. QED  BY <1>6, <1>7, <1>8, <1>9, <1>10 DEF Alone

(* Another phase keeps the rest of a task's record.                         *)
LEMMA PhaseUpdate ==
    ASSUME NEW r \in TaskRecord, NEW x, NEW q, q = [r EXCEPT !.pc = x]
    PROVE  q.pc = x /\ q.dev = r.dev /\ q.config = r.config /\ q.cancel = r.cancel
BY DEF TaskRecord

(* Who pursues a device's restart is not stopped by a step of its task that *)
(* is no such job, and a job pursues it.                                    *)
LEMMA StillPursued ==
    ASSUME IInv, NEW t \in Tasks, NEW d \in Devices, NEW r, task' = [task EXCEPT ![t] = r],
           UNCHANGED call
    PROVE  /\ Pursued(d) /\ task[t].pc \notin Job \cup {"crashed"} => Pursued(d)'
           /\ r.dev = d /\ r.pc \in Job \cup {"crashed"} => Pursued(d)'
<1>1. task'[t] = r /\ \A u \in Tasks \ {t} : task'[u] = task[u]
  BY DEF IInv, TypeOK
<1>2. ASSUME Pursued(d), task[t].pc \notin Job \cup {"crashed"} PROVE Pursued(d)'
  <2>1. CASE \E u \in Tasks : On(u, d) /\ task[u].pc \in Job \cup {"crashed"}
    <3>1. PICK u \in Tasks : On(u, d) /\ task[u].pc \in Job \cup {"crashed"}
      BY <2>1
    <3>2. On(u, d)' /\ task'[u].pc \in Job \cup {"crashed"}
      BY <1>1, <1>2, <3>1 DEF On
    <3>3. QED  BY <3>2 DEF Pursued
  <2>2. CASE ~\E u \in Tasks : On(u, d) /\ task[u].pc \in Job \cup {"crashed"}
    BY <1>2, <2>2 DEF Pursued, Asks
  <2>3. QED  BY <2>1, <2>2
<1>3. ASSUME r.dev = d, r.pc \in Job \cup {"crashed"} PROVE Pursued(d)'
  BY <1>1, <1>3 DEF Pursued, On
<1>4. QED  BY <1>2, <1>3

(* A task moves on: the frame around TaskMoves.                             *)
LEMMA OneTaskMoves ==
    ASSUME IInv, AInv, NEW t \in Tasks, NEW d \in Devices, On(t, d),
           NEW r, task' = [task EXCEPT ![t] = r], r.dev \in {d, NoDevice},
           UNCHANGED <<call, config, up>>,
           \A e \in Devices \ {d} :
              /\ entry'[e] = entry[e] /\ values'[e] = values[e]
              /\ status'[e] = status[e] /\ unread'[e] = unread[e] /\ intent'[e] = intent[e] /\ overlap'[e] = overlap[e],
           r.pc = "free" => r.dev = NoDevice,
           r.cancel <=> task[t].cancel,
           r.cancel => r.pc \in Alive \cup {"cancelled"} /\ r.dev = d,
           r.pc = "cancelled" => r.cancel,
           ~overlap'[d] => Alone(d)'
    PROVE  AInv'
<1>1. task'[t] = r /\ \A u \in Tasks \ {t} : task'[u] = task[u]
  BY DEF IInv, TypeOK
<1>2. task[t].dev = d
  BY DEF On
<1>3. \A e \in Devices \ {d} : Alone(e)'
  BY <1>1, <1>2, OthersAlone
<1>4. Awaited'
  BY <1>2, TaskKeepsAwaited DEF AInv
<1>5. Alone(d)'
  BY DEF Alone
<1>6. QED  BY <1>3, <1>4, <1>5 DEF AInv

(* A task's step that touches nothing but its own record and the values:    *)
(* the first step of _run_device, a tick, and the arrival of a cancellation.*)
LEMMA RunAlone ==
    ASSUME IInv, AInv, NEW t \in Tasks, RunDevice(t) \/ Tick(t) \/ Cancelled(t)
    PROVE  AInv'
<1>1. PICK d \in Devices : task[t].dev = d
  BY DEF IInv, InProgress, RunDevice, Tick, Cancelled, Alive
<1>2. /\ UNCHANGED <<entry, attempts, call, config, known, status, unread, up, intent, overlap>>
      /\ \A e \in Devices \ {d} : values'[e] = values[e]
      /\ task[t].pc \in Alive
  BY <1>1 DEF RunDevice, Tick, Cancelled, CreateValues, engineVars, dbVars, history, Alive, IInv, TypeOK
<1>3. PICK r : /\ task' = [task EXCEPT ![t] = r]
               /\ r.dev = d /\ r.config = task[t].config /\ (r.cancel <=> task[t].cancel)
               /\ \/ r.pc = "cancelled" /\ r.cancel
                  \/ ~r.cancel /\ r.pc = "setting"
                  \/ ~r.cancel /\ r.pc = "crashed"
                  \/ ~r.cancel /\ r.pc = "run" /\ ((task[t].pc = "run" /\ UNCHANGED values) \/ values'[d])
  <2>1. task[t] \in TaskRecord /\ values \in [Devices -> BOOLEAN]
    BY DEF IInv, TypeOK
  <2>2. ASSUME NEW e PROVE /\ AfterTick(t, e).dev = d /\ AfterTick(t, e).config = task[t].config
                           /\ AfterTick(t, e).cancel = task[t].cancel
                           /\ AfterTick(t, e).pc \in {"run", "setting"}
    BY <1>1, <2>1 DEF AfterTick, TaskRecord
  <2>3. CASE RunDevice(t) /\ task[t].known
    <3>1. PICK e \in {0, 1} : task' = [task EXCEPT ![t] = AfterTick(t, e)]
      BY <2>3 DEF RunDevice
    <3>2. values'[d] /\ ~task[t].cancel
      BY <1>1, <2>1, <2>3 DEF RunDevice, CreateValues
    <3>3. QED  BY <2>2, <3>1, <3>2
  <2>4. CASE RunDevice(t) /\ ~task[t].known
    <3>1. task' = [task EXCEPT ![t] = [task[t] EXCEPT !.pc = "crashed"]] /\ ~task[t].cancel
      BY <2>4 DEF RunDevice, IInv, TypeOK
    <3>2. PICK q : q = [task[t] EXCEPT !.pc = "crashed"]
      OBVIOUS
    <3>3. q.pc = "crashed" /\ q.dev = d /\ q.config = task[t].config /\ q.cancel = task[t].cancel
      BY <1>1, <2>1, <3>2, PhaseUpdate
    <3>4. QED  BY <3>1, <3>2, <3>3
  <2>5. CASE Tick(t)
    <3>1. PICK e : task' = [task EXCEPT ![t] = AfterTick(t, e)]
      BY <2>5 DEF Tick
    <3>2. ~task[t].cancel /\ task[t].pc = "run" /\ UNCHANGED values
      BY <2>5 DEF Tick, engineVars
    <3>3. QED  BY <2>2, <3>1, <3>2
  <2>6. CASE Cancelled(t)
    <3>1. task' = [task EXCEPT ![t] = [task[t] EXCEPT !.pc = "cancelled"]] /\ task[t].cancel
      BY <2>6 DEF Cancelled, IInv, TypeOK
    <3>2. PICK q : q = [task[t] EXCEPT !.pc = "cancelled"]
      OBVIOUS
    <3>3. q.pc = "cancelled" /\ q.dev = d /\ q.config = task[t].config /\ q.cancel = task[t].cancel
      BY <1>1, <2>1, <3>2, PhaseUpdate
    <3>4. QED  BY <3>1, <3>2, <3>3
  <2>7. QED  BY <2>3, <2>4, <2>5, <2>6
<1>4. On(t, d) /\ r.pc # "free" /\ r.pc \notin Job /\ task[t].pc \notin Job \cup {"crashed", "returned"}
      /\ r.pc # "returned" /\ r.pc # "loaded"
  BY <1>1, <1>2, <1>3 DEF On, Alive, Job
<1>5. ASSUME ~overlap[d] PROVE Alone(d)'
  <2>1. HasValues(d) /\ Reported(d)
    BY <1>5 DEF AInv, Alone
  <2>2. r.pc \in Alive /\ ~r.cancel => Simulates(t, d)
    BY <1>1, <1>2, <1>3 DEF Simulates
  <2>3. up /\ r.pc = "run" /\ ~r.cancel => values'[d]
    BY <1>1, <1>2, <1>3, <2>1, <2>2 DEF HasValues, Alive
  <2>4. Pursued(d) => Pursued(d)'
    BY <1>2, <1>3, <1>4, StillPursued
  <2>5. intent'[d] = "launched" /\ up => entry'[d] # NoTask \/ Over(d)' \/ Pursued(d)'
    BY <1>2, <2>1, <2>4 DEF Reported, Over
  <2>6. QED  BY <1>2, <1>3, <1>4, <1>5, <2>2, <2>3, <2>5, TaskMoves
<1>6. QED  BY <1>2, <1>3, <1>4, <1>5, OneTaskMoves

(* The task gives up and sets the error status, or cannot.                  *)
LEMMA GiveUpAlone ==
    ASSUME IInv, AInv, NEW t \in Tasks, GiveUp(t)
    PROVE  AInv'
<1>1. PICK d \in Devices : task[t].dev = d
  BY DEF IInv, InProgress, GiveUp
<1>2. task[t] \in TaskRecord
      /\ status \in [Devices -> {"stopped", "running", "error", "deleted"}]
      /\ intent \in [Devices -> {"stopped", "started", "launched"}]
  BY DEF IInv, TypeOK
<1>3. PICK r : /\ task' = [task EXCEPT ![t] = r] /\ r.pc = "returned"
               /\ r.dev = d /\ r.config = task[t].config /\ ~r.cancel /\ ~task[t].cancel
  <2>1. task' = [task EXCEPT ![t] = [task[t] EXCEPT !.pc = "returned"]] /\ ~task[t].cancel
    BY DEF GiveUp, IInv, TypeOK
  <2>2. PICK q : q = [task[t] EXCEPT !.pc = "returned"]
    OBVIOUS
  <2>3. q.pc = "returned" /\ q.dev = d /\ q.config = task[t].config /\ q.cancel = task[t].cancel
    BY <1>1, <1>2, <2>2, PhaseUpdate
  <2>4. QED  BY <2>1, <2>2, <2>3
<1>4. /\ UNCHANGED <<entry, values, call, config, up, overlap>>
      /\ On(t, d) /\ task[t].pc = "setting"
  BY <1>1 DEF GiveUp, engineVars, On
<1>5. /\ Over(d)' \/ intent'[d] # "launched"
      /\ UNCHANGED unread /\ (intent[d] = "stopped" => intent'[d] = "stopped")
      /\ \A e \in Devices \ {d} : status'[e] = status[e] /\ unread'[e] = unread[e] /\ intent'[e] = intent[e]
  BY <1>1, <1>2 DEF GiveUp, WriteError, NothingToRun, Over
<1>6. ASSUME ~overlap[d] PROVE Alone(d)'
  BY <1>3, <1>4, <1>5, <1>6, TaskMoves DEF Alive, Job
<1>7. QED  BY <1>3, <1>4, <1>5, <1>6, OneTaskMoves

(* The done-callback of a task that returned.                               *)
LEMMA ReturnedAlone ==
    ASSUME IInv, AInv, NEW t \in Tasks, OnTaskReturned(t)
    PROVE  AInv'
<1>1. PICK d \in Devices : task[t].dev = d
  BY DEF IInv, InProgress, OnTaskReturned
<1>2. /\ entry' = [entry EXCEPT ![d] = NoTask] /\ task' = [task EXCEPT ![t] = FreeTask]
      /\ UNCHANGED <<values, call, config, status, unread, up, intent, overlap>>
      /\ On(t, d) /\ task[t].pc = "returned"
  BY <1>1 DEF OnTaskReturned, DropReturned, Drop, dbVars, history, On
<1>3. FreeTask.pc = "free" /\ FreeTask.dev = NoDevice /\ ~FreeTask.cancel /\ ~task[t].cancel
  BY <1>2 DEF FreeTask, JobTask, AInv, Awaited, Alive
<1>4. entry'[d] = NoTask /\ \A e \in Devices \ {d} : entry'[e] = entry[e]
  BY <1>2 DEF IInv, TypeOK
<1>5. ASSUME ~overlap[d] PROVE Alone(d)'
  <2>1. Over(d)' \/ intent'[d] # "launched"
    BY <1>2, <1>5 DEF AInv, Alone, Reported, Over
  <2>2. QED  BY <1>2, <1>3, <1>4, <1>5, <2>1, EngineAssumption, TaskMoves DEF Alive, Job
<1>6. QED  BY <1>2, <1>3, <1>4, <1>5, OneTaskMoves

(* The done-callback of a task that crashed, and the steps of the job it    *)
(* creates up to the relaunch.                                              *)
LEMMA CrashedAlone ==
    ASSUME IInv, AInv, NEW t \in Tasks, OnTaskCrashed(t)
    PROVE  AInv'
<1>1. PICK d \in Devices : task[t].dev = d
  BY DEF IInv, InProgress, OnTaskCrashed
<1>2. /\ UNCHANGED <<values, call, config, status, unread, up, intent>>
      /\ On(t, d) /\ task[t].pc = "crashed"
      /\ overlap' = [overlap EXCEPT ![d] =
             @ \/ \E c \in Calls : call[c].dev = d /\ call[c].pc \notin PastEngine]
  BY <1>1 DEF OnTaskCrashed, dbVars, On
<1>3. PICK r : /\ task' = [task EXCEPT ![t] = r] /\ r.pc \in {"sleep", "seterr"}
               /\ r.dev = d /\ ~r.cancel /\ ~task[t].cancel
  <2>1. ~task[t].cancel
    BY <1>2 DEF AInv, Awaited, Alive
  <2>2. ASSUME NEW n, NEW x \in {"sleep", "seterr"}, task' = [task EXCEPT ![t] = JobTask(x, d, n)]
        PROVE  \E r : /\ task' = [task EXCEPT ![t] = r] /\ r.pc \in {"sleep", "seterr"}
                      /\ r.dev = d /\ ~r.cancel /\ ~task[t].cancel
    <3>1. JobTask(x, d, n).pc = x /\ JobTask(x, d, n).dev = d /\ ~JobTask(x, d, n).cancel
      BY DEF JobTask
    <3>2. QED  BY <2>1, <2>2, <3>1
  <2>3. \/ task' = [task EXCEPT ![t] = JobTask("seterr", d, 0)]
        \/ task' = [task EXCEPT ![t] = JobTask("sleep", d, attempts[d] + 1)]
    BY <1>1 DEF OnTaskCrashed, ErrorJobOf
  <2>4. QED  BY <2>2, <2>3
<1>4. /\ entry'[d] \in {entry[d], NoTask} /\ \A e \in Devices \ {d} : entry'[e] = entry[e]
      /\ \A e \in Devices \ {d} : overlap'[e] = overlap[e]
      /\ ~overlap'[d] => ~overlap[d] /\ \A c \in Calls : Asks(c, d) => call[c].pc \in PastEngine
  <2>1. entry \in [Devices -> Tasks \cup {NoTask}] /\ overlap \in [Devices -> BOOLEAN]
    BY DEF IInv, TypeOK
  <2>2. entry' = entry \/ entry' = [entry EXCEPT ![d] = NoTask]
    BY <1>1 DEF OnTaskCrashed, Drop
  <2>3. QED  BY <1>2, <2>1, <2>2 DEF Asks
<1>5. Pursued(d)'
  BY <1>2, <1>3, StillPursued DEF Job
<1>6. r.pc \in Job /\ r.pc \notin Alive /\ r.pc \notin {"free", "cancelled", "returned", "loaded", "run"}
  BY <1>3 DEF Job, Alive
<1>7. ASSUME ~overlap'[d] PROVE Alone(d)'
  BY <1>2, <1>3, <1>4, <1>5, <1>6, <1>7, EngineAssumption, TaskMoves
<1>8. QED  BY <1>2, <1>3, <1>4, <1>6, <1>7, OneTaskMoves

(* The delayed restart wakes up, reads the configs or fails, and the error  *)
(* job ends.                                                                *)
LEMMA JobAlone ==
    ASSUME IInv, AInv, NEW t \in Tasks,
           DelayedRestart(t) \/ RestartReadsConfigs(t) \/ RestartFails(t) \/ SetDeviceError(t)
    PROVE  AInv'
<1>1. PICK d \in Devices : task[t].dev = d
  BY DEF IInv, InProgress, DelayedRestart, RestartReadsConfigs, RestartFails, SetDeviceError
<1>2. /\ UNCHANGED <<values, call, config, up, overlap>>
      /\ On(t, d) /\ task[t].pc \in Job
  BY <1>1 DEF DelayedRestart, RestartReadsConfigs, RestartFails, SetDeviceError, engineVars,
              dbVars, history, On, Job
<1>3. /\ task[t] \in TaskRecord /\ ~task[t].cancel
      /\ intent \in [Devices -> {"stopped", "started", "launched"}]
      /\ status \in [Devices -> {"stopped", "running", "error", "deleted"}]
      /\ unread \in [Devices -> BOOLEAN] /\ entry \in [Devices -> Tasks \cup {NoTask}]
  BY <1>2 DEF IInv, TypeOK, AInv, Awaited, Alive, Job
<1>4. /\ FreeTask.pc = "free" /\ FreeTask.dev = NoDevice /\ ~FreeTask.cancel
      /\ JobTask("seterr", d, 0).pc = "seterr" /\ JobTask("seterr", d, 0).dev = d
      /\ ~JobTask("seterr", d, 0).cancel
  BY DEF FreeTask, JobTask
<1>5. PICK r : /\ task' = [task EXCEPT ![t] = r] /\ ~r.cancel
               /\ \/ r.pc \in {"load", "seterr"} /\ r.dev = d /\ UNCHANGED <<intent, status>>
                  \/ /\ r.pc = "loaded" /\ r.dev = d /\ UNCHANGED <<intent, status>>
                     /\ r.config = config[d]
                  \/ /\ r.pc = "free" /\ r.dev = NoDevice
                     /\ Over(d)' \/ intent'[d] # "launched"
                     /\ \A e \in Devices \ {d} : status'[e] = status[e] /\ intent'[e] = intent[e]
                     /\ intent[d] = "stopped" => intent'[d] = "stopped"
  <2>1. CASE DelayedRestart(t)
    <3>1. /\ task' = [task EXCEPT ![t] = [task[t] EXCEPT !.pc = "load"]]
          /\ UNCHANGED <<intent, status>>
      BY <2>1 DEF DelayedRestart, IInv, TypeOK, dbVars, history
    <3>2. PICK q : q = [task[t] EXCEPT !.pc = "load"]
      OBVIOUS
    <3>3. q.pc = "load" /\ q.dev = d /\ q.cancel = task[t].cancel
      BY <1>1, <1>3, <3>2, PhaseUpdate
    <3>4. QED  BY <1>3, <3>1, <3>2, <3>3
  <2>2. CASE RestartReadsConfigs(t) /\ config[d] = NoConfig
    <3>1. task' = [task EXCEPT ![t] = FreeTask] /\ UNCHANGED status /\ NothingToRun(d)
      BY <1>1, <2>2 DEF RestartReadsConfigs, dbVars
    <3>2. QED  BY <1>3, <1>4, <3>1 DEF NothingToRun
  <2>3. CASE RestartReadsConfigs(t) /\ config[d] # NoConfig
    <3>1. /\ task' = [task EXCEPT ![t] = [task[t] EXCEPT !.pc = "loaded", !.config = config[d],
                                                          !.known = known[d]]]
          /\ UNCHANGED <<intent, status>>
      BY <1>1, <2>3 DEF RestartReadsConfigs, dbVars
    <3>2. PICK q : q = [task[t] EXCEPT !.pc = "loaded", !.config = config[d], !.known = known[d]]
      OBVIOUS
    <3>3. q.pc = "loaded" /\ q.dev = d /\ q.config = config[d] /\ q.cancel = task[t].cancel
      <4>1. task[t] \in TaskRecord
        BY <1>3
      <4>2. QED  BY <1>1, <3>2, <4>1 DEF TaskRecord
    <3>4. QED  BY <1>3, <3>1, <3>2, <3>3
  <2>4. CASE RestartFails(t)
    <3>1. task' = [task EXCEPT ![t] = JobTask("seterr", d, 0)] /\ UNCHANGED <<intent, status>>
      BY <1>1, <2>4 DEF RestartFails, dbVars, history
    <3>2. QED  BY <1>4, <3>1
  <2>5. CASE SetDeviceError(t)
    <3>1. /\ task' = [task EXCEPT ![t] = FreeTask]
          /\ WriteError(d)
      BY <1>1, <2>5 DEF SetDeviceError
    <3>2. QED  BY <1>3, <1>4, <3>1 DEF WriteError, NothingToRun, Over
  <2>6. QED  BY <2>1, <2>2, <2>3, <2>4, <2>5
<1>6. entry'[d] \in {entry[d], NoTask} /\ \A e \in Devices \ {d} : entry'[e] = entry[e]
  <2>1. entry' = entry \/ entry' = [entry EXCEPT ![d] = NoTask]
    BY <1>1 DEF DelayedRestart, RestartReadsConfigs, RestartFails, SetDeviceError, Drop, engineVars
  <2>2. QED  BY <1>3, <2>1
<1>7. r.pc \notin Alive /\ r.pc \notin {"returned", "cancelled", "run"} /\ (r.pc \in Job <=> r.pc # "free")
      /\ r.dev \in {d, NoDevice} /\ task[t].pc # "returned"
  BY <1>2, <1>5 DEF Alive, Job
<1>8. ASSUME ~overlap[d] PROVE Alone(d)'
  <2>1. r.pc # "free" => Pursued(d)'
    BY <1>2, <1>5, <1>7, StillPursued
  <2>2. QED  BY <1>2, <1>5, <1>6, <1>7, <1>8, <2>1, EngineAssumption, TaskMoves
<1>9. \A e \in Devices \ {d} : status'[e] = status[e] /\ unread'[e] = unread[e] /\ intent'[e] = intent[e]
  <2>1. unread' = unread \/ unread' = [unread EXCEPT ![d] = FALSE]
    BY <1>1 DEF DelayedRestart, RestartReadsConfigs, RestartFails, SetDeviceError, history
  <2>2. QED  BY <1>3, <1>5, <2>1
<1>10. QED  BY <1>2, <1>3, <1>5, <1>6, <1>7, <1>8, <1>9, OneTaskMoves

-----------------------------------------------------------------------------
(* A launch: the new task is the device's only one, registered, with the    *)
(* configs just read, and the request or restart that launched it is past   *)
(* the engine.                                                              *)
LEMMA LaunchAlone ==
    ASSUME NEW d \in Devices, NEW u \in Tasks, entry'[d] = u,
           task'[u].pc = "new", task'[u].config = config'[d] \/ unread'[d],
           \A v \in Tasks : On(v, d)' => v = u,
           \A c, k \in Calls : Asks(c, d)' /\ Asks(k, d)' => c = k,
           \A c \in Calls : Asks(c, d)' => call'[c].pc \in PastEngine,
           Halted(d)'
    PROVE  Alone(d)'
<1>1. u # NoTask
  BY EngineAssumption
<1>2. OneEach(d)'
  BY DEF OneEach, Simulates, On
<1>3. ClearToLaunch(d)'
  BY DEF ClearToLaunch, Clear, PastEngine
<1>4. HasValues(d)'
  BY DEF HasValues, Simulates, On
<1>5. Reported(d)'
  BY <1>1 DEF Reported
<1>6. Fresh(d)'
  BY DEF Fresh, PastEngine
<1>7. QED  BY <1>2, <1>3, <1>4, <1>5, <1>6 DEF Alone

(* The relaunch at the end of _delayed_restart.                             *)
LEMMA RestartLaunchAlone ==
    ASSUME IInv, AInv, NEW t \in Tasks, RestartLaunches(t)
    PROVE  AInv'
<1>1. PICK d \in Devices : task[t].dev = d /\ task[t].pc = "loaded"
  BY DEF IInv, InProgress, RestartLaunches
<1>2. PICK u \in Tasks :
         /\ task[u].pc = "free" /\ entry' = [entry EXCEPT ![d] = u]
         /\ task' = [task EXCEPT ![t] = FreeTask,
                                 ![u] = NewTask(d, task[t].config, task[t].known)]
         /\ intent' = [intent EXCEPT ![d] = IF @ = "stopped" THEN @ ELSE "launched"]
  BY <1>1 DEF RestartLaunches, Launch
<1>3. UNCHANGED <<values, call, config, status, unread, up, overlap>>
  BY DEF RestartLaunches, dbVars
<1>4. /\ t # u
      /\ task \in [Tasks -> TaskRecord] /\ entry \in [Devices -> Tasks \cup {NoTask}]
      /\ intent \in [Devices -> {"stopped", "started", "launched"}]
  BY <1>1, <1>2 DEF IInv, TypeOK
<1>0. PICK q : q = NewTask(d, task[t].config, task[t].known)
  OBVIOUS
<1>5. q.pc = "new" /\ q.dev = d /\ ~q.cancel /\ q.config = task[t].config
  BY <1>0 DEF NewTask
<1>6. /\ task'[t] = FreeTask /\ task'[u] = q
      /\ \A v \in Tasks \ {t, u} : task'[v] = task[v]
  BY <1>0, <1>2, <1>4
<1>7. /\ FreeTask.pc = "free" /\ FreeTask.dev = NoDevice /\ ~FreeTask.cancel
      /\ ~task[t].cancel /\ ~task[u].cancel /\ task[u].dev = NoDevice
  BY <1>1, <1>2 DEF FreeTask, JobTask, AInv, Awaited, Alive
<1>8. Awaited'
  <2>1. \A c \in Calls : call[c].pc = "stopping" => call[c].task \in Tasks \ {t, u}
    BY <1>7 DEF IInv, InProgress, AInv, Awaited
  <2>2. \A v \in Tasks :
          /\ task'[v].pc = "free" => task'[v].dev = NoDevice
          /\ task'[v].cancel => task'[v].pc \in Alive \cup {"cancelled"}
          /\ task'[v].pc = "cancelled" => task'[v].cancel
          /\ task'[v].cancel /\ up => \E c \in Calls : call[c].pc = "stopping" /\ call[c].task = v
    BY <1>5, <1>6, <1>7 DEF AInv, Awaited
  <2>3. \A c \in Calls : call[c].pc = "stopping" =>
            On(call[c].task, call[c].dev)' /\ task'[call[c].task].cancel
    BY <1>3, <1>6, <2>1 DEF AInv, Awaited, On
  <2>4. QED  BY <1>3, <2>2, <2>3 DEF AInv, Awaited
<1>9. \A e \in Devices \ {d} : Alone(e)'
  <2>1. \A e \in Devices \ {d} : entry'[e] = entry[e] /\ intent'[e] = intent[e]
    BY <1>2, <1>4
  <2>2. \A v \in Tasks : \/ task'[v] = task[v]
                         \/ task[v].dev \in {d, NoDevice} /\ task'[v].dev \in {d, NoDevice}
    BY <1>1, <1>5, <1>6, <1>7
  <2>3. QED  BY <1>3, <2>1, <2>2, OthersAlone
<1>10. ASSUME ~overlap[d] PROVE Alone(d)'
  <2>1. OneEach(d) /\ Fresh(d) /\ Halted(d)
    BY <1>10 DEF AInv, Alone
  <2>2. \A v \in Tasks : On(v, d)' => v = u
    BY <1>1, <1>6, <1>7, <2>1, EngineAssumption DEF OneEach, On
  <2>3. /\ \A c, k \in Calls : Asks(c, d)' /\ Asks(k, d)' => c = k
        /\ \A c \in Calls : Asks(c, d)' => call'[c].pc \in PastEngine
    BY <1>1, <1>3, <2>1 DEF OneEach, On, Asks, Job
  <2>4. task'[u].config = config'[d] \/ unread'[d]
    BY <1>1, <1>3, <1>5, <1>6, <2>1 DEF Fresh, On
  <2>5. entry'[d] = u
    BY <1>2, <1>4
  <2>6. Halted(d)'
    BY <1>2, <1>3, <1>4, <2>1 DEF Halted, Asks
  <2>7. QED  BY <1>5, <1>6, <2>2, <2>3, <2>4, <2>5, <2>6, LaunchAlone
<1>11. Alone(d)'
  BY <1>3, <1>10 DEF Alone
<1>12. QED  BY <1>8, <1>9, <1>11 DEF AInv

(* A request takes a step that neither begins nor ends a stop.              *)
LEMMA CallKeepsAwaited ==
    ASSUME IInv, Awaited, NEW c \in Calls, NEW x, call' = [call EXCEPT ![c] = x],
           UNCHANGED <<task, up>>, up, call[c].pc # "stopping", x.pc # "stopping",
           x.pc = "idle" => x.dev = NoDevice
    PROVE  Awaited'
<1>1. call'[c] = x /\ \A k \in Calls \ {c} : call'[k] = call[k]
  BY DEF IInv, TypeOK
<1>2. \A t \in Tasks : task'[t].cancel /\ up' =>
          \E k \in Calls : call'[k].pc = "stopping" /\ call'[k].task = t
  BY <1>1 DEF Awaited
<1>3. \A k \in Calls : call'[k].pc = "stopping" => k # c /\ call'[k] = call[k]
  BY <1>1
<1>4. \A k \in Calls : call'[k].pc = "stopping" =>
          task'[call'[k].task].dev = call'[k].dev /\ task'[call'[k].task].cancel
  BY <1>3 DEF Awaited, On
<1>5. \A k \in Calls : call'[k].pc = "idle" => call'[k].dev = NoDevice
  BY <1>1 DEF Awaited
<1>6. QED  BY <1>2, <1>3, <1>4, <1>5 DEF Awaited, On

(* With nothing in progress, a device's only task is simulating and         *)
(* registered.                                                              *)
LEMMA QuietTasks ==
    ASSUME IInv, AInv, up, NEW d \in Devices, ~overlap[d], ~Busy(d)
    PROVE  /\ \A t \in Tasks : On(t, d) => /\ Simulates(t, d) /\ entry[d] = t
                                          /\ task[t].pc \in {"new", "run"}
           /\ \A c \in Calls : ~Asks(c, d)
           /\ ~Pursued(d)
<1>1. \A c \in Calls : ~Asks(c, d)
  BY DEF Busy, Asks
<1>2. ASSUME NEW t \in Tasks, On(t, d)
      PROVE  Simulates(t, d) /\ entry[d] = t /\ task[t].pc \in {"new", "run"}
  <2>1. task[t].pc # "free"
    BY <1>2, EngineAssumption DEF AInv, Awaited, On
  <2>2. task[t].pc \in {"new", "run"}
    BY <1>2, <2>1 DEF Busy, On, IInv, TypeOK, TaskRecord, Alive
  <2>3. ~task[t].cancel
    <3> SUFFICES ASSUME task[t].cancel PROVE FALSE
      OBVIOUS
    <3>1. PICK c \in Calls : call[c].pc = "stopping" /\ call[c].task = t
      BY DEF AInv, Awaited
    <3>2. Asks(c, d)
      BY <1>2, <3>1 DEF AInv, Awaited, On, Asks
    <3>3. QED  BY <1>1, <3>2
  <2>4. Simulates(t, d)
    BY <1>2, <2>2, <2>3 DEF Simulates, On, Alive
  <2>5. QED  BY <2>2, <2>4 DEF AInv, Alone, OneEach
<1>3. ~Pursued(d)
  BY <1>1, <1>2 DEF Pursued, Job
<1>4. QED  BY <1>1, <1>2, <1>3

(* A request's step that leaves the tasks alone: what its new record must   *)
(* satisfy.                                                                 *)
LEMMA CallMoves ==
    ASSUME IInv, AInv, NEW c \in Calls, NEW d \in Devices, ~overlap[d],
           NEW x, call' = [call EXCEPT ![c] = x],
           UNCHANGED <<task, entry, values, up>>,
           \A k \in Calls : Asks(k, d) => k = c,
           x.dev = d => x.pc \in PastEngine \/ \A t \in Tasks : On(t, d) => task[t].pc \notin Job,
           x.dev = d => Clear(x, d),
           x.dev = d /\ Halting(x) => intent'[d] = "stopped",
           x.dev = d /\ x.pc = "loaded" => x.config = config'[d] \/ unread'[d],
           config'[d] = config[d] \/ (x.dev = d /\ x.pc = "commit"),
           call[c].pc = "commit" /\ Asks(c, d) => entry[d] = NoTask,
           unread'[d] = unread[d] \/ \A t \in Tasks : ~On(t, d),
           intent'[d] = "launched" /\ up => entry[d] # NoTask \/ Over(d)' \/ Pursued(d)',
           \A t \in Tasks : On(t, d) /\ task[t].pc = "returned"
                               => Over(d)' \/ intent'[d] # "launched"
    PROVE  Alone(d)'
<1>1. OneEach(d) /\ ClearToLaunch(d) /\ HasValues(d) /\ Reported(d) /\ Fresh(d)
  BY DEF AInv, Alone
<1>2. call'[c] = x /\ \A k \in Calls \ {c} : call'[k] = call[k]
  BY DEF IInv, TypeOK
<1>3. \A k \in Calls : Asks(k, d)' => k = c /\ x.dev = d
  BY <1>2 DEF Asks
<1>4. \A t \in Tasks : (On(t, d)' <=> On(t, d)) /\ (Simulates(t, d)' <=> Simulates(t, d))
  BY DEF On, Simulates
<1>5. OneEach(d)'
  BY <1>1, <1>2, <1>3, <1>4 DEF OneEach
<1>6. ClearToLaunch(d)' /\ Halted(d)'
  BY <1>2, <1>3, <1>4 DEF ClearToLaunch, Clear, Halted, Halting
<1>7. HasValues(d)'
  BY <1>1, <1>4 DEF HasValues
<1>8. Reported(d)'
  BY <1>4 DEF Reported
<1>9. Fresh(d)'
  <2>1. ASSUME NEW t \in Tasks, On(t, d), entry[d] = t, task[t].pc \notin Job
        PROVE  \/ task[t].config = config'[d] \/ unread'[d]
               \/ \E k \in Calls : Asks(k, d)' /\ call'[k].pc = "commit"
    <3>1. CASE x.dev = d /\ x.pc = "commit"
      BY <1>2, <3>1 DEF Asks
    <3>2. CASE ~(x.dev = d /\ x.pc = "commit")
      <4>1. config'[d] = config[d]
        BY <3>2
      <4>2. ~\E k \in Calls : Asks(k, d) /\ call[k].pc = "commit"
        BY <2>1, EngineAssumption
      <4>3. task[t].config = config[d] \/ unread'[d]
        BY <1>1, <2>1, <4>2 DEF Fresh
      <4>4. QED  BY <4>1, <4>3
    <3>3. QED  BY <3>1, <3>2
  <2>2. \A k \in Calls : Asks(k, d)' /\ call'[k].pc = "loaded"
                            => call'[k].config = config'[d] \/ unread'[d]
    BY <1>2, <1>3
  <2>3. \A t \in Tasks : On(t, d) /\ task[t].pc = "loaded"
                            => task[t].config = config'[d] \/ unread'[d]
    BY <1>1 DEF Fresh, Job, PastEngine
  <2>4. QED  BY <1>4, <2>1, <2>2, <2>3 DEF Fresh
<1>10. QED  BY <1>5, <1>6, <1>7, <1>8, <1>9 DEF Alone

(* A request's step that leaves the tasks alone: the frame around CallMoves.*)
LEMMA OneCallMoves ==
    ASSUME IInv, AInv, NEW c \in Calls, NEW d \in Devices,
           call[c].dev \in {d, NoDevice}, up, call[c].pc # "stopping",
           NEW x, call' = [call EXCEPT ![c] = x], x.dev \in {d, NoDevice},
           x.pc # "stopping", x.pc = "idle" => x.dev = NoDevice,
           UNCHANGED <<task, entry, values, up>>,
           \A e \in Devices \ {d} :
              /\ config'[e] = config[e] /\ status'[e] = status[e] /\ unread'[e] = unread[e]
              /\ intent'[e] = intent[e] /\ overlap'[e] = overlap[e],
           ~overlap'[d] => Alone(d)'
    PROVE  AInv'
<1>1. call'[c] = x /\ \A k \in Calls \ {c} : call'[k] = call[k]
  BY DEF IInv, TypeOK
<1>2. \A e \in Devices \ {d} : Alone(e)'
  BY <1>1, OthersAlone
<1>3. Awaited'
  BY CallKeepsAwaited DEF AInv
<1>4. QED  BY <1>2, <1>3 DEF AInv, Alone

(* What Mark says: a device that is not marked now was not before, and      *)
(* nothing was in progress for it.                                          *)
LEMMA MarkMarks ==
    ASSUME TypeOK, NEW d \in Devices, Mark(d)
    PROVE  /\ \A e \in Devices \ {d} : overlap'[e] = overlap[e]
           /\ ~overlap'[d] => ~overlap[d] /\ ~Busy(d)
BY DEF TypeOK, Mark

(* An idle request asks for nothing.                                        *)
LEMMA IdleAsksNothing ==
    ASSUME AInv, NEW c \in Calls, call[c].pc = "idle"
    PROVE  call[c].dev = NoDevice /\ \A d \in Devices : ~Asks(c, d)
BY EngineAssumption DEF AInv, Awaited, Asks

(* A request begins: device_service's start_device and stop_device await    *)
(* something else first, a config write has committed its rows.             *)
LEMMA BeginAlone ==
    ASSUME IInv, AInv, NEW c \in Calls, NEW d \in Devices,
           StartDevice(c, d) \/ StopDevice(c, d) \/ CommitConfigs(c, d)
    PROVE  AInv'
<1>1. PICK x : /\ call' = [call EXCEPT ![c] = x] /\ x.dev = d
               /\ x.pc \in {"register", "quiesce", "commit"}
               /\ config'[d] = config[d] \/ x.pc = "commit"
  <2>1. PICK p \in {"register", "quiesce", "commit"}, b \in BOOLEAN :
           /\ call' = [call EXCEPT ![c] = Request(p, d, b)]
           /\ config'[d] = config[d] \/ p = "commit"
    BY DEF StartDevice, StopDevice, CommitConfigs, dbVars
  <2>2. Request(p, d, b).pc = p /\ Request(p, d, b).dev = d
    BY DEF Request
  <2>3. QED  BY <2>1, <2>2
<1>2. /\ up /\ call[c].pc = "idle" /\ Mark(d)
      /\ UNCHANGED <<entry, values, task, status, unread, up, intent>>
      /\ \A e \in Devices \ {d} : config'[e] = config[e]
  BY DEF StartDevice, StopDevice, CommitConfigs, engineVars, dbVars, IInv, TypeOK
<1>3. /\ \A e \in Devices \ {d} : overlap'[e] = overlap[e]
      /\ call[c].dev = NoDevice
      /\ ~overlap'[d] => ~overlap[d] /\ ~Busy(d)
  BY <1>2, MarkMarks, IdleAsksNothing DEF IInv
<1>4. ASSUME ~overlap'[d] PROVE Alone(d)'
  <2>1. ~overlap[d] /\ ~Busy(d)
    BY <1>3, <1>4
  <2>2. /\ \A t \in Tasks : On(t, d) => entry[d] = t /\ task[t].pc \in {"new", "run"}
        /\ \A k \in Calls : ~Asks(k, d)
        /\ ~Pursued(d)
    BY <1>2, <2>1, QuietTasks
  <2>3. \A t \in Tasks : On(t, d) => task[t].pc \notin Job /\ task[t].pc # "returned"
    BY <2>2 DEF Job
  <2>4. intent[d] = "launched" => entry[d] # NoTask \/ Over(d)'
    BY <1>2, <2>1, <2>2 DEF AInv, Alone, Reported, Over
  <2>5. Clear(x, d) /\ ~Halting(x)
    BY <1>1, <2>2, EngineAssumption DEF Clear, Halting
  <2>6. QED  BY <1>1, <1>2, <2>1, <2>2, <2>3, <2>4, <2>5, CallMoves
<1>5. x.pc # "stopping" /\ x.pc # "idle" /\ call[c].pc # "stopping"
  BY <1>1, <1>2
<1>6. QED  BY <1>1, <1>2, <1>3, <1>4, <1>5, OneCallMoves

(* A refused registration, and the last write of a start or of a stop: the  *)
(* request is over, and whatever still pursues the device goes on.          *)
LEMMA EndAlone ==
    ASSUME IInv, AInv, NEW c \in Calls,
           RegisterFails(c) \/ CommitRunning(c) \/ CommitStopped(c)
    PROVE  AInv'
<1>1. PICK d \in Devices : call[c].dev = d
  BY DEF IInv, InProgress, RegisterFails, CommitRunning, CommitStopped
<1>2. /\ call[c].pc \in {"register", "starting", "unregister"} /\ Asks(c, d)
      /\ call' = [call EXCEPT ![c] = IdleCall]
      /\ UNCHANGED <<entry, values, task, config, unread, up, intent>>
  BY <1>1 DEF RegisterFails, CommitRunning, CommitStopped, engineVars, history, Asks
<1>3. /\ up /\ overlap \in [Devices -> BOOLEAN]
      /\ status \in [Devices -> {"stopped", "running", "error", "deleted"}]
      /\ IdleCall.pc = "idle" /\ IdleCall.dev = NoDevice /\ NoDevice # d
  BY <1>2, EngineAssumption DEF AInv, Awaited, IInv, TypeOK, IdleCall, Request
<1>4. \A e \in Devices \ {d} : status'[e] = status[e] /\ overlap'[e] = overlap[e]
  BY <1>1, <1>3 DEF RegisterFails, CommitRunning, CommitStopped, history
<1>5. ASSUME ~overlap'[d] PROVE Alone(d)'
  <2>1. ~overlap[d] /\ (CommitRunning(c) => status[d] # "error")
    BY <1>1, <1>3, <1>5 DEF RegisterFails, CommitRunning, CommitStopped, history
  <2>2. OneEach(d) /\ Halted(d) /\ Reported(d)
    BY <2>1 DEF AInv, Alone
  <2>3. \A k \in Calls : Asks(k, d) => k = c
    BY <1>2, <2>2 DEF OneEach
  <2>4. Pursued(d) => Pursued(d)'
    BY <1>2, <2>3 DEF Pursued, On
  <2>5. intent[d] = "launched" /\ Over(d) => Over(d)'
    <3>1. CASE RegisterFails(c)
      BY <1>1, <1>3, <3>1 DEF RegisterFails, Over
    <3>2. CASE CommitRunning(c)
      BY <1>1, <1>3, <2>1, <3>2 DEF CommitRunning, Over
    <3>3. CASE CommitStopped(c)
      BY <1>1, <1>2, <2>2, <3>3 DEF CommitStopped, Halted, Halting
    <3>4. QED  BY <3>1, <3>2, <3>3
  <2>6. /\ intent'[d] = "launched" /\ up => entry[d] # NoTask \/ Over(d)' \/ Pursued(d)'
        /\ \A t \in Tasks : On(t, d) /\ task[t].pc = "returned"
                               => Over(d)' \/ intent'[d] # "launched"
    BY <1>2, <2>2, <2>4, <2>5 DEF Reported
  <2>7. QED  BY <1>2, <1>3, <2>1, <2>3, <2>6, CallMoves
<1>6. QED  BY <1>1, <1>2, <1>3, <1>4, <1>5, OneCallMoves

(* The engine's start_device returns at once, or begins to load: then no    *)
(* task is there but one whose done-callback comes first.                   *)
LEMMA EngineStartAlone ==
    ASSUME IInv, AInv, NEW c \in Calls, EngineStart(c)
    PROVE  AInv'
<1>1. PICK d \in Devices : call[c].dev = d
  BY DEF IInv, InProgress, EngineStart
<1>2. /\ call[c].pc = "register" /\ Asks(c, d) /\ call[c] \in CallRecord
      /\ UNCHANGED <<entry, values, task, config, status, unread, up, overlap>>
      /\ intent' = [intent EXCEPT ![d] = IF @ = "stopped" THEN "started" ELSE @]
  BY <1>1 DEF EngineStart, engineVars, dbVars, Asks, IInv, TypeOK
<1>3. /\ up /\ \A e \in Devices \ {d} : intent'[e] = intent[e]
      /\ intent'[d] = "launched" => intent[d] = "launched"
  BY <1>2 DEF AInv, Awaited, IInv, TypeOK
<1>4. PICK x : /\ call' = [call EXCEPT ![c] = x] /\ x.dev = d
               /\ \/ entry[d] # NoTask /\ x.pc = "starting"
                  \/ entry[d] = NoTask /\ x.pc = "load"
  <2>1. PICK p : /\ call' = [call EXCEPT ![c].pc = p]
                 /\ \/ entry[d] # NoTask /\ p = "starting"
                    \/ entry[d] = NoTask /\ p = "load"
    BY <1>1 DEF EngineStart, AlreadyStarted
  <2>2. PICK q : q = [call[c] EXCEPT !.pc = p]
    OBVIOUS
  <2>3. q.pc = p /\ q.dev = d
    BY <1>1, <1>2, <2>2 DEF CallRecord
  <2>4. call' = [call EXCEPT ![c] = q]
    BY <2>1, <2>2
  <2>5. QED  BY <2>1, <2>3, <2>4
<1>5. ASSUME ~overlap[d] PROVE Alone(d)'
  <2>1. OneEach(d) /\ ClearToLaunch(d) /\ Reported(d)
    BY <1>5 DEF AInv, Alone
  <2>2. \A k \in Calls : Asks(k, d) => k = c
    BY <1>2, <2>1 DEF OneEach
  <2>3. x.pc \in PastEngine \/ \A t \in Tasks : On(t, d) => task[t].pc \notin Job
    BY <1>2, <2>1 DEF OneEach, PastEngine
  <2>4. Clear(x, d) /\ ~Halting(x)
    BY <1>2, <1>4, <2>1 DEF ClearToLaunch, Clear, Halting
  <2>5. entry[d] # NoTask \/ Pursued(d)'
    <3>1. x.pc = "load" => call'[c].pc = "load" /\ Asks(c, d)'
      BY <1>4 DEF Asks, IInv, TypeOK
    <3>2. QED  BY <1>4, <3>1 DEF Pursued
  <2>6. \A t \in Tasks : On(t, d) /\ task[t].pc = "returned"
                            => Over(d)' \/ intent'[d] # "launched"
    BY <1>2, <1>3, <2>1 DEF Reported, Over
  <2>7. x.pc # "loaded" /\ call[c].pc # "commit"
    BY <1>2, <1>4
  <2>8. QED  BY <1>2, <1>4, <1>5, <2>2, <2>3, <2>4, <2>5, <2>6, <2>7, CallMoves
<1>6. x.pc # "stopping" /\ x.pc # "idle" /\ call[c].pc # "stopping"
  BY <1>2, <1>4
<1>7. QED  BY <1>1, <1>2, <1>3, <1>4, <1>5, <1>6, OneCallMoves

(* An import and a deletion change the row and the configs, and neither     *)
(* hides an error.                                                          *)
LEMMA RowAlone ==
    ASSUME IInv, AInv, NEW d \in Devices, ImportSystem(d) \/ DeleteDevice(d)
    PROVE  AInv'
<1>1. /\ UNCHANGED <<entry, values, task, call, up, intent, overlap>>
      /\ unread'[d] \/ (config'[d] = config[d] /\ unread'[d] = unread[d])
      /\ Over(d) => Over(d)'
      /\ \A e \in Devices \ {d} : /\ config'[e] = config[e] /\ status'[e] = status[e]
                                  /\ unread'[e] = unread[e]
  BY DEF ImportSystem, DeleteDevice, engineVars, IInv, TypeOK, Over
<1>2. \A e \in Devices \ {d} : Alone(e)'
  BY <1>1, OthersAlone
<1>3. ASSUME ~overlap[d] PROVE Alone(d)'
  <2>1. /\ OneEach(d) /\ ClearToLaunch(d) /\ Halted(d)
        /\ HasValues(d) /\ Reported(d) /\ Fresh(d)
    BY <1>3 DEF AInv, Alone
  <2>2. OneEach(d)' /\ ClearToLaunch(d)' /\ Halted(d)' /\ HasValues(d)'
    BY <1>1, <2>1 DEF OneEach, ClearToLaunch, Clear, Halted, Halting, HasValues,
                      Simulates, On, Asks
  <2>3. Reported(d)'
    BY <1>1, <2>1 DEF Reported, Pursued, On, Asks
  <2>4. Fresh(d)'
    BY <1>1, <2>1 DEF Fresh, On, Asks
  <2>5. QED  BY <2>2, <2>3, <2>4 DEF Alone
<1>4. Awaited'
  BY <1>1 DEF AInv, Awaited, On
<1>5. QED  BY <1>1, <1>2, <1>3, <1>4 DEF AInv, Alone

(* The launch reads its configs, or fails to.                               *)
LEMMA LoadAlone ==
    ASSUME IInv, AInv, NEW c \in Calls, CallReadsConfigs(c) \/ CallLoadFails(c)
    PROVE  AInv'
<1>1. PICK d \in Devices : call[c].dev = d
  BY DEF IInv, InProgress, CallReadsConfigs, CallLoadFails
<1>2. /\ UNCHANGED <<entry, values, task, config, status, up, overlap>>
      /\ CallbacksRun(d) /\ call[c].pc \in {"load", "loaded"} /\ Asks(c, d)
  BY <1>1 DEF CallReadsConfigs, CallLoadFails, engineVars, dbVars, Asks
<1>3. up /\ intent \in [Devices -> {"stopped", "started", "launched"}] /\ call[c] \in CallRecord
  BY <1>2 DEF AInv, Awaited, IInv, TypeOK
<1>4. PICK x : /\ call' = [call EXCEPT ![c] = x]
               /\ \/ x.pc = "idle" /\ x.dev = NoDevice /\ NothingToRun(d)
                  \/ x.pc = "starting" /\ x.dev = d /\ NothingToRun(d)
                  \/ x.pc = "loaded" /\ x.dev = d /\ x.config = config[d] /\ UNCHANGED intent
  <2>1. CASE CallLoadFails(c) \/ (CallReadsConfigs(c) /\ config[d] = NoConfig)
    <3>1. call' = [call EXCEPT ![c] = AfterLaunch(c)] /\ NothingToRun(d)
      BY <1>1, <2>1 DEF CallReadsConfigs, CallLoadFails
    <3>2. \/ AfterLaunch(c).pc = "idle" /\ AfterLaunch(c).dev = NoDevice
          \/ AfterLaunch(c).pc = "starting" /\ AfterLaunch(c).dev = d
      BY <1>1 DEF AfterLaunch, IdleCall, Request
    <3>3. QED  BY <3>1, <3>2
  <2>2. CASE CallReadsConfigs(c) /\ config[d] # NoConfig
    <3>1. PICK q : q = [call[c] EXCEPT !.pc = "loaded", !.config = config[d], !.known = known[d]]
      OBVIOUS
    <3>2. q.pc = "loaded" /\ q.dev = d /\ q.config = config[d]
      BY <1>1, <1>3, <3>1 DEF CallRecord
    <3>3. call' = [call EXCEPT ![c] = q] /\ UNCHANGED intent
      BY <1>1, <2>2, <3>1 DEF CallReadsConfigs, IInv, TypeOK
    <3>4. QED  BY <3>2, <3>3
  <2>3. QED  BY <1>2, <2>1, <2>2
<1>5. /\ \A e \in Devices \ {d} : intent'[e] = intent[e] /\ unread'[e] = unread[e]
      /\ x.pc # "loaded" => intent'[d] # "launched"
  BY <1>1, <1>3, <1>4 DEF NothingToRun, CallReadsConfigs, CallLoadFails, IInv, TypeOK
<1>6. ASSUME ~overlap[d] PROVE Alone(d)'
  <2>1. OneEach(d) /\ ClearToLaunch(d)
    BY <1>6 DEF AInv, Alone
  <2>2. entry[d] = NoTask /\ \A t \in Tasks : ~On(t, d)
    BY <1>2, <2>1 DEF ClearToLaunch, Clear, CallbacksRun, On
  <2>3. \A k \in Calls : Asks(k, d) => k = c
    BY <1>2, <2>1 DEF OneEach
  <2>4. x.pc = "loaded" => Pursued(d)'
    <3>1. x.pc = "loaded" => call'[c].pc = "loaded" /\ Asks(c, d)'
      BY <1>4 DEF Asks, IInv, TypeOK
    <3>2. QED  BY <3>1 DEF Pursued
  <2>5. intent'[d] = "launched" => Pursued(d)'
    BY <1>4, <1>5, <2>4
  <2>6. x.pc = "loaded" => x.config = config'[d]
    BY <1>2, <1>4
  <2>7. /\ x.dev = d => Clear(x, d) /\ ~Halting(x)
        /\ call[c].pc # "commit"
    BY <1>2, <1>4, <2>2, EngineAssumption DEF Clear, Halting
  <2>8. QED  BY <1>2, <1>4, <1>6, <2>2, <2>3, <2>5, <2>6, <2>7, CallMoves
<1>7. /\ x.dev \in {d, NoDevice} /\ x.pc # "stopping" /\ (x.pc = "idle" => x.dev = NoDevice)
      /\ call[c].pc # "stopping"
  BY <1>2, <1>4
<1>8. QED  BY <1>1, <1>2, <1>3, <1>4, <1>5, <1>6, <1>7, OneCallMoves

(* The launch of a request: it has found no task of the device.             *)
LEMMA CallLaunchAlone ==
    ASSUME IInv, AInv, NEW c \in Calls, CallLaunches(c)
    PROVE  AInv'
<1>1. PICK d \in Devices : call[c].dev = d /\ call[c].pc = "loaded"
  BY DEF IInv, InProgress, CallLaunches
<1>2. PICK u \in Tasks :
         /\ task[u].pc = "free" /\ entry' = [entry EXCEPT ![d] = u]
         /\ task' = [task EXCEPT ![u] = NewTask(d, call[c].config, call[c].known)]
         /\ intent' = [intent EXCEPT ![d] = IF @ = "stopped" THEN @ ELSE "launched"]
  BY <1>1 DEF CallLaunches, Launch
<1>3. /\ UNCHANGED <<values, config, status, unread, up, overlap>>
      /\ call' = [call EXCEPT ![c] = AfterLaunch(c)] /\ up
      /\ \/ AfterLaunch(c).pc = "idle" /\ AfterLaunch(c).dev = NoDevice
         \/ AfterLaunch(c).pc = "starting" /\ AfterLaunch(c).dev = d
  BY <1>1 DEF CallLaunches, dbVars, AInv, Awaited, AfterLaunch, IdleCall, Request
<1>4. PICK q : q = NewTask(d, call[c].config, call[c].known)
  OBVIOUS
<1>5. q.pc = "new" /\ q.dev = d /\ ~q.cancel /\ q.config = call[c].config
  BY <1>4 DEF NewTask
<1>6. /\ task'[u] = q /\ (\A v \in Tasks \ {u} : task'[v] = task[v])
      /\ call'[c] = AfterLaunch(c) /\ (\A k \in Calls \ {c} : call'[k] = call[k])
      /\ ~task[u].cancel /\ task[u].dev = NoDevice
  BY <1>2, <1>3, <1>4 DEF IInv, TypeOK, AInv, Awaited, Alive
<1>7. entry'[d] = u /\ \A e \in Devices \ {d} : entry'[e] = entry[e] /\ intent'[e] = intent[e]
  BY <1>2 DEF IInv, TypeOK
<1>8. Awaited'
  <2>1. \A k \in Calls : call'[k].pc = "stopping" => k # c /\ call'[k] = call[k]
    BY <1>3, <1>6
  <2>2. \A k \in Calls : call'[k].pc = "stopping" => call'[k].task \in Tasks \ {u}
    BY <1>6, <2>1 DEF IInv, InProgress, AInv, Awaited
  <2>3. \A k \in Calls : call'[k].pc = "stopping" =>
            task'[call'[k].task].dev = call'[k].dev /\ task'[call'[k].task].cancel
    BY <1>6, <2>1, <2>2 DEF AInv, Awaited, On
  <2>4. ASSUME NEW v \in Tasks, task'[v].cancel, up
        PROVE  \E k \in Calls : call'[k].pc = "stopping" /\ call'[k].task = v
    <3>1. PICK k \in Calls : call[k].pc = "stopping" /\ call[k].task = v
      BY <1>5, <1>6, <2>4 DEF AInv, Awaited
    <3>2. k # c
      BY <1>1, <3>1
    <3>3. QED  BY <1>6, <3>1, <3>2
  <2>5. \A v \in Tasks :
          /\ task'[v].pc = "free" => task'[v].dev = NoDevice
          /\ task'[v].cancel => task'[v].pc \in Alive \cup {"cancelled"}
          /\ task'[v].pc = "cancelled" => task'[v].cancel
    BY <1>5, <1>6 DEF AInv, Awaited
  <2>6. \A k \in Calls : call'[k].pc = "idle" => call'[k].dev = NoDevice
    BY <1>3, <1>6 DEF AInv, Awaited
  <2>7. \A k, o \in Calls : call'[k].pc = "stopping" /\ call'[o].pc = "stopping"
                              /\ call'[k].task = call'[o].task => k = o
    BY <2>1 DEF AInv, Awaited
  <2>8. QED  BY <1>3, <2>3, <2>4, <2>5, <2>6, <2>7 DEF Awaited, On
<1>9. \A e \in Devices \ {d} : Alone(e)'
  <2>1. \A v \in Tasks : \/ task'[v] = task[v]
                         \/ task[v].dev \in {d, NoDevice} /\ task'[v].dev \in {d, NoDevice}
    BY <1>5, <1>6
  <2>2. \A k \in Calls : \/ call'[k] = call[k]
                         \/ call[k].dev \in {d, NoDevice} /\ call'[k].dev \in {d, NoDevice}
    BY <1>1, <1>3, <1>6
  <2>3. QED  BY <1>3, <1>7, <2>1, <2>2, OthersAlone
<1>10. ASSUME ~overlap[d] PROVE Alone(d)'
  <2>1. OneEach(d) /\ ClearToLaunch(d) /\ Fresh(d) /\ Asks(c, d)
    BY <1>1, <1>10 DEF AInv, Alone, Asks
  <2>2. \A v \in Tasks : ~On(v, d)
    BY <1>1, <2>1 DEF ClearToLaunch, Clear
  <2>3. \A v \in Tasks : On(v, d)' => v = u
    BY <1>6, <2>2 DEF On
  <2>4. \A k \in Calls : Asks(k, d)' => k = c /\ call'[k].pc = "starting"
    BY <1>3, <1>6, <2>1, EngineAssumption DEF OneEach, Asks
  <2>5. task'[u].config = config'[d] \/ unread'[d]
    BY <1>1, <1>3, <1>5, <1>6, <2>1 DEF Fresh
  <2>6. Halted(d)' /\ \A k \in Calls : Asks(k, d)' => call'[k].pc \in PastEngine
    BY <2>4 DEF Halted, Halting, PastEngine
  <2>7. QED  BY <1>5, <1>6, <1>7, <2>3, <2>4, <2>5, <2>6, LaunchAlone
<1>11. QED  BY <1>3, <1>8, <1>9, <1>10 DEF AInv, Alone

-----------------------------------------------------------------------------
(* stop_device up to its await, on a device with an entry.  The entry's     *)
(* task is not cancelled yet, so nobody else awaits it.                     *)
LEMMA StopKeepsAwaited ==
    ASSUME IInv, AInv, NEW c \in Calls, NEW d \in Devices, NEW b \in BOOLEAN,
           entry[d] # NoTask, BeginStop(c, d, b), up, UNCHANGED up,
           call[c].pc \in {"quiesce", "commit"}
    PROVE  /\ Awaited'
           /\ \A e \in Devices \ {d} : entry'[e] = entry[e] /\ values'[e] = values[e]
           /\ \A t \in Tasks : task'[t] = task[t] \/ (task[t].dev = d /\ task'[t].dev = d)
           /\ \A k \in Calls \ {c} : call'[k] = call[k]
           /\ call'[c].dev \in {d, NoDevice}
<1>1. PICK t \in Tasks : entry[d] = t /\ task[t].dev = d /\ ~task[t].cancel
  BY DEF IInv, TypeOK, NoDeadEntry, Simulates
<1>2. /\ task \in [Tasks -> TaskRecord] /\ task[t] \in TaskRecord /\ call \in [Calls -> CallRecord]
      /\ entry \in [Devices -> Tasks \cup {NoTask}] /\ values \in [Devices -> BOOLEAN]
  BY DEF IInv, TypeOK
<1>3. \A e \in Devices \ {d} : entry'[e] = entry[e]
  BY <1>2 DEF BeginStop, Drop
<1>4. CASE task[t].pc \in Alive
  <2>1. /\ task' = [task EXCEPT ![t].cancel = TRUE] /\ UNCHANGED values
        /\ call' = [call EXCEPT ![c] = [Request("stopping", d, b) EXCEPT !.task = t]]
    BY <1>1, <1>4 DEF BeginStop, Alive
  <2>2. /\ task'[t].pc = task[t].pc /\ task'[t].dev = d /\ task'[t].cancel
        /\ \A v \in Tasks \ {t} : task'[v] = task[v]
    BY <1>1, <1>2, <2>1 DEF TaskRecord
  <2>3. /\ call'[c].pc = "stopping" /\ call'[c].dev = d /\ call'[c].task = t
        /\ \A k \in Calls \ {c} : call'[k] = call[k]
    BY <1>2, <2>1 DEF Request
  <2>4. \A k \in Calls : call[k].pc = "stopping" => k # c /\ call[k].task \in Tasks \ {t}
    BY <1>1 DEF AInv, Awaited, IInv, InProgress
  <2>5. \A v \in Tasks :
          /\ task'[v].pc = "free" => task'[v].dev = NoDevice
          /\ task'[v].cancel => task'[v].pc \in Alive \cup {"cancelled"}
          /\ task'[v].pc = "cancelled" => task'[v].cancel
    BY <1>4, <2>2 DEF AInv, Awaited, Alive
  <2>6. ASSUME NEW v \in Tasks, task'[v].cancel
        PROVE  \E k \in Calls : call'[k].pc = "stopping" /\ call'[k].task = v
    <3>1. CASE v = t
      BY <2>3, <3>1
    <3>2. CASE v # t
      <4>1. PICK k \in Calls : call[k].pc = "stopping" /\ call[k].task = v
        BY <2>2, <2>6, <3>2 DEF AInv, Awaited
      <4>2. QED  BY <2>3, <2>4, <4>1
    <3>3. QED  BY <3>1, <3>2
  <2>7. \A k \in Calls :
          /\ call'[k].pc = "idle" => call'[k].dev = NoDevice
          /\ call'[k].pc = "stopping" =>
                task'[call'[k].task].dev = call'[k].dev /\ task'[call'[k].task].cancel
    BY <2>2, <2>3, <2>4 DEF AInv, Awaited, On
  <2>8. \A k, o \in Calls : call'[k].pc = "stopping" /\ call'[o].pc = "stopping"
                              /\ call'[k].task = call'[o].task => k = o
    BY <2>3, <2>4 DEF AInv, Awaited
  <2>9. Awaited'
    BY <2>5, <2>6, <2>7, <2>8 DEF Awaited, On
  <2>10. QED  BY <1>1, <1>3, <2>1, <2>2, <2>3, <2>9
<1>5. CASE task[t].pc \notin Alive
  <2>1. PICK x : /\ call' = [call EXCEPT ![c] = x]
                 /\ \/ x.pc = "idle" /\ x.dev = NoDevice
                    \/ x.pc \in {"load", "unregister"} /\ x.dev = d
    <3>1. /\ \A r \in BOOLEAN : AfterStop(d, r).pc \in {"load", "unregister"} /\ AfterStop(d, r).dev = d
          /\ IdleCall.pc = "idle" /\ IdleCall.dev = NoDevice
      BY DEF IdleCall, AfterStop, Request
    <3>2. \/ \E r \in BOOLEAN : call' = [call EXCEPT ![c] = AfterStop(d, r)]
          \/ call' = [call EXCEPT ![c] = IdleCall]
      BY <1>1, <1>5 DEF BeginStop
    <3>3. QED  BY <3>1, <3>2
  <2>2. UNCHANGED task /\ \A e \in Devices \ {d} : values'[e] = values[e]
    BY <1>1, <1>2, <1>5 DEF BeginStop
  <2>3. Awaited'
    BY <2>1, <2>2, CallKeepsAwaited DEF AInv
  <2>4. call'[c] = x /\ \A k \in Calls \ {c} : call'[k] = call[k]
    BY <1>2, <2>1
  <2>5. QED  BY <1>3, <2>1, <2>2, <2>3, <2>4
<1>6. QED  BY <1>4, <1>5

(* stop_device up to its await, alone on the device: its task is cancelled, *)
(* or has returned or crashed, and nothing else is there.                   *)
LEMMA StopAlone ==
    ASSUME IInv, AInv, NEW c \in Calls, NEW d \in Devices, NEW b \in BOOLEAN,
           entry[d] # NoTask, BeginStop(c, d, b), up, UNCHANGED <<up, config, status, unread>>,
           ~overlap[d], \A k \in Calls : Asks(k, d) => k = c,
           \A t \in Tasks : On(t, d) => task[t].pc \notin Job,
           intent'[d] = intent[d] \/ intent'[d] # "launched",
           b \/ intent'[d] = "stopped"
    PROVE  Alone(d)'
<1>1. PICK t \in Tasks : entry[d] = t /\ task[t].dev = d /\ ~task[t].cancel
  BY DEF IInv, TypeOK, NoDeadEntry, Simulates
<1>2. task[t].pc \in Alive \cup {"returned", "crashed"}
  BY <1>1 DEF IInv, NoDeadEntry, Simulates, On, Job
<1>3. /\ task \in [Tasks -> TaskRecord] /\ task[t] \in TaskRecord /\ call \in [Calls -> CallRecord]
      /\ entry \in [Devices -> Tasks \cup {NoTask}] /\ values \in [Devices -> BOOLEAN]
  BY DEF IInv, TypeOK
<1>4. OneEach(d) /\ Reported(d)
  BY DEF AInv, Alone
<1>5. entry'[d] = NoTask /\ \A v \in Tasks : On(v, d) <=> v = t
  BY <1>1, <1>3, <1>4 DEF BeginStop, Drop, OneEach, On
<1>6. PICK x, r : /\ call' = [call EXCEPT ![c] = x] /\ task' = [task EXCEPT ![t] = r]
                  /\ r.pc = task[t].pc /\ r.dev = d
                  /\ \/ r.pc \in Alive /\ r.cancel /\ x.pc = "stopping" /\ (x.reload <=> b) /\ x.dev = d
                     \/ r.pc = "returned" /\ b /\ x.pc = "load" /\ x.dev = d
                     \/ r.pc = "crashed" /\ b /\ x.pc = "idle" /\ x.dev = NoDevice
                     \/ r.pc \in {"returned", "crashed"} /\ ~b /\ x.pc = "unregister" /\ x.dev = d
  <2>1. /\ IdleCall.pc = "idle" /\ IdleCall.dev = NoDevice
        /\ AfterStop(d, b).pc = (IF b THEN "load" ELSE "unregister") /\ AfterStop(d, b).dev = d
        /\ AfterStop(d, FALSE).pc = "unregister" /\ AfterStop(d, FALSE).dev = d
    BY DEF IdleCall, AfterStop, Request
  <2>2. task = [task EXCEPT ![t] = task[t]]
    BY <1>3
  <2>3. CASE task[t].pc \in Alive
    <3>1. PICK q : q = [Request("stopping", d, b) EXCEPT !.task = t]
      OBVIOUS
    <3>2. q.pc = "stopping" /\ q.dev = d /\ (q.reload <=> b)
      BY <3>1 DEF Request
    <3>3. PICK r : r = [task[t] EXCEPT !.cancel = TRUE]
      OBVIOUS
    <3>4. r.pc = task[t].pc /\ r.dev = d /\ r.cancel
      BY <1>1, <1>3, <3>3 DEF TaskRecord
    <3>5. call' = [call EXCEPT ![c] = q] /\ task' = [task EXCEPT ![t].cancel = TRUE]
      BY <1>1, <2>3, <3>1 DEF BeginStop, Alive
    <3>6. task' = [task EXCEPT ![t] = r]
      BY <3>3, <3>5
    <3>7. QED  BY <2>3, <3>2, <3>4, <3>5, <3>6
  <2>4. CASE task[t].pc = "returned"
    <3>1. task' = task /\ call' = [call EXCEPT ![c] = AfterStop(d, b)]
      BY <1>1, <2>4 DEF BeginStop, Alive
    <3>2. QED  BY <1>1, <2>1, <2>2, <2>4, <3>1
  <2>5. CASE task[t].pc = "crashed"
    <3>1. task' = task /\ call' = [call EXCEPT ![c] = IF b THEN IdleCall ELSE AfterStop(d, FALSE)]
      BY <1>1, <2>5 DEF BeginStop, Alive
    <3>2. QED  BY <1>1, <2>1, <2>2, <2>5, <3>1
  <2>6. QED  BY <1>2, <2>3, <2>4, <2>5
<1>7. /\ call'[c] = x /\ \A k \in Calls \ {c} : call'[k] = call[k]
      /\ task'[t] = r /\ \A v \in Tasks \ {t} : task'[v] = task[v]
  BY <1>3, <1>6
<1>8. /\ \A v \in Tasks : On(v, d)' => v = t
      /\ \A k \in Calls : Asks(k, d)' => k = c /\ x.pc # "idle"
  BY <1>5, <1>6, <1>7, EngineAssumption DEF On, Asks
<1>9. \A v \in Tasks : ~Simulates(v, d)'
  BY <1>6, <1>7, <1>8 DEF Simulates, On, Alive
<1>10. r.pc \notin Job /\ r.pc # "loaded" /\ x.pc # "loaded"
  BY <1>2, <1>6 DEF Alive, Job
<1>11. OneEach(d)'
  BY <1>7, <1>8, <1>9, <1>10 DEF OneEach
<1>12. ClearToLaunch(d)' /\ Halted(d)'
  <2>1. \A k \in Calls : (Asks(k, d) => Clear(call[k], d))'
    BY <1>5, <1>6, <1>7, <1>8, <1>10 DEF Clear, Alive
  <2>2. \A k \in Calls : (Asks(k, d) /\ Halting(call[k]) => intent[d] = "stopped")'
    BY <1>6, <1>7, <1>8 DEF Halting, Alive
  <2>3. QED  BY <2>1, <2>2 DEF ClearToLaunch, Halted
<1>13. HasValues(d)'
  BY <1>9 DEF HasValues
<1>14. Reported(d)'
  <2>1. intent'[d] = "launched" => Pursued(d)'
    <3> SUFFICES ASSUME intent'[d] = "launched" PROVE Pursued(d)'
      OBVIOUS
    <3>1. CASE r.pc = "crashed"
      BY <1>6, <1>7, <3>1 DEF Pursued, On
    <3>2. CASE r.pc # "crashed"
      <4>1. Asks(c, d)' /\ (x.pc = "load" \/ (x.pc = "stopping" /\ x.reload))
        BY <1>6, <1>7, <3>2 DEF Asks
      <4>2. QED  BY <1>7, <4>1 DEF Pursued
    <3>3. QED  BY <3>1, <3>2
  <2>2. \A v \in Tasks : On(v, d)' /\ task'[v].pc = "returned"
                            => Over(d)' \/ intent'[d] # "launched"
    BY <1>4, <1>5, <1>6, <1>7, <1>8 DEF Reported, Over
  <2>3. QED  BY <2>1, <2>2 DEF Reported
<1>15. Fresh(d)'
  BY <1>5, <1>7, <1>8, <1>10, EngineAssumption DEF Fresh
<1>16. QED  BY <1>11, <1>12, <1>13, <1>14, <1>15 DEF Alone

(* The engine's stop_device, up to its await.                               *)
LEMMA EngineStopAlone ==
    ASSUME IInv, AInv, NEW c \in Calls, EngineStop(c)
    PROVE  AInv'
<1>1. PICK d \in Devices : call[c].dev = d /\ call[c].pc = "quiesce"
  BY DEF IInv, InProgress, EngineStop
<1>2. /\ UNCHANGED <<config, status, unread, up, overlap>> /\ up
      /\ intent'[d] = "stopped" /\ \A e \in Devices \ {d} : intent'[e] = intent[e]
  BY <1>1 DEF EngineStop, dbVars, AInv, Awaited, IInv, TypeOK
<1>3. ASSUME ~overlap[d]
      PROVE  /\ \A t \in Tasks : On(t, d) => task[t].pc \notin Job
             /\ \A k \in Calls : Asks(k, d) => k = c
  BY <1>1, <1>3 DEF AInv, Alone, OneEach, Asks, PastEngine
<1>4. CASE entry[d] = NoTask
  <2>1. UNCHANGED <<task, entry, values>> /\ call' = [call EXCEPT ![c] = AfterStop(d, FALSE)]
    BY <1>1, <1>4 DEF EngineStop, engineVars
  <2>2. AfterStop(d, FALSE).pc = "unregister" /\ AfterStop(d, FALSE).dev = d
    BY DEF AfterStop, Request
  <2>3. ASSUME ~overlap[d] PROVE Alone(d)'
    <3>1. Clear(AfterStop(d, FALSE), d) /\ AfterStop(d, FALSE).pc \in PastEngine
      BY <2>2 DEF Clear, PastEngine
    <3>2. call[c].pc # "commit"
      BY <1>1
    <3>3. QED  BY <1>2, <1>3, <2>1, <2>2, <2>3, <3>1, <3>2, CallMoves
  <2>4. \A e \in Devices \ {d} : /\ config'[e] = config[e] /\ status'[e] = status[e] /\ unread'[e] = unread[e]
                                 /\ intent'[e] = intent[e] /\ overlap'[e] = overlap[e]
    BY <1>2
  <2>5. QED  BY <1>1, <1>2, <2>1, <2>2, <2>3, <2>4, OneCallMoves
<1>5. CASE entry[d] # NoTask
  <2>1. BeginStop(c, d, FALSE)
    BY <1>1, <1>5 DEF EngineStop
  <2>2. /\ Awaited'
        /\ \A e \in Devices \ {d} : entry'[e] = entry[e] /\ values'[e] = values[e]
        /\ \A t \in Tasks : task'[t] = task[t] \/ (task[t].dev = d /\ task'[t].dev = d)
        /\ \A k \in Calls \ {c} : call'[k] = call[k]
        /\ call'[c].dev \in {d, NoDevice}
    BY <1>1, <1>2, <1>5, <2>1, StopKeepsAwaited
  <2>3. \A e \in Devices \ {d} : /\ config'[e] = config[e] /\ status'[e] = status[e] /\ unread'[e] = unread[e]
                                 /\ intent'[e] = intent[e] /\ overlap'[e] = overlap[e]
    BY <1>2
  <2>4. \A k \in Calls : \/ call'[k] = call[k]
                         \/ call[k].dev \in {d, NoDevice} /\ call'[k].dev \in {d, NoDevice}
    BY <1>1, <2>2
  <2>5. \A e \in Devices \ {d} : Alone(e)'
    BY <1>2, <2>2, <2>3, <2>4, OthersAlone
  <2>6. ASSUME ~overlap[d] PROVE Alone(d)'
    BY <1>2, <1>3, <1>5, <2>1, <2>6, StopAlone
  <2>7. QED  BY <1>2, <2>2, <2>5, <2>6 DEF AInv, Alone
<1>6. QED  BY <1>4, <1>5

(* _reload_if_running.                                                      *)
LEMMA ReloadAlone ==
    ASSUME IInv, AInv, NEW c \in Calls, ReloadIfRunning(c)
    PROVE  AInv'
<1>1. PICK d \in Devices : call[c].dev = d /\ call[c].pc = "commit"
  BY DEF IInv, InProgress, ReloadIfRunning
<1>2. UNCHANGED <<config, status, unread, up, intent, overlap>> /\ up
  BY <1>1 DEF ReloadIfRunning, dbVars, history, AInv, Awaited
<1>3. ASSUME ~overlap[d]
      PROVE  /\ \A t \in Tasks : On(t, d) => task[t].pc \notin Job
             /\ \A k \in Calls : Asks(k, d) => k = c
             /\ Reported(d)
  BY <1>1, <1>3 DEF AInv, Alone, OneEach, Asks, PastEngine
<1>4. CASE entry[d] = NoTask
  <2>1. UNCHANGED <<task, entry, values>> /\ call' = [call EXCEPT ![c] = IdleCall]
    BY <1>1, <1>4 DEF ReloadIfRunning, IsDeviceSimulating, engineVars
  <2>2. IdleCall.pc = "idle" /\ IdleCall.dev = NoDevice /\ NoDevice # d
    BY EngineAssumption DEF IdleCall, Request
  <2>3. ASSUME ~overlap[d] PROVE Alone(d)'
    <3>1. Pursued(d) => Pursued(d)'
      BY <1>1, <1>3, <2>1, <2>3 DEF Pursued, On, Asks
    <3>2. intent'[d] = "launched" /\ up => entry[d] # NoTask \/ Over(d)' \/ Pursued(d)'
      BY <1>2, <1>3, <2>3, <3>1 DEF Reported, Over
    <3>3. \A t \in Tasks : On(t, d) /\ task[t].pc = "returned"
                              => Over(d)' \/ intent'[d] # "launched"
      BY <1>2, <1>3, <2>3 DEF Reported, Over
    <3>4. QED  BY <1>2, <1>3, <1>4, <2>1, <2>2, <2>3, <3>2, <3>3, CallMoves
  <2>4. \A e \in Devices \ {d} : /\ config'[e] = config[e] /\ status'[e] = status[e] /\ unread'[e] = unread[e]
                                 /\ intent'[e] = intent[e] /\ overlap'[e] = overlap[e]
    BY <1>2
  <2>5. QED  BY <1>1, <1>2, <2>1, <2>2, <2>3, <2>4, OneCallMoves
<1>5. CASE entry[d] # NoTask
  <2>1. BeginStop(c, d, TRUE)
    BY <1>1, <1>5 DEF ReloadIfRunning, IsDeviceSimulating
  <2>2. /\ Awaited'
        /\ \A e \in Devices \ {d} : entry'[e] = entry[e] /\ values'[e] = values[e]
        /\ \A t \in Tasks : task'[t] = task[t] \/ (task[t].dev = d /\ task'[t].dev = d)
        /\ \A k \in Calls \ {c} : call'[k] = call[k]
        /\ call'[c].dev \in {d, NoDevice}
    BY <1>1, <1>2, <1>5, <2>1, StopKeepsAwaited
  <2>3. \A e \in Devices \ {d} : /\ config'[e] = config[e] /\ status'[e] = status[e] /\ unread'[e] = unread[e]
                                 /\ intent'[e] = intent[e] /\ overlap'[e] = overlap[e]
    BY <1>2
  <2>4. \A k \in Calls : \/ call'[k] = call[k]
                         \/ call[k].dev \in {d, NoDevice} /\ call'[k].dev \in {d, NoDevice}
    BY <1>1, <2>2
  <2>5. \A e \in Devices \ {d} : Alone(e)'
    BY <1>2, <2>2, <2>3, <2>4, OthersAlone
  <2>6. ASSUME ~overlap[d] PROVE Alone(d)'
    BY <1>2, <1>3, <1>5, <2>1, <2>6, StopAlone
  <2>7. QED  BY <1>2, <2>2, <2>5, <2>6 DEF AInv, Alone
<1>6. QED  BY <1>4, <1>5

(* stop_device resumes: the task it awaited was the device's only one, so   *)
(* nothing is left, and a reload goes on to load.                           *)
LEMMA ResumeAlone ==
    ASSUME IInv, AInv, NEW c \in Calls, StopResumes(c)
    PROVE  AInv'
<1>1. PICK d \in Devices, t \in Tasks :
         /\ call[c].dev = d /\ call[c].task = t /\ call[c].pc = "stopping"
         /\ task[t].dev = d /\ task[t].pc = "cancelled" /\ task[t].cancel
  BY DEF IInv, InProgress, StopResumes, AInv, Awaited, On
<1>2. /\ UNCHANGED <<entry, config, status, unread, up, intent, overlap>> /\ up
      /\ values' = [values EXCEPT ![d] = FALSE] /\ task' = [task EXCEPT ![t] = FreeTask]
  BY <1>1 DEF StopResumes, dbVars, history, AInv, Awaited
<1>3. PICK x : /\ call' = [call EXCEPT ![c] = x]
               /\ \/ x.pc = "load" /\ x.dev = d /\ call[c].reload
                  \/ x.pc = "unregister" /\ x.dev = d /\ ~call[c].reload
                  \/ x.pc = "idle" /\ x.dev = NoDevice /\ entry[d] # NoTask
  <2>1. /\ IdleCall.pc = "idle" /\ IdleCall.dev = NoDevice
        /\ \A b \in BOOLEAN : /\ AfterStop(d, b).pc = (IF b THEN "load" ELSE "unregister")
                              /\ AfterStop(d, b).dev = d
    BY DEF IdleCall, AfterStop, Request
  <2>2. call[c].reload \in BOOLEAN
    BY DEF IInv, TypeOK, CallRecord
  <2>3. call' = [call EXCEPT ![c] = IF call[c].reload /\ entry[d] # NoTask
                    THEN IdleCall ELSE AfterStop(d, call[c].reload)]
    BY <1>1 DEF StopResumes
  <2>4. QED  BY <2>1, <2>2, <2>3
<1>4. /\ task'[t] = FreeTask /\ \A v \in Tasks \ {t} : task'[v] = task[v]
      /\ call'[c] = x /\ \A k \in Calls \ {c} : call'[k] = call[k]
      /\ FreeTask.pc = "free" /\ FreeTask.dev = NoDevice /\ ~FreeTask.cancel
      /\ \A e \in Devices \ {d} : values'[e] = values[e]
  BY <1>2, <1>3 DEF IInv, TypeOK, FreeTask, JobTask
<1>5. Awaited'
  <2>1. \A k \in Calls : call'[k].pc = "stopping" =>
            k # c /\ call'[k] = call[k] /\ call[k].task \in Tasks \ {t}
    BY <1>1, <1>3, <1>4 DEF AInv, Awaited, IInv, InProgress
  <2>2. \A k \in Calls :
          /\ call'[k].pc = "idle" => call'[k].dev = NoDevice
          /\ call'[k].pc = "stopping" =>
                task'[call'[k].task].dev = call'[k].dev /\ task'[call'[k].task].cancel
    BY <1>3, <1>4, <2>1 DEF AInv, Awaited, On
  <2>3. ASSUME NEW v \in Tasks, task'[v].cancel
        PROVE  \E k \in Calls : call'[k].pc = "stopping" /\ call'[k].task = v
    <3>1. v # t
      BY <1>4, <2>3
    <3>2. PICK k \in Calls : call[k].pc = "stopping" /\ call[k].task = v
      BY <1>2, <1>4, <2>3, <3>1 DEF AInv, Awaited
    <3>3. k # c
      BY <1>1, <3>1, <3>2
    <3>4. QED  BY <1>4, <3>2, <3>3
  <2>4. \A v \in Tasks :
          /\ task'[v].pc = "free" => task'[v].dev = NoDevice
          /\ task'[v].cancel => task'[v].pc \in Alive \cup {"cancelled"}
          /\ task'[v].pc = "cancelled" => task'[v].cancel
    BY <1>4 DEF AInv, Awaited
  <2>5. \A k, o \in Calls : call'[k].pc = "stopping" /\ call'[o].pc = "stopping"
                              /\ call'[k].task = call'[o].task => k = o
    BY <2>1 DEF AInv, Awaited
  <2>6. QED  BY <1>2, <2>2, <2>3, <2>4, <2>5 DEF Awaited, On
<1>6. \A e \in Devices \ {d} : Alone(e)'
  <2>1. \A v \in Tasks : \/ task'[v] = task[v]
                         \/ task[v].dev \in {d, NoDevice} /\ task'[v].dev \in {d, NoDevice}
    BY <1>1, <1>4
  <2>2. \A k \in Calls : \/ call'[k] = call[k]
                         \/ call[k].dev \in {d, NoDevice} /\ call'[k].dev \in {d, NoDevice}
    BY <1>1, <1>3, <1>4
  <2>3. QED  BY <1>2, <1>4, <2>1, <2>2, OthersAlone
<1>7. ASSUME ~overlap[d] PROVE Alone(d)'
  <2>1. OneEach(d) /\ Halted(d) /\ Reported(d) /\ On(t, d) /\ Asks(c, d)
    BY <1>1, <1>7 DEF AInv, Alone, On, Asks
  <2>2. \A v \in Tasks : ~On(v, d)'
    BY <1>4, <2>1, EngineAssumption DEF OneEach, On
  <2>3. entry[d] = NoTask
    <3>1. entry[d] # NoTask => On(entry[d], d) /\ task[entry[d]].pc # "cancelled"
                               /\ entry[d] \in Tasks
      BY DEF IInv, TypeOK, NoDeadEntry, Simulates, On, Alive
    <3>2. QED  BY <1>1, <2>1, <3>1 DEF OneEach
  <2>4. \A k \in Calls : Asks(k, d)' => k = c
    BY <1>4, <2>1 DEF OneEach, Asks
  <2>5. /\ OneEach(d)' /\ ClearToLaunch(d)' /\ HasValues(d)'
        /\ Halted(d)'
    <3>1. Halted(d)'
      BY <1>1, <1>2, <1>3, <1>4, <2>1, <2>4 DEF Halted, Halting
    <3>2. QED  BY <1>2, <2>2, <2>3, <2>4, <3>1
                DEF OneEach, ClearToLaunch, Clear, HasValues, Simulates, On
  <2>6. Reported(d)'
    <3>1. ASSUME Pursued(d) PROVE Pursued(d)'
      <4>1. \A v \in Tasks : On(v, d) => task[v].pc \notin Job \cup {"crashed"}
        BY <1>1, <2>1 DEF OneEach, Job
      <4>2. call[c].reload
        BY <1>1, <2>1, <3>1, <4>1 DEF Pursued, OneEach
      <4>3. call'[c].pc = "load" /\ Asks(c, d)'
        BY <1>3, <1>4, <2>3, <4>2 DEF Asks
      <4>4. QED  BY <4>3 DEF Pursued
    <3>2. QED  BY <1>2, <2>1, <2>2, <3>1 DEF Reported, Over
  <2>7. Fresh(d)'
    BY <1>3, <1>4, <2>2, <2>4 DEF Fresh
  <2>8. QED  BY <2>5, <2>6, <2>7 DEF Alone
<1>8. QED  BY <1>2, <1>5, <1>6, <1>7 DEF AInv, Alone

(* The lifespan's exit: every registered task is cancelled, and no request  *)
(* is left to await one.                                                    *)
LEMMA ShutdownAlone ==
    ASSUME IInv, AInv, Shutdown
    PROVE  AInv'
<1>1. /\ up /\ ~up' /\ \A c \in Calls : call[c].pc = "idle" /\ call[c].dev = NoDevice
      /\ UNCHANGED <<values, call, config, status, unread, intent, overlap>>
      /\ \A d \in Devices : entry'[d] = NoTask
  BY DEF Shutdown, dbVars, history, AInv, Awaited
<1>2. ASSUME NEW t \in Tasks
      PROVE  /\ task'[t].pc = task[t].pc /\ task'[t].dev = task[t].dev
             /\ task'[t].config = task[t].config
             /\ IF task[t].pc \in Alive /\ entry[task[t].dev] = t
                THEN task'[t].cancel ELSE task'[t] = task[t]
  BY DEF Shutdown, IInv, TypeOK, TaskRecord
<1>3. Awaited'
  BY <1>1, <1>2 DEF AInv, Awaited
<1>4. ASSUME NEW d \in Devices, ~overlap[d] PROVE Alone(d)'
  <2>1. OneEach(d) /\ Reported(d) /\ Fresh(d)
    BY <1>4 DEF AInv, Alone
  <2>2. \A c \in Calls : ~Asks(c, d)'
    BY <1>1, EngineAssumption DEF Asks
  <2>3. \A t \in Tasks : On(t, d)' <=> On(t, d)
    BY <1>2 DEF On
  <2>4. \A t \in Tasks : ~Simulates(t, d)'
    BY <1>2, <2>1 DEF OneEach, Simulates
  <2>5. OneEach(d)' /\ ClearToLaunch(d)' /\ Halted(d)' /\ HasValues(d)'
    BY <1>1, <2>1, <2>2, <2>3, <2>4 DEF OneEach, ClearToLaunch, Halted, HasValues
  <2>6. Reported(d)'
    BY <1>1, <1>2, <2>1, <2>3 DEF Reported, Over
  <2>7. Fresh(d)'
    BY <1>1, <1>2, <2>1, <2>2, <2>3, EngineAssumption DEF Fresh
  <2>8. QED  BY <2>5, <2>6, <2>7 DEF Alone
<1>5. QED  BY <1>1, <1>3, <1>4 DEF AInv, Alone

(* shutdown resumes: the cancelled tasks are gone, the values too.          *)
LEMMA ShutdownResumesAlone ==
    ASSUME IInv, AInv, ShutdownResumes
    PROVE  AInv'
<1>1. /\ ~up /\ \A c \in Calls : call[c].pc = "idle" /\ call[c].dev = NoDevice
      /\ UNCHANGED <<entry, call, config, status, unread, up, intent, overlap>>
  BY DEF ShutdownResumes, dbVars, history, AInv, Awaited
<1>2. /\ \A t \in Tasks : task'[t] = task[t] \/ task'[t] = FreeTask
      /\ FreeTask.pc = "free" /\ FreeTask.dev = NoDevice /\ ~FreeTask.cancel
  BY DEF ShutdownResumes, FreeTask, JobTask
<1>3. Awaited'
  BY <1>1, <1>2 DEF AInv, Awaited
<1>4. ASSUME NEW d \in Devices, ~overlap[d] PROVE Alone(d)'
  <2>1. OneEach(d) /\ Reported(d) /\ Fresh(d)
    BY <1>4 DEF AInv, Alone
  <2>2. \A c \in Calls : ~Asks(c, d)'
    BY <1>1, EngineAssumption DEF Asks
  <2>3. \A t \in Tasks : On(t, d)' => On(t, d) /\ task'[t] = task[t]
    BY <1>2, EngineAssumption DEF On
  <2>4. \A t \in Tasks : Simulates(t, d)' => Simulates(t, d)
    BY <2>3 DEF Simulates, On
  <2>5. OneEach(d)' /\ ClearToLaunch(d)' /\ Halted(d)' /\ HasValues(d)'
    BY <1>1, <2>1, <2>2, <2>3, <2>4 DEF OneEach, ClearToLaunch, Halted, HasValues
  <2>6. Reported(d)'
    BY <1>1, <2>1, <2>3 DEF Reported, Over
  <2>7. Fresh(d)'
    BY <1>1, <2>1, <2>2, <2>3 DEF Fresh
  <2>8. QED  BY <2>5, <2>6, <2>7 DEF Alone
<1>5. QED  BY <1>1, <1>3, <1>4 DEF AInv, Alone

(* Every step leaves undisturbed devices alone.                             *)
LEMMA StepAInv == IInv /\ AInv /\ [Next]_vars => AInv'
<1> SUFFICES ASSUME IInv, AInv, [Next]_vars PROVE AInv'
  OBVIOUS
<1>1. ASSUME NEW c \in Calls, NEW d \in Devices,
             StartDevice(c, d) \/ StopDevice(c, d) \/ CommitConfigs(c, d)
      PROVE  AInv'
  BY <1>1, BeginAlone
<1>2. ASSUME NEW c \in Calls, CallStep(c) PROVE AInv'
  BY <1>2, EngineStartAlone, EngineStopAlone, EndAlone, ReloadAlone, ResumeAlone,
     LoadAlone, CallLaunchAlone DEF CallStep
<1>3. ASSUME NEW t \in Tasks, TaskStep(t) PROVE AInv'
  BY <1>3, RunAlone, GiveUpAlone, ReturnedAlone, CrashedAlone, JobAlone, RestartLaunchAlone
  DEF TaskStep
<1>4. ASSUME UNCHANGED <<entry, values, task, call, config, status, unread, up, intent, overlap>>
      PROVE  AInv'
  <2>1. \A d \in Devices : Alone(d)'
    BY <1>4, Untouched DEF AInv, On, Asks
  <2>2. Awaited'
    BY <1>4 DEF AInv, Awaited, On
  <2>3. QED  BY <2>1, <2>2 DEF AInv
<1>5. ASSUME NEW d \in Devices, ImportSystem(d) \/ DeleteDevice(d) \/ UpdateTemplate(d)
      PROVE  AInv'
  BY <1>4, <1>5, RowAlone DEF UpdateTemplate, engineVars, history
<1>6. CASE UNCHANGED vars
  BY <1>4, <1>6 DEF vars
<1>7. QED  BY <1>1, <1>2, <1>3, <1>5, <1>6, ShutdownAlone, ShutdownResumesAlone DEF Next

-----------------------------------------------------------------------------
(* start_device, stop_device and _delayed_restart, for any number of        *)
(* devices, requests and tasks: while operations on a device do not         *)
(* overlap, a live simulation task is the registered one.                   *)
THEOREM LiveTaskIsRegistered == Spec => []NoOrphan
<1>1. AInv => NoOrphan
  BY DEF AInv, Alone, OneEach, NoOrphan
<1>2. QED  BY InitIInv, InitAInv, StepIInv, StepAInv, <1>1, PTL DEF Spec

(* _run_device: while operations on a device do not overlap, no stop pops   *)
(* the values of a device from under its running task.                      *)
THEOREM TicksFindValues == Spec => []TickFindsValues
<1>1. AInv => TickFindsValues
  BY DEF AInv, Alone, HasValues, TickFindsValues
<1>2. QED  BY InitIInv, InitAInv, StepIInv, StepAInv, <1>1, PTL DEF Spec

(* _on_task_done and its jobs: a launched simulation never ends without an  *)
(* entry, the status "error" or someone still at work on it, unless the     *)
(* last write of a start overlapped with the error.                         *)
THEOREM DeathsAreReported == Spec => []NoSilentDeath
<1>1. AInv => NoSilentDeath
  <2> SUFFICES ASSUME AInv, NEW d \in Devices, intent[d] = "launched", up, ~Busy(d), ~overlap[d]
               PROVE  entry[d] # NoTask \/ Over(d)
    BY DEF NoSilentDeath, Quiet, Over
  <2>1. ~Pursued(d)
    BY DEF Busy, Pursued, On, Asks, Ended, Job
  <2>2. QED  BY <2>1 DEF AInv, Alone, Reported
<1>2. QED  BY InitIInv, InitAInv, StepIInv, StepAInv, <1>1, PTL DEF Spec

(* _reload_if_running: with nothing in progress, the registered task runs   *)
(* the configs of the last committed write, if no import or deletion        *)
(* changed them since the engine last read them.                            *)
THEOREM CommittedConfigRuns == Spec => []RunsCommittedConfig
<1>1. IInv /\ AInv => RunsCommittedConfig
  <2> SUFFICES ASSUME IInv, AInv, NEW d \in Devices, entry[d] # NoTask, ~Busy(d), ~overlap[d],
                      ~unread[d]
               PROVE  task[entry[d]].config = config[d]
    BY DEF RunsCommittedConfig, Quiet
  <2>1. PICK t \in Tasks : entry[d] = t /\ On(t, d)
    BY DEF IInv, TypeOK, NoDeadEntry, On
  <2>2. task[t].pc \notin Job /\ \A c \in Calls : ~Asks(c, d)
    BY <2>1 DEF Busy, On, Asks
  <2>3. QED  BY <2>1, <2>2 DEF AInv, Alone, Fresh
<1>2. QED  BY InitIInv, InitAInv, StepIInv, StepAInv, <1>1, PTL DEF Spec
=============================================================================
