------------------------- MODULE DeviceLifecycleProofs -------------------------
(***************************************************************************)
(* For any number of devices, slave ids and concurrent requests: a device   *)
(* answers only under a slave id of its own.                                *)
(*                                                                          *)
(* OwnSlave is not inductive.  At boot the adapter is rebuilt from the rows, *)
(* so the rows' slave ids must be distinct; and a request adds the slave id *)
(* it read from the row, so a request in progress must have read one.       *)
(***************************************************************************)
EXTENDS DeviceLifecycle, TLAPS

(* Existing rows have slave ids, and no two the same (uq_device_slave_port).*)
UniqueSlaves ==
    /\ \A d \in Devices : Exists(d) <=> row[d].slave \in Slaves
    /\ \A d, e \in Devices : row[d].slave = row[e].slave => d = e \/ ~Exists(d)

(* A request in progress is about a device whose slave id it has read.      *)
CallsRead ==
    \A c \in Calls : call[c].pc # "idle" => call[c].dev \in Devices /\ call[c].slave \in Slaves

IInv == TypeOK /\ UniqueSlaves /\ CallsRead /\ OwnSlave

-----------------------------------------------------------------------------
(* The resting records, and the updates the actions make to a record.       *)
LEMMA RecordTypes ==
    /\ Idle \in CallRecord /\ Idle.pc = "idle"
    /\ NoRow \in RowRecord /\ NoRow.status = "absent" /\ NoRow.slave \notin Slaves
BY LifecycleAssumption DEF Idle, NoRow, CallRecord, RowRecord

(* Another phase keeps the rest of a request's record.                      *)
LEMMA CallUpdate ==
    ASSUME NEW r \in CallRecord,
           NEW x \in {"simulate", "running", "error", "remove", "stopped"}
    PROVE  LET q == [r EXCEPT !.pc = x] IN
           q \in CallRecord /\ q.dev = r.dev /\ q.slave = r.slave
BY DEF CallRecord

(* Another status keeps a row's slave id.                                   *)
LEMMA StatusUpdate ==
    ASSUME NEW r \in RowRecord, NEW x \in {"running", "error", "stopped"}
    PROVE  /\ [r EXCEPT !.status = x] \in RowRecord
           /\ [r EXCEPT !.status = x].status = x
           /\ [r EXCEPT !.status = x].slave = r.slave
BY DEF RowRecord

(* Another slave id keeps a row's status.                                   *)
LEMMA SlaveUpdate ==
    ASSUME NEW r \in RowRecord, NEW s \in Slaves
    PROVE  /\ [r EXCEPT !.slave = s] \in RowRecord
           /\ [r EXCEPT !.slave = s].slave = s
           /\ [r EXCEPT !.slave = s].status = r.status
BY DEF RowRecord

(* A status write on an existing row.                                       *)
LEMMA StatusWrite ==
    ASSUME TypeOK, NEW d \in Devices, Exists(d), NEW x \in {"running", "error", "stopped"},
           row' = [row EXCEPT ![d].status = x]
    PROVE  /\ row' \in [Devices -> RowRecord]
           /\ \A e \in Devices : row'[e].slave = row[e].slave /\ (Exists(e)' <=> Exists(e))
<1>2. row \in [Devices -> RowRecord] /\ row[d] \in RowRecord
  BY DEF TypeOK
<1>3. row'[d] = [row[d] EXCEPT !.status = x] /\ \A e \in Devices \ {d} : row'[e] = row[e]
  BY <1>2
<1>4. row'[d] \in RowRecord /\ row'[d].status = x /\ row'[d].slave = row[d].slave
  BY <1>2, <1>3, StatusUpdate
<1>5. row' \in [Devices -> RowRecord]
  BY <1>2, <1>4
<1>6. QED  BY <1>3, <1>4, <1>5 DEF Exists

(* Nothing is registered before the first boot.                             *)
LEMMA InitIInv == Init => IInv
<1> SUFFICES ASSUME Init PROVE IInv
  OBVIOUS
<1>1. TypeOK
  BY RecordTypes DEF Init, TypeOK, Nowhere
<1>2. UniqueSlaves /\ CallsRead /\ OwnSlave
  BY RecordTypes DEF Init, UniqueSlaves, CallsRead, OwnSlave, Exists
<1>3. QED  BY <1>1, <1>2 DEF IInv

(* A request's first step reads the row of an existing device and changes   *)
(* nothing else that the invariant is about.                                *)
LEMMA BeginIInv ==
    ASSUME IInv, NEW c \in Calls, NEW d \in Devices, Exists(d),
           NEW pc \in {"add", "stop", "update", "delete", "import"},
           Begin(c, d, pc)
    PROVE  IInv'
<1>1. TypeOK'
  BY DEF IInv, TypeOK, Begin, Mark, CallRecord, RowRecord, adapterVars, engineVars, process
<1>2. UniqueSlaves' /\ OwnSlave'
  BY DEF IInv, Begin, UniqueSlaves, OwnSlave, Exists, adapterVars, engineVars, process
<1>3. CallsRead'
  BY DEF IInv, TypeOK, Begin, CallsRead, UniqueSlaves
<1>4. QED  BY <1>1, <1>2, <1>3 DEF IInv

(* Going idle or moving to another phase keeps what a request has read.     *)
LEMMA CallMoves ==
    ASSUME IInv, NEW c \in Calls, call[c].pc # "idle",
           NEW pc \in {"simulate", "running", "error", "remove", "stopped"},
           \/ call' = [call EXCEPT ![c] = Idle]
           \/ call' = [call EXCEPT ![c].pc = pc]
    PROVE  /\ CallsRead'
           /\ call' \in [Calls -> CallRecord]
<1>1. call[c] \in CallRecord /\ call \in [Calls -> CallRecord]
  BY DEF IInv, TypeOK
<1>2. CASE call' = [call EXCEPT ![c] = Idle]
  BY <1>1, <1>2, RecordTypes DEF IInv, CallsRead
<1>3. CASE call' = [call EXCEPT ![c].pc = pc]
  BY <1>1, <1>3, CallUpdate DEF IInv, CallsRead
<1>4. QED  BY <1>2, <1>3

(* The heart of the argument: add_device takes a slave id nobody owns.      *)
LEMMA AddKeepsOwnSlave ==
    ASSUME IInv, NEW c \in Calls, AddDevice(c)
    PROVE  IInv'
<1> DEFINE d == call[c].dev
           s == call[c].slave
<1>1. d \in Devices /\ s \in Slaves
  BY DEF IInv, CallsRead, AddDevice
<1>2. CallsRead' /\ TypeOK'
  <2>1. CASE UNCHANGED adapterVars
    BY <2>1, CallMoves DEF AddDevice, Register, SlaveFree, IInv, TypeOK, adapterVars, engineVars, process
  <2>2. CASE slaveOf' = [slaveOf EXCEPT ![d] = s] /\ owner' = [owner EXCEPT ![s] = d]
             /\ stats' = [stats EXCEPT ![d] = TRUE]
             /\ call' = [call EXCEPT ![c].pc = "simulate"]
    BY <1>1, <2>2, CallMoves DEF AddDevice, Register, SlaveFree, IInv, TypeOK, engineVars, process
  <2>3. CASE stats' = [stats EXCEPT ![d] = FALSE] /\ UNCHANGED <<slaveOf, owner>>
             /\ call' = [call EXCEPT ![c].pc = "error"]
    BY <1>1, <2>3, CallMoves DEF AddDevice, Register, SlaveFree, IInv, TypeOK, engineVars, process
  <2>4. QED  BY <2>1, <2>2, <2>3 DEF AddDevice, Register
<1>3. UniqueSlaves'
  BY DEF IInv, UniqueSlaves, AddDevice, Exists
<1>4. OwnSlave'
  <2>1. CASE UNCHANGED <<slaveOf, owner>>
    BY <2>1 DEF IInv, OwnSlave
  <2>2. CASE owner[s] = NoDevice /\ slaveOf' = [slaveOf EXCEPT ![d] = s]
             /\ owner' = [owner EXCEPT ![s] = d]
    BY <1>1, <2>2, LifecycleAssumption DEF IInv, OwnSlave, TypeOK
  <2>3. QED  BY <2>1, <2>2 DEF AddDevice, Register, SlaveFree, adapterVars
<1>5. QED  BY <1>2, <1>3, <1>4 DEF IInv

(* remove_device: the device's slave id is owned by nobody else.            *)
LEMMA RemoveKeepsOwnSlave ==
    ASSUME IInv, NEW c \in Calls, RemoveDevice(c)
    PROVE  IInv'
<1> DEFINE d == call[c].dev
<1>1. d \in Devices
  BY DEF IInv, CallsRead, RemoveDevice
<1>2. CallsRead' /\ TypeOK'
  <2>1. CASE UNCHANGED adapterVars
    BY <2>1, CallMoves DEF RemoveDevice, Unregister, IInv, TypeOK, adapterVars, engineVars, process
  <2>2. CASE serving /\ known
    <3>1. owner' = [s \in Slaves |-> IF s = slaveOf[d] THEN NoDevice ELSE owner[s]]
      BY <2>2 DEF RemoveDevice, Unregister
    <3>2. owner' \in [Slaves -> Devices \cup {NoDevice}]
      BY <3>1 DEF IInv, TypeOK
    <3>3. QED
      BY <1>1, <2>2, <3>2, CallMoves DEF RemoveDevice, Unregister, IInv, TypeOK, engineVars, process
  <2>3. QED  BY <2>1, <2>2 DEF RemoveDevice
<1>3. UniqueSlaves'
  BY DEF IInv, UniqueSlaves, RemoveDevice, Exists
<1>4. OwnSlave'
  BY <1>1 DEF IInv, OwnSlave, TypeOK, RemoveDevice, Unregister, adapterVars
<1>5. QED  BY <1>2, <1>3, <1>4 DEF IInv

(* Commits keep slave ids distinct: only update and create choose one.      *)
LEMMA CommitIInv ==
    ASSUME IInv, NEW c \in Calls,
           \/ CommitStatus(c) \/ CommitUpdate(c) \/ CommitDelete(c) \/ CommitImport(c)
    PROVE  IInv'
<1>1. call[c].dev \in Devices /\ call[c].pc # "idle"
  BY DEF IInv, CallsRead, CommitStatus, CommitUpdate, CommitDelete, CommitImport
<1>2. CallsRead' /\ call' = [call EXCEPT ![c] = Idle]
  BY <1>1, CallMoves DEF CommitStatus, CommitUpdate, CommitDelete, CommitImport, Finish
<1>3. OwnSlave' /\ UNCHANGED <<adapterVars, engineVars, process, known>>
  BY DEF IInv, OwnSlave, CommitStatus, CommitUpdate, CommitDelete, CommitImport, adapterVars
<1>4. TypeOK' /\ UniqueSlaves'
  <2>1. CASE CommitStatus(c) \/ CommitImport(c)
    <3>1. /\ row' \in [Devices -> RowRecord]
          /\ \A d \in Devices : row'[d].slave = row[d].slave /\ (Exists(d)' <=> Exists(d))
      <4>1. CASE UNCHANGED row
        BY <4>1 DEF IInv, TypeOK, Exists
      <4>2. ASSUME NEW x \in {"running", "error", "stopped"}, Exists(call[c].dev),
                   row' = [row EXCEPT ![call[c].dev].status = x]
            PROVE  /\ row' \in [Devices -> RowRecord]
                   /\ \A d \in Devices : row'[d].slave = row[d].slave
                                           /\ (Exists(d)' <=> Exists(d))
        BY <1>1, <4>2, StatusWrite DEF IInv
      <4>3. QED  BY <2>1, <4>1, <4>2 DEF CommitStatus, CommitImport
    <3>2. TypeOK'
      BY <1>1, <1>2, <1>3, <2>1, <3>1, CallMoves
      DEF CommitStatus, CommitImport, IInv, TypeOK, adapterVars, engineVars, process
    <3>3. QED  BY <3>1, <3>2 DEF IInv, UniqueSlaves
  <2>2. CASE CommitUpdate(c)
    <3>1. CASE UNCHANGED row
      BY <1>2, <1>3, <2>2, <3>1, CallMoves, <1>1
      DEF CommitUpdate, IInv, TypeOK, UniqueSlaves, Exists, adapterVars, engineVars, process
    <3>2. ASSUME NEW s \in Slaves, SlaveAvailable(s, call[c].dev), Exists(call[c].dev),
                 row' = [row EXCEPT ![call[c].dev].slave = s]
          PROVE  TypeOK' /\ UniqueSlaves'
      <4>1. /\ row' \in [Devices -> RowRecord]
            /\ row'[call[c].dev].slave = s
            /\ \A d \in Devices : row'[d].status = row[d].status
            /\ \A d \in Devices \ {call[c].dev} : row'[d] = row[d]
        <5>1. row \in [Devices -> RowRecord] /\ row[call[c].dev] \in RowRecord
          BY <1>1 DEF IInv, TypeOK
        <5>2. /\ row'[call[c].dev] = [row[call[c].dev] EXCEPT !.slave = s]
              /\ \A d \in Devices \ {call[c].dev} : row'[d] = row[d]
          BY <1>1, <3>2, <5>1
        <5>3. /\ row'[call[c].dev] \in RowRecord /\ row'[call[c].dev].slave = s
              /\ row'[call[c].dev].status = row[call[c].dev].status
          BY <5>1, <5>2, SlaveUpdate
        <5>4. row' \in [Devices -> RowRecord]
          BY <3>2, <5>1, <5>3
        <5>5. QED  BY <5>2, <5>3, <5>4
      <4>2. TypeOK'
        BY <1>1, <1>2, <1>3, <2>2, <4>1, CallMoves
        DEF CommitUpdate, IInv, TypeOK, adapterVars, engineVars, process
      <4>3. UniqueSlaves'
        BY <1>1, <3>2, <4>1 DEF IInv, UniqueSlaves, SlaveAvailable, Exists
      <4>4. QED  BY <4>2, <4>3
    <3>3. QED  BY <2>2, <3>1, <3>2 DEF CommitUpdate
  <2>3. CASE CommitDelete(c)
    <3>1. row' = [row EXCEPT ![call[c].dev] = NoRow]
      BY <2>3 DEF CommitDelete
    <3>2. TypeOK'
      BY <1>1, <1>2, <1>3, <2>3, <3>1, CallMoves, RecordTypes
      DEF CommitDelete, IInv, TypeOK, adapterVars, engineVars, process
    <3>3. UniqueSlaves'
      BY <1>1, <3>1, RecordTypes DEF IInv, TypeOK, UniqueSlaves, Exists
    <3>4. QED  BY <3>2, <3>3
  <2>4. QED  BY <2>1, <2>2, <2>3
<1>5. QED  BY <1>2, <1>3, <1>4 DEF IInv

(* Boot registers the running rows, whose slave ids are distinct.           *)
LEMMA BootIInv ==
    ASSUME IInv, Boot
    PROVE  IInv'
<1> DEFINE resumed == {d \in Devices : serving' /\ Resumes(d)}
<1>1. \A d \in resumed : Exists(d) /\ row[d].slave \in Slaves
  BY DEF IInv, UniqueSlaves, Exists, Resumes
<1>2. \A s \in Slaves : owner'[s] = IF \E d \in resumed : row[d].slave = s
                                    THEN CHOOSE d \in resumed : row[d].slave = s
                                    ELSE NoDevice
  BY DEF Boot
<1>3. \A d \in resumed : owner'[row[d].slave] = d
  <2> SUFFICES ASSUME NEW d \in resumed PROVE owner'[row[d].slave] = d
    OBVIOUS
  <2> DEFINE o == CHOOSE e \in resumed : row[e].slave = row[d].slave
  <2>1. o \in resumed /\ row[o].slave = row[d].slave
    OBVIOUS
  <2>2. o = d
    BY <1>1, <2>1 DEF IInv, UniqueSlaves
  <2>3. QED  BY <1>1, <1>2, <2>2
<1>4. OwnSlave'
  BY <1>3 DEF Boot, OwnSlave
<1>5. owner' \in [Slaves -> Devices \cup {NoDevice}]
  BY DEF Boot
<1>6. slaveOf' \in [Devices -> Slaves \cup {NoSlave}]
  BY <1>1 DEF Boot
<1>7. TypeOK'
  BY <1>5, <1>6 DEF Boot, IInv, TypeOK
<1>8. UniqueSlaves' /\ CallsRead'
  BY DEF Boot, IInv, UniqueSlaves, CallsRead, Exists
<1>9. QED  BY <1>4, <1>7, <1>8 DEF IInv

(* Every step keeps the invariant.                                          *)
LEMMA StepIInv == IInv /\ [Next]_vars => IInv'
<1> SUFFICES ASSUME IInv, [Next]_vars PROVE IInv'
  OBVIOUS
<1>1. ASSUME NEW c \in Calls, NEW d \in Devices,
             \/ StartDevice(c, d) \/ StopDevice(c, d) \/ UpdateDevice(c, d)
             \/ DeleteDevice(c, d) \/ ImportSystem(c, d)
      PROVE IInv'
  BY <1>1, BeginIInv
  DEF StartDevice, StopDevice, UpdateDevice, DeleteDevice, ImportSystem, Exists
<1>2. ASSUME NEW c \in Calls, CallStep(c) PROVE IInv'
  <2>1. CASE AddDevice(c)  BY <2>1, AddKeepsOwnSlave
  <2>2. CASE RemoveDevice(c)  BY <2>2, RemoveKeepsOwnSlave
  <2>3. CASE \/ CommitStatus(c) \/ CommitUpdate(c) \/ CommitDelete(c) \/ CommitImport(c)
    BY <2>3, CommitIInv
  <2>4. CASE StartEngine(c) \/ StopEngine(c)
    <3>1. call[c].dev \in Devices /\ call[c].pc # "idle" /\ CallsRead'
      BY <2>4, CallMoves DEF IInv, CallsRead, StartEngine, StopEngine
    <3>2. OwnSlave' /\ UniqueSlaves'
      BY <2>4 DEF IInv, OwnSlave, UniqueSlaves, StartEngine, StopEngine, Exists, adapterVars
    <3>3. TypeOK'
      BY <2>4, <3>1, CallMoves DEF IInv, TypeOK, StartEngine, StopEngine, adapterVars, process
    <3>4. QED  BY <3>1, <3>2, <3>3 DEF IInv
  <2>5. QED  BY <1>2, <2>1, <2>2, <2>3, <2>4 DEF CallStep
<1>3. ASSUME NEW d \in Devices, CreateDevice(d) PROVE IInv'
  BY <1>3, LifecycleAssumption
  DEF CreateDevice, IInv, TypeOK, UniqueSlaves, CallsRead, OwnSlave, SlaveAvailable, Exists,
      RowRecord, adapterVars, engineVars, process
<1>4. ASSUME NEW d \in Devices, EngineGivesUp(d) \/ SetDeviceError(d) PROVE IInv'
  <2>1. OwnSlave' /\ CallsRead'
    BY <1>4 DEF EngineGivesUp, SetDeviceError, IInv, OwnSlave, CallsRead, adapterVars
  <2>2. /\ row' \in [Devices -> RowRecord]
        /\ \A e \in Devices : row'[e].slave = row[e].slave /\ (Exists(e)' <=> Exists(e))
    <3>1. CASE UNCHANGED row
      BY <3>1 DEF IInv, TypeOK, Exists
    <3>2. CASE Exists(d) /\ row' = [row EXCEPT ![d].status = "error"]
      BY <3>2, StatusWrite DEF IInv
    <3>3. QED  BY <1>4, <3>1, <3>2 DEF EngineGivesUp, SetDeviceError
  <2>3. TypeOK'
    BY <1>4, <2>2 DEF EngineGivesUp, SetDeviceError, IInv, TypeOK, Mark, adapterVars, process
  <2>4. UniqueSlaves'
    BY <2>2 DEF IInv, UniqueSlaves
  <2>5. QED  BY <2>1, <2>3, <2>4 DEF IInv
<1>5. CASE UpdateTemplate
  BY <1>5 DEF UpdateTemplate, IInv, TypeOK, UniqueSlaves, CallsRead, OwnSlave, Exists,
              adapterVars, engineVars, process
<1>6. CASE Crash
  BY <1>6, RecordTypes
  DEF Crash, IInv, TypeOK, UniqueSlaves, CallsRead, OwnSlave, Exists, Nowhere
<1>7. CASE Boot  BY <1>7, BootIInv
<1>8. CASE UNCHANGED vars
  BY <1>8 DEF vars, IInv, TypeOK, UniqueSlaves, CallsRead, OwnSlave, Exists
<1>9. QED  BY <1>1, <1>2, <1>3, <1>4, <1>5, <1>6, <1>7, <1>8 DEF Next

-----------------------------------------------------------------------------
(* The state of rows, registry, engine and requests keeps its shape.        *)
THEOREM LifecycleTypes == Spec => []TypeOK
<1>1. IInv => TypeOK  BY DEF IInv
<1>2. QED  BY InitIInv, StepIInv, <1>1, PTL DEF Spec

(* For any number of devices, slaves and concurrent requests, through       *)
(* crashes and resumes, the Modbus registry (_device_to_slave and           *)
(* _slave_to_device) never lets two devices answer under one slave id.      *)
THEOREM SlavesAreOwned == Spec => []OwnSlave
<1>1. IInv => OwnSlave  BY DEF IInv
<1>2. QED  BY InitIInv, StepIInv, <1>1, PTL DEF Spec
-----------------------------------------------------------------------------
(* Devices nothing interfered with.  What holds of one that is at rest is    *)
(* not inductive: a request passes through phases in which row and runtime  *)
(* disagree, and each phase must know how far it has come.  That no second  *)
(* operation comes between its steps is what ~disturbed means.              *)
Gone(d) ==
    /\ slaveOf[d] = NoSlave /\ \A s \in Slaves : owner[s] # d
    /\ ~stats[d] /\ ~simulated[d]

Served(d) ==
    /\ row[d].slave \in Slaves /\ slaveOf[d] = row[d].slave
    /\ owner[row[d].slave] = d /\ stats[d]

Works(c, d) == call[c].dev = d

(* One operation on d at a time.                                            *)
Undivided(d) ==
    /\ \A c, o \in Calls : Works(c, d) /\ Works(o, d) => c = o
    /\ failing[d] => row[d].status # "stopped" /\ \A c \in Calls : ~Works(c, d)

(* What row and runtime say of d, given the phase of the request on it.     *)
RestingRow(d) ==
    /\ ~known => Gone(d)
    /\ row[d].status = "running" /\ serving /\ known
          /\ (\A c \in Calls : Works(c, d) => call[c].pc # "stopped") => Served(d)
    /\ row[d].status = "stopped"
          /\ (\A c \in Calls : Works(c, d) => call[c].pc \notin {"simulate", "running"}) => Gone(d)

(* How far a request on d has come.                                         *)
Phase(c, d) ==
    /\ call[c].pc \in {"add", "simulate", "running", "error"} =>
          row[d].status = "stopped" /\ call[c].slave = row[d].slave
    /\ call[c].pc = "simulate" => serving /\ known /\ Served(d)
    /\ call[c].pc = "running" /\ serving => known /\ Served(d)
    /\ call[c].pc \in {"stop", "remove", "stopped"} => row[d].status \in {"running", "error"}
    /\ call[c].pc = "remove" => ~simulated[d]
    /\ call[c].pc = "stopped" => Gone(d)
    /\ call[c].pc \in {"update", "delete"} => row[d].status \in {"stopped", "error"}

Tidy(d) ==
    ~disturbed[d] =>
        /\ \A s \in Slaves : owner[s] = d => slaveOf[d] = s
        /\ Undivided(d)
        /\ RestingRow(d)
        /\ \A c \in Calls : Works(c, d) => Phase(c, d)

(* Without adapters nothing is registered or simulated, and a process that  *)
(* is down does nothing at all.                                             *)
Unplugged ==
    /\ ~serving => /\ \A d \in Devices : Gone(d)
                   /\ \A c \in Calls : call[c].pc # "simulate"
    /\ ~up => /\ ~serving
              /\ \A c \in Calls : call[c].pc = "idle"
              /\ \A d \in Devices : ~failing[d]
    /\ \A c \in Calls : call[c].pc = "idle" => call[c].dev = NoDevice

SInv == Unplugged /\ \A d \in Devices : Tidy(d)

(* Nothing is registered before the first boot, and no request is there.    *)
LEMMA InitSInv == Init => SInv
<1> SUFFICES ASSUME Init PROVE SInv
  OBVIOUS
<1>1. \A d \in Devices : Gone(d) /\ ~failing[d] /\ row[d].status = "absent"
  BY LifecycleAssumption DEF Init, Gone, NoRow, Nowhere
<1>2. \A c \in Calls : call[c].pc = "idle" /\ call[c].dev = NoDevice
  BY DEF Init, Idle
<1>3. ~serving /\ ~up
  BY DEF Init
<1>4. Unplugged
  BY <1>1, <1>2, <1>3 DEF Unplugged
<1>5. \A d \in Devices, c \in Calls : ~Works(c, d)
  BY <1>2, LifecycleAssumption DEF Works
<1>6. \A d \in Devices : Tidy(d)
  BY <1>1, <1>3, <1>5 DEF Tidy, Undivided, RestingRow, Gone
<1>7. QED  BY <1>4, <1>6 DEF SInv

(* What a step leaves alone stays as it was.                                *)
LEMMA OthersTidy ==
    ASSUME TypeOK, NEW d \in Devices, Tidy(d), UNCHANGED <<known, serving>>,
           row'[d] = row[d], slaveOf'[d] = slaveOf[d], stats'[d] = stats[d],
           simulated'[d] = simulated[d], failing'[d] = failing[d],
           disturbed[d] => disturbed'[d],
           \A s \in Slaves : owner'[s] = d <=> owner[s] = d,
           \A c \in Calls : /\ call'[c].dev = d <=> call[c].dev = d
                            /\ call[c].dev = d => call'[c] = call[c]
    PROVE  Tidy(d)'
<1>1. Gone(d)' <=> Gone(d)
  BY DEF Gone
<1>2. \A c \in Calls : Works(c, d)' <=> Works(c, d)
  BY DEF Works
<1>3. \A c \in Calls : Works(c, d) => call'[c] = call[c]
  BY DEF Works
<1>4. Served(d)' <=> Served(d)
  BY DEF Served
<1>5. Undivided(d) => Undivided(d)'
  BY <1>2 DEF Undivided
<1>6. RestingRow(d) => RestingRow(d)'
  BY <1>1, <1>2, <1>3, <1>4 DEF RestingRow
<1>7. \A c \in Calls : Works(c, d) /\ Phase(c, d) => Phase(c, d)'
  BY <1>1, <1>3, <1>4 DEF Phase
<1>8. QED  BY <1>2, <1>5, <1>6, <1>7 DEF Tidy

(* A request begins: it is the only one, or the device counts as disturbed. *)
LEMMA BeginTidy ==
    ASSUME IInv, SInv, NEW c \in Calls, NEW d \in Devices,
           NEW pc \in {"add", "stop", "update", "delete", "import"}, Begin(c, d, pc),
           \/ pc = "add" /\ row[d].status = "stopped"
           \/ pc = "stop" /\ row[d].status \in {"running", "error"}
           \/ pc \in {"update", "delete"} /\ row[d].status \in {"stopped", "error"}
           \/ pc = "import" /\ row[d].status = "running"
    PROVE  SInv'
<1>1. /\ up /\ call[c].pc = "idle" /\ call[c].dev = NoDevice
      /\ call' = [call EXCEPT ![c] = [pc |-> pc, dev |-> d, slave |-> row[d].slave]]
      /\ UNCHANGED <<row, known, slaveOf, owner, stats, simulated, failing, up, serving>>
      /\ disturbed' = [disturbed EXCEPT ![d] = @ \/ Busy(d)]
  BY DEF Begin, Mark, SInv, Unplugged, adapterVars, engineVars, process
<1>2. call \in [Calls -> CallRecord] /\ disturbed \in [Devices -> BOOLEAN]
  BY DEF IInv, TypeOK
<1>3. /\ call'[c].pc = pc /\ call'[c].dev = d /\ call'[c].slave = row[d].slave
      /\ \A o \in Calls \ {c} : call'[o] = call[o]
  BY <1>1, <1>2
<1>4. Unplugged'
  <2>1. \A e \in Devices : Gone(e)' <=> Gone(e)
    BY <1>1 DEF Gone
  <2>2. QED  BY <1>1, <1>3, <2>1 DEF SInv, Unplugged
<1>5. \A e \in Devices \ {d} : Tidy(e)'
  <2> SUFFICES ASSUME NEW e \in Devices \ {d} PROVE Tidy(e)'
    OBVIOUS
  <2>1. \A o \in Calls : /\ call'[o].dev = e <=> call[o].dev = e
                         /\ call[o].dev = e => call'[o] = call[o]
    BY <1>1, <1>3, LifecycleAssumption
  <2>2. disturbed'[e] = disturbed[e]
    BY <1>1, <1>2
  <2>3. QED  BY <1>1, <2>1, <2>2, OthersTidy DEF SInv, IInv
<1>6. Tidy(d)'
  <2> SUFFICES ASSUME ~disturbed'[d] PROVE Tidy(d)'
    BY DEF Tidy
  <2>1. ~disturbed[d] /\ ~Busy(d)
    BY <1>1, <1>2
  <2>2. ~failing[d] /\ \A o \in Calls : call[o].dev # d
    BY <2>1 DEF Busy
  <2>3. \A o \in Calls : Works(o, d)' => o = c
    BY <1>3, <2>2 DEF Works
  <2>4. Gone(d)' <=> Gone(d)
    BY <1>1 DEF Gone
  <2>5. Served(d)' <=> Served(d)
    BY <1>1 DEF Served
  <2>6. /\ \A s \in Slaves : owner[s] = d => slaveOf[d] = s
        /\ RestingRow(d)
    BY <2>1 DEF SInv, Tidy
  <2>7. Undivided(d)'
    BY <1>1, <2>2, <2>3 DEF Undivided
  <2>8. RestingRow(d)'
    BY <1>1, <1>3, <2>2, <2>4, <2>5, <2>6 DEF RestingRow, Works
  <2>9. Phase(c, d)'
    BY <1>1, <1>3, <2>4, <2>5 DEF Phase
  <2>10. QED  BY <1>1, <2>3, <2>6, <2>7, <2>8, <2>9 DEF Tidy
<1>7. QED  BY <1>4, <1>5, <1>6 DEF SInv

(* A request goes on: it is about one device, and leaves the others alone.  *)
LEMMA OthersLeftAlone ==
    ASSUME IInv, SInv, NEW c \in Calls, NEW d \in Devices, call[c].dev = d,
           NEW x \in CallRecord, x.dev = d \/ x = Idle, call' = [call EXCEPT ![c] = x],
           UNCHANGED <<known, serving>>,
           \A e \in Devices \ {d} :
               /\ row'[e] = row[e] /\ slaveOf'[e] = slaveOf[e] /\ stats'[e] = stats[e]
               /\ simulated'[e] = simulated[e] /\ failing'[e] = failing[e]
               /\ disturbed'[e] = disturbed[e]
               /\ \A s \in Slaves : owner'[s] = e <=> owner[s] = e
    PROVE  \A e \in Devices \ {d} : Tidy(e)'
<1> SUFFICES ASSUME NEW e \in Devices \ {d} PROVE Tidy(e)'
  OBVIOUS
<1>1. call'[c] = x /\ \A o \in Calls \ {c} : call'[o] = call[o]
  BY DEF IInv, TypeOK
<1>2. Idle.dev = NoDevice
  BY DEF Idle
<1>3. \A o \in Calls : /\ call'[o].dev = e <=> call[o].dev = e
                       /\ call[o].dev = e => call'[o] = call[o]
  BY <1>1, <1>2, LifecycleAssumption
<1>4. QED  BY <1>3, OthersTidy DEF SInv, IInv

(* What is known of the device of a request that nothing interferes with.   *)
LEMMA AloneOn ==
    ASSUME IInv, SInv, NEW c \in Calls, NEW d \in Devices, call[c].dev = d, ~disturbed[d]
    PROVE  /\ \A o \in Calls : Works(o, d) <=> o = c
           /\ Phase(c, d) /\ RestingRow(d) /\ ~failing[d]
           /\ \A s \in Slaves : owner[s] = d => slaveOf[d] = s
           /\ row[d].status = "running" /\ serving /\ known /\ call[c].pc # "stopped" => Served(d)
           /\ row[d].status = "stopped" /\ call[c].pc \notin {"simulate", "running"} => Gone(d)
<1>1. Works(c, d) /\ Tidy(d)
  BY DEF Works, SInv
<1>2. Undivided(d) /\ RestingRow(d) /\ Phase(c, d)
      /\ \A s \in Slaves : owner[s] = d => slaveOf[d] = s
  BY <1>1 DEF Tidy
<1>3. (\A o \in Calls : Works(o, d) <=> o = c) /\ ~failing[d]
  BY <1>1, <1>2 DEF Undivided
<1>4. QED  BY <1>2, <1>3 DEF RestingRow

(* add_device: the device had nothing before, and after it is served, or    *)
(* has nothing.                                                             *)
LEMMA AddTidy ==
    ASSUME IInv, SInv, NEW c \in Calls, AddDevice(c)
    PROVE  SInv'
<1>0. PICK d \in Devices, s \in Slaves : call[c].dev = d /\ call[c].slave = s
  BY DEF IInv, CallsRead, AddDevice
<1>1. /\ d \in Devices /\ s \in Slaves /\ call[c].pc = "add" /\ call[c] \in CallRecord
      /\ call \in [Calls -> CallRecord]
      /\ slaveOf \in [Devices -> Slaves \cup {NoSlave}] /\ stats \in [Devices -> BOOLEAN]
      /\ owner \in [Slaves -> Devices \cup {NoDevice}]
  BY DEF IInv, TypeOK, CallsRead, AddDevice
<1>2. UNCHANGED <<row, known, simulated, failing, up, serving, disturbed>>
  BY DEF AddDevice, engineVars, process
<1>3. PICK pc \in {"running", "error", "simulate"} :
          /\ call' = [call EXCEPT ![c].pc = pc]
          /\ \/ pc = "running" /\ ~serving /\ UNCHANGED <<slaveOf, owner, stats>>
             \/ pc = "error" /\ serving /\ ~known /\ UNCHANGED <<slaveOf, owner, stats>>
             \/ /\ pc = "simulate" /\ serving /\ known /\ owner[s] = NoDevice
                /\ slaveOf' = [slaveOf EXCEPT ![d] = s]
                /\ owner' = [owner EXCEPT ![s] = d]
                /\ stats' = [stats EXCEPT ![d] = TRUE]
             \/ /\ pc = "error" /\ serving /\ known
                /\ stats' = [stats EXCEPT ![d] = FALSE]
                /\ UNCHANGED <<slaveOf, owner>>
  BY <1>0 DEF AddDevice, Register, SlaveFree, adapterVars
<1> DEFINE x == [call[c] EXCEPT !.pc = pc]
<1>4. x \in CallRecord /\ x.pc = pc /\ x.dev = d /\ x.slave = s
  BY ZenonT(30), <1>0, <1>1, CallUpdate DEF CallRecord
<1>5. call' = [call EXCEPT ![c] = x]
  BY <1>3
<1>6. call'[c] = x /\ \A o \in Calls \ {c} : call'[o] = call[o]
  BY <1>1, <1>5
<1> HIDE DEF x
<1>7. Unplugged'
  <2>1. ~serving => \A e \in Devices : Gone(e)' <=> Gone(e)
    BY <1>2, <1>3 DEF Gone
  <2>2. ~serving => pc = "running"
    BY <1>3
  <2>3. up
    BY <1>1 DEF SInv, Unplugged
  <2>4. QED  BY <1>2, <1>4, <1>6, <2>1, <2>2, <2>3 DEF SInv, Unplugged
<1>8. \A e \in Devices \ {d} : Tidy(e)'
  <2>1. \A e \in Devices \ {d} :
            /\ slaveOf'[e] = slaveOf[e] /\ stats'[e] = stats[e]
            /\ \A z \in Slaves : owner'[z] = e <=> owner[z] = e
    BY <1>1, <1>3, LifecycleAssumption
  <2>2. QED  BY <1>0, <1>1, <1>2, <1>4, <1>5, <2>1, OthersLeftAlone
<1>9. Tidy(d)'
  <2> SUFFICES ASSUME ~disturbed[d] PROVE Tidy(d)'
    BY <1>2 DEF Tidy
  <2>1. /\ \A o \in Calls : Works(o, d) <=> o = c
        /\ Phase(c, d) /\ Gone(d) /\ ~failing[d] /\ row[d].status = "stopped"
        /\ s = row[d].slave
    BY <1>0, <1>1, AloneOn DEF Phase
  <2>2. \A o \in Calls : Works(o, d)' <=> o = c
    BY <1>4, <1>6, <2>1 DEF Works
  <2>3. Undivided(d)'
    BY <1>2, <2>1, <2>2 DEF Undivided
  <2>4. /\ pc # "simulate" => Gone(d)'
        /\ pc = "simulate" => Served(d)'
        /\ \A z \in Slaves : owner'[z] = d => slaveOf'[d] = z
    <3>1. CASE pc = "simulate"
      BY <1>1, <1>2, <1>3, <2>1, <3>1 DEF Gone, Served
    <3>2. CASE pc # "simulate"
      BY <1>1, <1>2, <1>3, <2>1, <3>2 DEF Gone
    <3>3. QED  BY <3>1, <3>2
  <2>5. RestingRow(d)'
    BY <1>2, <1>3, <1>4, <1>6, <2>1, <2>2, <2>4 DEF RestingRow
  <2>6. Phase(c, d)'
    BY <1>2, <1>3, <1>4, <1>6, <2>1, <2>4 DEF Phase
  <2>7. QED  BY <1>2, <2>2, <2>3, <2>4, <2>5, <2>6 DEF Tidy
<1>10. QED  BY <1>7, <1>8, <1>9 DEF SInv

(* A request moves to another phase, or ends.                               *)
LEMMA NextPhase ==
    ASSUME IInv, NEW c \in Calls, NEW pc \in {"simulate", "running", "error", "remove", "stopped"},
           call' = [call EXCEPT ![c].pc = pc]
    PROVE  /\ \E x \in CallRecord : x.dev = call[c].dev /\ call' = [call EXCEPT ![c] = x]
           /\ call'[c].pc = pc /\ call'[c].dev = call[c].dev /\ call'[c].slave = call[c].slave
           /\ \A o \in Calls \ {c} : call'[o] = call[o]
<1>1. call \in [Calls -> CallRecord] /\ call[c] \in CallRecord
  BY DEF IInv, TypeOK
<1> DEFINE x == [call[c] EXCEPT !.pc = pc]
<1>2. x \in CallRecord /\ x.pc = pc /\ x.dev = call[c].dev /\ x.slave = call[c].slave
  <2>1. x \in CallRecord /\ x.dev = call[c].dev /\ x.slave = call[c].slave
    BY <1>1, CallUpdate
  <2>2. x.pc = pc
    BY <1>1 DEF CallRecord
  <2>3. QED  BY <2>1, <2>2
<1>3. call' = [call EXCEPT ![c] = x]
  OBVIOUS
<1> HIDE DEF x
<1>4. QED  BY <1>1, <1>2, <1>3

(* The simulation starts, or does not.                                      *)
LEMMA StartEngineTidy ==
    ASSUME IInv, SInv, NEW c \in Calls, StartEngine(c)
    PROVE  SInv'
<1>1. PICK d \in Devices : call[c].dev = d /\ call[c].pc = "simulate"
  BY DEF IInv, CallsRead, StartEngine
<1>2. /\ UNCHANGED <<row, known, slaveOf, owner, stats, failing, up, serving, disturbed>>
      /\ call' = [call EXCEPT ![c].pc = "running"]
      /\ \A e \in Devices \ {d} : simulated'[e] = simulated[e]
  BY <1>1 DEF StartEngine, adapterVars, process, IInv, TypeOK
<1>3. PICK x \in CallRecord : x.dev = d /\ call' = [call EXCEPT ![c] = x]
  BY <1>1, <1>2, NextPhase
<1>4. /\ call'[c].pc = "running" /\ call'[c].dev = d /\ call'[c].slave = call[c].slave
      /\ \A o \in Calls \ {c} : call'[o] = call[o]
  BY <1>1, <1>2, NextPhase
<1>5. serving /\ up
  BY <1>1 DEF SInv, Unplugged
<1>6. Unplugged'
  BY <1>2, <1>4, <1>5 DEF SInv, Unplugged
<1>7. \A e \in Devices \ {d} : Tidy(e)'
  <2>1. \A e \in Devices \ {d} :
            /\ row'[e] = row[e] /\ slaveOf'[e] = slaveOf[e] /\ stats'[e] = stats[e]
            /\ simulated'[e] = simulated[e] /\ failing'[e] = failing[e]
            /\ disturbed'[e] = disturbed[e]
            /\ \A s \in Slaves : owner'[s] = e <=> owner[s] = e
    BY <1>2
  <2>2. call[c].dev = d /\ x.dev = d /\ UNCHANGED <<known, serving>>
    BY <1>1, <1>2, <1>3
  <2>3. call' = [call EXCEPT ![c] = x]
    BY <1>3
  <2>4. QED  BY <2>1, <2>2, <2>3, OthersLeftAlone
<1>8. Tidy(d)'
  <2> SUFFICES ASSUME ~disturbed[d] PROVE Tidy(d)'
    BY <1>2 DEF Tidy
  <2>1. /\ \A o \in Calls : Works(o, d) <=> o = c
        /\ Phase(c, d) /\ ~failing[d] /\ known /\ Served(d)
        /\ row[d].status = "stopped" /\ call[c].slave = row[d].slave
        /\ \A s \in Slaves : owner[s] = d => slaveOf[d] = s
    BY <1>1, AloneOn DEF Phase
  <2>2. \A o \in Calls : Works(o, d)' <=> o = c
    BY <1>4, <2>1 DEF Works
  <2>3. Served(d)'
    BY <1>2, <2>1 DEF Served
  <2>4. Undivided(d)'
    BY <1>2, <2>1, <2>2 DEF Undivided
  <2>5. RestingRow(d)'
    BY <1>2, <1>4, <2>1, <2>2, <2>3 DEF RestingRow
  <2>6. Phase(c, d)'
    BY <1>2, <1>4, <2>1, <2>3 DEF Phase
  <2>7. QED  BY <1>2, <2>1, <2>2, <2>4, <2>5, <2>6 DEF Tidy
<1>9. QED  BY <1>6, <1>7, <1>8 DEF SInv

(* The simulation stops.                                                    *)
LEMMA StopEngineTidy ==
    ASSUME IInv, SInv, NEW c \in Calls, StopEngine(c)
    PROVE  SInv'
<1>1. PICK d \in Devices : call[c].dev = d /\ call[c].pc = "stop"
  BY DEF IInv, CallsRead, StopEngine
<1>2. /\ UNCHANGED <<row, known, slaveOf, owner, stats, up, serving, disturbed>>
      /\ call' = [call EXCEPT ![c].pc = "remove"]
      /\ ~simulated'[d] /\ (failing'[d] => failing[d])
      /\ \A e \in Devices \ {d} : simulated'[e] = simulated[e] /\ failing'[e] = failing[e]
  BY <1>1 DEF StopEngine, adapterVars, process, IInv, TypeOK
<1>3. PICK x \in CallRecord : x.dev = d /\ call' = [call EXCEPT ![c] = x]
  <2>1. call' = [call EXCEPT ![c].pc = "remove"]
    BY <1>2
  <2>2. QED  BY ZenonT(30), <1>1, <2>1, NextPhase
<1>4. /\ call'[c].pc = "remove" /\ call'[c].dev = d
      /\ \A o \in Calls \ {c} : call'[o] = call[o]
  BY <1>1, <1>2, NextPhase
<1>5. \A e \in Devices : Gone(e) => Gone(e)'
  BY <1>2 DEF Gone
<1>6. Unplugged'
  <2>1. up
    BY <1>1 DEF SInv, Unplugged
  <2>2. QED  BY <1>2, <1>4, <1>5, <2>1 DEF SInv, Unplugged
<1>7. \A e \in Devices \ {d} : Tidy(e)'
  <2>1. \A e \in Devices \ {d} :
            /\ row'[e] = row[e] /\ slaveOf'[e] = slaveOf[e] /\ stats'[e] = stats[e]
            /\ simulated'[e] = simulated[e] /\ failing'[e] = failing[e]
            /\ disturbed'[e] = disturbed[e]
            /\ \A s \in Slaves : owner'[s] = e <=> owner[s] = e
    BY <1>2
  <2>2. call[c].dev = d /\ x.dev = d /\ UNCHANGED <<known, serving>>
    BY <1>1, <1>2, <1>3
  <2>3. call' = [call EXCEPT ![c] = x]
    BY <1>3
  <2>4. QED  BY <2>1, <2>2, <2>3, OthersLeftAlone
<1>8. Tidy(d)'
  <2> SUFFICES ASSUME ~disturbed[d] PROVE Tidy(d)'
    BY <1>2 DEF Tidy
  <2>1. /\ \A o \in Calls : Works(o, d) <=> o = c
        /\ RestingRow(d) /\ ~failing[d] /\ row[d].status \in {"running", "error"}
        /\ row[d].status = "running" /\ serving /\ known => Served(d)
        /\ \A s \in Slaves : owner[s] = d => slaveOf[d] = s
    BY <1>1, AloneOn DEF Phase
  <2>2. \A o \in Calls : Works(o, d)' <=> o = c
    BY <1>4, <2>1 DEF Works
  <2>3. Served(d) => Served(d)'
    BY <1>2 DEF Served
  <2>4. Undivided(d)'
    BY <1>2, <2>1, <2>2 DEF Undivided
  <2>5. RestingRow(d)'
    BY <1>2, <1>5, <2>1, <2>3 DEF RestingRow
  <2>6. Phase(c, d)'
    BY <1>2, <1>4, <2>1 DEF Phase
  <2>7. QED  BY <1>2, <2>1, <2>2, <2>4, <2>5, <2>6 DEF Tidy
<1>9. QED  BY <1>6, <1>7, <1>8 DEF SInv

(* remove_device finds everything there is of an undisturbed device.        *)
LEMMA RemoveTidy ==
    ASSUME IInv, SInv, NEW c \in Calls, RemoveDevice(c)
    PROVE  SInv'
<1>1. PICK d \in Devices : call[c].dev = d /\ call[c].pc = "remove"
  BY DEF IInv, CallsRead, RemoveDevice
<1>2. /\ UNCHANGED <<row, known, simulated, failing, up, serving, disturbed>>
      /\ call' = [call EXCEPT ![c].pc = "stopped"]
      /\ \/ /\ serving /\ known
            /\ slaveOf' = [slaveOf EXCEPT ![d] = NoSlave]
            /\ owner' = [s \in Slaves |-> IF s = slaveOf[d] THEN NoDevice ELSE owner[s]]
            /\ stats' = [stats EXCEPT ![d] = FALSE]
         \/ ~(serving /\ known) /\ UNCHANGED <<slaveOf, owner, stats>>
  BY <1>1 DEF RemoveDevice, Unregister, adapterVars, engineVars, process
<1>3. PICK x \in CallRecord : x.dev = d /\ call' = [call EXCEPT ![c] = x]
  BY <1>1, <1>2, NextPhase
<1>4. /\ call'[c].pc = "stopped" /\ call'[c].dev = d
      /\ \A o \in Calls \ {c} : call'[o] = call[o]
  BY <1>1, <1>2, NextPhase
<1>5. /\ slaveOf \in [Devices -> Slaves \cup {NoSlave}] /\ stats \in [Devices -> BOOLEAN]
      /\ owner \in [Slaves -> Devices \cup {NoDevice}]
      /\ slaveOf[d] # NoSlave => owner[slaveOf[d]] = d
  BY DEF IInv, TypeOK, OwnSlave
<1>6. Unplugged'
  <2>1. up
    BY <1>1 DEF SInv, Unplugged
  <2>2. ~serving => \A e \in Devices : Gone(e) => Gone(e)'
    BY <1>2 DEF Gone
  <2>3. QED  BY <1>2, <1>4, <2>1, <2>2 DEF SInv, Unplugged
<1>7. \A e \in Devices \ {d} : Tidy(e)'
  <2>1. \A e \in Devices \ {d} :
            /\ slaveOf'[e] = slaveOf[e] /\ stats'[e] = stats[e]
            /\ \A s \in Slaves : owner'[s] = e <=> owner[s] = e
    BY <1>2, <1>5, LifecycleAssumption
  <2>2. UNCHANGED <<row, known, simulated, failing, serving, disturbed>>
    BY <1>2
  <2>3. QED  BY <1>1, <1>3, <2>1, <2>2, OthersLeftAlone
<1>8. Tidy(d)'
  <2> SUFFICES ASSUME ~disturbed[d] PROVE Tidy(d)'
    BY <1>2 DEF Tidy
  <2>1. /\ \A o \in Calls : Works(o, d) <=> o = c
        /\ RestingRow(d) /\ ~failing[d] /\ row[d].status \in {"running", "error"}
        /\ ~simulated[d]
        /\ \A s \in Slaves : owner[s] = d => slaveOf[d] = s
    BY <1>1, AloneOn DEF Phase
  <2>2. \A o \in Calls : Works(o, d)' <=> o = c
    BY <1>4, <2>1 DEF Works
  <2>3. Gone(d)'
    <3>1. CASE serving /\ known
      BY <1>2, <1>5, <2>1, <3>1, LifecycleAssumption DEF Gone
    <3>2. CASE ~(serving /\ known)
      <4>1. Gone(d)
        BY <2>1, <3>2 DEF SInv, Unplugged, RestingRow
      <4>2. QED  BY <1>2, <3>2, <4>1 DEF Gone
    <3>3. QED  BY <3>1, <3>2
  <2>4. Undivided(d)'
    BY <1>2, <2>1, <2>2 DEF Undivided
  <2>5. RestingRow(d)'
    BY <1>2, <1>4, <2>1, <2>2, <2>3 DEF RestingRow
  <2>6. Phase(c, d)'
    BY <1>2, <1>4, <2>1, <2>3 DEF Phase
  <2>7. QED  BY <2>2, <2>3, <2>4, <2>5, <2>6 DEF Tidy, Gone
<1>9. QED  BY <1>6, <1>7, <1>8 DEF SInv

(* A request ends with its commit: then row and runtime must agree.         *)
LEMMA CommitTidy ==
    ASSUME IInv, SInv, NEW c \in Calls, NEW d \in Devices, call[c].dev = d,
           call' = [call EXCEPT ![c] = Idle],
           UNCHANGED <<known, slaveOf, owner, stats, simulated, failing, up, serving>>,
           \A e \in Devices \ {d} : row'[e] = row[e] /\ disturbed'[e] = disturbed[e],
           disturbed[d] => disturbed'[d],
           ~disturbed'[d] /\ row'[d].status = "running" /\ serving /\ known => Served(d)',
           ~disturbed'[d] /\ row'[d].status = "stopped" => Gone(d)'
    PROVE  SInv'
<1>1. /\ call'[c] = Idle /\ Idle.pc = "idle" /\ Idle.dev = NoDevice /\ Idle \in CallRecord
      /\ \A o \in Calls \ {c} : call'[o] = call[o]
  BY RecordTypes DEF IInv, TypeOK, Idle
<1>2. \A e \in Devices : Gone(e)' <=> Gone(e)
  BY DEF Gone
<1>3. Unplugged'
  BY <1>1, <1>2 DEF SInv, Unplugged
<1>4. \A e \in Devices \ {d} : Tidy(e)'
  BY <1>1, OthersLeftAlone
<1>5. Tidy(d)'
  <2> SUFFICES ASSUME ~disturbed'[d] PROVE Tidy(d)'
    BY DEF Tidy
  <2>1. /\ \A o \in Calls : Works(o, d) <=> o = c
        /\ RestingRow(d) /\ ~failing[d]
        /\ \A s \in Slaves : owner[s] = d => slaveOf[d] = s
    BY AloneOn
  <2>2. \A o \in Calls : ~Works(o, d)'
    BY <1>1, <2>1, LifecycleAssumption DEF Works
  <2>3. Undivided(d)' /\ RestingRow(d)'
    BY <1>2, <2>1, <2>2 DEF Undivided, RestingRow
  <2>4. QED  BY <2>1, <2>2, <2>3 DEF Tidy
<1>6. QED  BY <1>3, <1>4, <1>5 DEF SInv

(* The commits of start_device, stop_device, update_device, delete_device   *)
(* and import_system.                                                       *)
LEMMA CommitsTidy ==
    ASSUME IInv, SInv, NEW c \in Calls,
           \/ CommitStatus(c) \/ CommitUpdate(c) \/ CommitDelete(c) \/ CommitImport(c)
    PROVE  SInv'
<1>1. PICK d \in Devices : call[c].dev = d
  BY DEF IInv, CallsRead, CommitStatus, CommitUpdate, CommitDelete, CommitImport
<1>2. /\ call' = [call EXCEPT ![c] = Idle]
      /\ UNCHANGED <<known, slaveOf, owner, stats, simulated, failing, up, serving>>
  BY DEF CommitStatus, CommitUpdate, CommitDelete, CommitImport, Finish, adapterVars,
         engineVars, process
<1>3. row \in [Devices -> RowRecord] /\ row[d] \in RowRecord
      /\ disturbed \in [Devices -> BOOLEAN]
  BY DEF IInv, TypeOK
<1>4. Gone(d)' <=> Gone(d)
  BY <1>2 DEF Gone
<1>5. CASE CommitStatus(c)
  <2>1. /\ UNCHANGED disturbed /\ call[c].pc \in {"running", "error", "stopped"}
        /\ row' = IF Exists(d) THEN [row EXCEPT ![d].status = call[c].pc] ELSE row
    BY <1>1, <1>5 DEF CommitStatus
  <2>2. \A e \in Devices \ {d} : row'[e] = row[e]
    BY <1>3, <2>1
  <2>3. ASSUME ~disturbed[d]
        PROVE  /\ row'[d].status = "running" /\ serving /\ known => Served(d)'
               /\ row'[d].status = "stopped" => Gone(d)'
    <3>1. Phase(c, d)
      BY <1>1, <2>3, AloneOn
    <3>2. Exists(d)
      BY <2>1, <3>1 DEF Phase, Exists
    <3>3. row'[d].status = call[c].pc /\ row'[d].slave = row[d].slave
      <4>1. PICK x \in {"running", "error", "stopped"} : call[c].pc = x
        BY <2>1
      <4>2. row'[d] = [row[d] EXCEPT !.status = x]
        BY <1>3, <2>1, <3>2, <4>1
      <4>3. QED  BY <1>3, <4>1, <4>2, StatusUpdate
    <3>4. Served(d) => Served(d)'
      BY <1>2, <3>3 DEF Served
    <3>5. QED  BY <1>4, <3>1, <3>3, <3>4 DEF Phase
  <2>4. QED  BY <1>1, <1>2, <2>1, <2>2, <2>3, CommitTidy
<1>6. CASE CommitUpdate(c)
  <2>1. UNCHANGED disturbed /\ call[c].pc = "update"
    BY <1>6 DEF CommitUpdate
  <2>2. (\A e \in Devices \ {d} : row'[e] = row[e]) /\ row'[d].status = row[d].status
    <3>1. CASE UNCHANGED row
      BY <3>1
    <3>2. ASSUME NEW s \in Slaves, row' = [row EXCEPT ![d].slave = s]
          PROVE  (\A e \in Devices \ {d} : row'[e] = row[e]) /\ row'[d].status = row[d].status
      <4>1. row'[d] = [row[d] EXCEPT !.slave = s] /\ \A e \in Devices \ {d} : row'[e] = row[e]
        BY <1>3, <3>2
      <4>2. QED  BY <1>3, <4>1, SlaveUpdate
    <3>3. QED  BY <1>1, <1>6, <3>1, <3>2 DEF CommitUpdate
  <2>3. ASSUME ~disturbed[d]
        PROVE  row[d].status \in {"stopped", "error"} /\ (row[d].status = "stopped" => Gone(d)')
    BY <1>1, <1>4, <2>1, <2>3, AloneOn DEF Phase
  <2>4. QED  BY <1>1, <1>2, <2>1, <2>2, <2>3, CommitTidy
<1>7. CASE CommitDelete(c)
  <2>1. UNCHANGED disturbed /\ row' = [row EXCEPT ![d] = NoRow]
    BY <1>1, <1>7 DEF CommitDelete
  <2>2. row'[d].status = "absent" /\ \A e \in Devices \ {d} : row'[e] = row[e]
    BY <1>3, <2>1, RecordTypes
  <2>3. QED  BY <1>1, <1>2, <2>1, <2>2, CommitTidy
<1>8. CASE CommitImport(c)
  <2>1. disturbed' = [disturbed EXCEPT ![d] = TRUE]
        /\ row' = IF Exists(d) THEN [row EXCEPT ![d].status = "stopped"] ELSE row
    BY <1>1, <1>8 DEF CommitImport
  <2>2. disturbed'[d] /\ \A e \in Devices \ {d} : row'[e] = row[e] /\ disturbed'[e] = disturbed[e]
    BY <1>3, <2>1
  <2>3. QED  BY <1>1, <1>2, <2>2, CommitTidy
<1>9. QED  BY <1>5, <1>6, <1>7, <1>8

(* A new device has a fresh id.                                             *)
LEMMA CreateTidy ==
    ASSUME IInv, SInv, NEW d \in Devices, CreateDevice(d)
    PROVE  SInv'
<1>1. /\ up /\ known /\ ~Busy(d) /\ ~stats[d] /\ ~simulated[d] /\ \A s \in Slaves : owner[s] # d
      /\ UNCHANGED <<known, slaveOf, owner, stats, simulated, failing, call, up, serving>>
      /\ disturbed' = [disturbed EXCEPT ![d] = FALSE]
  BY DEF CreateDevice, adapterVars, engineVars, process
<1>2. PICK s \in Slaves : row' = [row EXCEPT ![d] = [status |-> "stopped", slave |-> s]]
  BY DEF CreateDevice
<1>3. row \in [Devices -> RowRecord] /\ disturbed \in [Devices -> BOOLEAN]
      /\ slaveOf \in [Devices -> Slaves \cup {NoSlave}]
  BY DEF IInv, TypeOK
<1>4. row'[d].status = "stopped" /\ \A e \in Devices \ {d} : row'[e] = row[e]
                                                        /\ disturbed'[e] = disturbed[e]
  BY <1>1, <1>2, <1>3
<1>5. slaveOf[d] = NoSlave
  BY <1>1, <1>3 DEF IInv, OwnSlave
<1>6. \A e \in Devices : Gone(e)' <=> Gone(e)
  BY <1>1 DEF Gone
<1>7. Unplugged'
  BY <1>1, <1>6 DEF SInv, Unplugged
<1>8. \A e \in Devices \ {d} : Tidy(e)'
  BY <1>1, <1>4, OthersTidy DEF SInv, IInv
<1>9. Tidy(d)'
  <2>1. Gone(d)'
    BY <1>1, <1>5 DEF Gone
  <2>2. ~failing'[d] /\ \A c \in Calls : ~Works(c, d)'
    BY <1>1 DEF Busy, Works
  <2>3. Undivided(d)' /\ RestingRow(d)'
    BY <1>1, <1>4, <2>1, <2>2 DEF Undivided, RestingRow
  <2>4. QED  BY <2>1, <2>2, <2>3 DEF Tidy, Gone
<1>10. QED  BY <1>7, <1>8, <1>9 DEF SInv

(* The engine gives a device up, and says so.                               *)
LEMMA EngineTidy ==
    ASSUME IInv, SInv, NEW d \in Devices, EngineGivesUp(d) \/ SetDeviceError(d)
    PROVE  SInv'
<1>1. /\ row \in [Devices -> RowRecord] /\ disturbed \in [Devices -> BOOLEAN]
      /\ simulated \in [Devices -> BOOLEAN] /\ failing \in [Devices -> BOOLEAN]
  BY DEF IInv, TypeOK
<1>2. up /\ UNCHANGED <<known, slaveOf, owner, stats, call, up, serving>>
  BY DEF EngineGivesUp, SetDeviceError, adapterVars, process
<1>3. /\ simulated'[d] => simulated[d]
      /\ \A e \in Devices \ {d} : /\ row'[e] = row[e] /\ simulated'[e] = simulated[e]
                                  /\ failing'[e] = failing[e] /\ disturbed'[e] = disturbed[e]
  BY <1>1 DEF EngineGivesUp, SetDeviceError, Mark
<1>4. \A e \in Devices : Gone(e) => Gone(e)'
  BY <1>2, <1>3 DEF Gone
<1>5. Unplugged'
  BY <1>2, <1>4 DEF SInv, Unplugged
<1>6. \A e \in Devices \ {d} : Tidy(e)'
  BY <1>2, <1>3, OthersTidy DEF SInv, IInv
<1>7. Tidy(d)'
  <2> SUFFICES ASSUME ~disturbed'[d] PROVE Tidy(d)'
    BY DEF Tidy
  <2>1. ~disturbed[d]
    BY <1>1 DEF EngineGivesUp, SetDeviceError, Mark
  <2>2. /\ \A s \in Slaves : owner[s] = d => slaveOf[d] = s
        /\ Undivided(d) /\ RestingRow(d)
    BY <2>1 DEF SInv, Tidy
  <2>3. \A c \in Calls : ~Works(c, d)
    <3>1. CASE EngineGivesUp(d)
      BY <1>1, <3>1 DEF EngineGivesUp, Mark, Busy, Works
    <3>2. CASE SetDeviceError(d)
      BY <2>2, <3>2 DEF SetDeviceError, Undivided
    <3>3. QED  BY <3>1, <3>2
  <2>4. \A c \in Calls : ~Works(c, d)'
    BY <1>2, <2>3 DEF Works
  <2>5. row'[d] = row[d] \/ row'[d].status = "error"
    BY <1>1 DEF EngineGivesUp, SetDeviceError, RowRecord
  <2>6. failing'[d] => row'[d].status # "stopped"
    <3>1. CASE EngineGivesUp(d)
      <4>1. simulated[d] /\ row' = row
        BY <3>1 DEF EngineGivesUp
      <4>2. row[d].status # "stopped"
        BY <2>2, <2>3, <4>1 DEF RestingRow, Gone
      <4>3. QED  BY <4>1, <4>2
    <3>2. CASE SetDeviceError(d)
      BY <1>1, <3>2 DEF SetDeviceError
    <3>3. QED  BY <3>1, <3>2
  <2>7. Undivided(d)'
    BY <2>4, <2>6 DEF Undivided
  <2>8. RestingRow(d)'
    <3>1. row'[d] = row[d] => (Served(d) => Served(d)')
      BY <1>2 DEF Served
    <3>2. QED  BY <1>2, <1>4, <2>2, <2>3, <2>4, <2>5, <3>1 DEF RestingRow
  <2>9. QED  BY <1>2, <2>2, <2>4, <2>7, <2>8 DEF Tidy
<1>8. QED  BY <1>5, <1>6, <1>7 DEF SInv

(* The process ends and begins again, with the rows it finds.               *)
LEMMA CrashTidy ==
    ASSUME IInv, SInv, Crash
    PROVE  SInv'
<1>1. \A d \in Devices : Gone(d)' /\ ~failing'[d]
  BY LifecycleAssumption DEF Crash, Gone, Nowhere
<1>2. \A c \in Calls : call'[c].pc = "idle" /\ call'[c].dev = NoDevice
  BY DEF Crash, Idle
<1>3. ~serving' /\ ~up'
  BY DEF Crash
<1>4. Unplugged'
  BY <1>1, <1>2, <1>3 DEF Unplugged
<1>5. \A d \in Devices, c \in Calls : ~Works(c, d)'
  BY <1>2, LifecycleAssumption DEF Works
<1>6. \A d \in Devices : Tidy(d)'
  BY <1>1, <1>3, <1>5 DEF Tidy, Undivided, RestingRow, Gone
<1>7. QED  BY <1>4, <1>6 DEF SInv

(* At boot the adapter holds exactly the rows that are resumed.             *)
LEMMA BootTidy ==
    ASSUME IInv, SInv, Boot
    PROVE  SInv'
<1> DEFINE resumed == {d \in Devices : serving' /\ Resumes(d)}
<1>1. /\ ~up /\ up' /\ UNCHANGED <<row, known, failing, call, disturbed>>
      /\ slaveOf' = [d \in Devices |-> IF d \in resumed THEN row[d].slave ELSE NoSlave]
      /\ owner' = [s \in Slaves |->
                     IF \E d \in resumed : row[d].slave = s
                     THEN CHOOSE d \in resumed : row[d].slave = s ELSE NoDevice]
      /\ stats' = [d \in Devices |-> d \in resumed]
      /\ \A d \in Devices : simulated'[d] => d \in resumed
  BY DEF Boot
<1>2. \A c \in Calls : call'[c].pc = "idle" /\ call'[c].dev = NoDevice
  BY <1>1 DEF SInv, Unplugged
<1>3. \A d \in Devices : ~failing'[d]
  BY <1>1 DEF SInv, Unplugged
<1>4. \A d \in resumed : row[d].slave \in Slaves /\ Exists(d)
  BY DEF IInv, UniqueSlaves, Exists, Resumes
<1>5. \A s \in Slaves, d \in Devices : owner'[s] = d <=> d \in resumed /\ row[d].slave = s
  <2> SUFFICES ASSUME NEW s \in Slaves, NEW d \in Devices
               PROVE  owner'[s] = d <=> d \in resumed /\ row[d].slave = s
    OBVIOUS
  <2>1. CASE \E e \in resumed : row[e].slave = s
    <3> DEFINE o == CHOOSE e \in resumed : row[e].slave = s
    <3>1. o \in resumed /\ row[o].slave = s
      BY <2>1
    <3>2. owner'[s] = o
      BY <1>1, <2>1
    <3> HIDE DEF o
    <3>3. d \in resumed /\ row[d].slave = s => d = o
      BY <1>4, <3>1 DEF IInv, UniqueSlaves
    <3>4. QED  BY <3>1, <3>2, <3>3
  <2>2. CASE ~\E e \in resumed : row[e].slave = s
    BY <1>1, <2>2, LifecycleAssumption
  <2>3. QED  BY <2>1, <2>2
<1>6. \A d \in Devices : d \notin resumed => Gone(d)'
  BY <1>1, <1>5 DEF Gone
<1>7. \A d \in resumed : Served(d)'
  BY <1>1, <1>4, <1>5 DEF Served
<1>8. Unplugged'
  BY <1>1, <1>2, <1>6 DEF Unplugged
<1>9. ASSUME NEW d \in Devices PROVE Tidy(d)'
  <2>1. \A c \in Calls : ~Works(c, d)'
    BY <1>2, LifecycleAssumption DEF Works
  <2>2. Undivided(d)'
    BY <1>3, <2>1 DEF Undivided
  <2>3. RestingRow(d)'
    BY <1>1, <1>6, <1>7 DEF RestingRow, Resumes
  <2>4. \A s \in Slaves : owner'[s] = d => slaveOf'[d] = s
    BY <1>1, <1>5
  <2>5. QED  BY <2>1, <2>2, <2>3, <2>4 DEF Tidy
<1>10. QED  BY <1>8, <1>9 DEF SInv

(* Every step keeps undisturbed devices tidy.                               *)
LEMMA StepSInv == IInv /\ SInv /\ [Next]_vars => SInv'
<1> SUFFICES ASSUME IInv, SInv, [Next]_vars PROVE SInv'
  OBVIOUS
<1>1. ASSUME NEW c \in Calls, NEW d \in Devices,
             \/ StartDevice(c, d) \/ StopDevice(c, d) \/ UpdateDevice(c, d)
             \/ DeleteDevice(c, d) \/ ImportSystem(c, d)
      PROVE SInv'
  <2>1. CASE StartDevice(c, d)  BY <2>1, BeginTidy DEF StartDevice
  <2>2. CASE StopDevice(c, d)  BY <2>2, BeginTidy DEF StopDevice
  <2>3. CASE UpdateDevice(c, d)  BY <2>3, BeginTidy DEF UpdateDevice
  <2>4. CASE DeleteDevice(c, d)  BY <2>4, BeginTidy DEF DeleteDevice
  <2>5. CASE ImportSystem(c, d)  BY <2>5, BeginTidy DEF ImportSystem
  <2>6. QED  BY <1>1, <2>1, <2>2, <2>3, <2>4, <2>5
<1>2. ASSUME NEW c \in Calls, CallStep(c) PROVE SInv'
  BY <1>2, AddTidy, StartEngineTidy, StopEngineTidy, RemoveTidy, CommitsTidy DEF CallStep
<1>3. ASSUME NEW d \in Devices, CreateDevice(d) \/ EngineGivesUp(d) \/ SetDeviceError(d)
      PROVE SInv'
  BY <1>3, CreateTidy, EngineTidy
<1>4. CASE UpdateTemplate
  <2>1. /\ \A d \in Devices : disturbed'[d]
        /\ UNCHANGED <<slaveOf, owner, stats, simulated, failing, call, up, serving>>
    BY <1>4 DEF UpdateTemplate, adapterVars, engineVars, process
  <2>2. \A d \in Devices : Tidy(d)' /\ (Gone(d)' <=> Gone(d))
    BY <2>1 DEF Tidy, Gone
  <2>3. Unplugged'
    BY <2>1, <2>2 DEF SInv, Unplugged
  <2>4. QED  BY <2>2, <2>3 DEF SInv
<1>5. CASE UNCHANGED vars
  <2>1. UNCHANGED <<row, known, slaveOf, owner, stats, simulated, failing, call, up, serving,
                    disturbed>>
    BY <1>5 DEF vars
  <2>2. \A d \in Devices : Tidy(d)'
    BY <2>1, OthersTidy DEF SInv, IInv
  <2>3. \A d \in Devices : Gone(d)' <=> Gone(d)
    BY <2>1 DEF Gone
  <2>4. Unplugged'
    BY <2>1, <2>3 DEF SInv, Unplugged
  <2>5. QED  BY <2>2, <2>4 DEF SInv
<1>6. QED  BY <1>1, <1>2, <1>3, <1>4, <1>5, CrashTidy, BootTidy DEF Next

(* A device at rest: no request works on it, so only the row speaks.        *)
LEMMA SettledRests ==
    ASSUME SInv, NEW d \in Devices, Settled(d)
    PROVE  RestingRow(d) /\ \A c \in Calls : ~Works(c, d)
BY DEF SInv, Settled, Busy, Tidy, Works

-----------------------------------------------------------------------------
(* start_device and resume_running_devices: for any number of devices, a    *)
(* running device that nothing interfered with is served, under its row's   *)
(* slave id and with its statistics.                                        *)
THEOREM RunningDevicesServed == Spec => []RunningIsServed
<1>1. SInv => RunningIsServed
  <2> SUFFICES ASSUME SInv, NEW d \in Devices, row[d].status = "running",
                      serving, known, Settled(d)
               PROVE  slaveOf[d] = row[d].slave /\ owner[row[d].slave] = d /\ stats[d]
    BY DEF RunningIsServed
  <2>1. QED  BY SettledRests DEF RestingRow, Served
<1>2. QED  BY InitIInv, InitSInv, StepIInv, StepSInv, <1>1, PTL DEF Spec

(* stop_device: a stopped device that nothing interfered with has no slave, *)
(* no statistics and no simulation left.                                    *)
THEOREM StoppedDevicesGone == Spec => []StoppedIsGone
<1>1. SInv => StoppedIsGone
  <2> SUFFICES ASSUME SInv, NEW d \in Devices, row[d].status = "stopped", Settled(d)
               PROVE  Gone(d)
    BY DEF StoppedIsGone, Gone
  <2>1. QED  BY SettledRests DEF RestingRow
<1>2. QED  BY InitIInv, InitSInv, StepIInv, StepSInv, <1>1, PTL DEF Spec

(* _slave_to_device holds no slave of an undisturbed device that            *)
(* _device_to_slave has forgotten: remove_device finds every one.           *)
THEOREM NoSlaveIsLost == Spec => []NoGhostSlave
<1>1. SInv => NoGhostSlave
  BY DEF SInv, Tidy, NoGhostSlave
<1>2. QED  BY InitIInv, InitSInv, StepIInv, StepSInv, <1>1, PTL DEF Spec

(* What a commit does to the row of a device nobody interfered with.        *)
LEMMA CommitIsLegal ==
    ASSUME IInv, SInv, NEW c \in Calls, NEW d \in Devices, call[c].dev = d, ~disturbed[d],
           \/ CommitStatus(c) \/ CommitUpdate(c) \/ CommitDelete(c) \/ CommitImport(c)
    PROVE  /\ row[d].status = "running" => row'[d].slave = row[d].slave
           /\ row[d].status = "error" => row'[d].status # "running"
<1>1. Phase(c, d)
  BY AloneOn
<1>2. row \in [Devices -> RowRecord] /\ row[d] \in RowRecord
  BY DEF IInv, TypeOK
<1>3. CASE UNCHANGED row
  BY <1>3
<1>4. ASSUME NEW x \in {"running", "error", "stopped"}, row' = [row EXCEPT ![d].status = x],
             x = "running" => row[d].status = "stopped"
      PROVE  /\ row[d].status = "running" => row'[d].slave = row[d].slave
             /\ row[d].status = "error" => row'[d].status # "running"
  <2>1. row'[d] = [row[d] EXCEPT !.status = x]
    BY <1>2, <1>4
  <2>2. QED  BY <1>2, <1>4, <2>1, StatusUpdate
<1>5. CASE CommitStatus(c)
  <2>1. call[c].pc \in {"running", "error", "stopped"}
        /\ (UNCHANGED row \/ row' = [row EXCEPT ![d].status = call[c].pc])
    BY <1>5 DEF CommitStatus
  <2>2. call[c].pc = "running" => row[d].status = "stopped"
    BY <1>1 DEF Phase
  <2>3. QED  BY <1>3, <1>4, <2>1, <2>2
<1>6. CASE CommitUpdate(c)
  <2>1. row[d].status \in {"stopped", "error"}
    BY <1>1, <1>6 DEF CommitUpdate, Phase
  <2>2. ASSUME NEW s \in Slaves, row' = [row EXCEPT ![d].slave = s]
        PROVE  row'[d].status = row[d].status
    <3>1. row'[d] = [row[d] EXCEPT !.slave = s]
      BY <1>2, <2>2
    <3>2. QED  BY <1>2, <3>1, SlaveUpdate
  <2>3. row'[d].status = row[d].status
    BY <1>6, <2>2 DEF CommitUpdate
  <2>4. QED  BY <2>1, <2>3
<1>7. CASE CommitDelete(c)
  <2>1. row[d].status \in {"stopped", "error"} /\ row' = [row EXCEPT ![d] = NoRow]
    BY <1>1, <1>7 DEF CommitDelete, Phase
  <2>2. row'[d].status = "absent"
    BY <1>2, <2>1, RecordTypes
  <2>3. QED  BY <2>1, <2>2
<1>8. CASE CommitImport(c)
  <2>1. UNCHANGED row \/ row' = [row EXCEPT ![d].status = "stopped"]
    BY <1>8 DEF CommitImport
  <2>2. QED  BY <1>3, <1>4, <2>1
<1>9. QED  BY <1>5, <1>6, <1>7, <1>8

(* The guards of update_device, delete_device and start_device still hold   *)
(* when they commit: a running device keeps its slave id and an errored one *)
(* is stopped before it runs, unless requests raced.                        *)
THEOREM TransitionsAreLegal == Spec => LegalTransitions
<1> DEFINE Legal(d) == /\ row[d].status = "running" => row'[d].slave = row[d].slave
                       /\ row[d].status = "error" => row'[d].status # "running"
<1>1. ASSUME IInv, SInv, [Next]_vars, NEW d \in Devices, ~disturbed[d]
      PROVE  Legal(d)
  <2>1. CASE row'[d] = row[d]
    BY <2>1
  <2>2. ASSUME NEW c \in Calls, NEW e \in Devices, call[c].dev = e,
               \/ CommitStatus(c) \/ CommitUpdate(c) \/ CommitDelete(c) \/ CommitImport(c)
        PROVE  Legal(d)
    <3>1. CASE e = d
      BY <1>1, <2>2, <3>1, CommitIsLegal
    <3>2. CASE e # d
      <4>1. row \in [Devices -> RowRecord]
        BY <1>1 DEF IInv, TypeOK
      <4>2. row'[d] = row[d]
        BY <2>2, <3>2, <4>1 DEF CommitStatus, CommitUpdate, CommitDelete, CommitImport
      <4>3. QED  BY <4>2
    <3>3. QED  BY <3>1, <3>2
  <2>3. ASSUME NEW c \in Calls, CallStep(c) PROVE Legal(d)
    <3>1. CASE AddDevice(c) \/ StartEngine(c) \/ StopEngine(c) \/ RemoveDevice(c)
      <4>1. row' = row
        BY <3>1 DEF AddDevice, StartEngine, StopEngine, RemoveDevice
      <4>2. QED  BY <2>1, <4>1
    <3>2. CASE \/ CommitStatus(c) \/ CommitUpdate(c) \/ CommitDelete(c) \/ CommitImport(c)
      <4>1. call[c].dev \in Devices
        BY <1>1, <3>2
        DEF IInv, CallsRead, CommitStatus, CommitUpdate, CommitDelete, CommitImport
      <4>2. QED  BY <2>2, <3>2, <4>1
    <3>3. QED  BY <2>3, <3>1, <3>2 DEF CallStep
  <2>4. ASSUME NEW c \in Calls, NEW e \in Devices,
               \/ StartDevice(c, e) \/ StopDevice(c, e) \/ UpdateDevice(c, e)
               \/ DeleteDevice(c, e) \/ ImportSystem(c, e)
        PROVE Legal(d)
    <3>1. row' = row
      BY <2>4 DEF StartDevice, StopDevice, UpdateDevice, DeleteDevice, ImportSystem, Begin
    <3>2. QED  BY <2>1, <3>1
  <2>5. ASSUME NEW e \in Devices, CreateDevice(e) PROVE Legal(d)
    <3>1. row \in [Devices -> RowRecord] /\ row[e].status = "absent"
      BY <1>1, <2>5 DEF CreateDevice, Exists, IInv, TypeOK
    <3>2. e # d => row'[d] = row[d]
      BY <2>5, <3>1 DEF CreateDevice
    <3>3. QED  BY <2>1, <3>1, <3>2
  <2>6. ASSUME NEW e \in Devices, EngineGivesUp(e) \/ SetDeviceError(e) PROVE Legal(d)
    <3>1. row \in [Devices -> RowRecord] /\ row[d] \in RowRecord
      BY <1>1 DEF IInv, TypeOK
    <3>2. row'[d] = row[d] \/ row'[d] = [row[d] EXCEPT !.status = "error"]
      BY <2>6, <3>1 DEF EngineGivesUp, SetDeviceError
    <3>3. QED  BY <2>1, <3>1, <3>2, StatusUpdate
  <2>7. CASE UpdateTemplate \/ Crash \/ Boot \/ UNCHANGED vars
    <3>1. row' = row
      BY <2>7 DEF UpdateTemplate, Crash, Boot, vars
    <3>2. QED  BY <2>1, <3>1
  <2>8. QED  BY <1>1, <2>3, <2>4, <2>5, <2>6, <2>7 DEF Next
<1>2. IInv /\ SInv /\ [Next]_vars =>
        [\A d \in Devices : ~disturbed[d] => Legal(d)]_vars
  BY <1>1
<1>3. QED  BY InitIInv, InitSInv, StepIInv, StepSInv, <1>2, PTL DEF Spec, LegalTransitions
=============================================================================
