------------------------ MODULE ProtocolServersProofs ------------------------
(***************************************************************************)
(* For any devices, slaves, requests, nodes, object identifiers and LAN    *)
(* addresses: what the four protocol servers promise their clients.  The   *)
(* servers are taken one after the other; each leaves the state of the     *)
(* others alone, and what they share is the log of writes and the entries  *)
(* of the statistics.                                                      *)
(***************************************************************************)
EXTENDS ProtocolServers, FiniteSetTheorems, TLAPS

-----------------------------------------------------------------------------
(* What the servers share. *)

CommsInv == CommsTypeOK /\ UnreadIsListed

(* A write that is recorded: the ring buffer loses an unread event only when
   it is full. *)
LEMMA RecordKeeps ==
    ASSUME CommsInv, NEW d \in Devices, record(d), UNCHANGED <<fault, counting>>
    PROVE  CommsInv'
BY CommsAssumption, Z3 DEF CommsInv, CommsTypeOK, UnreadIsListed, record

(* WriteTracker.clear clears the events and the unread count together. *)
LEMMA ForgetKeeps ==
    ASSUME CommsInv, NEW ds, Forget(ds), UNCHANGED fault, counting' \subseteq Devices
    PROVE  CommsInv'
BY CommsAssumption, Z3 DEF CommsInv, CommsTypeOK, UnreadIsListed, Forget

(* Acknowledging takes nothing from the list. *)
LEMMA AckKeeps ==
    ASSUME CommsInv, NEW d \in Devices, mark_read(d)
    PROVE  CommsInv'
BY CommsAssumption, Z3 DEF CommsInv, CommsTypeOK, UnreadIsListed, mark_read

(* A change of the fault state or of the statistics leaves the log alone. *)
LEMMA QuietKeeps ==
    ASSUME CommsInv, UNCHANGED <<events, unread>>, counting' \subseteq Devices,
           fault' = fault \/ \E d \in Devices, f \in FaultTypes \cup {"none"} :
                                fault' = [fault EXCEPT ![d] = f]
    PROVE  CommsInv'
BY CommsAssumption, Z3 DEF CommsInv, CommsTypeOK, UnreadIsListed

(* Adding and dropping an entry of the statistics. *)
LEMMA StatsTypes ==
    ASSUME counting \subseteq Devices, NEW d \in Devices
    PROVE  (AddStats(d) => counting' \subseteq Devices)
           /\ (DropStats(d) => counting' \subseteq Devices)
BY DEF AddStats, DropStats

(* The fault routes of a server whose fault hooks do nothing. *)
LEMMA FaultRoutes ==
    ASSUME CommsInv, NEW d \in Devices, NEW fs \in SUBSET FaultTypes,
           SetFault(d, fs) \/ ClearFault(d)
    PROVE  CommsInv' /\ UNCHANGED <<events, unread, counting>>
<1>1. UNCHANGED <<events, unread, counting>> /\ counting' \subseteq Devices
  BY DEF SetFault, ClearFault, CommsInv, CommsTypeOK
<1>2. \E f \in FaultTypes \cup {"none"} : fault' = [fault EXCEPT ![d] = f]
  BY DEF SetFault, ClearFault, set_fault, clear_fault
<1> QED BY <1>1, <1>2, QuietKeeps

-----------------------------------------------------------------------------
(* Modbus.  ServedIsRegistered and RequestCountedOnce need to know what the
   pending restores will put back, and how a request on its way stands with
   the counters, the context and the transaction ids. *)

ReqRecord == [st : {"idle", "arrived", "ended"},
              slave : Slaves \cup {None}, tid : Tids \cup {None},
              counts : 0 .. 2, crossed : BOOLEAN]

RestoreRecord == [slave : Slaves, ctx : Contexts, by : Requests]

(* The two maps agree, but for the slaves a second add left behind. *)
SlaveMaps ==
    /\ \A d \in Devices : slaveOf[d] # None => slaveDev[slaveOf[d]] = d
    /\ \A s \in Slaves : slaveDev[s] # None => slaveOf[slaveDev[s]] = s \/ s \in leftBehind

(* A restore that holds an old datastore is for a slave that is not there, or
   that was added again. *)
StaleIsRefilled ==
    \A i \in 1 .. Len(restores) :
        restores[i].ctx = "stale" /\ slaveDev[restores[i].slave] # None
            => restores[i].slave \in refilled

(* Only slaves with a device are served, and an old datastore only after a
   second add. *)
ServedHasDevice ==
    \A s \in Slaves :
        /\ served[s] # "none" => slaveDev[s] # None
        /\ served[s] = "stale" => s \in refilled

(* A registered slave is served, or about to be. *)
AbsentIsPending == \A s \in Slaves : slaveDev[s] # None /\ served[s] = "none" => Pending(s)

(* A request that nothing has crossed was either dropped, is counted, and its
   own restore alone can bring the slave back; or it will be answered, and
   the time its transaction began is known. *)
OnCourse(r) ==
    /\ req[r].slave \in Slaves
    /\ slaveDev[req[r].slave] \in counting
    /\ \A o \in Requests \ {r} : Open(o) => req[o].tid # req[r].tid
    /\ \/ /\ req[r].counts = 1
          /\ served[req[r].slave] = "none"
          /\ \A i \in 1 .. Len(restores) :
                restores[i].slave = req[r].slave => restores[i].by = r
       \/ /\ req[r].counts = 0
          /\ served[req[r].slave] # "none"
          /\ req[r].tid \in started

RequestsOnCourse == \A r \in Requests : Open(r) /\ ~ req[r].crossed => OnCourse(r)

ModbusInv ==
    /\ ModbusTypeOK /\ SlaveMaps /\ StaleIsRefilled /\ AbsentIsPending
    /\ ServedHasDevice /\ RequestsOnCourse /\ RequestCountedOnce

(* The property of the runs follows. *)
LEMMA ServedAsRegistered ==
    ASSUME ModbusInv
    PROVE  ServedIsRegistered
BY DEF ModbusInv, SlaveMaps, ServedHasDevice, ServedIsRegistered

(* Cross only marks requests on their way. *)
LEMMA CrossFacts ==
    ASSUME NEW q \in [Requests -> ReqRecord], NEW ss, NEW t
    PROVE  /\ Cross(q, ss, t) \in [Requests -> ReqRecord]
           /\ \A r \in Requests :
                /\ Cross(q, ss, t)[r].st = q[r].st
                /\ Cross(q, ss, t)[r].slave = q[r].slave
                /\ Cross(q, ss, t)[r].tid = q[r].tid
                /\ Cross(q, ss, t)[r].counts = q[r].counts
                /\ ~ Cross(q, ss, t)[r].crossed => ~ q[r].crossed
                /\ ~ Cross(q, ss, t)[r].crossed /\ q[r].st = "arrived"
                        => q[r].slave \notin ss /\ q[r].tid # t
<1> SUFFICES ASSUME NEW r \in Requests
             PROVE  /\ Cross(q, ss, t)[r] \in ReqRecord
                    /\ Cross(q, ss, t)[r].st = q[r].st
                    /\ Cross(q, ss, t)[r].slave = q[r].slave
                    /\ Cross(q, ss, t)[r].tid = q[r].tid
                    /\ Cross(q, ss, t)[r].counts = q[r].counts
                    /\ ~ Cross(q, ss, t)[r].crossed => ~ q[r].crossed
                    /\ ~ Cross(q, ss, t)[r].crossed /\ q[r].st = "arrived"
                            => q[r].slave \notin ss /\ q[r].tid # t
  BY DEF Cross
<1>1. q[r] \in ReqRecord
  OBVIOUS
<1>2. CASE q[r].st = "arrived" /\ (q[r].slave \in ss \/ q[r].tid = t)
  <2>1. Cross(q, ss, t)[r] = [q[r] EXCEPT !.crossed = TRUE]
    BY <1>2 DEF Cross
  <2> QED BY <1>1, <1>2, <2>1 DEF ReqRecord
<1>3. CASE ~ (q[r].st = "arrived" /\ (q[r].slave \in ss \/ q[r].tid = t))
  <2>1. Cross(q, ss, t)[r] = q[r]
    BY <1>3 DEF Cross
  <2> QED BY <1>1, <1>3, <2>1
<1> QED BY <1>2, <1>3

(* A step that crosses requests and leaves the answer to the others as it was
   keeps them on their course. *)
LEMMA CrossKeepsCourse ==
    ASSUME ModbusInv, NEW ss, NEW t, req' = Cross(req, ss, t),
           \A r \in Requests :
              Open(r) /\ req[r].slave \notin ss /\ OnCourse(r) =>
                 /\ slaveDev'[req[r].slave] \in counting'
                 /\ served'[req[r].slave] = served[req[r].slave],
           started \subseteq started',
           Len(restores') = Len(restores),
           \A i \in 1 .. Len(restores) : restores'[i].slave = restores[i].slave
                                         /\ restores'[i].by = restores[i].by
    PROVE  /\ req' \in [Requests -> ReqRecord]
           /\ RequestsOnCourse' /\ RequestCountedOnce'
<1>1. req \in [Requests -> ReqRecord]
  BY DEF ModbusInv, ModbusTypeOK, ReqRecord
<1>2. /\ req' \in [Requests -> ReqRecord]
      /\ \A r \in Requests :
            /\ req'[r].st = req[r].st
            /\ req'[r].slave = req[r].slave
            /\ req'[r].tid = req[r].tid
            /\ req'[r].counts = req[r].counts
            /\ ~ req'[r].crossed => ~ req[r].crossed
            /\ ~ req'[r].crossed /\ req[r].st = "arrived" => req[r].slave \notin ss
  BY <1>1, CrossFacts
<1>3. RequestCountedOnce'
  BY <1>2 DEF ModbusInv, RequestCountedOnce
<1>4. ASSUME NEW r \in Requests, req'[r].st = "arrived", ~ req'[r].crossed
      PROVE  OnCourse(r)'
  <2>1. Open(r) /\ OnCourse(r) /\ req[r].slave \notin ss
    BY <1>2, <1>4 DEF ModbusInv, RequestsOnCourse, Open
  <2>2. slaveDev'[req[r].slave] \in counting' /\ served'[req[r].slave] = served[req[r].slave]
    BY <2>1
  <2> QED BY <1>2, <2>1, <2>2 DEF OnCourse, Open
<1> QED BY <1>2, <1>3, <1>4 DEF RequestsOnCourse, Open

(* add_device on a slave id that is taken. *)
LEMMA ModbusAddRefusedKeeps ==
    ASSUME ModbusInv, CommsInv, NEW d \in Devices, NEW s \in Slaves, ModbusAddRefused(d, s)
    PROVE  ModbusInv' /\ CommsInv'
<1>1. CommsInv'
  <2>1. counting' \subseteq Devices /\ UNCHANGED <<fault, events, unread>>
    BY StatsTypes DEF ModbusAddRefused, CommsInv, CommsTypeOK
  <2> QED BY <2>1, QuietKeeps
<1>2. /\ req' = Cross(req, SlavesOf(d), None) /\ counting' = counting \ {d}
      /\ UNCHANGED <<mRunning, slaveOf, slaveDev, served, restores, started, refilled,
                     leftBehind>>
  BY DEF ModbusAddRefused, DropStats
<1>3. req' \in [Requests -> ReqRecord] /\ RequestsOnCourse' /\ RequestCountedOnce'
  <2>1. ASSUME NEW r \in Requests, req[r].slave \notin SlavesOf(d), OnCourse(r)
        PROVE  slaveDev'[req[r].slave] \in counting' /\ served'[req[r].slave] = served[req[r].slave]
    BY <1>2, <2>1 DEF OnCourse, SlavesOf
  <2> QED BY <1>2, <2>1, CrossKeepsCourse
<1>4. ModbusTypeOK'
  BY <1>2, <1>3 DEF ModbusInv, ModbusTypeOK, ReqRecord
<1>5. SlaveMaps' /\ StaleIsRefilled' /\ AbsentIsPending' /\ ServedHasDevice'
  BY <1>2 DEF ModbusInv, SlaveMaps, StaleIsRefilled, AbsentIsPending, ServedHasDevice,
              Pending
<1> QED BY <1>1, <1>3, <1>4, <1>5 DEF ModbusInv

(* add_device: a pending restore for the slave is noted, and so is the slave
   the device had before. *)
LEMMA ModbusAddKeeps ==
    ASSUME ModbusInv, CommsInv, NEW d \in Devices, NEW s \in Slaves, ModbusAdd(d, s)
    PROVE  ModbusInv' /\ CommsInv'
<1>1. CommsInv'
  <2>1. counting' \subseteq Devices /\ UNCHANGED <<fault, events, unread>>
    BY StatsTypes DEF ModbusAdd, CommsInv, CommsTypeOK
  <2> QED BY <2>1, QuietKeeps
<1>2. /\ req' = Cross(req, {s} \cup SlavesOf(d), None) /\ counting' = counting \cup {d}
      /\ slaveDev[s] = None
      /\ slaveOf' = [slaveOf EXCEPT ![d] = s]
      /\ slaveDev' = [slaveDev EXCEPT ![s] = d]
      /\ served' = [served EXCEPT ![s] = "current"]
      /\ refilled' = IF Pending(s) THEN refilled \cup {s} ELSE refilled \ {s}
      /\ leftBehind' = leftBehind \cup ({slaveOf[d]} \ {None})
      /\ UNCHANGED <<mRunning, restores, started>>
  BY DEF ModbusAdd, AddStats
<1>3. /\ slaveDev \in [Slaves -> Devices \cup {None}]
      /\ slaveOf \in [Devices -> Slaves \cup {None}] /\ leftBehind \subseteq Slaves
      /\ served \in [Slaves -> Contexts \cup {"none"}]
      /\ restores \in Seq(RestoreRecord) /\ refilled \subseteq Slaves
  BY DEF ModbusInv, ModbusTypeOK, RestoreRecord
<1>4. req' \in [Requests -> ReqRecord] /\ RequestsOnCourse' /\ RequestCountedOnce'
  <2> DEFINE ss == {s} \cup SlavesOf(d)
  <2>1. ASSUME NEW r \in Requests, req[r].slave \notin ss, OnCourse(r)
        PROVE  slaveDev'[req[r].slave] \in counting' /\ served'[req[r].slave] = served[req[r].slave]
    BY <1>2, <1>3, <2>1 DEF OnCourse
  <2>2. req' = Cross(req, ss, None)
    BY <1>2
  <2> HIDE DEF ss
  <2> QED BY <1>2, <2>1, <2>2, CrossKeepsCourse
<1>5. ModbusTypeOK'
  BY <1>2, <1>3, <1>4 DEF ModbusInv, ModbusTypeOK, ReqRecord, Contexts
<1>6. SlaveMaps'
  <2>1. ASSUME NEW e \in Devices, slaveOf'[e] # None
        PROVE  slaveDev'[slaveOf'[e]] = e
    <3>1. CASE e = d
      BY <1>2, <1>3, <3>1
    <3>2. CASE e # d
      <4>1. slaveOf'[e] = slaveOf[e] /\ slaveDev[slaveOf[e]] = e
        BY <1>2, <1>3, <2>1, <3>2 DEF ModbusInv, SlaveMaps
      <4>2. slaveOf[e] # s
        BY <1>2, <4>1, CommsAssumption
      <4> QED BY <1>2, <1>3, <4>1, <4>2
    <3> QED BY <3>1, <3>2
  <2>2. ASSUME NEW x \in Slaves, slaveDev'[x] # None
        PROVE  slaveOf'[slaveDev'[x]] = x \/ x \in leftBehind'
    <3>1. CASE x = s
      BY <1>2, <1>3, <3>1
    <3>2. CASE x # s
      <4>1. slaveDev'[x] = slaveDev[x] /\ slaveDev[x] \in Devices
        BY <1>2, <1>3, <2>2, <3>2
      <4>2. slaveOf[slaveDev[x]] = x \/ x \in leftBehind
        BY <2>2, <4>1 DEF ModbusInv, SlaveMaps
      <4>3. CASE slaveDev[x] = d
        BY <1>2, <4>2, <4>3, SlavesAssumption
      <4>4. CASE slaveDev[x] # d
        BY <1>2, <1>3, <4>1, <4>2, <4>4
      <4> QED BY <4>3, <4>4
    <3> QED BY <3>1, <3>2
  <2> QED BY <2>1, <2>2 DEF SlaveMaps
<1>7. StaleIsRefilled'
  <2> SUFFICES ASSUME NEW i \in 1 .. Len(restores), restores[i].ctx = "stale",
                      slaveDev'[restores[i].slave] # None
               PROVE  restores[i].slave \in refilled'
    BY <1>2 DEF StaleIsRefilled
  <2>0. restores[i] \in RestoreRecord
    BY <1>3
  <2>1. restores[i].slave \in Slaves
    BY <2>0 DEF RestoreRecord
  <2>2. CASE restores[i].slave = s
    BY <1>2, <2>2 DEF Pending
  <2>3. CASE restores[i].slave # s
    BY <1>2, <1>3, <2>1, <2>3 DEF ModbusInv, StaleIsRefilled
  <2> QED BY <2>2, <2>3
<1>8. AbsentIsPending' /\ ServedHasDevice'
  <2> SUFFICES ASSUME NEW x \in Slaves
               PROVE  /\ slaveDev'[x] # None /\ served'[x] = "none" => Pending(x)'
                      /\ served'[x] # "none" => slaveDev'[x] # None
                      /\ served'[x] = "stale" => x \in refilled'
    BY DEF AbsentIsPending, ServedHasDevice
  <2>1. CASE x = s
    BY <1>2, <1>3, <2>1, CommsAssumption
  <2>2. CASE x # s
    BY <1>2, <1>3, <2>2 DEF ModbusInv, AbsentIsPending, ServedHasDevice, Pending
  <2> QED BY <2>1, <2>2
<1> QED BY <1>1, <1>4, <1>5, <1>6, <1>7, <1>8 DEF ModbusInv

(* remove_device: what a pending restore holds becomes stale. *)
LEMMA ModbusRemoveKeeps ==
    ASSUME ModbusInv, CommsInv, NEW d \in Devices, ModbusRemove(d)
    PROVE  ModbusInv' /\ CommsInv'
<1>1. CommsInv'
  <2>1. counting' \subseteq Devices /\ UNCHANGED fault /\ Forget({d})
    BY StatsTypes DEF ModbusRemove, CommsInv, CommsTypeOK
  <2> QED BY <2>1, ForgetKeeps
<1>0. slaveOf \in [Devices -> Slaves \cup {None}] /\ slaveOf[d] # None
  BY DEF ModbusRemove, ModbusInv, ModbusTypeOK
<1> PICK s \in Slaves : s = slaveOf[d]
  BY <1>0
<1>2. /\ slaveOf' = [slaveOf EXCEPT ![d] = None]
      /\ slaveDev' = [slaveDev EXCEPT ![s] = None]
      /\ served' = [served EXCEPT ![s] = "none"]
      /\ restores' = Outdate(s) /\ counting' = counting \ {d}
      /\ UNCHANGED <<mRunning, started, refilled, leftBehind>>
  BY DEF ModbusRemove, DropStats
<1>3. /\ slaveDev \in [Slaves -> Devices \cup {None}]
      /\ served \in [Slaves -> Contexts \cup {"none"}]
      /\ restores \in Seq(RestoreRecord) /\ refilled \subseteq Slaves
  BY DEF ModbusInv, ModbusTypeOK, RestoreRecord
<1>4. slaveDev[s] = d
  BY <1>0 DEF ModbusInv, SlaveMaps
<1>5. req' = Cross(req, SlavesOf(d), None)
  BY DEF ModbusRemove
<1>6. /\ restores' \in Seq(RestoreRecord) /\ Len(restores') = Len(restores)
      /\ \A i \in 1 .. Len(restores) :
            /\ restores'[i].slave = restores[i].slave
            /\ restores'[i].by = restores[i].by
            /\ restores[i].slave \in Slaves
            /\ restores[i].slave # s => restores'[i] = restores[i]
  <2>1. \A i \in 1 .. Len(restores) : restores[i] \in RestoreRecord
    BY <1>3
  <2>2. ASSUME NEW i \in 1 .. Len(restores)
        PROVE  /\ Outdate(s)[i] \in RestoreRecord
               /\ Outdate(s)[i].slave = restores[i].slave
               /\ Outdate(s)[i].by = restores[i].by
               /\ restores[i].slave \in Slaves
               /\ restores[i].slave # s => Outdate(s)[i] = restores[i]
    <3>1. restores[i] \in RestoreRecord
      BY <2>1
    <3>2. restores[i].slave \in Slaves
      BY <3>1 DEF RestoreRecord
    <3>3. CASE restores[i].slave = s
      <4>1. Outdate(s)[i] = [restores[i] EXCEPT !.ctx = "stale"]
        BY <3>3 DEF Outdate
      <4> QED BY <3>1, <3>2, <3>3, <4>1 DEF RestoreRecord, Contexts
    <3>4. CASE restores[i].slave # s
      <4>1. Outdate(s)[i] = restores[i]
        BY <3>4 DEF Outdate
      <4> QED BY <3>1, <3>2, <4>1
    <3> QED BY <3>3, <3>4
  <2>3. Outdate(s) \in [1 .. Len(restores) -> RestoreRecord]
    BY <2>2 DEF Outdate
  <2>4. Outdate(s) \in Seq(RestoreRecord) /\ Len(Outdate(s)) = Len(restores)
    BY <1>3, <2>3
  <2> QED BY <1>2, <2>2, <2>4
<1>7. req' \in [Requests -> ReqRecord] /\ RequestsOnCourse' /\ RequestCountedOnce'
  <2>1. ASSUME NEW r \in Requests, req[r].slave \notin SlavesOf(d), OnCourse(r)
        PROVE  slaveDev'[req[r].slave] \in counting' /\ served'[req[r].slave] = served[req[r].slave]
    <3>1. req[r].slave \in Slaves /\ slaveDev[req[r].slave] # d /\ req[r].slave # s
      BY <1>4, <2>1 DEF OnCourse, SlavesOf
    <3> QED BY <1>2, <1>3, <2>1, <3>1 DEF OnCourse
  <2> QED BY <1>2, <1>5, <1>6, <2>1, CrossKeepsCourse
<1>8. ModbusTypeOK'
  BY <1>0, <1>2, <1>3, <1>6, <1>7 DEF ModbusInv, ModbusTypeOK, ReqRecord, RestoreRecord
<1>9. SlaveMaps'
  <2>1. ASSUME NEW e \in Devices, slaveOf'[e] # None
        PROVE  slaveDev'[slaveOf'[e]] = e
    <3>1. e # d /\ slaveOf'[e] = slaveOf[e] /\ slaveDev[slaveOf[e]] = e
      BY <1>0, <1>2, <2>1 DEF ModbusInv, SlaveMaps
    <3> QED BY <1>0, <1>2, <1>3, <1>4, <2>1, <3>1
  <2>2. ASSUME NEW x \in Slaves, slaveDev'[x] # None
        PROVE  slaveOf'[slaveDev'[x]] = x \/ x \in leftBehind
    <3>1. x # s /\ slaveDev'[x] = slaveDev[x] /\ slaveDev[x] \in Devices
      BY <1>2, <1>3, <2>2
    <3>2. slaveOf[slaveDev[x]] = x \/ x \in leftBehind
      BY <2>2, <3>1 DEF ModbusInv, SlaveMaps
    <3> QED BY <1>0, <1>2, <3>1, <3>2
  <2> QED BY <1>2, <2>1, <2>2 DEF SlaveMaps
<1>10. StaleIsRefilled'
  <2> SUFFICES ASSUME NEW i \in 1 .. Len(restores), restores'[i].ctx = "stale",
                      slaveDev'[restores'[i].slave] # None
               PROVE  restores'[i].slave \in refilled
    BY <1>2, <1>6 DEF StaleIsRefilled
  <2>1. restores[i].slave # s /\ restores[i].slave \in Slaves /\ restores'[i] = restores[i]
    BY <1>2, <1>3, <1>6
  <2> QED BY <1>2, <1>3, <2>1 DEF ModbusInv, StaleIsRefilled
<1>11. AbsentIsPending' /\ ServedHasDevice'
  <2> SUFFICES ASSUME NEW x \in Slaves
               PROVE  /\ slaveDev'[x] # None /\ served'[x] = "none" => Pending(x)'
                      /\ served'[x] # "none" => slaveDev'[x] # None
                      /\ served'[x] = "stale" => x \in refilled
    BY <1>2 DEF AbsentIsPending, ServedHasDevice
  <2>1. CASE x = s
    BY <1>2, <1>3, <2>1
  <2>2. CASE x # s
    <3>1. slaveDev'[x] = slaveDev[x] /\ served'[x] = served[x]
      BY <1>2, <1>3, <2>2
    <3>2. Pending(x) => Pending(x)'
      BY <1>6 DEF Pending
    <3> QED BY <3>1, <3>2 DEF ModbusInv, AbsentIsPending, ServedHasDevice
  <2> QED BY <2>1, <2>2
<1> QED BY <1>1, <1>7, <1>8, <1>9, <1>10, <1>11 DEF ModbusInv

(* stop: nothing is registered, nobody is on the way. *)
LEMMA ModbusStopKeeps ==
    ASSUME ModbusInv, CommsInv, ModbusStop
    PROVE  ModbusInv' /\ CommsInv'
<1>1. CommsInv'
  <2>1. /\ counting' \subseteq Devices /\ UNCHANGED fault
        /\ Forget({d \in Devices : slaveOf[d] # None})
    BY DEF ModbusStop
  <2> QED BY <2>1, ForgetKeeps
<1>2. /\ slaveDev' = [s \in Slaves |-> None] /\ served' = [s \in Slaves |-> "none"]
      /\ slaveOf' = [d \in Devices |-> None]
      /\ mRunning' = FALSE /\ started' = {} /\ UNCHANGED <<restores, refilled, leftBehind>>
      /\ req' = [r \in Requests |-> IF Open(r) THEN NoReq ELSE req[r]]
  BY DEF ModbusStop
<1>3. NoReq \in ReqRecord /\ NoReq.st = "idle"
  BY DEF NoReq, ReqRecord
<1>4. \A r \in Requests : req'[r] \in ReqRecord /\ req'[r].st # "arrived"
                          /\ (req'[r].st = "ended" => req'[r] = req[r])
  <2> SUFFICES ASSUME NEW r \in Requests
               PROVE  req'[r] \in ReqRecord /\ req'[r].st # "arrived"
                      /\ (req'[r].st = "ended" => req'[r] = req[r])
    OBVIOUS
  <2>1. req[r] \in ReqRecord
    BY DEF ModbusInv, ModbusTypeOK, ReqRecord
  <2> QED BY <1>2, <1>3, <2>1 DEF Open
<1>5. ModbusTypeOK'
  <2>1. req' \in [Requests -> ReqRecord]
    BY <1>2, <1>4
  <2> QED BY <1>2, <2>1 DEF ModbusInv, ModbusTypeOK, ReqRecord
<1>6. SlaveMaps' /\ StaleIsRefilled' /\ AbsentIsPending' /\ ServedHasDevice'
  <2>0. restores \in Seq(RestoreRecord)
    BY DEF ModbusInv, ModbusTypeOK, RestoreRecord
  <2>1. \A i \in 1 .. Len(restores) : restores[i] \in RestoreRecord
    BY <2>0
  <2>2. \A i \in 1 .. Len(restores) : restores[i].slave \in Slaves
    BY <2>1 DEF RestoreRecord
  <2>3. StaleIsRefilled'
    BY <1>2, <2>2 DEF StaleIsRefilled
  <2> QED BY <1>2, <2>3 DEF SlaveMaps, AbsentIsPending, ServedHasDevice
<1>7. RequestsOnCourse' /\ RequestCountedOnce'
  BY <1>4 DEF RequestsOnCourse, RequestCountedOnce, Open, ModbusInv
<1> QED BY <1>1, <1>5, <1>6, <1>7 DEF ModbusInv

(* A request arrives: if it is dropped its slave is taken out and its own
   restore queued; whoever else is on the way to the slave, or shares its
   transaction id, is crossed. *)
LEMMA ModbusArriveKeeps ==
    ASSUME ModbusInv, CommsInv, NEW r \in Requests, NEW s \in Slaves, NEW t \in Tids,
           NEW write \in BOOLEAN, NEW drop \in BOOLEAN, ModbusArrive(r, s, t, write, drop)
    PROVE  ModbusInv' /\ CommsInv'
<1> DEFINE d == slaveDev[s]
           q == [st |-> "arrived", slave |-> s, tid |-> t,
                 counts |-> IF drop /\ d \in counting THEN 1 ELSE 0,
                 crossed |-> \/ d \notin counting \/ Pending(s)
                             \/ \E o \in Requests : Open(o) /\ req[o].tid = t]
<1>1. /\ mRunning /\ req[r].st = "idle"
      /\ UNCHANGED <<fault, counting, mRunning, slaveOf, slaveDev, refilled, leftBehind>>
      /\ d = None =>
            /\ ~ drop /\ ~ write
            /\ req' = [Cross(req, {}, t) EXCEPT ![r] = q]
            /\ UNCHANGED <<events, unread, served, restores, started>>
      /\ d # None =>
            /\ started' = started \cup {t}
            /\ IF write THEN record(d) ELSE UNCHANGED <<events, unread>>
            /\ IF drop THEN Suppress(r, s) ELSE UNCHANGED <<served, restores>>
            /\ req' = [Cross(req, IF drop THEN {s} ELSE {}, t) EXCEPT ![r] = q]
  BY DEF ModbusArrive
<1>2. /\ slaveDev \in [Slaves -> Devices \cup {None}]
      /\ served \in [Slaves -> Contexts \cup {"none"}]
      /\ restores \in Seq(RestoreRecord) /\ refilled \subseteq Slaves
      /\ req \in [Requests -> ReqRecord] /\ started \subseteq Tids
      /\ counting \subseteq Devices
  BY DEF ModbusInv, ModbusTypeOK, RestoreRecord, ReqRecord, CommsInv, CommsTypeOK
<1>3. CommsInv'
  <2>1. CASE d # None /\ write
    BY <1>1, <1>2, <2>1, RecordKeeps
  <2>2. CASE ~ (d # None /\ write)
    BY <1>1, <1>2, <2>2, QuietKeeps
  <2> QED BY <2>1, <2>2
<1>4. q \in ReqRecord
  BY DEF ReqRecord
<1> DEFINE x == IF drop THEN {s} ELSE {}
<1>5. req' = [Cross(req, x, t) EXCEPT ![r] = q]
  BY <1>1
<1>6. /\ Cross(req, x, t) \in [Requests -> ReqRecord]
      /\ \A o \in Requests :
            /\ Cross(req, x, t)[o].st = req[o].st
            /\ Cross(req, x, t)[o].slave = req[o].slave
            /\ Cross(req, x, t)[o].tid = req[o].tid
            /\ Cross(req, x, t)[o].counts = req[o].counts
            /\ ~ Cross(req, x, t)[o].crossed => ~ req[o].crossed
            /\ ~ Cross(req, x, t)[o].crossed /\ req[o].st = "arrived"
                    => req[o].slave \notin x /\ req[o].tid # t
  BY <1>2, CrossFacts
<1>7. /\ req' \in [Requests -> ReqRecord] /\ req'[r] = q
      /\ \A o \in Requests \ {r} :
            /\ req'[o].st = req[o].st
            /\ req'[o].slave = req[o].slave
            /\ req'[o].tid = req[o].tid
            /\ req'[o].counts = req[o].counts
            /\ ~ req'[o].crossed => ~ req[o].crossed
            /\ ~ req'[o].crossed /\ req[o].st = "arrived" => req[o].slave \notin x /\ req[o].tid # t
  BY <1>4, <1>5, <1>6
<1>8. drop => /\ served' = [served EXCEPT ![s] = "none"]
              /\ restores' = Append(restores, [slave |-> s, ctx |-> "current", by |-> r])
  BY <1>1 DEF Suppress
<1>9. ~ drop => UNCHANGED <<served, restores>>
  BY <1>1
<1>10. /\ restores' \in Seq(RestoreRecord) /\ Len(restores') >= Len(restores)
       /\ \A i \in 1 .. Len(restores) : restores'[i] = restores[i]
       /\ \A i \in 1 .. Len(restores') : i \in 1 .. Len(restores)
             \/ (drop /\ restores'[i] = [slave |-> s, ctx |-> "current", by |-> r])
       /\ drop => \E i \in 1 .. Len(restores') : restores'[i].slave = s
  <2>1. [slave |-> s, ctx |-> "current", by |-> r] \in RestoreRecord
    BY DEF RestoreRecord, Contexts
  <2>2. CASE drop
    <3> PICK e \in RestoreRecord : e = [slave |-> s, ctx |-> "current", by |-> r]
      BY <2>1
    <3>0. restores' = Append(restores, e) /\ e.slave = s
      BY <1>8, <2>2
    <3>1. /\ restores' \in Seq(RestoreRecord) /\ Len(restores') = Len(restores) + 1
          /\ Len(restores) \in Nat
          /\ \A i \in 1 .. Len(restores) : restores'[i] = restores[i]
          /\ restores'[Len(restores) + 1] = e
      BY <1>2, <3>0
    <3>2. \A i \in 1 .. Len(restores') : i \in 1 .. Len(restores) \/ (drop /\ restores'[i] = e)
      BY <2>2, <3>1
    <3>3. Len(restores) + 1 \in 1 .. Len(restores')
      BY <3>1
    <3>4. \E i \in 1 .. Len(restores') : restores'[i].slave = s
      BY <3>0, <3>1, <3>3
    <3>5. Len(restores') >= Len(restores)
      BY <3>1
    <3> QED BY <3>1, <3>2, <3>4, <3>5
  <2>3. CASE ~ drop
    <3>1. restores' = restores /\ Len(restores) \in Nat
      BY <1>2, <1>9, <2>3
    <3> QED BY <1>2, <2>3, <3>1
  <2> QED BY <2>2, <2>3
<1>11. drop => d # None
  BY <1>1
<1>12. ModbusTypeOK'
  <2>1. served' \in [Slaves -> Contexts \cup {"none"}] /\ started' \subseteq Tids
    BY <1>1, <1>2, <1>8, <1>9
  <2> QED BY <1>1, <1>7, <1>10, <2>1 DEF ModbusInv, ModbusTypeOK, ReqRecord, RestoreRecord
<1>13. SlaveMaps' /\ StaleIsRefilled'
  BY <1>1, <1>10 DEF ModbusInv, SlaveMaps, StaleIsRefilled
<1>14. AbsentIsPending' /\ ServedHasDevice'
  <2> SUFFICES ASSUME NEW y \in Slaves
               PROVE  /\ slaveDev'[y] # None /\ served'[y] = "none" => Pending(y)'
                      /\ served'[y] # "none" => slaveDev'[y] # None
                      /\ served'[y] = "stale" => y \in refilled'
    BY DEF AbsentIsPending, ServedHasDevice
  <2>1. CASE drop /\ y = s
    BY <1>2, <1>8, <1>10, <2>1 DEF Pending
  <2>2. CASE ~ (drop /\ y = s)
    <3>1. served'[y] = served[y] /\ (Pending(y) => Pending(y)')
      BY <1>2, <1>8, <1>9, <1>10, <2>2 DEF Pending
    <3> QED BY <1>1, <3>1 DEF ModbusInv, AbsentIsPending, ServedHasDevice
  <2> QED BY <2>1, <2>2
<1>15. RequestCountedOnce'
  BY <1>7 DEF ModbusInv, RequestCountedOnce
<1>16. ASSUME ~ q.crossed
       PROVE  OnCourse(r)'
  <2>1. /\ d \in counting /\ d # None /\ ~ Pending(s)
        /\ \A o \in Requests : Open(o) => req[o].tid # t
    BY <1>2, <1>16, CommsAssumption
  <2>2. \A o \in Requests \ {r} : req'[o].st = "arrived" => req'[o].tid # t
    BY <1>7, <2>1 DEF Open
  <2>3. CASE drop
    <3>1. q.counts = 1 /\ q.slave = s /\ q.tid = t
      BY <2>1, <2>3
    <3>2. \A i \in 1 .. Len(restores') : restores'[i].slave = s => restores'[i].by = r
      BY <1>10, <2>1 DEF Pending
    <3> HIDE DEF q
    <3> QED BY <1>1, <1>2, <1>7, <1>8, <2>1, <2>2, <2>3, <3>1, <3>2 DEF OnCourse, Open
  <2>4. CASE ~ drop
    <3>1. q.counts = 0 /\ q.slave = s /\ q.tid = t
      BY <2>4
    <3>2. served[s] # "none" /\ t \in started'
      BY <1>1, <2>1 DEF ModbusInv, AbsentIsPending
    <3> HIDE DEF q
    <3> QED BY <1>1, <1>7, <1>9, <2>1, <2>2, <2>4, <3>1, <3>2 DEF OnCourse, Open
  <2> QED BY <2>3, <2>4
<1>17. ASSUME NEW o \in Requests \ {r}, req'[o].st = "arrived", ~ req'[o].crossed
       PROVE  OnCourse(o)'
  <2>1. Open(o) /\ OnCourse(o) /\ req[o].slave \notin x /\ req[o].tid # t
    BY <1>7, <1>17 DEF ModbusInv, RequestsOnCourse, Open
  <2>2. served'[req[o].slave] = served[req[o].slave]
    <3>1. req[o].slave \in Slaves
      BY <2>1 DEF OnCourse
    <3>2. CASE drop
      BY <1>2, <1>8, <2>1, <3>1, <3>2
    <3>3. CASE ~ drop
      BY <1>9, <3>3
    <3> QED BY <3>2, <3>3
  <2>3. \A i \in 1 .. Len(restores') : restores'[i].slave = req[o].slave =>
            i \in 1 .. Len(restores) /\ restores'[i] = restores[i]
    BY <1>10, <2>1
  <2>4. started \subseteq started'
    BY <1>1
  <2>5. \A p \in Requests \ {o} : req'[p].st = "arrived" => req'[p].tid # req[o].tid
    BY <1>7, <2>1 DEF OnCourse, Open
  <2>6. req'[o].tid = req[o].tid /\ req'[o].slave = req[o].slave
        /\ req'[o].counts = req[o].counts
    BY <1>7
  <2> QED BY <1>1, <2>1, <2>2, <2>3, <2>4, <2>5, <2>6 DEF OnCourse, Open
<1>18. RequestsOnCourse'
  BY <1>7, <1>16, <1>17 DEF RequestsOnCourse, Open
<1> QED BY <1>3, <1>12, <1>13, <1>14, <1>15, <1>18 DEF ModbusInv

(* The slave is looked up, and the answer counted, a turn later. *)
LEMMA ModbusLookupKeeps ==
    ASSUME ModbusInv, CommsInv, NEW r \in Requests, ModbusLookup(r)
    PROVE  ModbusInv' /\ CommsInv'
<1>1. CommsInv'
  <2>1. UNCHANGED <<fault, events, unread, counting>>
    BY DEF ModbusLookup, commVars
  <2> QED BY <2>1, QuietKeeps DEF CommsInv, CommsTypeOK
<1>2. /\ req \in [Requests -> ReqRecord] /\ req[r] \in ReqRecord /\ started \subseteq Tids
      /\ Open(r)
  BY DEF ModbusInv, ModbusTypeOK, ReqRecord, ModbusLookup
<1>3. UNCHANGED <<mRunning, slaveOf, slaveDev, served, restores, refilled, leftBehind>>
      /\ UNCHANGED counting
  BY DEF ModbusLookup, commVars
<1> PICK s, t : s = req[r].slave /\ t = req[r].tid
  OBVIOUS
<1>4. /\ served[s] = "none" =>
            /\ req' = [req EXCEPT ![r].st = "ended", ![r].slave = None, ![r].tid = None]
            /\ started' = started
      /\ served[s] # "none" =>
            /\ req' = [req EXCEPT
                         ![r].st = "ended", ![r].slave = None, ![r].tid = None,
                         ![r].counts = IF slaveDev[s] \in counting /\ @ < 2
                                       THEN @ + Counted(slaveDev[s], t) ELSE @]
            /\ (started' = started \/ started' = started \ {t})
  BY DEF ModbusLookup
<1>5. Counted(slaveDev[s], t) \in {0, 1}
      /\ (t \in started => Counted(slaveDev[s], t) = 1)
  BY DEF Counted
<1>6. \E q \in ReqRecord :
         /\ req' = [req EXCEPT ![r] = q]
         /\ q.st = "ended" /\ q.crossed = req[r].crossed
         /\ served[s] = "none" => q.counts = req[r].counts
         /\ served[s] # "none" /\ slaveDev[s] \in counting /\ req[r].counts = 0 /\ t \in started
               => q.counts = 1
  <2>1. CASE served[s] = "none"
    <3> PICK q : q = [req[r] EXCEPT !.st = "ended", !.slave = None, !.tid = None]
      OBVIOUS
    <3>1. q \in ReqRecord /\ q.st = "ended" /\ q.crossed = req[r].crossed
          /\ q.counts = req[r].counts
      BY <1>2 DEF ReqRecord
    <3>2. req' = [req EXCEPT ![r] = q]
      BY <1>2, <1>4, <2>1
    <3> QED BY <2>1, <3>1, <3>2
  <2>2. CASE served[s] # "none"
    <3> PICK n : n = IF slaveDev[s] \in counting /\ req[r].counts < 2
                     THEN req[r].counts + Counted(slaveDev[s], t) ELSE req[r].counts
      OBVIOUS
    <3>0. n \in 0 .. 2 /\ (slaveDev[s] \in counting /\ req[r].counts = 0 /\ t \in started => n = 1)
      <4>1. req[r].counts \in 0 .. 2
        BY <1>2 DEF ReqRecord
      <4> QED BY <1>5, <4>1
    <3> PICK q : q = [req[r] EXCEPT !.st = "ended", !.slave = None, !.tid = None, !.counts = n]
      OBVIOUS
    <3>1. q \in ReqRecord /\ q.st = "ended" /\ q.crossed = req[r].crossed /\ q.counts = n
      BY <1>2, <3>0 DEF ReqRecord
    <3>2. req' = [req EXCEPT ![r] = q]
      BY <1>2, <1>4, <2>2
    <3> QED BY <2>2, <3>0, <3>1, <3>2
  <2> QED BY <2>1, <2>2
<1> PICK q \in ReqRecord :
         /\ req' = [req EXCEPT ![r] = q]
         /\ q.st = "ended" /\ q.crossed = req[r].crossed
         /\ served[s] = "none" => q.counts = req[r].counts
         /\ served[s] # "none" /\ slaveDev[s] \in counting /\ req[r].counts = 0 /\ t \in started
               => q.counts = 1
  BY <1>6
<1>7. req' \in [Requests -> ReqRecord] /\ req'[r] = q /\ \A o \in Requests \ {r} : req'[o] = req[o]
  BY <1>2
<1>8. ModbusTypeOK'
  BY <1>2, <1>3, <1>4, <1>7 DEF ModbusInv, ModbusTypeOK, ReqRecord
<1>9. SlaveMaps' /\ StaleIsRefilled' /\ AbsentIsPending' /\ ServedHasDevice'
  BY <1>3 DEF ModbusInv, SlaveMaps, StaleIsRefilled, AbsentIsPending, ServedHasDevice,
              Pending
<1>10. RequestCountedOnce'
  <2>1. ASSUME ~ req[r].crossed
        PROVE  q.counts = 1
    <3>1. OnCourse(r)
      BY <1>2, <2>1 DEF ModbusInv, RequestsOnCourse
    <3> QED BY <3>1 DEF OnCourse
  <2> QED BY <1>7, <2>1 DEF ModbusInv, RequestCountedOnce
<1>11. RequestsOnCourse'
  <2> SUFFICES ASSUME NEW o \in Requests \ {r}, req[o].st = "arrived", ~ req[o].crossed
               PROVE  OnCourse(o)'
    BY <1>7 DEF RequestsOnCourse, Open
  <2>1. OnCourse(o)
    BY DEF ModbusInv, RequestsOnCourse, Open
  <2>2. t # req[o].tid
    BY <1>2, <2>1 DEF OnCourse
  <2>3. req[o].tid \in started => req[o].tid \in started'
    BY <1>4, <2>2
  <2>4. \A p \in Requests \ {o} : req'[p].st = "arrived" => req'[p] = req[p]
    BY <1>7
  <2> QED BY <1>3, <1>7, <2>1, <2>3, <2>4 DEF OnCourse, Open
<1> QED BY <1>1, <1>8, <1>9, <1>10, <1>11 DEF ModbusInv

(* A restore waits for the lookup of the request that caused it, and passes
   over a slave that has been removed. *)
LEMMA ModbusRestoreKeeps ==
    ASSUME ModbusInv, CommsInv, ModbusRestore
    PROVE  ModbusInv' /\ CommsInv'
<1>1. CommsInv'
  <2>1. UNCHANGED <<fault, events, unread, counting>>
    BY DEF ModbusRestore, commVars
  <2> QED BY <2>1, QuietKeeps DEF CommsInv, CommsTypeOK
<1>2. /\ served \in [Slaves -> Contexts \cup {"none"}] /\ restores \in Seq(RestoreRecord)
      /\ slaveDev \in [Slaves -> Devices \cup {None}]
  BY DEF ModbusInv, ModbusTypeOK, RestoreRecord
<1>3. /\ restores # <<>> /\ restores' = Tail(restores)
      /\ UNCHANGED <<mRunning, slaveOf, slaveDev, started, req, refilled, leftBehind>>
      /\ UNCHANGED counting
  BY DEF ModbusRestore, commVars
<1> PICK h \in RestoreRecord : h = Head(restores) /\ h = restores[1]
  BY <1>2, <1>3
<1>4. h.slave \in Slaves /\ h.ctx \in Contexts /\ ~ Open(h.by)
  BY DEF RestoreRecord, ModbusRestore
<1>5. /\ slaveDev[h.slave] # None => served' = [served EXCEPT ![h.slave] = h.ctx]
      /\ slaveDev[h.slave] = None => served' = served
  BY DEF ModbusRestore, PutBack
<1>6. /\ Len(restores) \in Nat \ {0} /\ Len(restores') = Len(restores) - 1
      /\ restores' \in Seq(RestoreRecord)
      /\ \A i \in 1 .. Len(restores') : i + 1 \in 1 .. Len(restores)
                                        /\ restores'[i] = restores[i + 1]
      /\ \A i \in 1 .. Len(restores) : i = 1 \/ (i - 1 \in 1 .. Len(restores')
                                                /\ restores[i] = restores'[i - 1])
  BY <1>2, <1>3
<1>7. ModbusTypeOK'
  <2>1. served' \in [Slaves -> Contexts \cup {"none"}]
    BY <1>2, <1>4, <1>5
  <2> QED BY <1>3, <1>6, <2>1 DEF ModbusInv, ModbusTypeOK, RestoreRecord
<1>8. SlaveMaps' /\ StaleIsRefilled' /\ RequestCountedOnce'
  BY <1>3, <1>6 DEF ModbusInv, SlaveMaps, StaleIsRefilled, RequestCountedOnce
<1>9. AbsentIsPending' /\ ServedHasDevice'
  <2> SUFFICES ASSUME NEW x \in Slaves
               PROVE  /\ slaveDev[x] # None /\ served'[x] = "none" => Pending(x)'
                      /\ served'[x] # "none" => slaveDev[x] # None
                      /\ served'[x] = "stale" => x \in refilled
    BY <1>3 DEF AbsentIsPending, ServedHasDevice
  <2>1. CASE x = h.slave /\ slaveDev[x] # None
    <3>1. served'[x] = h.ctx /\ h.ctx # "none"
      BY <1>2, <1>4, <1>5, <2>1 DEF Contexts
    <3>2. h.ctx = "stale" => x \in refilled
      BY <1>6, <2>1 DEF ModbusInv, StaleIsRefilled
    <3> QED BY <2>1, <3>1, <3>2
  <2>2. CASE x # h.slave \/ slaveDev[x] = None
    <3>1. served'[x] = served[x]
      BY <1>2, <1>4, <1>5, <2>2
    <3>2. slaveDev[x] # None /\ Pending(x) => Pending(x)'
      BY <1>6, <2>2 DEF Pending
    <3> QED BY <3>1, <3>2 DEF ModbusInv, AbsentIsPending, ServedHasDevice
  <2> QED BY <2>1, <2>2
<1>10. RequestsOnCourse'
  <2> SUFFICES ASSUME NEW o \in Requests, Open(o), ~ req[o].crossed
               PROVE  OnCourse(o)'
    BY <1>3 DEF RequestsOnCourse, Open
  <2>1. OnCourse(o)
    BY DEF ModbusInv, RequestsOnCourse
  <2>2. req[o].slave \in Slaves
    BY <2>1 DEF OnCourse
  <2>3. CASE served[req[o].slave] = "none"
    <3>1. h.slave # req[o].slave
      BY <1>4, <1>6, <2>1, <2>3 DEF OnCourse
    <3>2. served'[req[o].slave] = "none"
      BY <1>2, <1>4, <1>5, <2>2, <2>3, <3>1
    <3> QED BY <1>3, <1>6, <2>1, <2>3, <3>2 DEF OnCourse, Open
  <2>4. CASE served[req[o].slave] # "none"
    <3>1. served'[req[o].slave] # "none"
      BY <1>2, <1>4, <1>5, <2>2, <2>4 DEF Contexts
    <3> QED BY <1>3, <2>1, <2>4, <3>1 DEF OnCourse, Open
  <2> QED BY <2>3, <2>4
<1> QED BY <1>1, <1>7, <1>8, <1>9, <1>10 DEF ModbusInv

(* A request that has ended is forgotten. *)
LEMMA ModbusEndKeeps ==
    ASSUME ModbusInv, CommsInv, NEW r \in Requests, ModbusEnd(r)
    PROVE  ModbusInv' /\ CommsInv'
<1>1. CommsInv'
  <2>1. UNCHANGED <<fault, events, unread, counting>>
    BY DEF ModbusEnd, commVars
  <2> QED BY <2>1, QuietKeeps DEF CommsInv, CommsTypeOK
<1>2. /\ UNCHANGED <<mRunning, slaveOf, slaveDev, served, restores, started, refilled,
                     leftBehind, counting>>
      /\ req' = [req EXCEPT ![r] = NoReq] /\ req[r].st = "ended"
  BY DEF ModbusEnd, commVars
<1>3. NoReq \in ReqRecord /\ NoReq.st = "idle"
  BY DEF NoReq, ReqRecord
<1>4. req' \in [Requests -> ReqRecord] /\ req'[r] = NoReq
      /\ \A o \in Requests \ {r} : req'[o] = req[o]
  BY <1>2, <1>3 DEF ModbusInv, ModbusTypeOK, ReqRecord
<1>5. ModbusTypeOK'
  BY <1>2, <1>4 DEF ModbusInv, ModbusTypeOK, ReqRecord
<1>6. SlaveMaps' /\ StaleIsRefilled' /\ AbsentIsPending' /\ ServedHasDevice'
  BY <1>2 DEF ModbusInv, SlaveMaps, StaleIsRefilled, AbsentIsPending, ServedHasDevice,
              Pending
<1>7. RequestCountedOnce'
  BY <1>3, <1>4 DEF ModbusInv, RequestCountedOnce
<1>8. RequestsOnCourse'
  <2> SUFFICES ASSUME NEW o \in Requests \ {r}, req[o].st = "arrived", ~ req[o].crossed
               PROVE  OnCourse(o)'
    BY <1>3, <1>4 DEF RequestsOnCourse, Open
  <2>1. OnCourse(o)
    BY DEF ModbusInv, RequestsOnCourse, Open
  <2>2. \A p \in Requests \ {o} : req'[p].st = "arrived" => req'[p] = req[p]
    BY <1>3, <1>4
  <2> QED BY <1>2, <1>4, <2>1, <2>2 DEF OnCourse, Open
<1> QED BY <1>1, <1>5, <1>6, <1>7, <1>8 DEF ModbusInv

(* A step of the others that leaves Modbus and the statistics alone. *)
LEMMA ModbusRests ==
    ASSUME ModbusInv, UNCHANGED modbusVars,
           UNCHANGED counting \/ \A r \in Requests : req[r].st = "idle"
    PROVE  ModbusInv'
<1>1. UNCHANGED <<mRunning, slaveOf, slaveDev, served, restores, started, req, refilled,
                  leftBehind>>
  BY DEF modbusVars
<1>2. ModbusTypeOK' /\ SlaveMaps' /\ StaleIsRefilled' /\ AbsentIsPending'
      /\ ServedHasDevice' /\ RequestCountedOnce'
  BY <1>1 DEF ModbusInv, ModbusTypeOK, SlaveMaps, StaleIsRefilled, AbsentIsPending,
              ServedHasDevice, RequestCountedOnce, Pending
<1>3. RequestsOnCourse'
  BY <1>1 DEF ModbusInv, RequestsOnCourse, OnCourse, Open
<1> QED BY <1>2, <1>3 DEF ModbusInv

(* Every step of the adapter and its clients. *)
LEMMA ModbusKeeps ==
    ASSUME ModbusInv, CommsInv, NEW ds \in SUBSET Devices, ModbusNext(ds)
    PROVE  ModbusInv' /\ CommsInv'
<1>1. ASSUME NEW d \in ds, NEW s \in Slaves, ModbusAdd(d, s) \/ ModbusAddRefused(d, s)
      PROVE  ModbusInv' /\ CommsInv'
  BY <1>1, ModbusAddKeeps, ModbusAddRefusedKeeps
<1>2. ASSUME NEW d \in ds, ModbusRemove(d)
      PROVE  ModbusInv' /\ CommsInv'
  BY <1>2, ModbusRemoveKeeps
<1>3. CASE ModbusStop
  BY <1>3, ModbusStopKeeps
<1>4. ASSUME NEW r \in Requests, NEW s \in Slaves, NEW t \in Tids, NEW write \in BOOLEAN,
             NEW drop \in BOOLEAN, ModbusArrive(r, s, t, write, drop)
      PROVE  ModbusInv' /\ CommsInv'
  BY <1>4, ModbusArriveKeeps
<1>5. ASSUME NEW r \in Requests, ModbusLookup(r) \/ ModbusEnd(r)
      PROVE  ModbusInv' /\ CommsInv'
  BY <1>5, ModbusLookupKeeps, ModbusEndKeeps
<1>6. CASE ModbusRestore
  BY <1>6, ModbusRestoreKeeps
<1>7. ASSUME NEW d \in ds, SetFault(d, ModbusFaults) \/ ClearFault(d) \/ mark_read(d),
             UNCHANGED modbusVars
      PROVE  ModbusInv' /\ CommsInv'
  <2>1. ModbusFaults \in SUBSET FaultTypes
    BY DEF ModbusFaults
  <2>2. CommsInv'
    BY <1>7, <2>1, FaultRoutes, AckKeeps
  <2>3. UNCHANGED counting
    BY <1>7, <2>1, FaultRoutes DEF mark_read
  <2> QED BY <1>7, <2>2, <2>3, ModbusRests
<1> QED BY <1>1, <1>2, <1>3, <1>4, <1>5, <1>6, <1>7 DEF ModbusNext

-----------------------------------------------------------------------------
(* OPC UA.  CallbacksMatchFault looks at a device at rest; in between, what
   matters is that a device being built is in _faulted only if that was noted
   when it began. *)

HookedInTime(d) ==
    /\ d \in oFaulted => fault[d] # "none"
    /\ oLife[d] = "off" => oNodes[d] = {}
    /\ d \notin oCrossed /\ oLife[d] = "adding" =>
          ~ Clearing(d) /\ (d \in oFaulted => d \in oUnhooked)
    /\ /\ d \notin oCrossed \cup oUnhooked
       /\ oLife[d] = "on" /\ ~ Clearing(d) /\ fault[d] # "none"
       => oWriting[d] = None /\ d \in oFaulted /\ oNodes[d] \ oWritten[d] \subseteq oHooked[d]

OpcInv ==
    /\ OpcTypeOK
    /\ \A k \in Clears : oClear[k].dev = None => oClear[k].todo = {}
    /\ \A d \in Devices : HookedInTime(d)

(* Nothing that concerns d has changed. *)
SameFor(d) ==
    /\ fault'[d] = fault[d] /\ oLife'[d] = oLife[d] /\ oNodes'[d] = oNodes[d]
    /\ oHooked'[d] = oHooked[d] /\ oWritten'[d] = oWritten[d] /\ oWriting'[d] = oWriting[d]
    /\ d \in oFaulted' <=> d \in oFaulted
    /\ d \in oCrossed' <=> d \in oCrossed
    /\ d \in oUnhooked' <=> d \in oUnhooked
    /\ Clearing(d)' <=> Clearing(d)

(* A step that does not concern d keeps its part of the invariant. *)
LEMMA OthersHooked ==
    ASSUME NEW d, HookedInTime(d), SameFor(d)
    PROVE  HookedInTime(d)'
BY DEF HookedInTime, SameFor

(* The property of the runs follows. *)
LEMMA HookedMatches ==
    ASSUME OpcInv
    PROVE  CallbacksMatchFault
BY DEF OpcInv, HookedInTime, CallbacksMatchFault, OpcQuiet

(* The types the proofs of the actions use. *)
LEMMA OpcTypes ==
    ASSUME OpcInv, CommsInv
    PROVE  /\ fault \in [Devices -> FaultTypes \cup {"none"}] /\ counting \subseteq Devices
           /\ oLife \in [Devices -> {"off", "adding", "on", "removing"}]
           /\ oTodo \in [Devices -> SUBSET Regs] /\ oNodes \in [Devices -> SUBSET Regs]
           /\ oHooked \in [Devices -> SUBSET Regs] /\ oWritten \in [Devices -> SUBSET Regs]
           /\ oClear \in [Clears -> [dev : Devices \cup {None}, todo : SUBSET Regs]]
           /\ oFaulted \subseteq Devices /\ oCrossed \subseteq Devices /\ oUnhooked \subseteq Devices
           /\ oWriting \in [Devices -> Regs \cup {None}] /\ oLeft \in [Devices -> SUBSET Regs]
BY DEF OpcInv, OpcTypeOK, CommsInv, CommsTypeOK

(* Taking nodes out of the open remove_fault calls on d keeps their devices. *)
LEMMA ClearsKeepDevices ==
    ASSUME OpcInv, NEW d \in Devices, NEW gone \in SUBSET Regs,
           oClear' = [k \in Clears |-> IF oClear[k].dev = d
                                       THEN [oClear[k] EXCEPT !.todo = @ \ gone]
                                       ELSE oClear[k]]
    PROVE  /\ oClear' \in [Clears -> [dev : Devices \cup {None}, todo : SUBSET Regs]]
           /\ \A k \in Clears : oClear'[k].dev = oClear[k].dev
           /\ \A k \in Clears : oClear'[k].dev = None => oClear'[k].todo = {}
<1> SUFFICES ASSUME NEW k \in Clears
             PROVE  /\ oClear'[k] \in [dev : Devices \cup {None}, todo : SUBSET Regs]
                    /\ oClear'[k].dev = oClear[k].dev
                    /\ oClear'[k].dev = None => oClear'[k].todo = {}
  OBVIOUS
<1>1. oClear[k] \in [dev : Devices \cup {None}, todo : SUBSET Regs]
  BY DEF OpcInv, OpcTypeOK
<1>2. CASE oClear[k].dev = d
  <2>1. oClear'[k] = [oClear[k] EXCEPT !.todo = @ \ gone]
    BY <1>2
  <2> QED BY <1>1, <1>2, <2>1, CommsAssumption
<1>3. CASE oClear[k].dev # d
  <2>1. oClear'[k] = oClear[k]
    BY <1>3
  <2> QED BY <1>1, <2>1 DEF OpcInv
<1> QED BY <1>2, <1>3

(* add_device begins. *)
LEMMA OpcAddKeeps ==
    ASSUME OpcInv, CommsInv, NEW d \in Devices, OpcAdd(d)
    PROVE  OpcInv' /\ CommsInv'
<1>1. CommsInv'
  <2>1. counting' \subseteq Devices /\ UNCHANGED <<fault, events, unread>>
    BY StatsTypes DEF OpcAdd, CommsInv, CommsTypeOK
  <2> QED BY <2>1, QuietKeeps
<1>2. /\ oLife' = [oLife EXCEPT ![d] = "adding"] /\ oTodo' = [oTodo EXCEPT ![d] = Regs]
      /\ oUnhooked' = IF d \in oFaulted THEN oUnhooked \cup {d} ELSE oUnhooked
      /\ oCrossed' = IF OpcQuiet(d) THEN oCrossed ELSE oCrossed \cup {d}
      /\ UNCHANGED <<fault, oRunning, oNodes, oHooked, oFaulted, oClear, oWritten, oWriting, oLeft>>
  BY DEF OpcAdd, Crossing
<1>3. OpcTypeOK'
  BY <1>2, OpcTypes DEF OpcInv, OpcTypeOK
<1>4. HookedInTime(d)'
  <2>1. oLife'[d] = "adding"
    BY <1>2, OpcTypes
  <2> QED BY <1>2, <2>1 DEF OpcInv, HookedInTime, OpcQuiet, Clearing
<1>5. ASSUME NEW e \in Devices \ {d}
      PROVE  SameFor(e)
  BY <1>2, OpcTypes DEF SameFor, Clearing
<1> QED BY <1>1, <1>2, <1>3, <1>4, <1>5, OthersHooked DEF OpcInv

(* add_device makes a node: no open remove_fault reaches the old one. *)
LEMMA OpcAddNodeKeeps ==
    ASSUME OpcInv, CommsInv, NEW d \in Devices, NEW n \in Regs, OpcAddNode(d, n)
    PROVE  OpcInv' /\ CommsInv'
<1>1. UNCHANGED <<fault, events, unread, counting>>
  BY DEF OpcAddNode, commVars
<1>2. /\ oLife[d] = "adding"
      /\ oTodo' = [oTodo EXCEPT ![d] = @ \ {n}] /\ oNodes' = [oNodes EXCEPT ![d] = @ \cup {n}]
      /\ oHooked' = [oHooked EXCEPT ![d] = @ \ {n}]
      /\ oLeft' = [oLeft EXCEPT ![d] = @ \cup (oHooked[d] \cap {n})]
      /\ oWriting' = [oWriting EXCEPT ![d] = IF @ = n THEN None ELSE @]
      /\ oWritten' = [oWritten EXCEPT ![d] = @ \ {n}]
      /\ oClear' = [k \in Clears |-> IF oClear[k].dev = d
                                     THEN [oClear[k] EXCEPT !.todo = @ \ {n}]
                                     ELSE oClear[k]]
      /\ UNCHANGED <<oRunning, oLife, oFaulted, oCrossed, oUnhooked>>
  BY DEF OpcAddNode
<1>3. /\ oClear' \in [Clears -> [dev : Devices \cup {None}, todo : SUBSET Regs]]
      /\ \A k \in Clears : oClear'[k].dev = oClear[k].dev
      /\ \A k \in Clears : oClear'[k].dev = None => oClear'[k].todo = {}
  <2> PICK gone \in SUBSET Regs : gone = {n}
    OBVIOUS
  <2>1. oClear' = [k \in Clears |-> IF oClear[k].dev = d
                                    THEN [oClear[k] EXCEPT !.todo = @ \ gone]
                                    ELSE oClear[k]]
    BY <1>2
  <2> QED BY <2>1, ClearsKeepDevices
<1>4. OpcTypeOK'
  BY <1>2, <1>3, OpcTypes DEF OpcInv, OpcTypeOK
<1>5. HookedInTime(d)'
  BY <1>1, <1>2, <1>3 DEF OpcInv, HookedInTime, Clearing
<1>6. ASSUME NEW e \in Devices \ {d}
      PROVE  SameFor(e)
  BY <1>1, <1>2, <1>3, OpcTypes DEF SameFor, Clearing
<1>7. CommsInv'
  BY <1>1, QuietKeeps DEF CommsInv, CommsTypeOK
<1> QED BY <1>3, <1>4, <1>5, <1>6, <1>7, OthersHooked DEF OpcInv

(* apply_fault puts the callback on every node and marks the device. *)
LEMMA ApplyFacts ==
    ASSUME OpcInv, CommsInv, NEW d \in Devices, apply_fault(d)
    PROVE  /\ oHooked' \in [Devices -> SUBSET Regs] /\ oWritten' \in [Devices -> SUBSET Regs]
           /\ oFaulted' = oFaulted \cup {d}
           /\ d \notin oFaulted => oHooked'[d] = oNodes[d]
           /\ d \in oFaulted => oHooked'[d] = oHooked[d] /\ oWritten'[d] = oWritten[d]
           /\ \A e \in Devices \ {d} : oHooked'[e] = oHooked[e] /\ oWritten'[e] = oWritten[e]
BY OpcTypes DEF apply_fault

(* add_device ends: a fault set before is applied. *)
LEMMA OpcAddedKeeps ==
    ASSUME OpcInv, CommsInv, NEW d \in Devices, OpcAdded(d)
    PROVE  OpcInv' /\ CommsInv'
<1>1. UNCHANGED <<fault, events, unread, counting>>
  BY DEF OpcAdded, commVars
<1>2. /\ oLife[d] = "adding" /\ oLife' = [oLife EXCEPT ![d] = "on"]
      /\ oCrossed' = IF oWriting[d] # None THEN oCrossed \cup {d} ELSE oCrossed
      /\ UNCHANGED <<oRunning, oTodo, oNodes, oWriting, oLeft, oClear, oUnhooked>>
      /\ fault[d] # "none" => apply_fault(d)
      /\ fault[d] = "none" => UNCHANGED <<oHooked, oWritten, oFaulted>>
  BY DEF OpcAdded
<1>3. /\ oHooked' \in [Devices -> SUBSET Regs] /\ oWritten' \in [Devices -> SUBSET Regs]
      /\ oFaulted' \subseteq Devices
      /\ \A e \in Devices \ {d} : oHooked'[e] = oHooked[e] /\ oWritten'[e] = oWritten[e]
                                  /\ (e \in oFaulted' <=> e \in oFaulted)
  BY <1>2, OpcTypes, ApplyFacts
<1>4. OpcTypeOK'
  BY <1>2, <1>3, OpcTypes DEF OpcInv, OpcTypeOK
<1>5. HookedInTime(d)'
  <2>1. oLife'[d] = "on" /\ HookedInTime(d)
    BY <1>2, OpcTypes DEF OpcInv
  <2>2. CASE fault[d] = "none"
    BY <1>1, <1>2, <2>1, <2>2 DEF HookedInTime
  <2>3. CASE fault[d] # "none"
    <3>1. d \in oFaulted' /\ (d \notin oFaulted => oHooked'[d] = oNodes[d])
      BY <1>2, <2>3, ApplyFacts
    <3> QED BY <1>1, <1>2, <2>1, <2>3, <3>1 DEF HookedInTime
  <2> QED BY <2>2, <2>3
<1>6. ASSUME NEW e \in Devices \ {d}
      PROVE  SameFor(e)
  BY <1>1, <1>2, <1>3, OpcTypes DEF SameFor, Clearing
<1>7. CommsInv'
  BY <1>1, QuietKeeps DEF CommsInv, CommsTypeOK
<1> QED BY <1>2, <1>4, <1>5, <1>6, <1>7, OthersHooked DEF OpcInv

(* remove_device deletes the nodes with their callbacks. *)
LEMMA OpcRemoveKeeps ==
    ASSUME OpcInv, CommsInv, NEW d \in Devices, OpcRemove(d)
    PROVE  OpcInv' /\ CommsInv'
<1>1. UNCHANGED <<fault, events, unread, counting>>
  BY DEF OpcRemove, commVars
<1>2. /\ oLife' = [oLife EXCEPT ![d] = "removing"] /\ oHooked' = [oHooked EXCEPT ![d] = {}]
      /\ oClear' = LoseNodes(d)
      /\ oCrossed' = IF OpcQuiet(d) THEN oCrossed ELSE oCrossed \cup {d}
      /\ UNCHANGED <<oRunning, oTodo, oNodes, oFaulted, oWritten, oUnhooked, oWriting, oLeft>>
  BY DEF OpcRemove, Crossing
<1>3. /\ oClear' \in [Clears -> [dev : Devices \cup {None}, todo : SUBSET Regs]]
      /\ \A k \in Clears : oClear'[k].dev = oClear[k].dev
      /\ \A k \in Clears : oClear'[k].dev = None => oClear'[k].todo = {}
  <2>1. \A k \in Clears : oClear[k].todo \ Regs = {}
    BY OpcTypes
  <2>2. oClear' = [k \in Clears |-> IF oClear[k].dev = d
                                    THEN [oClear[k] EXCEPT !.todo = @ \ Regs]
                                    ELSE oClear[k]]
    BY <1>2, <2>1 DEF LoseNodes
  <2> QED BY <2>2, ClearsKeepDevices
<1>4. OpcTypeOK'
  BY <1>2, <1>3, OpcTypes DEF OpcInv, OpcTypeOK
<1>5. HookedInTime(d)'
  <2>1. oLife'[d] = "removing"
    BY <1>2, OpcTypes
  <2> QED BY <1>1, <1>2, <2>1 DEF OpcInv, HookedInTime
<1>6. ASSUME NEW e \in Devices \ {d}
      PROVE  SameFor(e)
  BY <1>1, <1>2, <1>3, OpcTypes DEF SameFor, Clearing
<1>7. CommsInv'
  BY <1>1, QuietKeeps DEF CommsInv, CommsTypeOK
<1> QED BY <1>3, <1>4, <1>5, <1>6, <1>7, OthersHooked DEF OpcInv

(* remove_device ends: the maps, the events and the mark of the fault go. *)
LEMMA OpcRemovedKeeps ==
    ASSUME OpcInv, CommsInv, NEW d \in Devices, OpcRemoved(d)
    PROVE  OpcInv' /\ CommsInv'
<1>1. CommsInv'
  <2>1. counting' \subseteq Devices /\ UNCHANGED fault /\ Forget({d})
    BY StatsTypes DEF OpcRemoved, CommsInv, CommsTypeOK
  <2> QED BY <2>1, ForgetKeeps
<1>2. /\ oLife' = [oLife EXCEPT ![d] = "off"] /\ oNodes' = [oNodes EXCEPT ![d] = {}]
      /\ oHooked' = [oHooked EXCEPT ![d] = {}] /\ oWritten' = [oWritten EXCEPT ![d] = {}]
      /\ oFaulted' = oFaulted \ {d}
      /\ oCrossed' = IF Clearing(d) THEN oCrossed ELSE oCrossed \ {d}
      /\ oUnhooked' = oUnhooked \ {d} /\ oWriting' = [oWriting EXCEPT ![d] = None]
      /\ UNCHANGED <<fault, oRunning, oTodo, oLeft, oClear>>
  BY DEF OpcRemoved
<1>3. OpcTypeOK'
  BY <1>2, OpcTypes DEF OpcInv, OpcTypeOK
<1>4. HookedInTime(d)'
  <2>1. oLife'[d] = "off" /\ oNodes'[d] = {}
    BY <1>2, OpcTypes
  <2> QED BY <1>2, <2>1 DEF HookedInTime
<1>5. ASSUME NEW e \in Devices \ {d}
      PROVE  SameFor(e)
  BY <1>2, OpcTypes DEF SameFor, Clearing
<1> QED BY <1>1, <1>2, <1>3, <1>4, <1>5, OthersHooked DEF OpcInv

(* A tick finds a device without fault, and begins to write a node. *)
LEMMA OpcUpdateKeeps ==
    ASSUME OpcInv, CommsInv, NEW d \in Devices, NEW n \in Regs, OpcUpdate(d, n)
    PROVE  OpcInv' /\ CommsInv'
<1>1. UNCHANGED <<fault, events, unread, counting>>
  BY DEF OpcUpdate, commVars
<1>2. /\ d \notin oFaulted /\ oWriting' = [oWriting EXCEPT ![d] = n]
      /\ UNCHANGED <<oRunning, oLife, oTodo, oNodes, oHooked, oLeft, oFaulted, oClear, oWritten,
                     oCrossed, oUnhooked>>
  BY DEF OpcUpdate
<1>3. OpcTypeOK'
  BY <1>2, OpcTypes DEF OpcInv, OpcTypeOK
<1>4. HookedInTime(d)'
  BY <1>1, <1>2 DEF OpcInv, HookedInTime, Clearing
<1>5. ASSUME NEW e \in Devices \ {d}
      PROVE  SameFor(e)
  BY <1>1, <1>2, OpcTypes DEF SameFor, Clearing
<1>6. CommsInv'
  BY <1>1, QuietKeeps DEF CommsInv, CommsTypeOK
<1> QED BY <1>2, <1>3, <1>4, <1>5, <1>6, OthersHooked DEF OpcInv

(* The node is written: a device it is written on has no fault, unless one
   was set meanwhile. *)
LEMMA OpcUpdatedKeeps ==
    ASSUME OpcInv, CommsInv, NEW d \in Devices, NEW n \in Regs, OpcUpdated(d, n)
    PROVE  OpcInv' /\ CommsInv'
<1>1. UNCHANGED <<fault, events, unread, counting>>
  BY DEF OpcUpdated, commVars
<1>2. /\ oWriting[d] # None /\ oHooked' = [oHooked EXCEPT ![d] = @ \ {n}]
      /\ oWriting' = [oWriting EXCEPT ![d] = None]
      /\ UNCHANGED <<oRunning, oLife, oTodo, oNodes, oLeft, oFaulted, oClear, oWritten, oCrossed,
                     oUnhooked>>
  BY RegsAssumption DEF OpcUpdated
<1>3. OpcTypeOK'
  BY <1>2, OpcTypes DEF OpcInv, OpcTypeOK
<1>4. HookedInTime(d)'
  BY <1>1, <1>2 DEF OpcInv, HookedInTime, Clearing
<1>5. ASSUME NEW e \in Devices \ {d}
      PROVE  SameFor(e)
  BY <1>1, <1>2, OpcTypes DEF SameFor, Clearing
<1>6. CommsInv'
  BY <1>1, QuietKeeps DEF CommsInv, CommsTypeOK
<1> QED BY <1>2, <1>3, <1>4, <1>5, <1>6, OthersHooked DEF OpcInv

(* The write of a tick fails or is cancelled. *)
LEMMA OpcUpdateFailsKeeps ==
    ASSUME OpcInv, CommsInv, NEW d \in Devices, OpcUpdateFails(d)
    PROVE  OpcInv' /\ CommsInv'
<1>1. UNCHANGED <<fault, events, unread, counting>>
  BY DEF OpcUpdateFails, commVars
<1>2. /\ oWriting' = [oWriting EXCEPT ![d] = None]
      /\ UNCHANGED <<oRunning, oLife, oTodo, oNodes, oHooked, oLeft, oFaulted, oClear, oWritten,
                     oCrossed, oUnhooked>>
  BY DEF OpcUpdateFails
<1>3. OpcTypeOK'
  BY <1>2, OpcTypes DEF OpcInv, OpcTypeOK
<1>4. HookedInTime(d)'
  <2>1. oWriting'[d] = None
    BY <1>2, OpcTypes
  <2> QED BY <1>1, <1>2, <2>1 DEF OpcInv, HookedInTime, Clearing
<1>5. ASSUME NEW e \in Devices \ {d}
      PROVE  SameFor(e)
  BY <1>1, <1>2, OpcTypes DEF SameFor, Clearing
<1>6. CommsInv'
  BY <1>1, QuietKeeps DEF CommsInv, CommsTypeOK
<1> QED BY <1>2, <1>3, <1>4, <1>5, <1>6, OthersHooked DEF OpcInv

(* A node that was left behind is written: no other one changes. *)
LEMMA OpcLeftWriteKeeps ==
    ASSUME OpcInv, CommsInv, NEW d \in Devices, NEW n \in Regs, OpcLeftWrite(d, n)
    PROVE  OpcInv' /\ CommsInv'
<1>1. (record(d) \/ UNCHANGED <<events, unread>>) /\ UNCHANGED <<fault, counting>>
  BY DEF OpcLeftWrite
<1>2. /\ oLeft' = [oLeft EXCEPT ![d] = @ \ {n}]
      /\ UNCHANGED <<oRunning, oLife, oTodo, oNodes, oHooked, oWriting, oFaulted, oClear, oWritten,
                     oCrossed, oUnhooked>>
  BY DEF OpcLeftWrite
<1>3. OpcTypeOK'
  BY <1>2, OpcTypes DEF OpcInv, OpcTypeOK
<1>4. ASSUME NEW e \in Devices
      PROVE  SameFor(e)
  BY <1>1, <1>2 DEF SameFor, Clearing
<1>5. CommsInv'
  <2>1. CASE record(d)
    BY <1>1, <2>1, RecordKeeps
  <2>2. CASE UNCHANGED <<events, unread>>
    BY <1>1, <2>2, QuietKeeps DEF CommsInv, CommsTypeOK
  <2> QED BY <1>1, <2>1, <2>2
<1> QED BY <1>2, <1>3, <1>4, <1>5, OthersHooked DEF OpcInv

(* A client writes a node: the callback goes, the write is remembered. *)
LEMMA OpcClientWriteKeeps ==
    ASSUME OpcInv, CommsInv, NEW d \in Devices, NEW n \in Regs, OpcClientWrite(d, n)
    PROVE  OpcInv' /\ CommsInv'
<1>1. record(d) /\ UNCHANGED <<fault, counting>>
  BY DEF OpcClientWrite
<1>2. /\ oHooked' = [oHooked EXCEPT ![d] = @ \ {n}]
      /\ oWritten' = [oWritten EXCEPT ![d] = @ \cup {n}]
      /\ UNCHANGED <<oRunning, oLife, oTodo, oNodes, oWriting, oLeft, oFaulted, oClear, oCrossed,
                     oUnhooked>>
  BY DEF OpcClientWrite
<1>3. OpcTypeOK'
  BY <1>2, OpcTypes DEF OpcInv, OpcTypeOK
<1>4. HookedInTime(d)'
  <2>1. oHooked'[d] = oHooked[d] \ {n} /\ oWritten'[d] = oWritten[d] \cup {n}
    BY <1>2, OpcTypes
  <2> QED BY <1>1, <1>2, <2>1 DEF OpcInv, HookedInTime, Clearing
<1>5. ASSUME NEW e \in Devices \ {d}
      PROVE  SameFor(e)
  BY <1>1, <1>2, OpcTypes DEF SameFor, Clearing
<1>6. CommsInv'
  BY <1>1, RecordKeeps
<1> QED BY <1>2, <1>3, <1>4, <1>5, <1>6, OthersHooked DEF OpcInv

(* PUT .../fault: the fault and the callbacks in one turn. *)
LEMMA OpcSetFaultKeeps ==
    ASSUME OpcInv, CommsInv, NEW d \in Devices, NEW f \in FaultTypes, OpcSetFault(d, f)
    PROVE  OpcInv' /\ CommsInv'
<1>1. fault' = [fault EXCEPT ![d] = f] /\ f # "none" /\ UNCHANGED <<events, unread, counting>>
  BY DEF OpcSetFault, set_fault, FaultTypes
<1>2. /\ oLife[d] = "removing" => oFaulted' = oFaulted \cup {d} /\ UNCHANGED <<oHooked, oWritten>>
      /\ oLife[d] # "removing" => apply_fault(d)
      /\ oCrossed' = IF OpcQuiet(d) THEN oCrossed ELSE oCrossed \cup {d}
      /\ UNCHANGED <<oRunning, oLife, oTodo, oNodes, oClear, oUnhooked, oWriting, oLeft>>
  BY DEF OpcSetFault, Crossing
<1>3. /\ oHooked' \in [Devices -> SUBSET Regs] /\ oWritten' \in [Devices -> SUBSET Regs]
      /\ oFaulted' = oFaulted \cup {d}
      /\ \A e \in Devices \ {d} : oHooked'[e] = oHooked[e] /\ oWritten'[e] = oWritten[e]
  BY <1>2, OpcTypes, ApplyFacts
<1>4. OpcTypeOK'
  BY <1>2, <1>3, OpcTypes DEF OpcInv, OpcTypeOK
<1>5. HookedInTime(d)'
  <2>1. fault'[d] = f /\ HookedInTime(d)
    BY <1>1, OpcTypes DEF OpcInv
  <2>2. CASE oLife[d] = "on"
    <3>1. /\ d \notin oFaulted => oHooked'[d] = oNodes[d]
          /\ d \in oFaulted => oHooked'[d] = oHooked[d] /\ oWritten'[d] = oWritten[d]
      BY <1>2, <2>2, ApplyFacts
    <3> QED BY <1>1, <1>2, <1>3, <2>1, <2>2, <3>1 DEF HookedInTime, OpcQuiet, Clearing
  <2>3. CASE oLife[d] # "on"
    BY <1>1, <1>2, <1>3, <2>1, <2>3 DEF HookedInTime, OpcQuiet
  <2> QED BY <2>2, <2>3
<1>6. ASSUME NEW e \in Devices \ {d}
      PROVE  SameFor(e)
  <2>1. fault'[e] = fault[e]
    BY <1>1, OpcTypes
  <2> QED BY <1>2, <1>3, <2>1 DEF SameFor, Clearing
<1>7. CommsInv'
  BY <1>1, QuietKeeps DEF CommsInv, CommsTypeOK
<1> QED BY <1>2, <1>4, <1>5, <1>6, <1>7, OthersHooked DEF OpcInv

(* DELETE .../fault on a device that is not in _faulted. *)
LEMMA OpcClearNothingKeeps ==
    ASSUME OpcInv, CommsInv, NEW d \in Devices, OpcClearNothing(d)
    PROVE  OpcInv' /\ CommsInv'
<1>1. fault' = [fault EXCEPT ![d] = "none"] /\ UNCHANGED <<events, unread, counting>>
  BY DEF OpcClearNothing, clear_fault
<1>2. /\ d \notin oFaulted
      /\ oCrossed' = IF OpcQuiet(d) THEN oCrossed ELSE oCrossed \cup {d}
      /\ UNCHANGED <<oRunning, oLife, oTodo, oNodes, oHooked, oWriting, oLeft, oFaulted, oClear,
                     oWritten, oUnhooked>>
  BY DEF OpcClearNothing, Crossing
<1>3. OpcTypeOK'
  BY <1>2, OpcTypes DEF OpcInv, OpcTypeOK
<1>4. HookedInTime(d)'
  <2>1. fault'[d] = "none" /\ HookedInTime(d)
    BY <1>1, OpcTypes DEF OpcInv
  <2> QED BY <1>2, <2>1 DEF HookedInTime, OpcQuiet, Clearing
<1>5. ASSUME NEW e \in Devices \ {d}
      PROVE  SameFor(e)
  <2>1. fault'[e] = fault[e]
    BY <1>1, OpcTypes
  <2> QED BY <1>2, <2>1 DEF SameFor, Clearing
<1>6. CommsInv'
  BY <1>1, QuietKeeps DEF CommsInv, CommsTypeOK
<1> QED BY <1>2, <1>3, <1>4, <1>5, <1>6, OthersHooked DEF OpcInv

(* DELETE .../fault begins to write the nodes back. *)
LEMMA OpcClearKeeps ==
    ASSUME OpcInv, CommsInv, NEW d \in Devices, NEW k \in Clears, OpcClear(k, d)
    PROVE  OpcInv' /\ CommsInv'
<1>1. UNCHANGED <<fault, events, unread, counting>>
  BY DEF OpcClear, commVars
<1> PICK todo : todo = IF oLife[d] = "removing" THEN {} ELSE oNodes[d]
  OBVIOUS
<1>2. /\ oClear[k] = NoClear /\ oClear' = [oClear EXCEPT ![k] = [dev |-> d, todo |-> todo]]
      /\ oCrossed' = IF OpcQuiet(d) THEN oCrossed ELSE oCrossed \cup {d}
      /\ UNCHANGED <<oRunning, oLife, oTodo, oNodes, oHooked, oWriting, oLeft, oFaulted, oWritten,
                     oUnhooked>>
  BY DEF OpcClear, Crossing
<1>3. todo \in SUBSET Regs /\ d # None
  BY OpcTypes, CommsAssumption
<1>4. /\ oClear' \in [Clears -> [dev : Devices \cup {None}, todo : SUBSET Regs]]
      /\ oClear'[k].dev = d /\ oClear[k].dev = None
      /\ \A j \in Clears \ {k} : oClear'[j] = oClear[j]
  BY <1>2, <1>3, OpcTypes DEF NoClear
<1>5. OpcTypeOK'
  BY <1>2, <1>4, OpcTypes DEF OpcInv, OpcTypeOK
<1>6. \A j \in Clears : oClear'[j].dev = None => oClear'[j].todo = {}
  BY <1>3, <1>4 DEF OpcInv
<1>7. HookedInTime(d)'
  <2>1. Clearing(d)'
    BY <1>4 DEF Clearing
  <2> QED BY <1>1, <1>2, <2>1 DEF OpcInv, HookedInTime, OpcQuiet
<1>8. ASSUME NEW e \in Devices \ {d}
      PROVE  SameFor(e)
  <2>1. Clearing(e)' <=> Clearing(e)
    BY <1>4, CommsAssumption DEF Clearing
  <2> QED BY <1>1, <1>2, <2>1 DEF SameFor
<1>9. CommsInv'
  BY <1>1, QuietKeeps DEF CommsInv, CommsTypeOK
<1> QED BY <1>5, <1>6, <1>7, <1>8, <1>9, OthersHooked DEF OpcInv

(* A node is written back; its callback goes, or the write fails. *)
LEMMA OpcClearNodeKeeps ==
    ASSUME OpcInv, CommsInv, NEW k \in Clears, NEW n \in Regs, OpcClearNode(k, n)
    PROVE  OpcInv' /\ CommsInv'
<1>1. UNCHANGED <<fault, events, unread, counting>>
  BY DEF OpcClearNode, commVars
<1> PICK d : d = oClear[k].dev
  OBVIOUS
<1>2. /\ oClear[k] \in [dev : Devices \cup {None}, todo : SUBSET Regs]
      /\ n \in oClear[k].todo
      /\ oClear' = [oClear EXCEPT ![k].todo = @ \ {n}]
      /\ oHooked' = [oHooked EXCEPT ![d] = @ \ {n}] \/ oHooked' = oHooked
      /\ UNCHANGED <<oRunning, oLife, oTodo, oNodes, oWriting, oLeft, oFaulted, oWritten, oCrossed,
                     oUnhooked>>
  BY OpcTypes DEF OpcClearNode
<1>3. d \in Devices
  <2>1. oClear[k].dev # None
    BY <1>2 DEF OpcInv
  <2> QED BY <1>2, <2>1
<1>4. /\ oClear' \in [Clears -> [dev : Devices \cup {None}, todo : SUBSET Regs]]
      /\ \A j \in Clears : oClear'[j].dev = oClear[j].dev
                           /\ (oClear[j].todo = {} => oClear'[j].todo = {})
  <2> PICK q : q = [oClear[k] EXCEPT !.todo = @ \ {n}]
    OBVIOUS
  <2>1. /\ q \in [dev : Devices \cup {None}, todo : SUBSET Regs]
        /\ q.dev = oClear[k].dev /\ q.todo = oClear[k].todo \ {n}
    BY <1>2
  <2>2. oClear' = [oClear EXCEPT ![k] = q]
    BY <1>2
  <2> QED BY <2>1, <2>2, OpcTypes
<1>5. /\ oHooked' \in [Devices -> SUBSET Regs]
      /\ \A e \in Devices \ {d} : oHooked'[e] = oHooked[e]
  BY <1>2, OpcTypes
<1>6. OpcTypeOK'
  BY <1>2, <1>4, <1>5, OpcTypes DEF OpcInv, OpcTypeOK
<1>7. \A j \in Clears : oClear'[j].dev = None => oClear'[j].todo = {}
  BY <1>4 DEF OpcInv
<1>8. \A e \in Devices : Clearing(e)' <=> Clearing(e)
  BY <1>4 DEF Clearing
<1>9. HookedInTime(d)'
  <2>1. Clearing(d) /\ HookedInTime(d)
    BY <1>3 DEF Clearing, OpcInv
  <2> QED BY <1>1, <1>2, <1>3, <1>8, <2>1 DEF HookedInTime
<1>10. ASSUME NEW e \in Devices \ {d}
       PROVE  SameFor(e)
  BY <1>1, <1>2, <1>5, <1>8 DEF SameFor
<1>11. CommsInv'
  BY <1>1, QuietKeeps DEF CommsInv, CommsTypeOK
<1> QED BY <1>6, <1>7, <1>9, <1>10, <1>11, OthersHooked DEF OpcInv

(* The fault is cleared and the device leaves _faulted in the same turn. *)
LEMMA OpcClearedKeeps ==
    ASSUME OpcInv, CommsInv, NEW k \in Clears, OpcCleared(k)
    PROVE  OpcInv' /\ CommsInv'
<1> PICK d : d = oClear[k].dev
  OBVIOUS
<1>1. /\ d \in Devices /\ fault' = [fault EXCEPT ![d] = "none"]
      /\ UNCHANGED <<events, unread, counting>>
  BY OpcTypes DEF OpcCleared, Cleared, clear_fault
<1>2. /\ oFaulted' = oFaulted \ {d} /\ oUnhooked' = oUnhooked \ {d}
      /\ oClear' = [oClear EXCEPT ![k] = NoClear]
      /\ UNCHANGED <<oRunning, oLife, oTodo, oNodes, oHooked, oWritten, oCrossed, oWriting, oLeft>>
  BY DEF OpcCleared, Cleared
<1>3. /\ oClear' \in [Clears -> [dev : Devices \cup {None}, todo : SUBSET Regs]]
      /\ oClear'[k].dev = None /\ oClear'[k].todo = {}
      /\ \A j \in Clears \ {k} : oClear'[j] = oClear[j]
  BY <1>2, OpcTypes DEF NoClear
<1>4. OpcTypeOK'
  BY <1>2, <1>3, OpcTypes DEF OpcInv, OpcTypeOK
<1>5. \A j \in Clears : oClear'[j].dev = None => oClear'[j].todo = {}
  BY <1>3 DEF OpcInv
<1>6. HookedInTime(d)'
  <2>1. fault'[d] = "none" /\ Clearing(d) /\ HookedInTime(d)
    BY <1>1, OpcTypes DEF OpcInv, Clearing
  <2> QED BY <1>2, <2>1 DEF HookedInTime
<1>7. ASSUME NEW e \in Devices \ {d}
      PROVE  SameFor(e)
  <2>1. Clearing(e)' <=> Clearing(e)
    BY <1>3, CommsAssumption DEF Clearing
  <2>2. fault'[e] = fault[e]
    BY <1>1, OpcTypes
  <2> QED BY <1>2, <2>1, <2>2 DEF SameFor
<1>8. CommsInv'
  BY <1>1, QuietKeeps DEF CommsInv, CommsTypeOK
<1> QED BY <1>4, <1>5, <1>6, <1>7, <1>8, OthersHooked DEF OpcInv

(* stop empties every map. *)
LEMMA OpcStopKeeps ==
    ASSUME OpcInv, CommsInv, OpcStop
    PROVE  OpcInv' /\ CommsInv'
<1>1. CommsInv'
  <2>1. counting' \subseteq Devices /\ UNCHANGED fault /\ Forget({d \in Devices : oNodes[d] # {}})
    BY DEF OpcStop
  <2> QED BY <2>1, ForgetKeeps
<1>2. /\ oRunning' = FALSE /\ oLife' = [d \in Devices |-> "off"]
      /\ oTodo' = [d \in Devices |-> {}] /\ oNodes' = [d \in Devices |-> {}]
      /\ oHooked' = [d \in Devices |-> {}] /\ oWritten' = [d \in Devices |-> {}]
      /\ oFaulted' = {} /\ oClear' = [k \in Clears |-> NoClear]
      /\ oCrossed' = {} /\ oUnhooked' = {}
      /\ oWriting' = [d \in Devices |-> None] /\ oLeft' = [d \in Devices |-> {}]
  BY DEF OpcStop
<1>3. NoClear \in [dev : Devices \cup {None}, todo : SUBSET Regs] /\ NoClear.todo = {}
  BY DEF NoClear
<1>4. OpcTypeOK'
  BY <1>2, <1>3 DEF OpcTypeOK
<1>5. \A d \in Devices : HookedInTime(d)'
  BY <1>2 DEF HookedInTime
<1> QED BY <1>1, <1>2, <1>3, <1>4, <1>5 DEF OpcInv

(* A step of another server: the faults of devices OPC UA does not have. *)
LEMMA OpcRests ==
    ASSUME OpcInv, UNCHANGED opcVars,
           fault' = fault \/ (oFaulted = {} /\ \A d \in Devices : oLife[d] = "off")
    PROVE  OpcInv'
<1>1. UNCHANGED <<oRunning, oLife, oTodo, oNodes, oHooked, oWriting, oLeft, oFaulted, oClear,
                  oWritten, oCrossed, oUnhooked>>
  BY DEF opcVars
<1>2. OpcTypeOK'
  BY <1>1 DEF OpcInv, OpcTypeOK
<1>3. ASSUME NEW d \in Devices
      PROVE  HookedInTime(d)'
  BY <1>1 DEF OpcInv, HookedInTime, Clearing
<1> QED BY <1>1, <1>2, <1>3 DEF OpcInv

(* Every step of the adapter and its clients. *)
LEMMA OpcKeeps ==
    ASSUME OpcInv, CommsInv, NEW ds \in SUBSET Devices, OpcNext(ds)
    PROVE  OpcInv' /\ CommsInv'
<1>1. ASSUME NEW d \in ds, OpcAdd(d) \/ OpcAdded(d) \/ OpcRemove(d) \/ OpcRemoved(d)
                           \/ OpcClearNothing(d) \/ OpcUpdateFails(d)
      PROVE  OpcInv' /\ CommsInv'
  BY <1>1, OpcAddKeeps, OpcAddedKeeps, OpcRemoveKeeps, OpcRemovedKeeps, OpcClearNothingKeeps,
     OpcUpdateFailsKeeps
<1>2. ASSUME NEW d \in ds, NEW f \in OpcFaults, OpcSetFault(d, f)
      PROVE  OpcInv' /\ CommsInv'
  BY <1>2, OpcSetFaultKeeps DEF OpcFaults, FaultTypes
<1>3. ASSUME NEW d \in ds, NEW k \in Clears, OpcClear(k, d)
      PROVE  OpcInv' /\ CommsInv'
  BY <1>3, OpcClearKeeps
<1>4. ASSUME NEW d \in ds, NEW n \in Regs,
             \/ OpcAddNode(d, n) \/ OpcUpdate(d, n) \/ OpcUpdated(d, n)
             \/ OpcClientWrite(d, n) \/ OpcLeftWrite(d, n)
      PROVE  OpcInv' /\ CommsInv'
  BY <1>4, OpcAddNodeKeeps, OpcUpdateKeeps, OpcUpdatedKeeps, OpcClientWriteKeeps,
     OpcLeftWriteKeeps
<1>5. ASSUME NEW d \in ds, mark_read(d), UNCHANGED opcVars
      PROVE  OpcInv' /\ CommsInv'
  BY <1>5, AckKeeps, OpcRests DEF mark_read
<1>6. ASSUME NEW k \in Clears, OpcCleared(k) \/ \E n \in Regs : OpcClearNode(k, n)
      PROVE  OpcInv' /\ CommsInv'
  BY <1>6, OpcClearedKeeps, OpcClearNodeKeeps
<1>7. CASE OpcStop
  BY <1>7, OpcStopKeeps
<1> QED BY <1>1, <1>2, <1>3, <1>4, <1>5, <1>6, <1>7 DEF OpcNext

-----------------------------------------------------------------------------
(* SNMP.  The agent's three maps agree: what a device has listed is mapped to
   it, always; the converse may fail only for stranded OIDs. *)

QueryRecord == [st : {"idle", "deferred", "value", "none", "error"},
                next : BOOLEAN, oid : 0 .. MaxOid, gapless : BOOLEAN]

ListedIsMapped ==
    \A d \in Devices : deviceOids[d] # None => \A o \in deviceOids[d] : oidMap[o] = d

SnmpInv ==
    /\ SnmpTypeOK
    /\ deviceOids \in [Devices -> {None} \cup SUBSET Oids]
    /\ ListedIsMapped
    /\ WalkIsComplete

(* A set of natural numbers that is not empty has a least one. *)
LEMMA LeastExists ==
    ASSUME NEW S \in SUBSET Nat, S # {}
    PROVE  \E x \in S : \A y \in S : x <= y
<1>1. PICK x \in S : \A y \in Nat : <<y, x>> \in OpToRel(<, Nat) => y \notin S
  BY NatLessThanWellFounded, WFMin
<1>2. \A y \in S : ~ (y < x)
  BY <1>1 DEF OpToRel
<1>3. \A y \in S : x <= y
  BY <1>2
<1> QED BY <1>3

(* GETNEXT finds the first OID after the one asked about that resolves. *)
LEMMA ReadNextFacts ==
    ASSUME SnmpInv, NEW o \in 0 .. MaxOid
    PROVE  \/ ReadNext(o) = 0 /\ \A x \in Oids : x > o => ~ Resolves(x)
           \/ /\ ReadNext(o) \in Oids /\ ReadNext(o) > o
              /\ \A x \in Oids : x > o /\ x < ReadNext(o) => ~ Resolves(x)
<1> PICK after : after = {x \in sortedOids : x > o /\ Resolves(x)}
  OBVIOUS
<1>1. after = {x \in Oids : x > o /\ Resolves(x)}
  BY DEF SnmpInv, WalkIsComplete, Resolves
<1>2. ReadNext(o) = IF after = {} THEN 0 ELSE CHOOSE x \in after : \A y \in after : x <= y
  BY DEF ReadNext
<1>3. CASE after = {}
  BY <1>1, <1>2, <1>3
<1>4. CASE after # {}
  <2>1. after \in SUBSET Nat
    BY <1>1, SnmpAssumption DEF Oids
  <2>2. \E x \in after : \A y \in after : x <= y
    BY <1>4, <2>1, LeastExists
  <2>3. ReadNext(o) \in after /\ \A y \in after : ReadNext(o) <= y
    BY <1>2, <1>4, <2>2
  <2>4. ASSUME NEW x \in Oids, x > o, x < ReadNext(o)
        PROVE  ~ Resolves(x)
    <3>1. ReadNext(o) \in Nat /\ x \in Nat
      BY <2>1, <2>3, SnmpAssumption DEF Oids
    <3> QED BY <1>1, <2>3, <2>4, <3>1
  <2> QED BY <1>1, <2>3, <2>4
<1> QED BY <1>3, <1>4

(* So no answer has passed over an OID that could have been read. *)
LEMMA AnswerIsGapless ==
    ASSUME SnmpInv, NEW next \in BOOLEAN, NEW o \in 0 .. MaxOid
    PROVE  Answer(next, o) \in QueryRecord /\ Answer(next, o).gapless
<1> PICK a : a = IF next THEN ReadNext(o) ELSE IF Resolves(o) THEN o ELSE 0
  OBVIOUS
<1> PICK passed : passed = {x \in Oids : x > o /\ Resolves(x) /\ (a = 0 \/ x < a)}
  OBVIOUS
<1>1. next => passed = {} /\ (a = 0 \/ a > o)
  BY ReadNextFacts
<1>2. Answer(next, o) =
        [Idle EXCEPT
          !.st = IF Raises(next, o) THEN "error" ELSE IF a = 0 THEN "none" ELSE "value",
          !.gapless = next => passed = {} /\ (a = 0 \/ a > o)]
  BY DEF Answer
<1>3. (next => passed = {} /\ (a = 0 \/ a > o)) = TRUE
  BY <1>1
<1> PICK st \in {"error", "none", "value"} :
        st = IF Raises(next, o) THEN "error" ELSE IF a = 0 THEN "none" ELSE "value"
  OBVIOUS
<1>4. Answer(next, o) = [Idle EXCEPT !.st = st, !.gapless = TRUE]
  BY <1>2, <1>3
<1>5. Answer(next, o) = [st |-> st, next |-> FALSE, oid |-> 0, gapless |-> TRUE]
  BY <1>4 DEF Idle
<1>6. 0 \in 0 .. MaxOid
  BY SnmpAssumption
<1> QED BY <1>5, <1>6 DEF QueryRecord

(* The maps are resorted whenever they change. *)
LEMMA ResortKeepsWalk ==
    ASSUME SnmpInv, UNCHANGED query
    PROVE  \A q \in Queries : query'[q].st \in {"value", "none"} => query'[q].gapless
BY DEF SnmpInv, WalkIsComplete

(* add_device gives a device's OIDs to it, and strands those it had listed
   under an earlier registration. *)
LEMMA SnmpAddKeeps ==
    ASSUME SnmpInv, CommsInv, NEW d \in Devices, NEW os \in Templates, SnmpAdd(d, os)
    PROVE  SnmpInv' /\ CommsInv'
<1>1. CommsInv'
  <2>1. counting' \subseteq Devices /\ UNCHANGED <<fault, events, unread>>
    BY StatsTypes DEF SnmpAdd, CommsInv, CommsTypeOK
  <2> QED BY <2>1, QuietKeeps
<1>2. /\ \A o \in os : oidMap[o] \in {None, d}
      /\ oidMap' = [o \in Oids |-> IF o \in os THEN d ELSE oidMap[o]]
      /\ deviceOids' = [deviceOids EXCEPT ![d] = os]
      /\ sortedOids' = {o \in Oids : oidMap'[o] # None}
      /\ stranded' = (stranded \ os)
                       \cup (IF deviceOids[d] = None THEN {} ELSE deviceOids[d] \ os)
      /\ UNCHANGED <<sRunning, valued, query>>
  BY DEF SnmpAdd, Resort
<1>3. /\ oidMap \in [Oids -> Devices \cup {None}] /\ stranded \subseteq Oids
      /\ deviceOids \in [Devices -> {None} \cup SUBSET Oids]
      /\ os \subseteq Oids /\ os # None
  BY SnmpAssumption DEF SnmpInv, SnmpTypeOK
<1>4. deviceOids' \in [Devices -> {None} \cup SUBSET Oids] /\ deviceOids'[d] = os
      /\ \A e \in Devices \ {d} : deviceOids'[e] = deviceOids[e]
  BY <1>2, <1>3
<1>5. SnmpTypeOK'
  <2>1. oidMap' \in [Oids -> Devices \cup {None}] /\ stranded' \subseteq Oids
    BY <1>2, <1>3
  <2> QED BY <1>2, <1>4, <2>1 DEF SnmpInv, SnmpTypeOK
<1>6. ListedIsMapped'
  <2> SUFFICES ASSUME NEW e \in Devices, deviceOids'[e] # None, NEW o \in deviceOids'[e]
               PROVE  oidMap'[o] = e
    BY DEF ListedIsMapped
  <2>1. CASE e = d
    BY <1>2, <1>3, <1>4, <2>1
  <2>2. CASE e # d
    <3>1. oidMap[o] = e /\ o \in Oids
      BY <1>3, <1>4, <2>2 DEF SnmpInv, ListedIsMapped
    <3>2. o \notin os
      BY <1>2, <2>2, <3>1, CommsAssumption
    <3> QED BY <1>2, <3>1, <3>2
  <2> QED BY <2>1, <2>2
<1>7. ASSUME NEW o \in Oids \ stranded', NEW e \in Devices, oidMap'[o] = e
      PROVE  deviceOids'[e] # None /\ o \in deviceOids'[e]
  <2>1. CASE o \in os
    BY <1>2, <1>3, <1>4, <1>7, <2>1
  <2>2. CASE o \notin os
    <3>1. oidMap[o] = e /\ o \notin stranded
      BY <1>2, <1>7, <2>2
    <3>2. deviceOids[e] # None /\ o \in deviceOids[e]
      BY <3>1 DEF SnmpInv, WalkIsComplete
    <3>3. e # d
      BY <1>2, <2>2, <3>2
    <3> QED BY <1>4, <3>2, <3>3
  <2> QED BY <2>1, <2>2
<1>8. WalkIsComplete'
  BY <1>2, <1>6, <1>7, ResortKeepsWalk DEF WalkIsComplete, ListedIsMapped
<1> QED BY <1>1, <1>4, <1>5, <1>6, <1>8 DEF SnmpInv

(* remove_device takes the listed OIDs out of the map. *)
LEMMA SnmpRemoveKeeps ==
    ASSUME SnmpInv, CommsInv, NEW d \in Devices, SnmpRemove(d)
    PROVE  SnmpInv' /\ CommsInv'
<1>1. CommsInv'
  <2>1. counting' \subseteq Devices /\ UNCHANGED <<fault, events, unread>>
    BY StatsTypes DEF SnmpRemove, CommsInv, CommsTypeOK
  <2> QED BY <2>1, QuietKeeps
<1>2. /\ deviceOids[d] # None
      /\ oidMap' = [o \in Oids |-> IF o \in deviceOids[d] THEN None ELSE oidMap[o]]
      /\ sortedOids' = {o \in Oids : oidMap'[o] # None}
      /\ deviceOids' = [deviceOids EXCEPT ![d] = None]
      /\ stranded' = stranded \ deviceOids[d]
      /\ UNCHANGED <<sRunning, valued, query>>
  BY DEF SnmpRemove, Resort
<1>3. /\ oidMap \in [Oids -> Devices \cup {None}] /\ stranded \subseteq Oids
      /\ deviceOids \in [Devices -> {None} \cup SUBSET Oids]
  BY DEF SnmpInv, SnmpTypeOK
<1>4. deviceOids' \in [Devices -> {None} \cup SUBSET Oids] /\ deviceOids'[d] = None
      /\ \A e \in Devices \ {d} : deviceOids'[e] = deviceOids[e]
  BY <1>2, <1>3
<1>5. SnmpTypeOK'
  <2>1. oidMap' \in [Oids -> Devices \cup {None}] /\ stranded' \subseteq Oids
    BY <1>2, <1>3
  <2> QED BY <1>2, <1>4, <2>1 DEF SnmpInv, SnmpTypeOK
<1>6. ListedIsMapped'
  <2> SUFFICES ASSUME NEW e \in Devices, deviceOids'[e] # None, NEW o \in deviceOids'[e]
               PROVE  oidMap'[o] = e
    BY DEF ListedIsMapped
  <2>1. e # d /\ oidMap[o] = e /\ o \in Oids
    BY <1>3, <1>4 DEF SnmpInv, ListedIsMapped
  <2>2. o \notin deviceOids[d]
    BY <1>2, <2>1 DEF SnmpInv, ListedIsMapped
  <2> QED BY <1>2, <2>1, <2>2
<1>7. ASSUME NEW o \in Oids \ stranded', NEW e \in Devices, oidMap'[o] = e
      PROVE  deviceOids'[e] # None /\ o \in deviceOids'[e]
  <2>1. o \notin deviceOids[d] /\ oidMap[o] = e
    BY <1>2, <1>7, CommsAssumption
  <2>2. deviceOids[e] # None /\ o \in deviceOids[e]
    BY <1>2, <2>1 DEF SnmpInv, WalkIsComplete
  <2> QED BY <1>4, <2>1, <2>2
<1>8. WalkIsComplete'
  BY <1>2, <1>6, <1>7, ResortKeepsWalk DEF WalkIsComplete, ListedIsMapped
<1> QED BY <1>1, <1>4, <1>5, <1>6, <1>8 DEF SnmpInv

(* stop empties the maps. *)
LEMMA SnmpStopKeeps ==
    ASSUME SnmpInv, CommsInv, SnmpStop
    PROVE  SnmpInv' /\ CommsInv'
<1>1. CommsInv'
  <2>1. counting' \subseteq Devices /\ UNCHANGED <<fault, events, unread>>
    BY DEF SnmpStop
  <2> QED BY <2>1, QuietKeeps
<1>2. /\ oidMap' = [o \in Oids |-> None] /\ deviceOids' = [d \in Devices |-> None]
      /\ sortedOids' = {} /\ stranded' = {} /\ sRunning' = FALSE /\ UNCHANGED <<valued, query>>
  BY DEF SnmpStop
<1>3. SnmpTypeOK' /\ deviceOids' \in [Devices -> {None} \cup SUBSET Oids]
  BY <1>2 DEF SnmpInv, SnmpTypeOK
<1>4. ListedIsMapped'
  BY <1>2 DEF ListedIsMapped
<1>5. WalkIsComplete'
  <2>1. \A o \in Oids, d \in Devices : oidMap'[o] # d /\ deviceOids'[d] = None
    BY <1>2, CommsAssumption
  <2>2. sortedOids' = {o \in Oids : oidMap'[o] # None}
    BY <1>2
  <2> QED BY <1>2, <2>1, <2>2, ResortKeepsWalk DEF WalkIsComplete
<1> QED BY <1>1, <1>3, <1>4, <1>5 DEF SnmpInv

(* A step that changes only queries, each to one without a gap. *)
LEMMA SnmpQueriesKeep ==
    ASSUME SnmpInv, CommsInv, UNCHANGED <<oidMap, deviceOids, sortedOids, stranded>>,
           sRunning' \in BOOLEAN, valued' \subseteq Devices,
           UNCHANGED <<fault, events, unread>>, counting' \subseteq Devices,
           query' = query \/ \E q \in Queries, a \in QueryRecord :
                                a.gapless /\ query' = [query EXCEPT ![q] = a]
    PROVE  SnmpInv' /\ CommsInv'
<1>1. query \in [Queries -> QueryRecord]
  BY DEF SnmpInv, SnmpTypeOK, QueryRecord
<1>2. query' \in [Queries -> QueryRecord]
      /\ \A q \in Queries : query'[q].st \in {"value", "none"} => query'[q].gapless
  <2>1. CASE query' = query
    BY <1>1, <2>1 DEF SnmpInv, WalkIsComplete
  <2>2. ASSUME NEW q \in Queries, NEW a \in QueryRecord, a.gapless,
               query' = [query EXCEPT ![q] = a]
        PROVE  query' \in [Queries -> QueryRecord]
               /\ \A p \in Queries : query'[p].st \in {"value", "none"} => query'[p].gapless
    BY <1>1, <2>2 DEF SnmpInv, WalkIsComplete
  <2> QED BY <2>1, <2>2
<1>3. SnmpTypeOK' /\ deviceOids' \in [Devices -> {None} \cup SUBSET Oids] /\ ListedIsMapped'
  BY <1>2 DEF SnmpInv, SnmpTypeOK, QueryRecord, ListedIsMapped
<1>4. WalkIsComplete'
  BY <1>2 DEF SnmpInv, WalkIsComplete
<1>5. CommsInv'
  BY QuietKeeps
<1> QED BY <1>3, <1>4, <1>5 DEF SnmpInv

(* Every step of the agent and its clients. *)
LEMMA SnmpKeeps ==
    ASSUME SnmpInv, CommsInv, NEW ds \in SUBSET Devices, SnmpNext(ds)
    PROVE  SnmpInv' /\ CommsInv'
<1>0. /\ query \in [Queries -> QueryRecord] /\ sRunning \in BOOLEAN /\ valued \subseteq Devices
      /\ counting \subseteq Devices
  BY DEF SnmpInv, SnmpTypeOK, QueryRecord, CommsInv, CommsTypeOK
<1>00. Idle \in QueryRecord /\ Idle.gapless
  BY SnmpAssumption DEF Idle, QueryRecord
<1>1. ASSUME NEW d \in ds, NEW os \in Templates, SnmpAdd(d, os)
      PROVE  SnmpInv' /\ CommsInv'
  BY <1>1, SnmpAddKeeps
<1>2. ASSUME NEW d \in ds, NEW os \in Templates, SnmpAddRefused(d, os)
      PROVE  SnmpInv' /\ CommsInv'
  <2>1. /\ UNCHANGED <<fault, events, unread, sRunning, oidMap, deviceOids, sortedOids, valued,
                       query, stranded>>
        /\ counting' \subseteq Devices
    BY <1>0, <1>2, StatsTypes DEF SnmpAddRefused, snmpVars
  <2> QED BY <1>0, <2>1, SnmpQueriesKeep
<1>3. ASSUME NEW d \in ds, SnmpRemove(d)
      PROVE  SnmpInv' /\ CommsInv'
  BY <1>3, SnmpRemoveKeeps
<1>4. ASSUME NEW d \in ds, SnmpValues(d)
      PROVE  SnmpInv' /\ CommsInv'
  <2>1. /\ UNCHANGED <<fault, events, unread, counting>>
        /\ UNCHANGED <<sRunning, oidMap, deviceOids, sortedOids, query, stranded>>
        /\ valued' \subseteq Devices
    BY <1>0, <1>4 DEF SnmpValues, commVars
  <2> QED BY <1>0, <2>1, SnmpQueriesKeep
<1>5. ASSUME NEW d \in ds, SetFault(d, FaultTypes) \/ ClearFault(d), UNCHANGED snmpVars
      PROVE  SnmpInv' /\ CommsInv'
  <2>1. CommsInv'
    BY <1>5, FaultRoutes
  <2>2. SnmpInv'
    BY <1>5 DEF snmpVars, SnmpInv, SnmpTypeOK, ListedIsMapped, WalkIsComplete
  <2> QED BY <2>1, <2>2
<1>6. CASE SnmpStop
  BY <1>6, SnmpStopKeeps
<1>7. ASSUME NEW q \in Queries, SnmpDeferred(q)
      PROVE  SnmpInv' /\ CommsInv'
  <2> PICK a : a = IF sRunning THEN Answer(query[q].next, query[q].oid) ELSE Idle
    OBVIOUS
  <2>1. query' = [query EXCEPT ![q] = a]
        /\ UNCHANGED <<fault, events, unread, counting>>
        /\ UNCHANGED <<sRunning, oidMap, deviceOids, sortedOids, valued, stranded>>
    BY <1>7 DEF SnmpDeferred, commVars
  <2>2. query[q].next \in BOOLEAN /\ query[q].oid \in 0 .. MaxOid
    <3>1. query[q] \in QueryRecord
      BY <1>0
    <3> QED BY <3>1 DEF QueryRecord
  <2>3. a \in QueryRecord /\ a.gapless
    BY <1>00, <2>2, AnswerIsGapless
  <2> QED BY <1>0, <2>1, <2>3, SnmpQueriesKeep
<1>8. ASSUME NEW q \in Queries, SnmpDone(q)
      PROVE  SnmpInv' /\ CommsInv'
  <2>1. query' = [query EXCEPT ![q] = Idle]
        /\ UNCHANGED <<fault, events, unread, counting>>
        /\ UNCHANGED <<sRunning, oidMap, deviceOids, sortedOids, valued, stranded>>
    BY <1>8 DEF SnmpDone, commVars
  <2> QED BY <1>0, <1>00, <2>1, SnmpQueriesKeep
<1>9. ASSUME NEW q \in Queries, NEW next \in BOOLEAN, NEW o \in 0 .. MaxOid,
             SnmpQuery(q, next, o)
      PROVE  SnmpInv' /\ CommsInv'
  <2> PICK a : a = [Idle EXCEPT !.st = "deferred", !.next = next, !.oid = o]
    OBVIOUS
  <2>1. a \in QueryRecord /\ a.gapless
    BY <1>00, <1>9 DEF Idle, QueryRecord
  <2>2. Answer(next, o) \in QueryRecord /\ Answer(next, o).gapless
    BY AnswerIsGapless
  <2>3. query' = query \/ query' = [query EXCEPT ![q] = a]
        \/ query' = [query EXCEPT ![q] = Answer(next, o)]
    BY <1>9 DEF SnmpQuery
  <2>4. query' = query \/ \E p \in Queries, b \in QueryRecord :
                             b.gapless /\ query' = [query EXCEPT ![p] = b]
    BY <2>1, <2>2, <2>3
  <2>5. UNCHANGED <<fault, events, unread, counting>>
        /\ UNCHANGED <<sRunning, oidMap, deviceOids, sortedOids, valued, stranded>>
    BY <1>9 DEF SnmpQuery, commVars
  <2> QED BY <1>0, <2>4, <2>5, SnmpQueriesKeep
<1> QED BY <1>1, <1>2, <1>3, <1>4, <1>5, <1>6, <1>7, <1>8, <1>9 DEF SnmpNext

-----------------------------------------------------------------------------
(* BACnet.  The nodes of the LAN are counted address by address: one where a
   device has its application, none elsewhere. *)

ReadRecord == [st : {"idle", "asleep", "done"}, dev : Devices \cup {None},
               counts : 0 .. 1, crossed : BOOLEAN]

At(m) == \E d \in Devices : apps[d] = m

NodePerApp == \A m \in Macs : nodes[m] = IF At(m) THEN 1 ELSE 0

AppsOwnInstance == \A d \in Devices : apps[d] # None => instanceOwner[apps[d]] = d

OwnersHaveApps ==
    \A m \in Macs : instanceOwner[m] # None /\ m \notin outlived => apps[instanceOwner[m]] = m

(* A read that is asleep has not been counted, and will be if its device had
   statistics and nothing has changed since. *)
ReadsCount ==
    \A q \in Reads :
        /\ reading[q].st \in {"idle", "asleep"} => reading[q].counts = 0
        /\ reading[q].st = "asleep" /\ ~ reading[q].crossed => reading[q].dev \in counting

BacnetInv ==
    /\ BacnetTypeOK /\ NodePerApp /\ AppsOwnInstance /\ OwnersHaveApps
    /\ ReadsCount /\ ReadCountedOnce

(* The property of the runs follows: at most one device is at an address. *)
LEMMA NodesMatchApps ==
    ASSUME BacnetInv
    PROVE  VlanMatchesApps
<1>1. ASSUME NEW m \in Macs
      PROVE  nodes[m] = Cardinality({d \in Devices : apps[d] = m})
  <2>1. CASE At(m)
    <3> PICK d \in Devices : apps[d] = m
      BY <2>1 DEF At
    <3>1. \A e \in Devices : apps[e] = m => e = d
      BY BacnetAssumption DEF BacnetInv, AppsOwnInstance
    <3>2. {e \in Devices : apps[e] = m} = {d}
      BY <3>1
    <3> QED BY <2>1, <3>2, FS_Singleton DEF BacnetInv, NodePerApp
  <2>2. CASE ~ At(m)
    <3>1. {e \in Devices : apps[e] = m} = {}
      BY <2>2 DEF At
    <3> QED BY <2>2, <3>1, FS_EmptySet DEF BacnetInv, NodePerApp
  <2> QED BY <2>1, <2>2
<1>2. \A m \in Macs : nodes[m] <= 1
  BY DEF BacnetInv, NodePerApp
<1> QED BY <1>1, <1>2 DEF VlanMatchesApps, BacnetInv, OwnersHaveApps, AppsOwnInstance

(* The types the proofs of the actions use. *)
LEMMA BacnetTypes ==
    ASSUME BacnetInv
    PROVE  /\ apps \in [Devices -> Macs \cup {None}] /\ nodes \in [Macs -> Nat]
           /\ instanceOwner \in [Macs -> Devices \cup {None}]
           /\ reading \in [Reads -> ReadRecord] /\ outlived \subseteq Macs
           /\ bRunning \in BOOLEAN
BY DEF BacnetInv, BacnetTypeOK, ReadRecord

(* Taking the application of d off the LAN leaves the nodes of the others. *)
LEMMA DetachFacts ==
    ASSUME BacnetInv, NEW d \in Devices
    PROVE  /\ Detach(nodes, apps[d]) \in [Macs -> Nat]
           /\ \A m \in Macs : Detach(nodes, apps[d])[m] =
                                IF \E e \in Devices \ {d} : apps[e] = m THEN 1 ELSE 0
<1>1. CASE apps[d] = None
  <2>1. Detach(nodes, apps[d]) = nodes
    BY <1>1 DEF Detach
  <2> QED BY <1>1, <2>1, BacnetTypes, BacnetAssumption DEF BacnetInv, NodePerApp, At
<1>2. CASE apps[d] # None
  <2>1. apps[d] \in Macs /\ Detach(nodes, apps[d]) = [nodes EXCEPT ![apps[d]] = @ - 1]
    BY <1>2, BacnetTypes DEF Detach
  <2>2. nodes[apps[d]] = 1 /\ \A e \in Devices \ {d} : apps[e] # apps[d]
    BY <1>2, <2>1 DEF BacnetInv, NodePerApp, At, AppsOwnInstance
  <2>3. Detach(nodes, apps[d])[apps[d]] = 0
    BY <2>1, <2>2, BacnetTypes
  <2>4. \A m \in Macs \ {apps[d]} : Detach(nodes, apps[d])[m] = nodes[m]
    BY <2>1, BacnetTypes
  <2>5. ASSUME NEW m \in Macs
        PROVE  Detach(nodes, apps[d])[m] = IF \E e \in Devices \ {d} : apps[e] = m THEN 1 ELSE 0
    BY <2>2, <2>3, <2>4 DEF BacnetInv, NodePerApp, At
  <2>6. Detach(nodes, apps[d]) \in [Macs -> Nat]
    BY <2>1, <2>2, BacnetTypes
  <2> QED BY <2>5, <2>6
<1> QED BY <1>1, <1>2

(* A change of the registration of d crosses the reads of d that are asleep. *)
LEMMA DisturbKeeps ==
    ASSUME BacnetInv, NEW d \in Devices, Disturb(d),
           \A e \in counting : e = d \/ e \in counting'
    PROVE  reading' \in [Reads -> ReadRecord] /\ ReadsCount' /\ ReadCountedOnce'
<1> SUFFICES ASSUME NEW q \in Reads
             PROVE  /\ reading'[q] \in ReadRecord
                    /\ reading'[q].st \in {"idle", "asleep"} => reading'[q].counts = 0
                    /\ reading'[q].st = "asleep" /\ ~ reading'[q].crossed
                          => reading'[q].dev \in counting'
                    /\ reading'[q].st = "done" /\ ~ reading'[q].crossed => reading'[q].counts = 1
  BY DEF Disturb, ReadsCount, ReadCountedOnce
<1>1. reading[q] \in ReadRecord
  BY BacnetTypes
<1>2. CASE reading[q].st = "asleep" /\ reading[q].dev = d
  <2>1. reading'[q] = [reading[q] EXCEPT !.crossed = TRUE]
    BY <1>2 DEF Disturb
  <2>2. /\ reading'[q] \in ReadRecord /\ reading'[q].crossed /\ reading'[q].st = "asleep"
        /\ reading'[q].counts = reading[q].counts
    BY <1>1, <1>2, <2>1 DEF ReadRecord
  <2> QED BY <1>2, <2>2 DEF BacnetInv, ReadsCount
<1>3. CASE ~ (reading[q].st = "asleep" /\ reading[q].dev = d)
  <2>1. reading'[q] = reading[q]
    BY <1>3 DEF Disturb
  <2> QED BY <1>1, <1>3, <2>1 DEF BacnetInv, ReadsCount, ReadCountedOnce
<1> QED BY <1>2, <1>3

(* add_device that is refused changes no registration. *)
LEMMA BacnetAddRefusedKeeps ==
    ASSUME BacnetInv, CommsInv, NEW d \in Devices, NEW m \in Macs, BacnetAddRefused(d, m)
    PROVE  BacnetInv' /\ CommsInv'
<1>1. CommsInv'
  <2>1. counting' \subseteq Devices /\ UNCHANGED <<fault, events, unread>>
    BY StatsTypes DEF BacnetAddRefused, CommsInv, CommsTypeOK
  <2> QED BY <2>1, QuietKeeps
<1>2. Disturb(d) /\ counting' = counting \ {d}
      /\ UNCHANGED <<bRunning, apps, nodes, instanceOwner, outlived>>
  BY DEF BacnetAddRefused, DropStats
<1>3. reading' \in [Reads -> ReadRecord] /\ ReadsCount' /\ ReadCountedOnce'
  BY <1>2, DisturbKeeps
<1>4. BacnetTypeOK' /\ NodePerApp' /\ AppsOwnInstance' /\ OwnersHaveApps'
  BY <1>2, <1>3 DEF BacnetInv, BacnetTypeOK, NodePerApp, At, AppsOwnInstance, OwnersHaveApps,
                    ReadRecord
<1> QED BY <1>1, <1>3, <1>4 DEF BacnetInv

(* add_device: the old application goes, a new node takes the address. *)
LEMMA BacnetAddKeeps ==
    ASSUME BacnetInv, CommsInv, NEW d \in Devices, NEW m \in Macs, BacnetAdd(d, m)
    PROVE  BacnetInv' /\ CommsInv'
<1>1. CommsInv'
  <2>1. counting' \subseteq Devices /\ UNCHANGED <<fault, events, unread>>
    BY StatsTypes DEF BacnetAdd, CommsInv, CommsTypeOK
  <2> QED BY <2>1, QuietKeeps
<1> PICK lan : lan = Detach(nodes, apps[d])
  OBVIOUS
<1>2. /\ instanceOwner[m] \in {None, d}
      /\ nodes' = [lan EXCEPT ![m] = @ + 1] /\ apps' = [apps EXCEPT ![d] = m]
      /\ instanceOwner' = [instanceOwner EXCEPT ![m] = d]
      /\ outlived' = (outlived \cup ({apps[d]} \cap Macs)) \ {m}
      /\ Disturb(d) /\ counting' = counting \cup {d} /\ UNCHANGED bRunning
  BY DEF BacnetAdd, Attach, AddStats
<1>3. /\ lan \in [Macs -> Nat]
      /\ \A x \in Macs : lan[x] = IF \E e \in Devices \ {d} : apps[e] = x THEN 1 ELSE 0
  BY DetachFacts
<1>4. reading' \in [Reads -> ReadRecord] /\ ReadsCount' /\ ReadCountedOnce'
  BY <1>2, DisturbKeeps
<1>5. /\ apps' \in [Devices -> Macs \cup {None}] /\ apps'[d] = m
      /\ \A e \in Devices \ {d} : apps'[e] = apps[e]
      /\ instanceOwner' \in [Macs -> Devices \cup {None}] /\ instanceOwner'[m] = d
      /\ \A x \in Macs \ {m} : instanceOwner'[x] = instanceOwner[x]
  BY <1>2, BacnetTypes
<1>6. \A e \in Devices \ {d} : apps[e] # m
  BY <1>2, CommsAssumption, BacnetAssumption DEF BacnetInv, AppsOwnInstance
<1>7. NodePerApp'
  <2>1. nodes'[m] = 1 /\ \A x \in Macs \ {m} : nodes'[x] = lan[x]
    BY <1>2, <1>3, <1>6
  <2>2. \A x \in Macs \ {m} : At(x)' <=> \E e \in Devices \ {d} : apps[e] = x
    BY <1>5 DEF At
  <2>3. At(m)'
    BY <1>5 DEF At
  <2> QED BY <1>3, <2>1, <2>2, <2>3 DEF NodePerApp
<1>8. BacnetTypeOK'
  <2>1. nodes' \in [Macs -> Nat]
    BY <1>2, <1>3
  <2>2. outlived' \subseteq Macs
    BY <1>2, BacnetTypes
  <2> QED BY <1>2, <1>4, <1>5, <2>1, <2>2 DEF BacnetInv, BacnetTypeOK, ReadRecord
<1>9. AppsOwnInstance'
  <2> SUFFICES ASSUME NEW e \in Devices, apps'[e] # None
               PROVE  instanceOwner'[apps'[e]] = e
    BY DEF AppsOwnInstance
  <2>1. CASE e = d
    BY <1>5, <2>1
  <2>2. CASE e # d
    <3>1. apps[e] \in Macs \ {m} /\ instanceOwner[apps[e]] = e /\ apps'[e] = apps[e]
      BY <1>5, <1>6, <2>2, BacnetTypes DEF BacnetInv, AppsOwnInstance
    <3> QED BY <1>5, <3>1
  <2> QED BY <2>1, <2>2
<1>10. OwnersHaveApps'
  <2> SUFFICES ASSUME NEW x \in Macs, instanceOwner'[x] # None, x \notin outlived'
               PROVE  apps'[instanceOwner'[x]] = x
    BY DEF OwnersHaveApps
  <2>1. CASE x = m
    BY <1>5, <2>1
  <2>2. CASE x # m
    <3>1. x \notin outlived /\ x # apps[d] /\ instanceOwner'[x] = instanceOwner[x]
      BY <1>2, <1>5, <2>2
    <3>2. apps[instanceOwner[x]] = x /\ instanceOwner[x] \in Devices
      BY <3>1, BacnetTypes DEF BacnetInv, OwnersHaveApps
    <3> QED BY <1>5, <3>1, <3>2
  <2> QED BY <2>1, <2>2
<1> QED BY <1>1, <1>4, <1>7, <1>8, <1>9, <1>10 DEF BacnetInv

(* The part an add_device that fails and a remove_device have in common: the
   node and the application of d go. *)
LEMMA AppGoes ==
    ASSUME BacnetInv, NEW d \in Devices,
           nodes' = Detach(nodes, apps[d]), apps' = [apps EXCEPT ![d] = None]
    PROVE  /\ nodes' \in [Macs -> Nat] /\ NodePerApp'
           /\ apps' \in [Devices -> Macs \cup {None}] /\ apps'[d] = None
           /\ \A e \in Devices \ {d} : apps'[e] = apps[e]
<1>1. /\ apps' \in [Devices -> Macs \cup {None}] /\ apps'[d] = None
      /\ \A e \in Devices \ {d} : apps'[e] = apps[e]
  BY BacnetTypes
<1>2. /\ nodes' \in [Macs -> Nat]
      /\ \A x \in Macs : nodes'[x] = IF \E e \in Devices \ {d} : apps[e] = x THEN 1 ELSE 0
  BY DetachFacts
<1>3. \A x \in Macs : At(x)' <=> \E e \in Devices \ {d} : apps[e] = x
  BY <1>1, BacnetAssumption DEF At
<1> QED BY <1>1, <1>2, <1>3 DEF NodePerApp

(* add_device that fails half-way takes its own node off again. *)
LEMMA BacnetAddFailsKeeps ==
    ASSUME BacnetInv, CommsInv, NEW d \in Devices, NEW m \in Macs, BacnetAddFails(d, m)
    PROVE  BacnetInv' /\ CommsInv'
<1>1. CommsInv'
  <2>1. counting' \subseteq Devices /\ UNCHANGED <<fault, events, unread>>
    BY StatsTypes DEF BacnetAddFails, CommsInv, CommsTypeOK
  <2> QED BY <2>1, QuietKeeps
<1> PICK lan : lan = Detach(nodes, apps[d])
  OBVIOUS
<1>2. /\ nodes' = Detach(Attach(lan, m), m) /\ apps' = [apps EXCEPT ![d] = None]
      /\ outlived' = outlived \cup ({apps[d]} \cap Macs)
      /\ Disturb(d) /\ counting' = counting \ {d} /\ UNCHANGED <<bRunning, instanceOwner>>
  BY DEF BacnetAddFails, DropStats
<1>3. nodes' = lan
  <2>1. lan \in [Macs -> Nat] /\ m # None
    BY DetachFacts, BacnetAssumption
  <2>2. /\ Attach(lan, m) \in [Macs -> Nat] /\ Attach(lan, m)[m] = lan[m] + 1
        /\ \A x \in Macs \ {m} : Attach(lan, m)[x] = lan[x]
    BY <2>1 DEF Attach
  <2>3. nodes' = [Attach(lan, m) EXCEPT ![m] = @ - 1]
    BY <1>2, <2>1 DEF Detach
  <2>4. nodes' \in [Macs -> Int] /\ \A x \in Macs : nodes'[x] = lan[x]
    BY <2>1, <2>2, <2>3
  <2> QED BY <2>1, <2>4
<1>4. reading' \in [Reads -> ReadRecord] /\ ReadsCount' /\ ReadCountedOnce'
  BY <1>2, DisturbKeeps
<1>5. /\ nodes' \in [Macs -> Nat] /\ NodePerApp'
      /\ apps' \in [Devices -> Macs \cup {None}] /\ apps'[d] = None
      /\ \A e \in Devices \ {d} : apps'[e] = apps[e]
  BY <1>2, <1>3, AppGoes
<1>6. BacnetTypeOK'
  BY <1>2, <1>4, <1>5, BacnetTypes DEF BacnetTypeOK, ReadRecord
<1>7. AppsOwnInstance'
  BY <1>2, <1>5 DEF BacnetInv, AppsOwnInstance
<1>8. OwnersHaveApps'
  <2> SUFFICES ASSUME NEW x \in Macs, instanceOwner[x] # None, x \notin outlived'
               PROVE  apps'[instanceOwner[x]] = x
    BY <1>2 DEF OwnersHaveApps
  <2>1. x \notin outlived /\ x # apps[d]
    BY <1>2
  <2>2. apps[instanceOwner[x]] = x /\ instanceOwner[x] \in Devices
    BY <2>1, BacnetTypes DEF BacnetInv, OwnersHaveApps
  <2> QED BY <1>5, <2>1, <2>2
<1> QED BY <1>1, <1>4, <1>5, <1>6, <1>7, <1>8 DEF BacnetInv

(* remove_device lets go of the instance too. *)
LEMMA BacnetRemoveKeeps ==
    ASSUME BacnetInv, CommsInv, NEW d \in Devices, BacnetRemove(d)
    PROVE  BacnetInv' /\ CommsInv'
<1>1. CommsInv'
  <2>1. counting' \subseteq Devices /\ UNCHANGED fault /\ Forget({d})
    BY StatsTypes DEF BacnetRemove, CommsInv, CommsTypeOK
  <2> QED BY <2>1, ForgetKeeps
<1>2. /\ nodes' = Detach(nodes, apps[d]) /\ apps' = [apps EXCEPT ![d] = None]
      /\ instanceOwner' = [m \in Macs |-> IF instanceOwner[m] = d THEN None
                                          ELSE instanceOwner[m]]
      /\ outlived' = {m \in outlived : instanceOwner[m] # d}
      /\ Disturb(d) /\ counting' = counting \ {d} /\ UNCHANGED bRunning
  BY DEF BacnetRemove, DropStats
<1>3. reading' \in [Reads -> ReadRecord] /\ ReadsCount' /\ ReadCountedOnce'
  BY <1>2, DisturbKeeps
<1>4. /\ nodes' \in [Macs -> Nat] /\ NodePerApp'
      /\ apps' \in [Devices -> Macs \cup {None}] /\ apps'[d] = None
      /\ \A e \in Devices \ {d} : apps'[e] = apps[e]
  BY <1>2, AppGoes
<1>5. BacnetTypeOK'
  <2>1. instanceOwner' \in [Macs -> Devices \cup {None}] /\ outlived' \subseteq Macs
    BY <1>2, BacnetTypes
  <2> QED BY <1>2, <1>3, <1>4, <2>1, BacnetTypes DEF BacnetTypeOK, ReadRecord
<1>6. AppsOwnInstance'
  <2> SUFFICES ASSUME NEW e \in Devices \ {d}, apps[e] # None
               PROVE  instanceOwner'[apps[e]] = e
    BY <1>4 DEF AppsOwnInstance
  <2>1. instanceOwner[apps[e]] = e /\ apps[e] \in Macs
    BY BacnetTypes DEF BacnetInv, AppsOwnInstance
  <2> QED BY <1>2, <2>1
<1>7. OwnersHaveApps'
  <2> SUFFICES ASSUME NEW x \in Macs, instanceOwner'[x] # None, x \notin outlived'
               PROVE  apps'[instanceOwner'[x]] = x
    BY DEF OwnersHaveApps
  <2>1. instanceOwner'[x] = instanceOwner[x] /\ instanceOwner[x] # d /\ x \notin outlived
    BY <1>2
  <2>2. apps[instanceOwner[x]] = x /\ instanceOwner[x] \in Devices
    BY <2>1, BacnetTypes DEF BacnetInv, OwnersHaveApps
  <2> QED BY <1>4, <2>1, <2>2
<1> QED BY <1>1, <1>3, <1>4, <1>5, <1>6, <1>7 DEF BacnetInv

(* stop tears the LAN down and crosses every read. *)
LEMMA BacnetStopKeeps ==
    ASSUME BacnetInv, CommsInv, BacnetStop
    PROVE  BacnetInv' /\ CommsInv'
<1>1. CommsInv'
  <2>1. counting' \subseteq Devices /\ UNCHANGED fault /\ Forget({d \in Devices : apps[d] # None})
    BY DEF BacnetStop
  <2> QED BY <2>1, ForgetKeeps
<1>2. /\ bRunning' = FALSE /\ apps' = [d \in Devices |-> None] /\ nodes' = [m \in Macs |-> 0]
      /\ instanceOwner' = [m \in Macs |-> None] /\ outlived' = {}
      /\ reading' = [q \in Reads |-> IF reading[q].st = "asleep"
                                     THEN [reading[q] EXCEPT !.crossed = TRUE]
                                     ELSE reading[q]]
  BY DEF BacnetStop
<1>3. ASSUME NEW q \in Reads
      PROVE  /\ reading'[q] \in ReadRecord
             /\ reading'[q].st = reading[q].st /\ reading'[q].counts = reading[q].counts
             /\ reading[q].st = "asleep" => reading'[q].crossed
             /\ reading[q].st # "asleep" => reading'[q] = reading[q]
  <2>1. reading[q] \in ReadRecord
    BY BacnetTypes
  <2>2. CASE reading[q].st = "asleep"
    <3>1. reading'[q] = [reading[q] EXCEPT !.crossed = TRUE]
      BY <1>2, <2>2
    <3> QED BY <2>1, <2>2, <3>1 DEF ReadRecord
  <2>3. CASE reading[q].st # "asleep"
    BY <1>2, <2>1, <2>3
  <2> QED BY <2>2, <2>3
<1>4. ReadsCount' /\ ReadCountedOnce'
  BY <1>3 DEF BacnetInv, ReadsCount, ReadCountedOnce
<1>5. BacnetTypeOK'
  <2>1. reading' \in [Reads -> ReadRecord]
    BY <1>2, <1>3
  <2> QED BY <1>2, <2>1 DEF BacnetTypeOK, ReadRecord
<1>6. NodePerApp' /\ AppsOwnInstance' /\ OwnersHaveApps'
  BY <1>2, BacnetAssumption DEF NodePerApp, At, AppsOwnInstance, OwnersHaveApps
<1> QED BY <1>1, <1>4, <1>5, <1>6 DEF BacnetInv

(* A step that changes one read only. *)
LEMMA BacnetReadsKeep ==
    ASSUME BacnetInv, CommsInv, UNCHANGED <<bRunning, apps, nodes, instanceOwner, outlived>>,
           UNCHANGED <<fault, events, unread, counting>>,
           NEW q \in Reads, NEW a \in ReadRecord, reading' = [reading EXCEPT ![q] = a],
           a.st \in {"idle", "asleep"} => a.counts = 0,
           a.st = "asleep" /\ ~ a.crossed => a.dev \in counting,
           a.st = "done" /\ ~ a.crossed => a.counts = 1
    PROVE  BacnetInv' /\ CommsInv'
<1>1. reading' \in [Reads -> ReadRecord] /\ reading'[q] = a
      /\ \A p \in Reads \ {q} : reading'[p] = reading[p]
  BY BacnetTypes
<1>2. ReadsCount' /\ ReadCountedOnce'
  BY <1>1 DEF BacnetInv, ReadsCount, ReadCountedOnce
<1>3. BacnetTypeOK' /\ NodePerApp' /\ AppsOwnInstance' /\ OwnersHaveApps'
  BY <1>1 DEF BacnetInv, BacnetTypeOK, NodePerApp, At, AppsOwnInstance, OwnersHaveApps, ReadRecord
<1>4. CommsInv'
  BY QuietKeeps DEF CommsInv, CommsTypeOK
<1> QED BY <1>2, <1>3, <1>4 DEF BacnetInv

(* _count_request counts a read that has not been counted, once. *)
LEMMA CountFacts ==
    ASSUME BacnetInv, NEW q \in Reads, reading[q].st \in {"idle", "asleep"}, NEW d
    PROVE  /\ Count(q, d) \in ReadRecord /\ Count(q, d).st = "done"
           /\ Count(q, d).crossed = reading[q].crossed
           /\ d \in counting => Count(q, d).counts = 1
<1>1. reading[q] \in ReadRecord /\ reading[q].counts = 0
  BY BacnetTypes DEF BacnetInv, ReadsCount
<1> PICK n \in 0 .. 1 : n = IF d \in counting THEN 1 ELSE 0
  OBVIOUS
<1>2. Count(q, d) = [reading[q] EXCEPT !.st = "done", !.dev = None, !.counts = n]
  BY <1>1 DEF Count
<1> QED BY <1>1, <1>2 DEF ReadRecord

(* A read: answered and counted at once, or put to sleep by a delay. *)
LEMMA BacnetReadKeeps ==
    ASSUME BacnetInv, CommsInv, NEW d \in Devices, NEW q \in Reads, BacnetRead(q, d)
    PROVE  BacnetInv' /\ CommsInv'
<1>1. /\ UNCHANGED <<bRunning, apps, nodes, instanceOwner, outlived>>
      /\ UNCHANGED <<fault, events, unread, counting>>
      /\ reading[q].st = "idle" /\ reading[q] \in ReadRecord /\ reading[q].counts = 0
  BY BacnetTypes DEF BacnetRead, commVars, BacnetInv, ReadsCount
<1> PICK x \in BOOLEAN : x = (d \notin counting)
  OBVIOUS
<1>2. CASE fault[d] # "delay"
  <2> PICK a : a = [Count(q, d) EXCEPT !.crossed = x]
    OBVIOUS
  <2>1. reading' = [reading EXCEPT ![q] = a]
    BY <1>2 DEF BacnetRead
  <2>2. a \in ReadRecord /\ a.st = "done" /\ a.crossed = x /\ a.counts = Count(q, d).counts
    BY <1>1, CountFacts DEF ReadRecord
  <2> QED BY <1>1, <2>1, <2>2, CountFacts, BacnetReadsKeep
<1>3. CASE fault[d] = "delay"
  <2> PICK a : a = [reading[q] EXCEPT !.st = "asleep", !.dev = d, !.crossed = x]
    OBVIOUS
  <2>1. reading' = [reading EXCEPT ![q] = a]
    BY <1>3, BacnetTypes DEF BacnetRead
  <2>2. a \in ReadRecord /\ a.st = "asleep" /\ a.crossed = x /\ a.counts = 0 /\ a.dev = d
    BY <1>1 DEF ReadRecord
  <2> QED BY <1>1, <2>1, <2>2, BacnetReadsKeep
<1> QED BY <1>2, <1>3

(* A step of another server: the reads of BACnet are all idle. *)
LEMMA BacnetRests ==
    ASSUME BacnetInv, UNCHANGED bacnetVars,
           UNCHANGED counting \/ \A q \in Reads : reading[q].st = "idle"
    PROVE  BacnetInv'
<1>1. UNCHANGED <<bRunning, apps, nodes, instanceOwner, reading, outlived>>
  BY DEF bacnetVars
<1>2. BacnetTypeOK' /\ NodePerApp' /\ AppsOwnInstance' /\ OwnersHaveApps' /\ ReadCountedOnce'
  BY <1>1 DEF BacnetInv, BacnetTypeOK, NodePerApp, At, AppsOwnInstance, OwnersHaveApps,
              ReadCountedOnce
<1>3. ReadsCount'
  BY <1>1 DEF BacnetInv, ReadsCount
<1> QED BY <1>2, <1>3 DEF BacnetInv

(* Every step of the adapter and its clients. *)
LEMMA BacnetKeeps ==
    ASSUME BacnetInv, CommsInv, NEW ds \in SUBSET Devices, BacnetNext(ds)
    PROVE  BacnetInv' /\ CommsInv'
<1>1. ASSUME NEW d \in ds, NEW m \in Macs,
             BacnetAdd(d, m) \/ BacnetAddFails(d, m) \/ BacnetAddRefused(d, m)
      PROVE  BacnetInv' /\ CommsInv'
  BY <1>1, BacnetAddKeeps, BacnetAddFailsKeeps, BacnetAddRefusedKeeps
<1>2. ASSUME NEW d \in ds, BacnetRemove(d)
      PROVE  BacnetInv' /\ CommsInv'
  BY <1>2, BacnetRemoveKeeps
<1>3. ASSUME NEW d \in ds, BacnetWrite(d)
      PROVE  BacnetInv' /\ CommsInv'
  <2>1. record(d) /\ UNCHANGED <<fault, counting>> /\ UNCHANGED bacnetVars
    BY <1>3 DEF BacnetWrite
  <2> QED BY <2>1, RecordKeeps, BacnetRests
<1>4. ASSUME NEW d \in ds, NEW q \in Reads, BacnetRead(q, d)
      PROVE  BacnetInv' /\ CommsInv'
  BY <1>4, BacnetReadKeeps
<1>5. ASSUME NEW d \in ds, SetFault(d, FaultTypes) \/ ClearFault(d) \/ mark_read(d),
             UNCHANGED bacnetVars
      PROVE  BacnetInv' /\ CommsInv'
  <2>1. CommsInv' /\ UNCHANGED counting
    BY <1>5, FaultRoutes, AckKeeps DEF mark_read
  <2> QED BY <1>5, <2>1, BacnetRests
<1>6. CASE BacnetStop
  BY <1>6, BacnetStopKeeps
<1>7. ASSUME NEW q \in Reads, BacnetWake(q)
      PROVE  BacnetInv' /\ CommsInv'
  <2>1. /\ UNCHANGED <<bRunning, apps, nodes, instanceOwner, outlived>>
        /\ UNCHANGED <<fault, events, unread, counting>>
        /\ reading[q].st = "asleep"
        /\ reading' = [reading EXCEPT ![q] = Count(q, reading[q].dev)]
    BY <1>7 DEF BacnetWake, commVars
  <2>2. ~ reading[q].crossed => reading[q].dev \in counting
    BY <2>1 DEF BacnetInv, ReadsCount
  <2> PICK a : a = Count(q, reading[q].dev)
    OBVIOUS
  <2>3. a \in ReadRecord /\ a.st = "done" /\ (~ a.crossed => a.counts = 1)
    BY <2>1, <2>2, CountFacts
  <2> QED BY <2>1, <2>3, BacnetReadsKeep
<1>8. ASSUME NEW q \in Reads, BacnetDone(q)
      PROVE  BacnetInv' /\ CommsInv'
  <2>1. /\ UNCHANGED <<bRunning, apps, nodes, instanceOwner, outlived>>
        /\ UNCHANGED <<fault, events, unread, counting>>
        /\ reading' = [reading EXCEPT ![q] = NoRead]
    BY <1>8 DEF BacnetDone, commVars
  <2>2. NoRead \in ReadRecord /\ NoRead.st = "idle" /\ NoRead.counts = 0
    BY DEF NoRead, ReadRecord
  <2> QED BY <2>1, <2>2, BacnetReadsKeep
<1> QED BY <1>1, <1>2, <1>3, <1>4, <1>5, <1>6, <1>7, <1>8 DEF BacnetNext

-----------------------------------------------------------------------------
(* The servers together.  A behaviour follows one server; the others rest.
   EventsOfServed needs to know of the one that is followed which devices can
   have events at all. *)

Silent(d) == events[d] = 0 /\ unread[d] = 0

OthersRest ==
    /\ protocol # "modbus_tcp" => \A r \in Requests : req[r].st = "idle"
    /\ protocol # "opcua" => oFaulted = {} /\ \A d \in Devices : oLife[d] = "off"
    /\ protocol # "bacnet" => \A q \in Reads : reading[q].st = "idle"

LogsBelong ==
    \A d \in Devices :
        /\ protocol = "modbus_tcp" /\ mRunning /\ SlavesOf(d) = {} => Silent(d)
        /\ protocol = "opcua" /\ oNodes[d] = {} => Silent(d)
        /\ protocol = "snmp" => Silent(d)
        /\ protocol = "bacnet" /\ bRunning /\ (\A m \in Macs : instanceOwner[m] # d)
              => Silent(d)

ServersInv ==
    /\ protocol \in Protocols
    /\ CommsInv /\ ModbusInv /\ OpcInv /\ SnmpInv /\ BacnetInv
    /\ OthersRest /\ LogsBelong

(* A recorded write concerns one device only. *)
LEMMA RecordIsOfOne ==
    ASSUME CommsInv, NEW d, record(d), NEW e \in Devices, e # d, Silent(e)
    PROVE  Silent(e)'
BY DEF CommsInv, CommsTypeOK, record, Silent

(* Forgetting and acknowledging make no events. *)
LEMMA ForgetIsSilent ==
    ASSUME NEW ds, Forget(ds), NEW e \in Devices, e \in ds \/ Silent(e)
    PROVE  Silent(e)'
BY DEF Forget, Silent

(* Nor does marking the events of a device as read. *)
LEMMA AckIsSilent ==
    ASSUME CommsInv, NEW d, mark_read(d), NEW e \in Devices, Silent(e)
    PROVE  Silent(e)'
BY DEF CommsInv, CommsTypeOK, mark_read, Silent

(* Modbus records writes to slaves of a device, and clears on removal. *)
LEMMA ModbusLogs ==
    ASSUME ModbusInv, CommsInv, NEW ds \in SUBSET Devices, ModbusNext(ds),
           \A d \in Devices : mRunning /\ SlavesOf(d) = {} => Silent(d),
           NEW e \in Devices, mRunning', SlavesOf(e)' = {}
    PROVE  Silent(e)'
<1>0. /\ slaveDev \in [Slaves -> Devices \cup {None}]
      /\ slaveOf \in [Devices -> Slaves \cup {None}]
  BY DEF ModbusInv, ModbusTypeOK
<1>1. ASSUME NEW d \in ds, NEW s \in Slaves, ModbusAdd(d, s) \/ ModbusAddRefused(d, s)
      PROVE  Silent(e)'
  <2>1. UNCHANGED <<events, unread, mRunning>>
    BY <1>1 DEF ModbusAdd, ModbusAddRefused
  <2>2. SlavesOf(e) = {}
    <3>1. CASE ModbusAdd(d, s)
      <4>1. slaveDev' = [slaveDev EXCEPT ![s] = d] /\ slaveDev[s] = None
        BY <3>1 DEF ModbusAdd
      <4> QED BY <1>0, <4>1, CommsAssumption DEF SlavesOf
    <3>2. CASE ModbusAddRefused(d, s)
      BY <3>2 DEF ModbusAddRefused, SlavesOf
    <3> QED BY <1>1, <3>1, <3>2
  <2> QED BY <2>1, <2>2 DEF Silent
<1>2. ASSUME NEW d \in ds, ModbusRemove(d)
      PROVE  Silent(e)'
  <2>1. /\ Forget({d}) /\ mRunning
        /\ slaveDev' = [slaveDev EXCEPT ![slaveOf[d]] = None] /\ slaveOf[d] # None
    BY <1>2 DEF ModbusRemove
  <2>2. slaveDev[slaveOf[d]] = d
    BY <2>1 DEF ModbusInv, SlaveMaps
  <2>3. e = d \/ SlavesOf(e) = {}
    BY <1>0, <2>1, <2>2 DEF SlavesOf
  <2> QED BY <2>1, <2>3, ForgetIsSilent
<1>3. CASE ModbusStop
  BY <1>3 DEF ModbusStop
<1>4. ASSUME NEW r \in Requests, NEW s \in Slaves, NEW t \in Tids, NEW write \in BOOLEAN,
             NEW drop \in BOOLEAN, ModbusArrive(r, s, t, write, drop)
      PROVE  Silent(e)'
  <2>1. /\ slaveDev' = slaveDev /\ mRunning
        /\ record(slaveDev[s]) \/ UNCHANGED <<events, unread>>
    BY <1>4 DEF ModbusArrive
  <2>2. Silent(e) /\ slaveDev[s] # e
    BY <2>1 DEF SlavesOf
  <2>3. CASE record(slaveDev[s])
    BY <2>2, <2>3, RecordIsOfOne
  <2>4. CASE UNCHANGED <<events, unread>>
    BY <2>2, <2>4 DEF Silent
  <2> QED BY <2>1, <2>3, <2>4
<1>5. ASSUME NEW r \in Requests, ModbusLookup(r) \/ ModbusEnd(r)
      PROVE  Silent(e)'
  BY <1>5 DEF ModbusLookup, ModbusEnd, commVars, SlavesOf, Silent
<1>6. CASE ModbusRestore
  BY <1>6 DEF ModbusRestore, commVars, SlavesOf, Silent
<1>7. ASSUME NEW d \in ds, SetFault(d, ModbusFaults) \/ ClearFault(d) \/ mark_read(d),
             UNCHANGED modbusVars
      PROVE  Silent(e)'
  <2>1. Silent(e)
    BY <1>7 DEF modbusVars, SlavesOf
  <2> QED BY <1>7, <2>1, AckIsSilent DEF SetFault, ClearFault, Silent
<1> QED BY <1>1, <1>2, <1>3, <1>4, <1>5, <1>6, <1>7 DEF ModbusNext

(* OPC UA records writes to nodes, and clears where nodes go. *)
LEMMA OpcLogs ==
    ASSUME OpcInv, CommsInv, NEW ds \in SUBSET Devices, OpcNext(ds),
           \A d \in Devices : oNodes[d] = {} => Silent(d),
           NEW e \in Devices, oNodes'[e] = {}
    PROVE  Silent(e)'
<1>1. ASSUME UNCHANGED <<events, unread>>, oNodes[e] = {}
      PROVE  Silent(e)'
  BY <1>1 DEF Silent
<1>2. ASSUME NEW d \in ds, OpcAdd(d) \/ OpcAdded(d) \/ OpcRemove(d) \/ OpcClearNothing(d)
                           \/ OpcUpdateFails(d)
      PROVE  Silent(e)'
  BY <1>1, <1>2 DEF OpcAdd, OpcAdded, OpcRemove, OpcClearNothing, OpcUpdateFails, commVars
<1>3. ASSUME NEW d \in ds, OpcRemoved(d)
      PROVE  Silent(e)'
  <2>1. Forget({d}) /\ oNodes' = [oNodes EXCEPT ![d] = {}]
    BY <1>3 DEF OpcRemoved
  <2>2. e = d \/ Silent(e)
    BY <2>1, OpcTypes
  <2> QED BY <2>1, <2>2, ForgetIsSilent
<1>4. ASSUME NEW d \in ds, NEW f \in OpcFaults, OpcSetFault(d, f)
      PROVE  Silent(e)'
  BY <1>1, <1>4 DEF OpcSetFault
<1>5. ASSUME NEW d \in ds, NEW k \in Clears, OpcClear(k, d)
      PROVE  Silent(e)'
  BY <1>1, <1>5 DEF OpcClear, commVars
<1>6. ASSUME NEW d \in ds, NEW n \in Regs, OpcAddNode(d, n)
      PROVE  Silent(e)'
  <2>1. UNCHANGED <<events, unread>> /\ oNodes' = [oNodes EXCEPT ![d] = @ \cup {n}]
    BY <1>6 DEF OpcAddNode, commVars
  <2>2. oNodes[e] = {}
    BY <2>1, OpcTypes
  <2> QED BY <1>1, <2>1, <2>2
<1>7. ASSUME NEW d \in ds, NEW n \in Regs, OpcUpdate(d, n) \/ OpcUpdated(d, n)
      PROVE  Silent(e)'
  BY <1>1, <1>7 DEF OpcUpdate, OpcUpdated, commVars
<1>8. ASSUME NEW d \in ds, NEW n \in Regs, OpcClientWrite(d, n) \/ OpcLeftWrite(d, n)
      PROVE  Silent(e)'
  <2>1. oNodes' = oNodes /\ (UNCHANGED <<events, unread>> \/ (record(d) /\ oNodes[d] # {}))
    BY <1>8 DEF OpcClientWrite, OpcLeftWrite
  <2>2. CASE UNCHANGED <<events, unread>>
    BY <1>1, <2>1, <2>2
  <2>3. CASE record(d) /\ oNodes[d] # {}
    <3>1. e # d /\ Silent(e)
      BY <2>1, <2>3
    <3> QED BY <2>3, <3>1, RecordIsOfOne
  <2> QED BY <2>1, <2>2, <2>3
<1>9. ASSUME NEW d \in ds, mark_read(d), UNCHANGED opcVars
      PROVE  Silent(e)'
  BY <1>9, AckIsSilent DEF opcVars
<1>10. ASSUME NEW k \in Clears, OpcCleared(k) \/ \E n \in Regs : OpcClearNode(k, n)
       PROVE  Silent(e)'
  BY <1>1, <1>10 DEF OpcCleared, OpcClearNode, commVars
<1>11. CASE OpcStop
  <2>1. Forget({d \in Devices : oNodes[d] # {}})
    BY <1>11 DEF OpcStop
  <2> QED BY <2>1, ForgetIsSilent
<1> QED BY <1>2, <1>3, <1>4, <1>5, <1>6, <1>7, <1>8, <1>9, <1>10, <1>11 DEF OpcNext

(* SNMP records nothing. *)
LEMMA SnmpLogs ==
    ASSUME NEW ds, SnmpNext(ds)
    PROVE  UNCHANGED <<events, unread>>
BY DEF SnmpNext, SnmpAdd, SnmpAddRefused, SnmpRemove, SnmpValues, SetFault, ClearFault, SnmpStop,
       SnmpDeferred, SnmpDone, SnmpQuery, commVars

(* BACnet records writes to an application, whose device owns its instance,
   and clears when the instance is let go. *)
LEMMA BacnetLogs ==
    ASSUME BacnetInv, CommsInv, NEW ds \in SUBSET Devices, BacnetNext(ds),
           bRunning => \A d \in Devices : (\A m \in Macs : instanceOwner[m] # d) => Silent(d),
           NEW e \in Devices, bRunning', \A m \in Macs : instanceOwner'[m] # e
    PROVE  Silent(e)'
<1>1. ASSUME UNCHANGED <<events, unread>>, bRunning, \A m \in Macs : instanceOwner[m] # e
      PROVE  Silent(e)'
  BY <1>1 DEF Silent
<1>2. ASSUME NEW d \in ds, NEW m \in Macs, BacnetAdd(d, m)
      PROVE  Silent(e)'
  <2>1. /\ UNCHANGED <<events, unread>> /\ bRunning /\ instanceOwner[m] \in {None, d}
        /\ instanceOwner' = [instanceOwner EXCEPT ![m] = d]
    BY <1>2 DEF BacnetAdd
  <2>2. \A x \in Macs : instanceOwner[x] # e
    BY <2>1, BacnetTypes, CommsAssumption
  <2> QED BY <1>1, <2>1, <2>2
<1>3. ASSUME NEW d \in ds, NEW m \in Macs, BacnetAddFails(d, m) \/ BacnetAddRefused(d, m)
      PROVE  Silent(e)'
  BY <1>1, <1>3 DEF BacnetAddFails, BacnetAddRefused
<1>4. ASSUME NEW d \in ds, BacnetRemove(d)
      PROVE  Silent(e)'
  <2>1. /\ Forget({d}) /\ bRunning
        /\ instanceOwner' = [m \in Macs |-> IF instanceOwner[m] = d THEN None
                                            ELSE instanceOwner[m]]
    BY <1>4 DEF BacnetRemove
  <2>2. e = d \/ Silent(e)
    BY <2>1
  <2> QED BY <2>1, <2>2, ForgetIsSilent
<1>5. ASSUME NEW d \in ds, BacnetWrite(d)
      PROVE  Silent(e)'
  <2>1. record(d) /\ apps[d] # None /\ UNCHANGED <<bRunning, instanceOwner>>
    BY <1>5 DEF BacnetWrite, bacnetVars
  <2>2. apps[d] \in Macs /\ instanceOwner[apps[d]] = d
    BY <2>1, BacnetTypes DEF BacnetInv, AppsOwnInstance
  <2>3. e # d /\ Silent(e)
    BY <2>1, <2>2
  <2> QED BY <2>1, <2>3, RecordIsOfOne
<1>6. ASSUME NEW d \in ds, NEW q \in Reads, BacnetRead(q, d)
      PROVE  Silent(e)'
  BY <1>1, <1>6 DEF BacnetRead, commVars
<1>7. ASSUME NEW d \in ds, SetFault(d, FaultTypes) \/ ClearFault(d) \/ mark_read(d),
             UNCHANGED bacnetVars
      PROVE  Silent(e)'
  <2>1. Silent(e)
    BY <1>7 DEF bacnetVars
  <2> QED BY <1>7, <2>1, AckIsSilent DEF SetFault, ClearFault, Silent
<1>8. ~ BacnetStop
  BY DEF BacnetStop
<1>9. ASSUME NEW q \in Reads, BacnetWake(q) \/ BacnetDone(q)
      PROVE  Silent(e)'
  BY <1>1, <1>9 DEF BacnetWake, BacnetDone, commVars
<1> QED BY <1>2, <1>3, <1>4, <1>5, <1>6, <1>7, <1>8, <1>9 DEF BacnetNext

(* What the invariant says to clients. *)
LEMMA ServersPromise ==
    ASSUME ServersInv
    PROVE  /\ TypeOK /\ ServedIsRegistered /\ CountedOnce /\ CallbacksMatchFault
           /\ WalkIsComplete /\ VlanMatchesApps /\ EventsOfServed
<1>1. TypeOK
  BY DEF ServersInv, TypeOK, CommsInv, ModbusInv, OpcInv, SnmpInv, BacnetInv
<1>2. EventsOfServed
  <2> SUFFICES ASSUME mRunning, bRunning, NEW d \in Devices, ~ Registered(d)
               PROVE  Silent(d)
    BY DEF ServersInv, CommsInv, EventsOfServed, Silent
  <2>1. /\ SlavesOf(d) = {} /\ oLife[d] = "off" /\ \A m \in Macs : instanceOwner[m] # d
    BY DEF Registered
  <2>2. oNodes[d] = {}
    BY <2>1 DEF ServersInv, OpcInv, HookedInTime
  <2> QED BY <2>1, <2>2 DEF ServersInv, LogsBelong, Protocols
<1>3. CountedOnce
  BY DEF ServersInv, ModbusInv, BacnetInv, CountedOnce
<1> QED BY <1>1, <1>2, <1>3, HookedMatches, NodesMatchApps, ServedAsRegistered DEF ServersInv, SnmpInv

(* The invariant holds at the start. *)
LEMMA ServersStart ==
    ASSUME Init
    PROVE  ServersInv
<1>1. CommsInv
  BY CommsAssumption DEF Init, CommsInit, CommsInv, CommsTypeOK, UnreadIsListed
<1>2. ModbusInv
  <2>1. NoReq \in ReqRecord /\ NoReq.st = "idle"
    BY DEF NoReq, ReqRecord
  <2>2. ModbusTypeOK
    BY <2>1 DEF Init, ModbusInit, ModbusTypeOK, ReqRecord
  <2>3. SlaveMaps /\ StaleIsRefilled /\ AbsentIsPending /\ ServedHasDevice
    BY DEF Init, ModbusInit, SlaveMaps, StaleIsRefilled, AbsentIsPending, ServedHasDevice
  <2>4. RequestsOnCourse /\ RequestCountedOnce
    BY <2>1 DEF Init, ModbusInit, RequestsOnCourse, RequestCountedOnce, Open
  <2> QED BY <2>2, <2>3, <2>4 DEF ModbusInv
<1>3. OpcInv
  <2>1. NoClear \in [dev : Devices \cup {None}, todo : SUBSET Regs] /\ NoClear.todo = {}
    BY DEF NoClear
  <2>2. OpcTypeOK
    BY <2>1 DEF Init, OpcInit, OpcTypeOK
  <2>3. \A d \in Devices : HookedInTime(d)
    BY DEF Init, OpcInit, HookedInTime
  <2> QED BY <2>1, <2>2, <2>3 DEF OpcInv, Init, OpcInit
<1>4. SnmpInv
  <2>1. Idle \in QueryRecord /\ Idle.st = "idle"
    BY SnmpAssumption DEF Idle, QueryRecord
  <2>2. SnmpTypeOK
    BY <2>1 DEF Init, SnmpInit, SnmpTypeOK, QueryRecord
  <2>3. WalkIsComplete
    BY <2>1, CommsAssumption DEF Init, SnmpInit, WalkIsComplete
  <2> QED BY <2>2, <2>3 DEF SnmpInv, ListedIsMapped, Init, SnmpInit
<1>5. BacnetInv
  <2>1. NoRead \in ReadRecord /\ NoRead.st = "idle" /\ NoRead.counts = 0
    BY DEF NoRead, ReadRecord
  <2>2. BacnetTypeOK
    BY <2>1 DEF Init, BacnetInit, BacnetTypeOK, ReadRecord
  <2>3. NodePerApp /\ AppsOwnInstance /\ OwnersHaveApps
    BY BacnetAssumption DEF Init, BacnetInit, NodePerApp, At, AppsOwnInstance, OwnersHaveApps
  <2>4. ReadsCount /\ ReadCountedOnce
    BY <2>1 DEF Init, BacnetInit, ReadsCount, ReadCountedOnce
  <2> QED BY <2>2, <2>3, <2>4 DEF BacnetInv
<1>6. OthersRest
  BY DEF Init, OthersRest, ModbusInit, NoReq, OpcInit, BacnetInit, NoRead
<1>7. LogsBelong
  BY DEF Init, LogsBelong, CommsInit, Silent
<1> QED BY <1>1, <1>2, <1>3, <1>4, <1>5, <1>6, <1>7 DEF Init, ServersInv

(* Every step keeps it. *)
LEMMA ServersStep ==
    ASSUME ServersInv, [Next]_vars
    PROVE  ServersInv'
<1> USE DEF ServersInv
<1>0. Fleet[protocol] \in SUBSET Devices
  BY FleetAssumption
<1>1. CASE Modbus
  <2>1. /\ protocol = "modbus_tcp" /\ ModbusNext(Fleet[protocol]) /\ protocol' = protocol
        /\ UNCHANGED opcVars /\ UNCHANGED snmpVars /\ UNCHANGED bacnetVars
    BY <1>1 DEF Modbus
  <2>2. ModbusInv' /\ CommsInv'
    BY <1>0, <2>1, ModbusKeeps
  <2>3. OpcInv' /\ BacnetInv'
    BY <2>1, OpcRests, BacnetRests DEF OthersRest
  <2>4. SnmpInv'
    BY <2>1 DEF snmpVars, SnmpInv, SnmpTypeOK, ListedIsMapped, WalkIsComplete
  <2>5. OthersRest'
    BY <2>1 DEF OthersRest, opcVars, bacnetVars
  <2>6. LogsBelong'
    BY <1>0, <2>1, ModbusLogs DEF LogsBelong
  <2> QED BY <2>1, <2>2, <2>3, <2>4, <2>5, <2>6
<1>2. CASE OpcUa
  <2>1. /\ protocol = "opcua" /\ OpcNext(Fleet[protocol]) /\ protocol' = protocol
        /\ UNCHANGED modbusVars /\ UNCHANGED snmpVars /\ UNCHANGED bacnetVars
    BY <1>2 DEF OpcUa
  <2>2. OpcInv' /\ CommsInv'
    BY <1>0, <2>1, OpcKeeps
  <2>3. ModbusInv' /\ BacnetInv'
    BY <2>1, ModbusRests, BacnetRests DEF OthersRest
  <2>4. SnmpInv'
    BY <2>1 DEF snmpVars, SnmpInv, SnmpTypeOK, ListedIsMapped, WalkIsComplete
  <2>5. OthersRest'
    BY <2>1 DEF OthersRest, modbusVars, bacnetVars
  <2>6. LogsBelong'
    BY <1>0, <2>1, OpcLogs DEF LogsBelong
  <2> QED BY <2>1, <2>2, <2>3, <2>4, <2>5, <2>6
<1>3. CASE Snmp
  <2>1. /\ protocol = "snmp" /\ SnmpNext(Fleet[protocol]) /\ protocol' = protocol
        /\ UNCHANGED modbusVars /\ UNCHANGED opcVars /\ UNCHANGED bacnetVars
    BY <1>3 DEF Snmp
  <2>2. SnmpInv' /\ CommsInv'
    BY <1>0, <2>1, SnmpKeeps
  <2>3. ModbusInv' /\ OpcInv' /\ BacnetInv'
    BY <2>1, ModbusRests, OpcRests, BacnetRests DEF OthersRest
  <2>4. OthersRest'
    BY <2>1 DEF OthersRest, modbusVars, opcVars, bacnetVars
  <2>5. LogsBelong'
    <3>1. UNCHANGED <<events, unread>>
      BY <2>1, SnmpLogs
    <3> QED BY <2>1, <3>1 DEF LogsBelong, Silent
  <2> QED BY <2>1, <2>2, <2>3, <2>4, <2>5
<1>4. CASE Bacnet
  <2>1. /\ protocol = "bacnet" /\ BacnetNext(Fleet[protocol]) /\ protocol' = protocol
        /\ UNCHANGED modbusVars /\ UNCHANGED opcVars /\ UNCHANGED snmpVars
    BY <1>4 DEF Bacnet
  <2>2. BacnetInv' /\ CommsInv'
    BY <1>0, <2>1, BacnetKeeps
  <2>3. ModbusInv' /\ OpcInv'
    BY <2>1, ModbusRests, OpcRests DEF OthersRest
  <2>4. SnmpInv'
    BY <2>1 DEF snmpVars, SnmpInv, SnmpTypeOK, ListedIsMapped, WalkIsComplete
  <2>5. OthersRest'
    BY <2>1 DEF OthersRest, modbusVars, opcVars
  <2>6. LogsBelong'
    BY <1>0, <2>1, BacnetLogs DEF LogsBelong
  <2> QED BY <2>1, <2>2, <2>3, <2>4, <2>5, <2>6
<1>5. CASE UNCHANGED vars
  <2>1. /\ protocol' = protocol /\ UNCHANGED <<fault, events, unread, counting>>
        /\ UNCHANGED modbusVars /\ UNCHANGED opcVars /\ UNCHANGED snmpVars /\ UNCHANGED bacnetVars
    BY <1>5 DEF vars, commVars
  <2>2. ModbusInv' /\ OpcInv' /\ BacnetInv'
    BY <2>1, ModbusRests, OpcRests, BacnetRests
  <2>3. SnmpInv'
    BY <2>1 DEF snmpVars, SnmpInv, SnmpTypeOK, ListedIsMapped, WalkIsComplete
  <2>4. CommsInv'
    BY <2>1, QuietKeeps DEF CommsInv, CommsTypeOK
  <2>5. OthersRest'
    BY <2>1 DEF OthersRest, modbusVars, opcVars, bacnetVars
  <2>6. LogsBelong'
    BY <2>1 DEF LogsBelong, Silent, SlavesOf, modbusVars, opcVars, bacnetVars
  <2> QED BY <2>1, <2>2, <2>3, <2>4, <2>5, <2>6
<1> QED BY <1>1, <1>2, <1>3, <1>4, <1>5 DEF Next

(* The inductive invariant of the servers. *)
THEOREM ServersHold == Spec => []ServersInv
BY ServersStart, ServersStep, PTL DEF Spec

(* Counters, maps, queries and requests keep their types, the ring buffer
   and the unread counts their limits. *)
THEOREM ServerTypes == Spec => []TypeOK
<1>1. ServersInv => TypeOK
  BY ServersPromise
<1> QED BY <1>1, ServersHold, PTL

(* The server answers for a slave only while its device is registered under
   it, whatever restore was pending, or under another one it was added again
   with, and with an old datastore only after a re-add (modbus_tcp.py:216-221,
   278-304). *)
THEOREM RemovedSlavesAreSilent == Spec => []ServedIsRegistered
<1>1. ServersInv => ServedIsRegistered
  BY ServersPromise
<1> QED BY <1>1, ServersHold, PTL

(* A request that nothing crosses is counted exactly once (trace_pdu and
   _count_request). *)
THEOREM RequestsCountedOnce == Spec => []CountedOnce
<1>1. ServersInv => CountedOnce
  BY ServersPromise
<1> QED BY <1>1, ServersHold, PTL

(* The nodes of an OPC UA device carry callbacks when, and only when, it has a
   fault, for any number of nodes and overlapping requests. *)
THEOREM CallbacksFollowFault == Spec => []CallbacksMatchFault
<1>1. ServersInv => CallbacksMatchFault
  BY ServersPromise
<1> QED BY <1>1, ServersHold, PTL

(* An SNMP walk goes forward and passes no OID that could be read, for any
   number of OIDs, templates and devices. *)
THEOREM WalksAreComplete == Spec => []WalkIsComplete
<1>1. ServersInv => WalkIsComplete
  BY ServersPromise
<1> QED BY <1>1, ServersHold, PTL

(* The BACnet LAN has one node per application and no shared address. *)
THEOREM OneNodePerApplication == Spec => []VlanMatchesApps
<1>1. ServersInv => VlanMatchesApps
  BY ServersPromise
<1> QED BY <1>1, ServersHold, PTL

(* Write events belong to a live registration, and the unread ones are listed
   as far as the ring buffer reaches (write_tracker.py). *)
THEOREM EventsBelongToServed == Spec => []EventsOfServed
<1>1. ServersInv => EventsOfServed
  BY ServersPromise
<1> QED BY <1>1, ServersHold, PTL
=============================================================================
