----------------------------- MODULE SnmpAgent -----------------------------
(***************************************************************************)
(* protocols/snmp_agent.py: one SNMP agent that maps object identifiers to *)
(* the registers of devices and reads their values from the simulation     *)
(* engine when it is asked.  GETNEXT walks a sorted copy of the map's keys.*)
(* Everything is synchronous except the answers a delay fault defers.      *)
(***************************************************************************)
EXTENDS DeviceComms

CONSTANTS
    MaxOid,      \* object identifiers are 1 .. MaxOid in their sort order
    Templates,   \* the sets of OIDs a device's registers may have
    Queries      \* PDUs that may be open together

Oids == 1 .. MaxOid

ASSUME SnmpAssumption ==
    MaxOid \in Nat /\ Templates \subseteq SUBSET Oids /\ None \notin Templates

VARIABLES
    sRunning,    \* _running
    oidMap,      \* _oid_map: the owner of an OID
    deviceOids,  \* _device_oids, None for a device that has no entry
    sortedOids,  \* _sorted_oids, an ordered set
    valued,      \* devices the simulation engine has values of
    query,       \* open and answered PDUs
    stranded     \* OIDs left behind when a device was added a second time

snmpVars == <<sRunning, oidMap, deviceOids, sortedOids, valued, query, stranded>>

Idle == [st |-> "idle", next |-> FALSE, oid |-> 0, gapless |-> TRUE]

SnmpTypeOK ==
    /\ sRunning \in BOOLEAN
    /\ oidMap \in [Oids -> Devices \cup {None}]
    /\ \A d \in Devices : deviceOids[d] # None => deviceOids[d] \subseteq Oids
    /\ sortedOids \subseteq Oids
    /\ valued \subseteq Devices
    /\ query \in [Queries -> [st : {"idle", "deferred", "value", "none", "error"},
                              next : BOOLEAN, oid : 0 .. MaxOid, gapless : BOOLEAN]]
    /\ stranded \subseteq Oids

\* start may fail; the OIDs of devices are registered all the same.
SnmpInit ==
    /\ sRunning \in BOOLEAN
    /\ oidMap = [o \in Oids |-> None]
    /\ deviceOids = [d \in Devices |-> None]
    /\ sortedOids = {}
    /\ valued = {}
    /\ query = [q \in Queries |-> Idle]
    /\ stranded = {}

----------------------------------------------------------------------------
(* add_device and remove_device, neither of which awaits. *)

\* _invalidate_sorted_oids, of the map as it is left.
Resort(map) == sortedOids' = {o \in Oids : map[o] # None}

\* A template's OIDs os, one of which another device has: OID_CONFLICT, and
\* the statistics entry goes.
SnmpAddRefused(d, os) ==
    /\ \E o \in os : oidMap[o] \notin {None, d}
    /\ DropStats(d)
    /\ UNCHANGED <<fault, events, unread, snmpVars>>

SnmpAdd(d, os) ==
    /\ \A o \in os : oidMap[o] \in {None, d}
    /\ oidMap' = [o \in Oids |-> IF o \in os THEN d ELSE oidMap[o]]
    /\ deviceOids' = [deviceOids EXCEPT ![d] = os]
    /\ Resort(oidMap')
    /\ stranded' = (stranded \ os)
                     \cup (IF deviceOids[d] = None THEN {} ELSE deviceOids[d] \ os)
    /\ AddStats(d)
    /\ UNCHANGED <<fault, events, unread, sRunning, valued, query>>

SnmpRemove(d) ==
    /\ deviceOids[d] # None
    /\ oidMap' = [o \in Oids |-> IF o \in deviceOids[d] THEN None ELSE oidMap[o]]
    /\ Resort(oidMap')
    /\ deviceOids' = [deviceOids EXCEPT ![d] = None]
    /\ DropStats(d)
    /\ stranded' = stranded \ deviceOids[d]
    /\ UNCHANGED <<fault, events, unread, sRunning, valued, query>>

SnmpStop ==
    /\ sRunning
    /\ sRunning' = FALSE
    /\ oidMap' = [o \in Oids |-> None]
    /\ deviceOids' = [d \in Devices |-> None]
    /\ sortedOids' = {}
    /\ stranded' = {}
    /\ counting' = {}
    /\ UNCHANGED <<fault, events, unread, valued, query>>

\* The engine's values appear with the first tick and go with the device.
SnmpValues(d) ==
    /\ valued' = IF d \in valued THEN valued \ {d} ELSE valued \cup {d}
    /\ UNCHANGED <<commVars, sRunning, oidMap, deviceOids, sortedOids, query, stranded>>

----------------------------------------------------------------------------
(* Queries *)

\* get_next_oid: bisect_right in the sorted list; 0 at its end.
NextOid(o) ==
    LET after == {x \in sortedOids : x > o}
    IN IF after = {} THEN 0 ELSE CHOOSE x \in after : \A y \in after : x <= y

\* resolve_oid finds a value.
Resolves(o) == o \in Oids /\ oidMap[o] # None /\ oidMap[o] \in valued

\* resolve_pdu_device: the owner of the OID itself, else of the next one,
\* for a GET and a GETNEXT alike.
PduDevice(o) ==
    IF o \in Oids /\ oidMap[o] # None THEN oidMap[o]
    ELSE IF NextOid(o) = 0 THEN None ELSE oidMap[NextOid(o)]

\* Mutant: GETNEXT looks at one following OID only.
FirstNext(o) ==
    IF NextOid(o) = 0 \/ ~ Resolves(NextOid(o)) THEN 0 ELSE NextOid(o)

\* read_next_variables: from one key to the next until one resolves; 0 when
\* the list ends first.
ReadNext(o) ==
    LET after == {x \in sortedOids : x > o /\ Resolves(x)}
    IN IF after = {} THEN 0 ELSE CHOOSE x \in after : \A y \in after : x <= y

\* _raise_for_exception_fault on the OIDs read_next_variables comes past.
Raises(next, o) ==
    LET end == ReadNext(o)
        visited == IF ~ next THEN {o} \cap Oids
                   ELSE {x \in sortedOids : x > o /\ (end = 0 \/ x <= end)}
    IN \E x \in visited : oidMap[x] # None /\ fault[oidMap[x]] = "exception"

\* What process_pdu answers now: genErr, a value, or none (noSuchObject,
\* endOfMibView).  "gapless" keeps whether a GETNEXT went forward and past
\* no OID that could have been read.
Answer(next, o) ==
    LET a == IF next THEN ReadNext(o) ELSE IF Resolves(o) THEN o ELSE 0
        passed == {x \in Oids : x > o /\ Resolves(x) /\ (a = 0 \/ x < a)}
    IN [Idle EXCEPT
          !.st = IF Raises(next, o) THEN "error" ELSE IF a = 0 THEN "none" ELSE "value",
          !.gapless = next => passed = {} /\ (a = 0 \/ a > o)]

\* The gate of _FaultAwareResponderMixin.process_pdu: dropped, deferred with
\* call_later, or answered.
SnmpQuery(q, next, o) ==
    /\ sRunning
    /\ query[q].st = "idle"
    /\ LET d == PduDevice(o)
           f == IF d = None THEN "none" ELSE fault[d]
       IN \/ /\ f \in {"timeout", "intermittent"}
             /\ UNCHANGED query
          \/ /\ f = "delay"
             /\ query' = [query EXCEPT ![q] =
                            [Idle EXCEPT !.st = "deferred", !.next = next, !.oid = o]]
          \/ /\ f \notin {"timeout", "delay"}
             /\ query' = [query EXCEPT ![q] = Answer(next, o)]
    /\ UNCHANGED <<commVars, sRunning, oidMap, deviceOids, sortedOids, valued, stranded>>

\* The deferred answer is made from the map and the values of that moment;
\* without an engine it fails and is logged.
SnmpDeferred(q) ==
    /\ query[q].st = "deferred"
    /\ query' = [query EXCEPT ![q] = IF sRunning THEN Answer(@.next, @.oid) ELSE Idle]
    /\ UNCHANGED <<commVars, sRunning, oidMap, deviceOids, sortedOids, valued, stranded>>

SnmpDone(q) ==
    /\ query[q].st \in {"value", "none", "error"}
    /\ query' = [query EXCEPT ![q] = Idle]
    /\ UNCHANGED <<commVars, sRunning, oidMap, deviceOids, sortedOids, valued, stranded>>

SnmpNext(ds) ==
    \/ \E d \in ds : \/ \E os \in Templates : SnmpAdd(d, os) \/ SnmpAddRefused(d, os)
                     \/ SnmpRemove(d)
                     \/ SnmpValues(d)
                     \/ (SetFault(d, FaultTypes) \/ ClearFault(d)) /\ UNCHANGED snmpVars
    \/ SnmpStop
    \/ \E q \in Queries : \/ SnmpDeferred(q)
                          \/ SnmpDone(q)
                          \/ \E next \in BOOLEAN, o \in 0 .. MaxOid : SnmpQuery(q, next, o)

SnmpSpec == SnmpInit /\ CommsInit /\ [][SnmpNext(Devices)]_<<commVars, snmpVars>>

----------------------------------------------------------------------------
(* A walk gets on and leaves nothing out: GETNEXT answers with an OID after
   the one it was asked about, no readable OID lies in between, and the walk
   ends only when none is left, though devices come and go, their values
   appear late and the answer may be deferred.  And the agent knows exactly
   the OIDs of its devices, but for those a second add_device stranded. *)
WalkIsComplete ==
    /\ \A q \in Queries : query[q].st \in {"value", "none"} => query[q].gapless
    /\ sortedOids = {o \in Oids : oidMap[o] # None}
    /\ \A o \in Oids \ stranded, d \in Devices :
          oidMap[o] = d <=> deviceOids[d] # None /\ o \in deviceOids[d]
=============================================================================
