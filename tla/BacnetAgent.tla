---------------------------- MODULE BacnetAgent ----------------------------
(***************************************************************************)
(* protocols/bacnet_agent.py: a BACnet router and, behind it, a virtual    *)
(* LAN with one application per device.  A device answers under the        *)
(* instance and the LAN address its slave id gives it.  Nothing awaits     *)
(* except a request that a delay fault puts to sleep.                      *)
(***************************************************************************)
EXTENDS DeviceComms

CONSTANTS
    Macs,        \* slave ids: LAN addresses and, plus a base, instances
    Reads        \* read requests that may be open together

ASSUME BacnetAssumption == None \notin Macs

VARIABLES
    bRunning,       \* _running and _router_app
    apps,           \* _device_apps: the address of the application of a device
    nodes,          \* how many nodes the LAN has at an address
    instanceOwner,  \* _instance_owner
    reading,        \* open and answered reads
    outlived        \* instances whose application was replaced by another

bacnetVars == <<bRunning, apps, nodes, instanceOwner, reading, outlived>>

NoRead == [st |-> "idle", dev |-> None, counts |-> 0, crossed |-> FALSE]

BacnetTypeOK ==
    /\ bRunning \in BOOLEAN
    /\ apps \in [Devices -> Macs \cup {None}]
    /\ nodes \in [Macs -> Nat]
    /\ instanceOwner \in [Macs -> Devices \cup {None}]
    /\ reading \in [Reads -> [st : {"idle", "asleep", "done"}, dev : Devices \cup {None},
                              counts : 0 .. 1, crossed : BOOLEAN]]
    /\ outlived \subseteq Macs

\* start: the router comes up, or its port is taken and everything is torn
\* down again.
BacnetInit ==
    /\ bRunning \in BOOLEAN
    /\ apps = [d \in Devices |-> None]
    /\ nodes = [m \in Macs |-> 0]
    /\ instanceOwner = [m \in Macs |-> None]
    /\ reading = [q \in Reads |-> NoRead]
    /\ outlived = {}

\* The registration of d changed while a read of it was asleep.
Disturb(d) ==
    reading' = [q \in Reads |-> IF reading[q].st = "asleep" /\ reading[q].dev = d
                                THEN [reading[q] EXCEPT !.crossed = TRUE]
                                ELSE reading[q]]

----------------------------------------------------------------------------
(* The virtual LAN.  Making an application attaches its node; closing it
   does not detach the node, _detach_vlan_nodes does. *)

Attach(lan, m) == [lan EXCEPT ![m] = @ + 1]

\* Mutant: Application.close alone.
CloseOnly(lan, m) == lan

Detach(lan, m) == IF m = None THEN lan ELSE [lan EXCEPT ![m] = @ - 1]

----------------------------------------------------------------------------
(* add_device and remove_device *)

\* Not started, or another device has the instance.
BacnetAddRefused(d, m) ==
    /\ ~ bRunning \/ instanceOwner[m] \notin {None, d}
    /\ DropStats(d)
    /\ Disturb(d)
    /\ UNCHANGED <<fault, events, unread, bRunning, apps, nodes, instanceOwner, outlived>>

\* A stale application of the device goes first.
BacnetAdd(d, m) ==
    /\ bRunning
    /\ instanceOwner[m] \in {None, d}
    /\ nodes' = Attach(Detach(nodes, apps[d]), m)
    /\ apps' = [apps EXCEPT ![d] = m]
    /\ instanceOwner' = [instanceOwner EXCEPT ![m] = d]
    /\ outlived' = (outlived \cup ({apps[d]} \cap Macs)) \ {m}
    /\ AddStats(d)
    /\ Disturb(d)
    /\ UNCHANGED <<fault, events, unread, bRunning>>

\* A register name collides with another object of the application: the half
\* built application goes, the exception leaves and the statistics too.
BacnetAddFails(d, m) ==
    /\ bRunning
    /\ instanceOwner[m] \in {None, d}
    /\ nodes' = Detach(Attach(Detach(nodes, apps[d]), m), m)
    /\ apps' = [apps EXCEPT ![d] = None]
    /\ outlived' = outlived \cup ({apps[d]} \cap Macs)
    /\ DropStats(d)
    /\ Disturb(d)
    /\ UNCHANGED <<fault, events, unread, bRunning, instanceOwner>>

BacnetRemove(d) ==
    /\ bRunning
    /\ nodes' = Detach(nodes, apps[d])
    /\ apps' = [apps EXCEPT ![d] = None]
    /\ instanceOwner' = [m \in Macs |-> IF instanceOwner[m] = d THEN None
                                        ELSE instanceOwner[m]]
    /\ outlived' = {m \in outlived : instanceOwner[m] # d}
    /\ Forget({d})
    /\ DropStats(d)
    /\ Disturb(d)
    /\ UNCHANGED <<fault, bRunning>>

\* stop: _teardown lets go of the LAN as a whole.
BacnetStop ==
    /\ bRunning
    /\ bRunning' = FALSE
    /\ apps' = [d \in Devices |-> None]
    /\ nodes' = [m \in Macs |-> 0]
    /\ instanceOwner' = [m \in Macs |-> None]
    /\ outlived' = {}
    /\ Forget({d \in Devices : apps[d] # None})
    /\ counting' = {}
    /\ reading' = [q \in Reads |-> IF reading[q].st = "asleep"
                                   THEN [reading[q] EXCEPT !.crossed = TRUE]
                                   ELSE reading[q]]
    /\ UNCHANGED fault

----------------------------------------------------------------------------
(* Requests *)

\* _count_request: once, as a success or as an error, if there are statistics.
Count(q, d) ==
    [reading[q] EXCEPT !.st = "done", !.dev = None,
                       !.counts = IF d \in counting THEN @ + 1 ELSE @]

\* _faulted_counted_read: dropped, failed or answered at once, or asleep.
BacnetRead(q, d) ==
    /\ apps[d] # None
    /\ reading[q].st = "idle"
    /\ \/ /\ fault[d] # "delay"
          /\ reading' = [reading EXCEPT ![q] =
                           [Count(q, d) EXCEPT !.crossed = d \notin counting]]
       \/ /\ fault[d] = "delay"
          /\ reading' = [reading EXCEPT ![q] =
                           [@ EXCEPT !.st = "asleep", !.dev = d, !.crossed = d \notin counting]]
    /\ UNCHANGED <<commVars, bRunning, apps, nodes, instanceOwner, outlived>>

BacnetWake(q) ==
    /\ reading[q].st = "asleep"
    /\ reading' = [reading EXCEPT ![q] = Count(q, reading[q].dev)]
    /\ UNCHANGED <<commVars, bRunning, apps, nodes, instanceOwner, outlived>>

BacnetDone(q) ==
    /\ reading[q].st = "done"
    /\ reading' = [reading EXCEPT ![q] = NoRead]
    /\ UNCHANGED <<commVars, bRunning, apps, nodes, instanceOwner, outlived>>

\* do_WritePropertyRequest records the write whatever the fault does to its
\* answer, and counts nothing.
BacnetWrite(d) ==
    /\ apps[d] # None
    /\ record(d)
    /\ UNCHANGED <<fault, counting, bacnetVars>>

BacnetNext(ds) ==
    \/ \E d \in ds : \/ \E m \in Macs : \/ BacnetAdd(d, m)
                                        \/ BacnetAddFails(d, m)
                                        \/ BacnetAddRefused(d, m)
                     \/ BacnetRemove(d)
                     \/ BacnetWrite(d)
                     \/ \E q \in Reads : BacnetRead(q, d)
                     \/ /\ bRunning
                        /\ SetFault(d, FaultTypes) \/ ClearFault(d) \/ mark_read(d)
                        /\ UNCHANGED bacnetVars
    \/ BacnetStop
    \/ \E q \in Reads : BacnetWake(q) \/ BacnetDone(q)

BacnetSpec == BacnetInit /\ CommsInit /\ [][BacnetNext(Devices)]_<<commVars, bacnetVars>>

----------------------------------------------------------------------------
(* On the LAN there is exactly one node for each application and never two
   with one address, though adds are refused, fail half-way and are repeated;
   the instance of an application belongs to its device; and an instance is
   reserved without an application only if that was replaced. *)
VlanMatchesApps ==
    /\ \A m \in Macs :
          /\ nodes[m] = Cardinality({d \in Devices : apps[d] = m})
          /\ nodes[m] <= 1
          /\ instanceOwner[m] # None /\ m \notin outlived => apps[instanceOwner[m]] = m
    /\ \A d \in Devices : apps[d] # None => instanceOwner[apps[d]] = d

(* A read is counted once if the registration it met is still the same when
   it ends. *)
ReadCountedOnce ==
    \A q \in Reads :
        reading[q].st = "done" /\ ~ reading[q].crossed => reading[q].counts = 1
=============================================================================
