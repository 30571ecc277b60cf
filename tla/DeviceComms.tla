---------------------------- MODULE DeviceComms ----------------------------
(***************************************************************************)
(* What the protocol servers share about a device: its communication fault *)
(* (simulation/fault_simulator.py), its log of client writes               *)
(* (simulation/write_tracker.py) and its statistics entry                  *)
(* (protocols/base.py).  All of it is in memory and belongs to the one     *)
(* event loop: each operator is a piece of a step of that loop.            *)
(***************************************************************************)
EXTENDS Integers, FiniteSets

CONSTANTS
    Devices,     \* device ids
    None,        \* "no device"
    MaxEvents,   \* MAX_EVENTS_PER_DEVICE, the length of the ring buffer
    MaxUnread    \* bound: client writes go unacknowledged at most this often

ASSUME CommsAssumption ==
    /\ None \notin Devices
    /\ MaxEvents \in Nat \ {0}
    /\ MaxUnread \in Nat

VARIABLES
    fault,       \* FaultSimulator._device_faults
    events,      \* the number of events in WriteTracker._buffers[d]
    unread,      \* WriteTracker._unread[d]
    counting     \* the devices that have an entry in _device_stats

commVars == <<fault, events, unread, counting>>

FaultTypes == {"delay", "timeout", "exception", "intermittent"}

CommsTypeOK ==
    /\ fault \in [Devices -> FaultTypes \cup {"none"}]
    /\ events \in [Devices -> 0 .. MaxEvents]
    /\ unread \in [Devices -> 0 .. MaxUnread]
    /\ counting \subseteq Devices

CommsInit ==
    /\ fault = [d \in Devices |-> "none"]
    /\ events = [d \in Devices |-> 0]
    /\ unread = [d \in Devices |-> 0]
    /\ counting = {}

----------------------------------------------------------------------------
(* fault_simulator *)

set_fault(d, f) == fault' = [fault EXCEPT ![d] = f]

clear_fault(d) == fault' = [fault EXCEPT ![d] = "none"]

\* Whether a request to d may be dropped, and whether it may be let through:
\* timeout always drops, intermittent does when random() < failure_rate.
MayDrop(d) == fault[d] \in {"timeout", "intermittent"}

MayPass(d) == fault[d] # "timeout"

----------------------------------------------------------------------------
(* write_tracker *)

\* Mutant: a deque without maxlen.
RecordAll(d) ==
    /\ unread[d] < MaxUnread
    /\ events' = [events EXCEPT ![d] = @ + 1]
    /\ unread' = [unread EXCEPT ![d] = @ + 1]

\* A deque with maxlen drops its oldest event; the unread count goes on.
record(d) ==
    /\ unread[d] < MaxUnread
    /\ events' = [events EXCEPT ![d] = IF @ < MaxEvents THEN @ + 1 ELSE @]
    /\ unread' = [unread EXCEPT ![d] = @ + 1]

\* Mutant: the unread badge of a removed device survives.
ForgetBuffers(ds) ==
    /\ events' = [d \in Devices |-> IF d \in ds THEN 0 ELSE events[d]]
    /\ UNCHANGED unread

\* WriteTracker.clear of each device of ds.
Forget(ds) ==
    /\ events' = [d \in Devices |-> IF d \in ds THEN 0 ELSE events[d]]
    /\ unread' = [d \in Devices |-> IF d \in ds THEN 0 ELSE unread[d]]

\* POST .../write-events/ack
mark_read(d) ==
    /\ unread' = [unread EXCEPT ![d] = 0]
    /\ UNCHANGED <<fault, events, counting>>

----------------------------------------------------------------------------
(* Base class: the statistics entry lives from add_device to remove_device,
   and an add_device that fails takes it away again. *)

AddStats(d) == counting' = counting \cup {d}

DropStats(d) == counting' = counting \ {d}

\* PUT and DELETE .../fault for the adapters whose fault hooks do nothing.
SetFault(d, fs) ==
    \E f \in fs : set_fault(d, f) /\ UNCHANGED <<events, unread, counting>>

ClearFault(d) == clear_fault(d) /\ UNCHANGED <<events, unread, counting>>

----------------------------------------------------------------------------
(* What the monitor's badge promises: as many of the unread writes as the
   ring buffer holds are in the list the drawer shows (write_tracker.py:
   record, mark_read and clear keep two maps in step). *)
UnreadIsListed ==
    \A d \in Devices :
        events[d] >= (IF unread[d] < MaxEvents THEN unread[d] ELSE MaxEvents)
=============================================================================
