----------------------------- MODULE OpcUaAgent -----------------------------
(***************************************************************************)
(* protocols/opcua_agent.py: one asyncua server with an object per device  *)
(* and a variable node per register.  A fault is applied by hanging a      *)
(* value callback on every node of the device; asyncua takes a callback    *)
(* off when the node is written.  Building and deleting nodes, taking a    *)
(* fault off and the write of a tick await once per node, so other         *)
(* requests run in between.                                                *)
(***************************************************************************)
EXTENDS DeviceComms

CONSTANTS
    Regs,        \* registers of a device, each with a node
    Clears       \* DELETE .../fault requests that may be open together

ASSUME RegsAssumption == None \notin Regs

VARIABLES
    oRunning,    \* _server and _folder exist
    oLife,       \* "off", "adding", "on" or "removing": the object node
    oTodo,       \* registers add_device has still to make nodes for
    oNodes,      \* _nodes, _node_device and _node_write_meta
    oHooked,     \* those of them that carry a fault callback
    oWriting,    \* the node update_register has begun to write
    oLeft,       \* nodes with a callback that an earlier add left behind
    oFaulted,    \* _faulted
    oClear,      \* open remove_fault calls: their device and the nodes to write
    oWritten,    \* nodes a client wrote to since the fault was applied
    oCrossed,    \* devices with a fault request during another operation on them
    oUnhooked    \* devices built while they were already in _faulted

opcVars == <<oRunning, oLife, oTodo, oNodes, oHooked, oWriting, oLeft,
             oFaulted, oClear, oWritten, oCrossed, oUnhooked>>

NoClear == [dev |-> None, todo |-> {}]

OpcTypeOK ==
    /\ oRunning \in BOOLEAN
    /\ oLife \in [Devices -> {"off", "adding", "on", "removing"}]
    /\ oTodo \in [Devices -> SUBSET Regs]
    /\ oNodes \in [Devices -> SUBSET Regs]
    /\ oHooked \in [Devices -> SUBSET Regs]
    /\ oWriting \in [Devices -> Regs \cup {None}]
    /\ oLeft \in [Devices -> SUBSET Regs]
    /\ oFaulted \subseteq Devices
    /\ oClear \in [Clears -> [dev : Devices \cup {None}, todo : SUBSET Regs]]
    /\ oWritten \in [Devices -> SUBSET Regs]
    /\ oCrossed \subseteq Devices
    /\ oUnhooked \subseteq Devices

OpcInit ==
    /\ oRunning = TRUE
    /\ oLife = [d \in Devices |-> "off"]
    /\ oTodo = [d \in Devices |-> {}]
    /\ oNodes = [d \in Devices |-> {}]
    /\ oHooked = [d \in Devices |-> {}]
    /\ oWriting = [d \in Devices |-> None]
    /\ oLeft = [d \in Devices |-> {}]
    /\ oFaulted = {}
    /\ oClear = [k \in Clears |-> NoClear]
    /\ oWritten = [d \in Devices |-> {}]
    /\ oCrossed = {}
    /\ oUnhooked = {}

Clearing(d) == \E k \in Clears : oClear[k].dev = d

OpcQuiet(d) ==
    ~ Clearing(d) /\ oLife[d] \in {"off", "on"} /\ oWriting[d] = None

\* A request on d begins: did another one on d, or a tick, have a step still
\* to take?
Crossing(d) == oCrossed' = IF OpcQuiet(d) THEN oCrossed ELSE oCrossed \cup {d}

\* The nodes of d are new or gone: no open remove_fault can reach them.
LoseNodes(d) ==
    [k \in Clears |-> IF oClear[k].dev = d THEN [oClear[k] EXCEPT !.todo = {}]
                      ELSE oClear[k]]

----------------------------------------------------------------------------
(* add_device: the object, then node by node.  An import can leave a device
   "stopped" that is still registered, so it may be built a second time. *)

OpcAdd(d) ==
    /\ oRunning
    /\ oLife[d] \in {"off", "on"}
    /\ oLife' = [oLife EXCEPT ![d] = "adding"]
    /\ oTodo' = [oTodo EXCEPT ![d] = Regs]
    /\ oUnhooked' = IF d \in oFaulted THEN oUnhooked \cup {d} ELSE oUnhooked
    /\ Crossing(d)
    /\ AddStats(d)
    /\ UNCHANGED <<fault, events, unread, oRunning, oNodes, oHooked, oWriting,
                   oLeft, oFaulted, oClear, oWritten>>

\* The node of an earlier add stays in the address space, with its callback:
\* _nodes forgets it, and delete_nodes only knows the new object.
OpcAddNode(d, n) ==
    /\ oLife[d] = "adding"
    /\ n \in oTodo[d]
    /\ oTodo' = [oTodo EXCEPT ![d] = @ \ {n}]
    /\ oNodes' = [oNodes EXCEPT ![d] = @ \cup {n}]
    /\ oLeft' = [oLeft EXCEPT ![d] = @ \cup (oHooked[d] \cap {n})]
    /\ oHooked' = [oHooked EXCEPT ![d] = @ \ {n}]
    /\ oWriting' = [oWriting EXCEPT ![d] = IF @ = n THEN None ELSE @]
    /\ oWritten' = [oWritten EXCEPT ![d] = @ \ {n}]
    /\ oClear' = [k \in Clears |-> IF oClear[k].dev = d
                                   THEN [oClear[k] EXCEPT !.todo = @ \ {n}]
                                   ELSE oClear[k]]
    /\ UNCHANGED <<commVars, oRunning, oLife, oFaulted, oCrossed, oUnhooked>>

\* Mutant: a fault that was set before is not applied.
ApplyNothing(d) == UNCHANGED <<oHooked, oWritten, oFaulted>>

\* apply_fault: nothing for a device that is in _faulted already.
apply_fault(d) ==
    IF d \in oFaulted THEN UNCHANGED <<oHooked, oWritten, oFaulted>>
    ELSE /\ oHooked' = [oHooked EXCEPT ![d] = oNodes[d]]
         /\ oWritten' = [oWritten EXCEPT ![d] = {}]
         /\ oFaulted' = oFaulted \cup {d}

OpcAdded(d) ==
    /\ oLife[d] = "adding"
    /\ oTodo[d] = {}
    /\ oLife' = [oLife EXCEPT ![d] = "on"]
    /\ IF fault[d] # "none" THEN apply_fault(d)
       ELSE UNCHANGED <<oHooked, oWritten, oFaulted>>
    /\ oCrossed' = IF oWriting[d] # None THEN oCrossed \cup {d} ELSE oCrossed
    /\ UNCHANGED <<commVars, oRunning, oTodo, oNodes, oWriting, oLeft, oClear,
                   oUnhooked>>

----------------------------------------------------------------------------
(* remove_device: delete_nodes, then the maps. *)

OpcRemove(d) ==
    /\ oRunning
    /\ oLife[d] = "on"
    /\ oLife' = [oLife EXCEPT ![d] = "removing"]
    /\ oHooked' = [oHooked EXCEPT ![d] = {}]
    /\ oClear' = LoseNodes(d)
    /\ Crossing(d)
    /\ UNCHANGED <<commVars, oRunning, oTodo, oNodes, oWriting, oLeft, oFaulted,
                   oWritten, oUnhooked>>

OpcRemoved(d) ==
    /\ oLife[d] = "removing"
    /\ oLife' = [oLife EXCEPT ![d] = "off"]
    /\ oNodes' = [oNodes EXCEPT ![d] = {}]
    /\ oHooked' = [oHooked EXCEPT ![d] = {}]
    /\ oWriting' = [oWriting EXCEPT ![d] = None]
    /\ oWritten' = [oWritten EXCEPT ![d] = {}]
    /\ oFaulted' = oFaulted \ {d}
    /\ oCrossed' = IF Clearing(d) THEN oCrossed ELSE oCrossed \ {d}
    /\ oUnhooked' = oUnhooked \ {d}
    /\ Forget({d})
    /\ DropStats(d)
    /\ UNCHANGED <<fault, oRunning, oTodo, oLeft, oClear>>

----------------------------------------------------------------------------
(* update_register, from the tick of a running simulation, and the write of
   a client, which is recorded first. *)

\* _faulted is looked up before the write is awaited; a task writes one
\* register after the other.
OpcUpdate(d, n) ==
    /\ n \in oNodes[d]
    /\ d \notin oFaulted
    /\ oWriting[d] = None
    /\ oWriting' = [oWriting EXCEPT ![d] = n]
    /\ UNCHANGED <<commVars, oRunning, oLife, oTodo, oNodes, oHooked, oLeft,
                   oFaulted, oClear, oWritten, oCrossed, oUnhooked>>

OpcUpdated(d, n) ==
    /\ oWriting[d] = n
    /\ oWriting' = [oWriting EXCEPT ![d] = None]
    /\ oHooked' = [oHooked EXCEPT ![d] = @ \ {n}]
    /\ UNCHANGED <<commVars, oRunning, oLife, oTodo, oNodes, oLeft, oFaulted,
                   oClear, oWritten, oCrossed, oUnhooked>>

\* The write fails, or its task is cancelled.
OpcUpdateFails(d) ==
    /\ oWriting[d] # None
    /\ oWriting' = [oWriting EXCEPT ![d] = None]
    /\ UNCHANGED <<commVars, oRunning, oLife, oTodo, oNodes, oHooked, oLeft,
                   oFaulted, oClear, oWritten, oCrossed, oUnhooked>>

OpcClientWrite(d, n) ==
    /\ oRunning
    /\ n \in oNodes[d]
    /\ record(d)
    /\ oHooked' = [oHooked EXCEPT ![d] = @ \ {n}]
    /\ oWritten' = [oWritten EXCEPT ![d] = @ \cup {n}]
    /\ UNCHANGED <<fault, counting, oRunning, oLife, oTodo, oNodes, oWriting,
                   oLeft, oFaulted, oClear, oCrossed, oUnhooked>>

\* A node that was left behind is written: by a client, recorded while
\* _node_device knows its device, or by what was under way when it was left.
OpcLeftWrite(d, n) ==
    /\ n \in oLeft[d]
    /\ oLeft' = [oLeft EXCEPT ![d] = @ \ {n}]
    /\ \/ oNodes[d] # {} /\ record(d)
       \/ UNCHANGED <<events, unread>>
    /\ UNCHANGED <<fault, counting, oRunning, oLife, oTodo, oNodes, oHooked,
                   oWriting, oFaulted, oClear, oWritten, oCrossed, oUnhooked>>

----------------------------------------------------------------------------
(* The fault routes. *)

\* A callback looks the type of the fault up when its node is read: what is
\* hung on which node does not depend on it.
OpcFaults == {"exception"}

\* PUT .../fault: the state and the callbacks in one turn.  A node that has
\* been deleted takes no callback.
OpcSetFault(d, f) ==
    /\ oRunning
    /\ set_fault(d, f)
    /\ IF oLife[d] = "removing"
       THEN oFaulted' = oFaulted \cup {d} /\ UNCHANGED <<oHooked, oWritten>>
       ELSE apply_fault(d)
    /\ Crossing(d)
    /\ UNCHANGED <<events, unread, counting, oRunning, oLife, oTodo, oNodes,
                   oWriting, oLeft, oClear, oUnhooked>>

\* DELETE .../fault on a device without callbacks ends at once.
OpcClearNothing(d) ==
    /\ oRunning
    /\ d \notin oFaulted
    /\ clear_fault(d)
    /\ Crossing(d)
    /\ UNCHANGED <<events, unread, counting, oRunning, oLife, oTodo, oNodes,
                   oHooked, oWriting, oLeft, oFaulted, oClear, oWritten, oUnhooked>>

OpcClear(k, d) ==
    /\ oRunning
    /\ oClear[k] = NoClear
    /\ d \in oFaulted
    /\ oClear' = [oClear EXCEPT ![k] =
                    [dev |-> d, todo |-> IF oLife[d] = "removing" THEN {} ELSE oNodes[d]]]
    /\ Crossing(d)
    /\ UNCHANGED <<commVars, oRunning, oLife, oTodo, oNodes, oHooked, oWriting,
                   oLeft, oFaulted, oWritten, oUnhooked>>

\* Write a node back: its callback goes, or the write fails and it stays.
OpcClearNode(k, n) ==
    /\ n \in oClear[k].todo
    /\ oClear' = [oClear EXCEPT ![k].todo = @ \ {n}]
    /\ \/ oHooked' = [oHooked EXCEPT ![oClear[k].dev] = @ \ {n}]
       \/ UNCHANGED oHooked
    /\ UNCHANGED <<commVars, oRunning, oLife, oTodo, oNodes, oWriting, oLeft,
                   oFaulted, oWritten, oCrossed, oUnhooked>>

\* Mutant: the fault is cleared, the device stays marked.
ClearedStaysMarked(k) ==
    /\ clear_fault(oClear[k].dev)
    /\ UNCHANGED oFaulted

\* The device leaves _faulted and the fault state goes in the same turn.
Cleared(k) ==
    /\ clear_fault(oClear[k].dev)
    /\ oFaulted' = oFaulted \ {oClear[k].dev}

OpcCleared(k) ==
    /\ oClear[k].dev # None
    /\ oClear[k].todo = {}
    /\ Cleared(k)
    /\ oUnhooked' = oUnhooked \ {oClear[k].dev}
    /\ oClear' = [oClear EXCEPT ![k] = NoClear]
    /\ UNCHANGED <<events, unread, counting, oRunning, oLife, oTodo, oNodes,
                   oHooked, oWriting, oLeft, oWritten, oCrossed>>

----------------------------------------------------------------------------
(* stop: the server, then the maps.  While it awaits the server nothing new
   can happen; the process ends after it. *)

OpcStop ==
    /\ oRunning
    /\ oRunning' = FALSE
    /\ Forget({d \in Devices : oNodes[d] # {}})
    /\ counting' = {}
    /\ oLife' = [d \in Devices |-> "off"]
    /\ oTodo' = [d \in Devices |-> {}]
    /\ oNodes' = [d \in Devices |-> {}]
    /\ oHooked' = [d \in Devices |-> {}]
    /\ oWriting' = [d \in Devices |-> None]
    /\ oLeft' = [d \in Devices |-> {}]
    /\ oWritten' = [d \in Devices |-> {}]
    /\ oFaulted' = {}
    /\ oClear' = [k \in Clears |-> NoClear]
    /\ oCrossed' = {}
    /\ oUnhooked' = {}
    /\ UNCHANGED fault

OpcNext(ds) ==
    \/ \E d \in ds : \/ OpcAdd(d) \/ OpcAdded(d) \/ OpcRemove(d) \/ OpcRemoved(d)
                     \/ OpcClearNothing(d) \/ OpcUpdateFails(d)
                     \/ \E f \in OpcFaults : OpcSetFault(d, f)
                     \/ \E k \in Clears : OpcClear(k, d)
                     \/ \E n \in Regs : \/ OpcAddNode(d, n)
                                        \/ OpcUpdate(d, n) \/ OpcUpdated(d, n)
                                        \/ OpcClientWrite(d, n) \/ OpcLeftWrite(d, n)
                     \/ oRunning /\ mark_read(d) /\ UNCHANGED opcVars
    \/ \E k \in Clears : OpcCleared(k) \/ \E n \in Regs : OpcClearNode(k, n)
    \/ OpcStop

\* The event loop runs what is ready: a write that has begun comes to an end.
OpcFairness ==
    \A d \in Devices :
        WF_<<commVars, opcVars>>(OpcUpdateFails(d) \/ \E n \in Regs : OpcUpdated(d, n))

OpcSpec ==
    /\ OpcInit /\ CommsInit
    /\ [][OpcNext(Devices)]_<<commVars, opcVars>>
    /\ OpcFairness

\* The engine writes register n of d again and again: the register has an
\* enabled configuration, the device a live task, which takes its registers in
\* turn, and not every write fails (simulation/engine.py:266-308).
KeepsUpdating(d, n) ==
    /\ SF_<<commVars, opcVars>>(OpcUpdate(d, n))
    /\ SF_<<commVars, opcVars>>(OpcUpdated(d, n))

----------------------------------------------------------------------------
(* A device is in _faulted only while it has a fault, in whatever order
   faults, clears, starts and stops interleave: otherwise update_register
   would skip its nodes for ever.  And when no two of them overlap, nor a
   tick one of them, and the device was not in _faulted before its nodes were
   made, a fault is on every node no client has written to. *)
CallbacksMatchFault ==
    \A d \in Devices :
        /\ d \in oFaulted => fault[d] # "none"
        /\ /\ oLife[d] = "on" /\ OpcQuiet(d) /\ fault[d] # "none"
           /\ d \notin oCrossed \cup oUnhooked
           => d \in oFaulted /\ oNodes[d] \ oWritten[d] \subseteq oHooked[d]

(* tests/test_opcua_fault.py: "A fault set before the device is added is
   re-applied on add (parity with Modbus, where the fault survives a device
   stop/start)". *)
FaultIsApplied ==
    \A d \in Devices :
        /\ oLife[d] = "on" /\ OpcQuiet(d) /\ fault[d] # "none"
        /\ d \notin oCrossed
        => oNodes[d] \ oWritten[d] \subseteq oHooked[d]

(* Once its fault is cleared a running device gets rid of the callback of
   every node the engine goes on updating, those whose restoring write failed
   included, unless a new fault is set or the device is stopped
   (remove_fault's comment: "until the next update_register write clears
   it").  A register without an enabled configuration, or of a device whose
   task has ended, may keep it. *)
CallbacksGo ==
    \A d \in Devices, n \in Regs :
        KeepsUpdating(d, n) =>
            ((oLife[d] = "on" /\ fault[d] = "none")
                ~> (n \notin oHooked[d] \/ fault[d] # "none" \/ oLife[d] # "on"))
=============================================================================
