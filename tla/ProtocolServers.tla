-------------------------- MODULE ProtocolServers --------------------------
(***************************************************************************)
(* The four polled protocol servers with what they share: communication    *)
(* faults, write logs and statistics (DeviceComms).  A device belongs to   *)
(* one of them by its template, and the servers share nothing else, so a   *)
(* behaviour follows one server and the devices that use it.               *)
(***************************************************************************)
EXTENDS ModbusTcp, OpcUaAgent, SnmpAgent, BacnetAgent

CONSTANT Fleet   \* for each protocol the devices that use it

Protocols == {"modbus_tcp", "opcua", "snmp", "bacnet"}

ASSUME FleetAssumption == Fleet \in [Protocols -> SUBSET Devices]

VARIABLE protocol

vars == <<protocol, commVars, modbusVars, opcVars, snmpVars, bacnetVars>>

TypeOK ==
    /\ protocol \in Protocols
    /\ CommsTypeOK /\ ModbusTypeOK /\ OpcTypeOK /\ SnmpTypeOK /\ BacnetTypeOK

Init ==
    /\ protocol \in Protocols
    /\ CommsInit /\ ModbusInit /\ OpcInit /\ SnmpInit /\ BacnetInit
    /\ protocol # "snmp" => sRunning        \* one value for a server that
    /\ protocol # "bacnet" => bRunning      \* the behaviour does not follow

Modbus == /\ protocol = "modbus_tcp"
          /\ ModbusNext(Fleet[protocol])
          /\ UNCHANGED <<protocol, opcVars, snmpVars, bacnetVars>>

OpcUa == /\ protocol = "opcua"
         /\ OpcNext(Fleet[protocol])
         /\ UNCHANGED <<protocol, modbusVars, snmpVars, bacnetVars>>

Snmp == /\ protocol = "snmp"
        /\ SnmpNext(Fleet[protocol])
        /\ UNCHANGED <<protocol, modbusVars, opcVars, bacnetVars>>

Bacnet == /\ protocol = "bacnet"
          /\ BacnetNext(Fleet[protocol])
          /\ UNCHANGED <<protocol, modbusVars, opcVars, snmpVars>>

Next == Modbus \/ OpcUa \/ Snmp \/ Bacnet

Spec == Init /\ [][Next]_vars /\ ModbusFairness /\ OpcFairness

----------------------------------------------------------------------------
Registered(d) ==
    \/ SlavesOf(d) # {}
    \/ oLife[d] # "off"
    \/ deviceOids[d] # None
    \/ \E m \in Macs : instanceOwner[m] = d

(* Write events belong to the registration they were recorded under: a
   device the server does not know has none ("cleared on device stop",
   write_tracker.py), and of one it knows the list shows as many of the
   unread writes as the ring buffer holds.  (ModbusTcpAdapter.stop passes
   over a device that only a left-behind slave answers for, and BACnet's
   _teardown over one whose repeated add failed; the process ends after it.) *)
EventsOfServed ==
    /\ UnreadIsListed
    /\ mRunning /\ bRunning => \A d \in Devices : ~ Registered(d) => events[d] = 0 /\ unread[d] = 0

(* The Modbus and the BACnet statistics count each request exactly once, as
   a success or as an error, unless something else crossed the request. *)
CountedOnce == RequestCountedOnce /\ ReadCountedOnce
=============================================================================
