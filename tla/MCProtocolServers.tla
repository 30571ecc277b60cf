------------------------- MODULE MCProtocolServers -------------------------
(* Two devices where they can get in each other's way, one elsewhere; it can
   be added under two Modbus slave ids.  Servers share nothing, so a run may
   leave some of them without devices. *)
EXTENDS ProtocolServers, TLC

CONSTANTS d1, d2

MCDevices == {d1, d2}

MCFleet == [p \in Protocols |-> IF p \in {"snmp", "bacnet"} THEN {d1, d2} ELSE {d1}]

Only(ps) == [p \in Protocols |-> IF p \in ps THEN MCFleet[p] ELSE {}]

MCFairFleet == Only({"modbus_tcp", "opcua"})

MCOpcFleet == Only({"opcua"})

MCTemplates == {{1, 3}, {2}}

MCSymmetry == UNION {Permutations(S) : S \in {Slaves, Requests, Tids, Regs, Clears}}
=============================================================================
