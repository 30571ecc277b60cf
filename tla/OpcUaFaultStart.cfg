SPECIFICATION Spec
CONSTANTS
    d1 = d1
    d2 = d2
    None = None
    Devices <- MCDevices
    Fleet <- MCOpcFleet
    MaxEvents = 1
    MaxUnread = 2
    Slaves = {s1}
    Requests = {r1, r2}
    Tids = {t1, t2}
    Regs = {n1, n2}
    Clears = {k1, k2}
    MaxOid = 3
    Templates <- MCTemplates
    Queries = {q1}
    Macs = {1, 2}
    Reads = {q1}
INVARIANT FaultIsApplied
CHECK_DEADLOCK FALSE
