SPECIFICATION Spec
CONSTANTS
    d1 = d1
    d2 = d2
    None = None
    Devices <- MCDevices
    Fleet <- MCFairFleet
    MaxEvents = 1
    MaxUnread = 1
    Slaves = {s1}
    Requests = {r1, r2}
    Tids = {t1, t2}
    Regs = {n1, n2}
    Clears = {k1, k2}
    MaxOid = 3
    Templates <- MCTemplates
    Queries = {q1}
    Macs = {1, 2}
    Reads = {q1}
PROPERTIES
    SuppressedComesBack
    CallbacksGo
CHECK_DEADLOCK FALSE
