SPECIFICATION Spec
CONSTANTS
    Devices = {d1}
    Slaves = {s1}
    Calls = {c1}
    NoDevice = NoDevice
    NoSlave = NoSlave
PROPERTY FailedAddLeavesNoTrace
