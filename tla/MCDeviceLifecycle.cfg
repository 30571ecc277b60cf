SPECIFICATION Spec
CONSTANTS
    Devices = {d1, d2}
    Slaves = {s1, s2}
    Calls = {c1, c2}
    NoDevice = NoDevice
    NoSlave = NoSlave
INVARIANTS TypeOK OwnSlave RunningIsServed StoppedIsGone NoGhostSlave
PROPERTY LegalTransitions
SYMMETRY Symmetry
