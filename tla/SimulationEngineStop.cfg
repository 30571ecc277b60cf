SPECIFICATION Spec
CONSTANTS
    Devices = {d1}
    Calls = {c1}
    Tasks = {t1, t2}
    Configs = {v1}
    NoTask = NoTask
    NoDevice = NoDevice
    NoConfig = NoConfig
    MaxRestartAttempts = 1
    MaxConsecutiveErrors = 2
INVARIANT StoppedMeansStopped
CHECK_DEADLOCK FALSE
