SPECIFICATION Spec
CONSTANTS
    Devices = {d1}
    Calls = {c1}
    Tasks = {t1, t2}
    Configs = {v1, v2}
    NoTask = NoTask
    NoDevice = NoDevice
    NoConfig = NoConfig
    MaxRestartAttempts = 1
    MaxConsecutiveErrors = 2
INVARIANTS TypeOK NoDeadEntry NoOrphan TickFindsValues NoSilentDeath RunsCommittedConfig
PROPERTY RestartsEnd
CHECK_DEADLOCK FALSE
