SPECIFICATION Spec
CONSTANTS
    Tabs = {t1, t2}
    Conns = {c1, c2, c3}
    NoTab = NoTab
    MaxLog = 2
    MaxChurn = 3
INVARIANTS
    TypeOK
    OneSocketPerTab
PROPERTIES
    OnlyGreetedFallBack
    EventReachesTab
CHECK_DEADLOCK FALSE
