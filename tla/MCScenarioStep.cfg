SPECIFICATION Spec
CONSTANTS
    a = a
    b = b
    Registers <- MCRegisters
    Runs = {r1}
    Calls = {c1}
    Scenarios <- MCScenarios
    NoRun = NoRun
    MaxGap = 2
INVARIANT StepLastsItsDuration
