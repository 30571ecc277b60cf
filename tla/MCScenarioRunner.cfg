SPECIFICATION Spec
CONSTANTS
    a = a
    b = b
    Registers <- MCRegisters
    Runs = {r1, r2}
    Calls = {c1, c2}
    Scenarios <- MCScenarios
    NoRun = NoRun
    MaxGap = 2
INVARIANTS TypeOK OneTimeline NoLeakedAnomaly OneActiveStepPerRegister LoneStepHolds NoScenarioOnStoppedDevice
PROPERTIES ScenarioEnds ImplementsContract
