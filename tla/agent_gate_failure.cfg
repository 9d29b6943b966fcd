SPECIFICATION Spec
CONSTANTS
    Jobs = {j1, j2, j3}
    Beat = {}
    Workers = {w1}
    UpAtStart = {w1}
    Keys = {k1}
    KeyOf <- OneKey
    Gated = {j1, j2, j3}
    Resume = {}
    Deferred = {}
    Polled = {}
    Cancelled = {}
    MaxTry <- TryOnce
    RetryCap = 0
    Faults = {"raise"}
    MaxFaults = 1
    NoJob = NoJob
INVARIANTS GateExclusive
CHECK_DEADLOCK FALSE
