SPECIFICATION FairSpec
CONSTANTS
    Jobs = {j1, j2}
    Beat = {}
    Workers = {w1}
    UpAtStart = {}
    Keys = {k1}
    KeyOf <- OneKey
    Gated = {j1, j2}
    Resume = {j1}
    Deferred = {}
    Polled = {}
    Cancelled = {}
    MaxTry <- TryTwice
    RetryCap = 1
    Faults = {"crash", "raise"}
    MaxFaults = 2
    NoJob = NoJob
INVARIANTS WorkConserved
PROPERTIES JobEnds LockFreed
CHECK_DEADLOCK FALSE
