SPECIFICATION Spec
CONSTANTS
    Jobs = {j1}
    Beat = {}
    Workers = {w1, w2}
    UpAtStart = {w1, w2}
    Keys = {k1}
    KeyOf <- OneKey
    Gated = {j1}
    Resume = {j1}
    Deferred = {j1}
    Polled = {}
    Cancelled = {j1}
    MaxTry <- TryTwice
    RetryCap = 1
    Faults = {"raise", "redeliver"}
    MaxFaults = 2
    NoJob = NoJob
SYMMETRY WorkerSymmetry
INVARIANTS CanceledNeverRuns EtaRespected
CHECK_DEADLOCK FALSE
