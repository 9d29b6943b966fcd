SPECIFICATION Spec
CONSTANTS
    Jobs = {j1, j2, j3}
    Beat = {j3}
    Workers = {w1, w2}
    UpAtStart = {w1, w2}
    Keys = {k1}
    KeyOf <- OneKey
    Gated = {j1, j2}
    Resume = {j1, j2}
    Deferred = {}
    Polled = {}
    Cancelled = {}
    MaxTry <- TryOnce
    RetryCap = 0
    Faults = {"raise", "lost", "publish", "lockTTL"}
    MaxFaults = 2
    NoJob = NoJob
SYMMETRY WorkerSymmetry
INVARIANTS BodyIsStarted
PROPERTIES TerminalFinal
CHECK_DEADLOCK FALSE
