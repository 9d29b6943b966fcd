SPECIFICATION Spec
CONSTANTS
    Jobs = {j1}
    Beat = {}
    Workers = {w1, w2}
    UpAtStart = {w1, w2}
    Keys = {k1}
    KeyOf <- OneKey
    Gated = {j1}
    Resume = {j1}
    Deferred = {j1}
    Polled = {j1}
    Cancelled = {j1}
    MaxTry <- TryTwice
    RetryCap = 1
    Faults <- AnyFault
    MaxFaults = 2
    NoJob = NoJob
SYMMETRY WorkerSymmetry
INVARIANTS TypeOK TrackedFromTheStart LockNotLeaked
CHECK_DEADLOCK FALSE
