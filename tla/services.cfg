SPECIFICATION MCSpec
CONSTANTS
    SeSessions = {v1, v2}
    SeRequests = {s1}
    SeAdmins = {y1, y2}
    LlChecks = {l1, l2}
    LlMaxAttempt = 2
    LlMaxChecks = 5
    AlCallers = {a1, a2}
    AlMaxCalls = 4
    AlMaxEntries = 2
    BtBeats = {b1, b2, b3}
    BtTtl = 4
    FsUids = {1}
    FsSyncers = {y1, y2}
    FsMaxEdits = 2
    FsMaxRows = 2
    ImRequests = {i1}
    ImMaxEdits = 2
    ImMaxAnswers = 1
    ImMaxCopies = 2
    ImEdits = {"retitle", "move", "cancel one", "override", "move one", "delete"}
    RbOwners = {o1}
    RbWorkers = {y1, y2}
    RbBookings = {y1, y2}
    RbTimes = {1, 3}
    j1 = j1
    j2 = j2
    Jobs = {j1, j2}
    Rank <- Planned
    Owned = {j1}
    Periodic = {j1, j2}
    Procs = {y1, y2, y3}
    Limit = 2
    Serial = TRUE
    MaxOps = 4
    NoJob = NoJob
VIEW MovingPart
SYMMETRY NameSymmetry
INVARIANTS RevokedNeverServed BlockedForCause ChainHolds OneBeat SyncExclusive MirrorFresh RunningIsTrue
INVARIANTS  OwnerBooksOnce IndexComplete ListingComplete
PROPERTIES ImplementsTable
CHECK_DEADLOCK FALSE
