SPECIFICATION FairSpec
CONSTANTS
    MaxKeys = 2
    MaxRequests = 3
    Ops <- AllOps
    Faults = {"imap", "died"}
    MaxFaults = 1
INVARIANTS AckedInDraft LockHasHolder
PROPERTIES RequestsEnd
CHECK_DEADLOCK FALSE
