SPECIFICATION MCSpec
CONSTANTS
    Direct = {d1}
    Scheduled = {s1}
    Held = {u1}
    Undone = {u1}
    Workers = {w1, w2}
    MaxTry = 2
    Faults = {"smtp", "imap", "cache", "publish", "ttl", "preference", "crash", "lost", "resume", "redeliver"}
    MaxFaults = 2
    NoMail = NoMail
INVARIANTS TypeOK AtMostOnce UndoneInTimeUnsent NotLost DraftKept
PROPERTIES EventuallySent
CHECK_DEADLOCK FALSE
