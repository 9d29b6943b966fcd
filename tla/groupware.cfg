SPECIFICATION MCSpec
CONSTANTS
    Length = 3
    Counted = FALSE
    MaxRequests = 3
    MaxActive = 2
    Ops = {"retitle", "move", "override", "split", "truncate", "cancel", "delete", "accept", "accept one", "personal", "drop one", "drop"}
    DavClients = {c1, c2}
    DavFollowers = {c1}
    DavWorkers = {w1, w2}
    DavUids = {1, 2}
    DavMaxRequests = 3
    DavMaxSeconds = 1
    MbMails = {m1, m2}
    MbRequests = {r1, r2}
    MbMaxRequests = 3
    MbSlips = TRUE
    SmUsers = {u1, u2}
    SmRequests = {q1, q2}
    SmMaxRequests = 4
VIEW MovingPart
INVARIANTS MCTypeOK DeletedStaysDeleted  AnswerIsCurrent EtagIdentifies SyncComplete NoMailLost RoleAsGranted GoneWithMailbox
CHECK_DEADLOCK FALSE
