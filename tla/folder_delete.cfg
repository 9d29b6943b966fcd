SPECIFICATION MbSpec
CONSTANTS
    MbMails = {m1, m2}
    MbRequests = {r1, r2}
    MbMaxRequests = 2
    MbSlips = TRUE
INVARIANTS DestroyedIsEmpty
CHECK_DEADLOCK FALSE
