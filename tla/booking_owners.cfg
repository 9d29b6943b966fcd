SPECIFICATION RbSpec
CONSTANTS
    RbOwners = {"ann", "bob"}
    RbWorkers = {1}
    RbBookings = {1, 2}
    RbTimes = {1, 3}
INVARIANT RoomBookedOnce
CHECK_DEADLOCK FALSE
