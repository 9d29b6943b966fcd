SPECIFICATION FsSpec
CONSTANTS
    FsUids = {1}
    FsSyncers = {y1, y2}
    FsMaxEdits = 2
    FsMaxRows = 2
INVARIANTS ChangesApplied
CHECK_DEADLOCK FALSE
