SPECIFICATION Spec
CONSTANTS
    None = None
    Founder = f
    Members = {f, a}
    Witnesses = {}
    Zones = {"z"}
    MaxLog = 4
    MaxRaft = 4
    MaxFaults = 1
    Undisturbed = TRUE
    LeavesAtOnce = FALSE
    NoReturn = TRUE
INVARIANTS SnapshotCovers
CHECK_DEADLOCK FALSE
