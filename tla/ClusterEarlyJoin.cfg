SPECIFICATION Spec
CONSTANTS
    None = None
    Founder = f
    Members = {f, a}
    Witnesses = {}
    Zones = {"z"}
    MaxLog = 4
    MaxRaft = 4
    MaxFaults = 1
    Undisturbed = FALSE
    LeavesAtOnce = TRUE
    NoReturn = TRUE
INVARIANTS FounderContentReaches
CHECK_DEADLOCK FALSE
