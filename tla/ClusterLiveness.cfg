SPECIFICATION FairSpec
CONSTANTS
    None = None
    Founder = f
    Members = {f, a}
    Witnesses = {}
    Zones = {"z"}
    MaxLog = 3
    MaxRaft = 1
    MaxFaults = 1
    Undisturbed = FALSE
    LeavesAtOnce = TRUE
    NoReturn = FALSE
PROPERTIES CatchesUp
CHECK_DEADLOCK FALSE
