SPECIFICATION Spec
CONSTANTS
    None = None
    Founder = f
    Members = {f, a}
    Witnesses = {}
    Zones = {"z"}
    MaxLog = 4
    MaxRaft = 1
    MaxFaults = 1
    Undisturbed = TRUE
    LeavesAtOnce = TRUE
    NoReturn = TRUE
INVARIANTS StoreIsPrefix SnapshotCovers FounderContentReaches ClaimsAreUnique PlanIsCurrent Inductive
PROPERTIES NothingAfterAGap Replicates
CHECK_DEADLOCK FALSE
