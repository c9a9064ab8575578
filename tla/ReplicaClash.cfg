SPECIFICATION Spec
CONSTANTS
    Members = {a,b}
    Leaders = {a}
    KeyNames = {k}
    ZoneNames = {z}
    ReverseNames = {z}
    Values = {v}
    MaxLog = 4
    MayClash = TRUE
    None = None
INVARIANT NeverRefuses
CHECK_DEADLOCK FALSE
