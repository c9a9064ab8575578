SPECIFICATION Spec
CONSTANTS
    Keys = {k1, k2}
    TTLs = {60, 300}
    Params = {p, q}
    Half = 3
    First = 4
    Ballast = 6
    MaxCommits = 3
    MaySwitchOff = FALSE
    MaxRecords = 3
    MaxChain = 2
    Inputs = {"text", "names", "network", "zone", "lookup", "ttl", "soa", "asked", "client"}
    MappedPrefixes = FALSE
    FileHidden = FALSE
INVARIANTS SerialNamesContent AnswersAreCanonical OneRule ReadsBack
PROPERTIES  AnswerBringsLevel
SYMMETRY Sym
CHECK_DEADLOCK FALSE
