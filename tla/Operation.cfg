SPECIFICATION Spec
CONSTANTS
    Actors = {x1, x2}
    Conns = {c1, c2, c3}
    srv1 = srv1
    srv2 = srv2
    srv3 = srv3
    witness = witness
    None = None
    ChecksOverlap = FALSE
    MayClash = FALSE
INVARIANTS MembershipSound StoreIsItsIndex ServesWhole AnsweredForItself
SYMMETRY Sym
CHECK_DEADLOCK FALSE
