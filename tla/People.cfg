SPECIFICATION Spec
CONSTANTS
    Actors = {x1, x2}
    Data = {d1}
    None = None
    AToken = AToken
    Straddles = FALSE
    AnonymousSearch = FALSE
INVARIANTS OwnSession CredentialsCount ArrangedHolds ListedOnce WatchedAddsUp
PROPERTIES StepsAreMeant
SYMMETRY Sym
CHECK_DEADLOCK FALSE
