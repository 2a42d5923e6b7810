\* Five requests about one assignment, overlapping or taking turns.
CONSTANTS
    Requests = {r1, r2, r3, r4, r5}
    Users = {"rep1", "mgr1", "mgr2"}
    Stores = {"s1"}
    Territories = {"west", "east"}
    Titles = {"t1"}
    Notes = {"n1"}
    Manners = {TRUE, FALSE}
    Role <- MCRole
    UserTerritory <- MCUserTerritory
    StoreRep <- MCStoreRep
    StoreTerritory <- MCStoreTerritory
    NoTask = NoTask
    NoStamp = NoStamp
    NoRequest = NoRequest
SPECIFICATION Spec
SYMMETRY RequestSymmetry
INVARIANTS
    TypeOK
    StatusAuthorised
    TrailGrounded
    OneOpenTask
PROPERTIES
    ImplementsBoard
CHECK_DEADLOCK FALSE
