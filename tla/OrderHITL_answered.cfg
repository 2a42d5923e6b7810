\* Three overlapping requests on one draft, fair handlers.
CONSTANTS
    Requests = {r1, r2, r3}
    Drafts = {d1}
    Users = {"rep1", "mgr1"}
    Items = {"i1"}
    Sinks = {"postgres", "dual_fail_closed"}
    OneAtATime = FALSE
    Stores <- MCStores
    Territories <- MCTerritories
    Hashes <- MCHashes
    Digest <- MCDigest
    Role <- MCRole
    UserTerritory <- MCUserTerritory
    StoreRep <- MCStoreRep
    StoreTerritory <- MCStoreTerritory
    NoRow = NoRow
    NoRequest = NoRequest
    NoApproval = NoApproval
SPECIFICATION FairSpec
PROPERTY RequestsFinish
