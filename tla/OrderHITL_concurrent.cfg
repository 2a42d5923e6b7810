\* Four overlapping requests on one draft, every audit configuration.
CONSTANTS
    Requests = {r1, r2, r3, r4}
    Drafts = {d1}
    Users = {"rep1", "mgr1", "mgr2"}
    Items = {"i1"}
    Sinks = {"postgres", "dual_fail_closed", "dual_fail_open", "unity_catalog"}
    OneAtATime = FALSE
    Stores <- MCStores
    Territories <- MCTerritories
    Hashes <- MCHashes
    Digest <- MCDigest
    Role <- MCRole
    UserTerritory <- MCUserTerritory
    StoreRep <- MCStoreRep
    StoreTerritory <- MCStoreTerritory
    NoRow = NoRow
    NoRequest = NoRequest
    NoApproval = NoApproval
SPECIFICATION Spec
SYMMETRY RequestSymmetry
INVARIANTS
    TypeOK
    OrderBacked
    StatusEvidence
    ApprovalAlwaysFound
    AuditComplete
    OrderAccounted
