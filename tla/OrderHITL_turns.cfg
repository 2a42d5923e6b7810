\* Five requests on one draft by users who take turns.
CONSTANTS
    Requests = {r1, r2, r3, r4, r5}
    Drafts = {d1}
    Users = {"rep1", "mgr1"}
    Items = {"i1"}
    Sinks = {"postgres"}
    OneAtATime = TRUE
    Stores <- MCStores
    Territories <- MCTerritories
    Hashes <- MCHashes
    Digest <- MCDigest
    Role <- MCRole
    UserTerritory <- MCUserTerritory
    StoreRep <- MCStoreRep
    StoreTerritory <- MCStoreTerritory
    NoRow = NoRow
    NoRequest = NoRequest
    NoApproval = NoApproval
SPECIFICATION Spec
SYMMETRY RequestSymmetry
INVARIANTS
    OneFinalSubmission
    NewestDecisionRules
PROPERTIES
    OrderFollowsDecision
    ImplementsWorkflow
