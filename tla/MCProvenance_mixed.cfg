CONSTANTS
    A = A
    B = B
    u1 = u1
    u2 = u2
    u3 = u3
    d1 = d1
    d2 = d2
    d3 = d3
    L1 = L1
    L2 = L2
    Collections = {A, B}
    Holdouts = {B}
    Uris = {u1, u2, u3}
    RootUris <- AllUris
    Contents = {b1, b2}
    Profiles = {p1}
    Logicals = {L1, L2}
    Declarations = {d1, d2, d3}
    LogicalUri <- PinnedLogicalUri
    Declaration <- MixedManifests
    Undeclared = Undeclared
    NoUri = NoUri
    MaxVersions = 2
    MaxEvents = 8
SYMMETRY Interchangeable
SPECIFICATION Spec
INVARIANTS
    FamiliesHold
    IdentityNeverRebound
    DuplicateHasTwin
    SnapshotsReconstruct
    OutboxReplaysHeads
CHECK_DEADLOCK FALSE
