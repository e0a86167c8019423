CONSTANTS
    A = A
    B = B
    H = H
    s1 = s1
    s2 = s2
    f1 = f1
    f2 = f2
    x = x
    y = y
    z = z
    q1 = q1
    q2 = q2
    Collections = {A, B, H}
    Holdouts = {H}
    Sources = {s1, s2}
    Feeds <- Watched
    Scopes <- Frozen
    Family <- TwoFamilies
    Terms <- TwoTerms
    Questions = {q1, q2}
    Answering <- Answers
    Codes = {v1, v2}
    Sessions = {k1}
    Capacity = 1
    None = None
    MaxVersions <- OneEach
    MaxSnapshots = 1
    MaxRuns = 2
    Parts = {1, 2}
    Broad = {1}
    Noise = {}
    Anchors = {x, y, z}
    Says <- Texts
    Rank <- Places
    Specs <- Gates
    MaxSources = 1
    MaxPrepared = 1
SYMMETRY Interchangeable
SPECIFICATION PreparationSpec
INVARIANTS
    PacketsStayReadable
    ReducedChecksSuffice
    OnlyPermittedIsRead
    PreparationsReplay
    DraftsAreGrounded
CHECK_DEADLOCK FALSE
