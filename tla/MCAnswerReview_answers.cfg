CONSTANTS
    c1 = c1
    c2 = c2
    e1 = e1
    e2 = e2
    s1 = s1
    s2 = s2
    q1 = q1
    q2 = q2
    q3 = q3
    w1 = w1
    w2 = w2
    t1 = t1
    t2 = t2
    a1 = a1
    a2 = a2
    h1 = h1
    h2 = h2
    Task = task
    Words = {w1, w2}
    None = None
    AnyJudge = AnyJudge
    NoArtifact = NoArtifact
    Writers = {a1, a2}
    MaxWrites = 3
    Routes <- TwoRoutes
    Drafts <- FiveDrafts
    Edits <- FileStates
    Judges = {h1}
    Pins = {AnyJudge, h2}
    Lists <- SomeLists
    Layouts <- SomeLayouts
    RoleLists <- SomeRoles
    StepLists <- SomeSteps
    MaxChanges = 1
    MaxReviews = 1
    MaxMade = 2
SPECIFICATION ReviewSpec
SYMMETRY WriterSymmetry
CHECK_DEADLOCK FALSE
INVARIANTS
    PromotedIsJudged
    DisplayedIsRouted
    ReviewedIsGrounded
    KeptOnce
