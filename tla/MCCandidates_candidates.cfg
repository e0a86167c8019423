CONSTANTS
    A = A
    B = B
    f1 = f1
    f2 = f2
    s1 = s1
    s2 = s2
    v = v
    e = e
    m = m
    r1 = r1
    r2 = r2
    c1 = c1
    c2 = c2
    k1 = k1
    Collections = {A, B}
    HeldBy <- Held
    StatementIn <- InCollection
    VoiceOf <- Voices
    MeaningOf <- Meanings
    RelationOf <- TwoRelations
    Clients = {c1, c2}
    None = None
    Imports <- AllImports
    Extractions <- Extracting
    Generated <- Returned
    Batches <- TwoBatches
    Journeys <- TwoJourneys
    MaxUnresolved = 5
    MaxCandidates = 6
    DecisionLimit = 2
    Sessions = {k1}
    Uses = {"recall"}
    Reviewed <- SomeReviews
    MaxRuns = 2
    MaxReceipts = 1
    MaxDecisions = 3
SYMMETRY Interchangeable
SPECIFICATION Spec
INVARIANTS
    BacklogBounded
    DecisionsAreConsistent
PROPERTIES
    GrowthEndsAdmission
    PathsStayPermitted
CHECK_DEADLOCK FALSE
