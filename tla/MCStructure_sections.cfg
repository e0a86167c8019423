CONSTANTS
    A = A
    s1 = s1
    s2 = s2
    f1 = f1
    intro = intro
    method = method
    Collections = {A}
    Holdouts = {}
    Sources = {s1, s2}
    Feeds <- Watched
    Scopes <- Frozen
    Family <- OneFamily
    Terms <- OneTerm
    Questions = {}
    Answering <- NoAnswers
    Codes = {v1}
    Sessions = {}
    Capacity = 1
    None = None
    MaxVersions <- OneChange
    MaxSnapshots = 2
    MaxRuns = 0
    Outline <- Headings
    PagesOf <- Pages
    Hidden <- Excluded
    Maxima = {2}
    Builders = {x1}
    Readers = {y1}
    Nothing = Nothing
    MaxGenerations = 2
    MaxReads = 2
    MaxResolved = 1
SPECIFICATION StructureSpec
INVARIANTS
    SectionsStayReadable
    WholeSectionsAreRead
    PermittedIsAccountedFor
CHECK_DEADLOCK FALSE
