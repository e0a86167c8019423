CONSTANTS
    r1 = r1
    r2 = r2
    f1 = f1
    f2 = f2
    outer = outer
    inner = inner
    x = x
    y = y
    z = z
    Files = {f1, f2}
    Roots = {outer, inner}
    RootOrder <- NestedRoots
    FilesUnder <- Nested
    Contents = {x, y, z}
    Missing = Missing
    ContentOf <- History
    Parses = {x, y}
    Runs = {r1, r2}
    Nobody = Nobody
    WholeRoot = WholeRoot
    MaxEdits = 3
    MaxFaults = 2
SPECIFICATION FairSpec
INVARIANTS
    ReportsAreTrue
PROPERTIES
    HeadNeverGoesBack
    RunsEnd
CHECK_DEADLOCK FALSE
