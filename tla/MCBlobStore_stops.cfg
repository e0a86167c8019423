CONSTANTS
    p1 = p1
    p2 = p2
    d1 = d1
    f1 = f1
    f2 = f2
    f3 = f3
    f4 = f4
    Digests = {d1}
    Promoters = {p1, p2}
    Files = {f1, f2, f3, f4}
    NoDigest = NoDigest
    NoFile = NoFile
    Nobody = Nobody
    MaxStops = 3
SPECIFICATION FairSpec
INVARIANTS
    PublishedIsExact
    RowHasBlobUnlessExposed
PROPERTIES
    EventuallyStored
