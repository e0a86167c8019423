CONSTANTS
    x1 = x1
    e1 = e1
    e2 = e2
    e3 = e3
    b1 = b1
    b2 = b2
    r1 = r1
    r2 = r2
    Events = {e1, e2, e3}
    Rank <- LateStamp
    Exporters = {x1}
    Nobody = Nobody
    NoEvent = NoEvent
    Faults <- PowerOnly
    MaxStops = 2
    Blobs = {b1, b2}
    BlobsOf <- OwnBlobs
    Restorers = {r1, r2}
    NoBundle = NoBundle
    MaxKills = 2
SPECIFICATION BackupSpec
CHECK_DEADLOCK FALSE
INVARIANTS
    BundleIsClosed
    

    
