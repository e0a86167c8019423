CONSTANTS
    x1 = x1
    x2 = x2
    e1 = e1
    e2 = e2
    e3 = e3
    Events = {e1, e2, e3}
    Rank <- LateStamp
    Exporters = {x1, x2}
    Nobody = Nobody
    NoEvent = NoEvent
    Faults <- AllFaults
    MaxStops = 2
SPECIFICATION Spec
INVARIANTS
    DeliveredIsInFile
