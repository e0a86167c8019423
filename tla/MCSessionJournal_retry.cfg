CONSTANTS
    s1 = s1
    c1 = c1
    c2 = c2
    k1 = k1
    k2 = k2
    r1 = r1
    Sessions = {s1}
    Callers = {c1, c2}
    Commands = {k1, k2}
    Requests = {r1}
    SessionOf <- OneSession
    Genesis = Genesis
    None = None
    MaxEvents = 2
    MaxStops = 1
SPECIFICATION FairSpec
INVARIANTS
    JournalsHold
    CommandsHold
    ContextIsWhatFollowed
PROPERTIES
    StartedIsAnswered
CHECK_DEADLOCK FALSE
