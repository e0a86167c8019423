CONSTANTS
    Size = 2
    Getting = 2
    Recording = 3
    MaxInterruptions = 2
SPECIFICATION FairSpec
INVARIANTS
    EndedRunsAreTerminal
    OutcomeMatchesRows
    InterruptionIsReported
PROPERTIES
    CallEnds
CHECK_DEADLOCK FALSE
