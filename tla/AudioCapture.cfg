SPECIFICATION FairSpec
CONSTANTS
    period_size = 3
    Ratios = {1, 2}
    Requests = {1, 2, 4}
    Chunk = 2
    MaxCaptured = 9
INVARIANTS
    TypeOK
    ExactlyOnce
    InOrder
    BuffersHold
PROPERTIES
    ReadReturns
