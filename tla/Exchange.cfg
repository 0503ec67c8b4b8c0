SPECIFICATION ExchangeSpec
CONSTANTS
    Senders = {s1}
    Ids = {e1, e2}
    MaxArrivals = 2
    MaxConns = 2
    drainBatch = 2
    OutCap = 1
    PairCap = 2
    Events = {"evict", "restart"}
    Limits <- MCLimits
    MaxAge = 2
    ResendAge = 1
    TombstoneAge = 2
SYMMETRY IdSymmetry
INVARIANTS
    QueueKeepsRows
    MirrorsAgree
PROPERTIES
    InOrder
    DecisionsHold
CHECK_DEADLOCK FALSE
