SPECIFICATION FairExchangeSpec
CONSTANTS
    Senders = {s1}
    Ids = {e1}
    MaxArrivals = 1
    MaxConns = 2
    drainBatch = 2
    OutCap = 1
    PairCap = 2
    Events = {"expire"}
    Limits <- MCLiveLimits
    MaxAge = 2
    ResendAge = 1
    TombstoneAge = 2
PROPERTIES
    EveryRowHanded
    ExchangesSettle
CHECK_DEADLOCK FALSE
