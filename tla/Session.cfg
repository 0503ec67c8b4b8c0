SPECIFICATION SessionSpec
CONSTANTS
    Fetches <- MCFetches
    FetchLimits <- MCFetchLimits
    Constraints <- MCConstraints
    DebateLimits <- MCDebateLimits
    Grace = 4
    Gap = 2
    Interval = 1
    Horizon = 10
INVARIANTS
    
    DebatesAgree
    
PROPERTIES
    FetchesEnd
    DebateEnds
CHECK_DEADLOCK FALSE
