SPECIFICATION ServicesSpec
CONSTANTS
    n1 = n1
    n2 = n2
    n3 = n3
    Ends = {n1, n2}
    Calls <- MCCalls
    maxOpenPerPeer = 1
    maxPendingPerPeer = 1
    maxQueuePerPeer = 1
    Viewers = {n1}
    TeamOf <- MCTeamOf
    Changes = 2
    Beats = 2
    Waiters = {n1, n2, n3}
    Cases <- MCCases
    Events = {"e1", "e2", "e3"}
    HookCalls = {"c1", "c2"}
    maxQueued = 2
    queueMaxRows = 1
    deliverBatch = 2
    retryDelays <- MCretryDelays
    queueMaxAge = 3
    queueRetention = 1
    retryDelayCap = 2
    Hooks <- MCHooks
    verifyPage = 2
    queryBatch = 2
    listLimit = 2
    Logs <- MCLogs
    Asks = {"a1", "a2"}
    Runners = {"k1", "k2"}
    MinOlderThan = 3
    MaxRequests = 2
    MaxRows = 1
    MaxContentBytes = 2
    SeenRetention = 5
    pruneAuthTTL = 2
    Stores <- MCStores
INVARIANTS
    SessionsFit
    
    LogIsWhole
PROPERTIES
    TurnsComeRound
    RowsEnd
    PrunesWhatWasShown
CHECK_DEADLOCK FALSE
