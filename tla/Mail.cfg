SPECIFICATION MailSpec
CONSTANTS
    note = note
    keys = keys
    other = other
    Mail = {note, keys, other}
    KindOf <- MCKindOf
    MaxAge = 2
    MaxSkew = 0
    ReceiveMaxAge = 1
    SeenRetention = 2
    MinOlderThan = 2
    MaxTime = 3
    MaxStep = 3
    RotateAfter = 2
    Lifetime = 4
    DeleteGrace = 2
    MaxLive = 3
    Limits <- MCLimits
INVARIANTS
    AppliedOnce
    AckTellsTheTruth
    CurrentKeyDecrypts
    
