SPECIFICATION LiveSpec
CONSTANTS
    Uuids = {a}
    Workers = {w1, w2}
    Nobody = Nobody
    Idle = Idle
    Unknown = Unknown
    BaseCap = 1
    BootKeys = {}
    MaxBots = 1
    MaxOpens = 1
    MaxRaises = 0
    MaxCrashes = 1
    MaxRestarts = 0
PROPERTY DeadIsDrained
