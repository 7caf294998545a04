SPECIFICATION LiveSpec
CONSTANTS
    Uuids = {a}
    Workers = {w1}
    Nobody = Nobody
    Idle = Idle
    Unknown = Unknown
    BaseCap = 1
    BootKeys = {w1}
    MaxBots = 1
    MaxOpens = 1
    MaxRaises = 0
    MaxCrashes = 1
    MaxRestarts = 1
PROPERTY SeenDeadIsDrained
PROPERTY HeldIsAssigned
PROPERTY RefusedIsRetried
