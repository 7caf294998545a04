SPECIFICATION LiveSpec
CONSTANTS
    Uuids = {a, b}
    Workers = {w1}
    Nobody = Nobody
    Idle = Idle
    Unknown = Unknown
    BaseCap = 1
    BootKeys = {w1}
    MaxBots = 1
    MaxOpens = 2
    MaxRaises = 1
    MaxCrashes = 0
    MaxRestarts = 0
PROPERTY RefusedIsRetried
