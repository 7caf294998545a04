SPECIFICATION Spec
CONSTANTS
    Uuids = {a, b}
    Workers = {w1}
    Nobody = Nobody
    Idle = Idle
    Unknown = Unknown
    BaseCap = 1
    BootKeys = {}
    MaxBots = 1
    MaxOpens = 2
    MaxRaises = 0
    MaxCrashes = 0
    MaxRestarts = 0
SYMMETRY UuidSymmetry
PROPERTY ClosedStaysClosed
