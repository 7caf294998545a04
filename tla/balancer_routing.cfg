SPECIFICATION Spec
CONSTANTS
    Uuids = {a, b, c}
    Workers = {w1, w2}
    Nobody = Nobody
    Idle = Idle
    Unknown = Unknown
    BaseCap = 1
    BootKeys = {}
    MaxBots = 1
    MaxOpens = 3
    MaxRaises = 1
    MaxCrashes = 0
    MaxRestarts = 0
SYMMETRY UuidSymmetry
INVARIANT TypeOK
INVARIANT OneRetryAtATime
INVARIANT NoOpenForgotten
INVARIANT WorkerWithinCap
