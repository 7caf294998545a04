SPECIFICATION PatientSpec
CONSTANTS
    Rooms = {r1}
    Creds = {c1, c2}
    LegacyCreds = {c2}
    Clients = {k1, k2, k3}
    Branches <- MCPatient
    Features = {"guard", "admin"}
    MaxRequests = 3
    MaxForced = 1
    Absent = Absent
    NoCred = NoCred
    NoClient = NoClient
    NoUser = NoUser
    NoTimer = NoTimer
    NoOpen = NoOpen
    NoRestart = NoRestart
SYMMETRY ClientSymmetry
CHECK_DEADLOCK FALSE
INVARIANT RetryHasOwner
INVARIANT NoExtraSubscribers
INVARIANT PendingIsOwned
