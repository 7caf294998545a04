SPECIFICATION PatientSpec
CONSTANTS
    Rooms = {r1}
    Creds = {c1}
    LegacyCreds = {}
    Clients = {k1, k2, k3}
    Branches <- MCBinance
    Features = {}
    MaxRequests = 2
    MaxForced = 0
    Absent = Absent
    NoCred = NoCred
    NoClient = NoClient
    NoUser = NoUser
    NoTimer = NoTimer
    NoOpen = NoOpen
    NoRestart = NoRestart
SYMMETRY ClientSymmetry
CHECK_DEADLOCK FALSE
INVARIANT OneClientPerRoom
