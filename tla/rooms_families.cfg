SPECIFICATION Spec
CONSTANTS
    Rooms = {r1}
    Creds = {c1}
    LegacyCreds = {}
    Clients = {k1, k2, k3}
    Branches <- MCCounting
    Features = {"restart"}
    MaxRequests = 3
    MaxForced = 1
    Absent = Absent
    NoCred = NoCred
    NoClient = NoClient
    NoUser = NoUser
    NoTimer = NoTimer
    NoOpen = NoOpen
    NoRestart = NoRestart
SYMMETRY ClientSymmetry
CHECK_DEADLOCK FALSE
INVARIANT TypeOK
INVARIANT CountedRoomIsServed
