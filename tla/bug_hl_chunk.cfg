SPECIFICATION Spec
CONSTANTS
    Coins = {k1, k2, k3}
    Asked <- Perps
    Unknown <- Foreign
    Kept <- OneKept
    Roles = {"candle", "price"}
    Cap = 2
    MaxClients = 2
    MaxTargeted = 1
    MaxFaults = 2
CHECK_DEADLOCK FALSE
INVARIANT NoRoomLeftBehind
