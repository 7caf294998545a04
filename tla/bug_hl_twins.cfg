SPECIFICATION Spec
CONSTANTS
    Coins = {k1}
    Asked <- Pairs
    Unknown = {}
    Kept <- OneKept
    Roles = {"candle", "price"}
    Cap = 2
    MaxClients = 2
    MaxTargeted = 1
    MaxFaults = 2
CHECK_DEADLOCK FALSE
INVARIANT RoomKept
