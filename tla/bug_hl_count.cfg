SPECIFICATION Spec
CONSTANTS
    Coins = {k1, k2, k3}
    Asked <- Perps
    Unknown = {}
    Kept <- OneKept
    Roles = {"candle", "price"}
    Cap = 1
    MaxClients = 3
    MaxTargeted = 1
    MaxFaults = 2
CHECK_DEADLOCK FALSE
INVARIANT WithinMax
