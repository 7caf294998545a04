SPECIFICATION FairSpec
CONSTANTS
    Rooms = {r1, r2, r3}
    Kept = {r1}
    Venues = {"binance", "bybit", "okx", "bitget", "kucoin"}
    Roles = {"candle", "price"}
    Special = {r3}
    Streamless = {}
    Delisted = {r2}
    Cap = 2
    Batch = 2
    MinSubs = 2
    NMarkets = 2
    SpotPool = 1
    MaxTargeted = 1
    MaxErrors = 2
    MaxFaults = 2
INVARIANT TypeOK
INVARIANT NoDeadRoom
INVARIANT WithinMax
INVARIANT OneSocketPerRoom
PROPERTY FeedsReturn
CHECK_DEADLOCK FALSE
