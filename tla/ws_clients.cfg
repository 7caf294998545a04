SPECIFICATION FairSpec
CONSTANTS
    Conns = {c1, c2}
    Private = {c2}
    Topics = {t1, t2}
    Sockets = {s1, s2, s3, s4}
    Kinds = {"bybit", "okx", "okxBatch", "bitget"}
    MaxFaults = 2
    MaxCalls = 2
    None = None
CHECK_DEADLOCK FALSE
INVARIANT TypeOK
INVARIANT ReconnectsForEver
INVARIANT StoredIsRequested
INVARIANT OneSocket
INVARIANT PrivateAfterLogin
INVARIANT ClosedStaysClosed
PROPERTY Recovers
