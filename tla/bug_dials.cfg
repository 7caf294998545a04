SPECIFICATION Spec
CONSTANTS
    Conns = {c1, c2}
    Private = {c2}
    Topics = {t1, t2}
    Sockets = {s1, s2, s3, s4}
    Kinds = {"bybit"}
    MaxFaults = 2
    MaxCalls = 3
    None = None
CHECK_DEADLOCK FALSE
INVARIANT OneDial
