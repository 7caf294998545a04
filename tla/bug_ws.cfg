SPECIFICATION Spec
CONSTANTS
    Conns = {c1}
    Private = {}
    Topics = {t1}
    Sockets = {s1, s2, s3}
    Kinds = {"okx", "bitget"}
    MaxFaults = 1
    MaxCalls = 1
    None = None
CHECK_DEADLOCK FALSE
INVARIANT NeverStranded
