SPECIFICATION FairSpec
CONSTANTS
    Families = {f1}
    Variants = {v1}
    FamilyOf <- OneFamily
    EnvFamilies = {f1}
    Shared = {f1}
    Kinds = {"price", "candle"}
    Threshold = 3
    RetryCount = 2
    MaxReads = 1
    MaxChanges = 1
    MaxFaults = 2
INVARIANT TypeOK
INVARIANT NoOrphanThread
INVARIANT AskedIsServed
PROPERTY WorkersMatchConfig
PROPERTY BootIsLearnt
PROPERTY DeadTickersGetFreshThread
CHECK_DEADLOCK FALSE
