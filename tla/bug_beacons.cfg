SPECIFICATION Spec
CONSTANTS
    Families = {f1}
    Variants = {v1}
    FamilyOf <- OneFamily
    EnvFamilies = {f1}
    Shared = {f1}
    Kinds = {"price", "candle"}
    Threshold = 2
    RetryCount = 2
    MaxReads = 1
    MaxChanges = 1
    MaxFaults = 2
CHECK_DEADLOCK FALSE
INVARIANT BeaconsDoNotStack
