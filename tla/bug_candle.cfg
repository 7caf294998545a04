SPECIFICATION FairSpec
CONSTANTS
    Families = {f1}
    Variants = {v1}
    FamilyOf <- OneFamily
    EnvFamilies = {f1}
    Shared = {f1}
    Kinds = {"price", "candle"}
    Threshold = 3
    RetryCount = 2
    MaxReads = 1
    MaxChanges = 0
    MaxFaults = 1
PROPERTY CountedFeedIsRescued
CHECK_DEADLOCK FALSE
