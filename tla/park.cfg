SPECIFICATION LiveSpec
CONSTANTS
    Orders = {o1, o2, o3}
    NFills = 1
    MaxSize = 1
    RestRetries = 2
    MaxFrames = 3
    MaxSnapshots = 1
CHECK_DEADLOCK FALSE
INVARIANT TypeOK
INVARIANT WaitingHasNoFills
INVARIANT WaitingBounded
PROPERTY EmitsAtLast
