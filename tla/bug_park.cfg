SPECIFICATION Spec
CONSTANTS
    Orders = {o1, o2}
    NFills = 2
    MaxSize = 1
    RestRetries = 2
    MaxFrames = 2
    MaxSnapshots = 1
CHECK_DEADLOCK FALSE
PROPERTY PricedByAllFills
