SPECIFICATION OrderedFairSpec
CONSTANTS
    o1 = o1  o2 = o2  o3 = o3
    Ops <- Three
    QueueDepth = 1
    LineCap = 1
    StdinCancels = {}
    MaxSpawn = 1
    MaxCrash = 1
PROPERTIES CallReturns ClosedChildEnds
CHECK_DEADLOCK FALSE
