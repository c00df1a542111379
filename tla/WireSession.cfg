SPECIFICATION Spec
CONSTANTS
    o1 = o1  o2 = o2  o3 = o3
    Ops <- Two
    QueueDepth = 1
    LineCap = 1
    StdinCancels = {1}
    MaxSpawn = 2
    MaxCrash = 1
SYMMETRY TwoSymmetry
INVARIANTS AtMostOnce OutcomeIsTrue NoLeakedChild ShutdownIsClean
CHECK_DEADLOCK FALSE
