SPECIFICATION Spec
CONSTANTS
    Stores = {"default", "s"}
    FileRoots = {".", "a", "b"}
    GitRoots = {"g"}
    Tree <- MCTree
    c1 = c1
    c2 = c2
    c3 = c3
    Commits = {c1, c2, c3}
    History <- MCHistory
    ArgLists <- MCArgLists
    MaxSpillSuffix = 0
    MaxRuns = 2
    MaxPushes = 2
    MaxFaults = 2
INVARIANTS ReceiptsComplete JournalSound FailuresAccounted OkMeansCaptured
SYMMETRY Symmetry
CHECK_DEADLOCK FALSE
