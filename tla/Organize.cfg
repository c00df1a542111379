SPECIFICATION Spec
CONSTANTS
    NNodes = 2
    Listing <- MCListing
    Buckets = {"d1", "d2"}
    Times = {"t1", "t2"}
    Tags = {"g", "h"}
    Plugins <- MCPlugins
    BoxLists <- MCBoxLists
    MaxEdits = 2
    MaxDrift = 1
    MaxFaults = 2
    MaxApplies = 3
INVARIANTS CommitIsMerge NothingElseWritten BoxesCreatedOnce
CHECK_DEADLOCK FALSE
