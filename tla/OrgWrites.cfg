CONSTANTS
    p1 = p1
    p2 = p2
    NFiles = 2
    Procs = {p1, p2}
    Ops <- MCOps
    Listing <- MCListing
    Parents = {"b"}
    OrgzlyEdits = "a"
    MaxOps = 2
    MaxSyncs = 1
    MaxFaults = 2
SYMMETRY Symmetry
SPECIFICATION Spec
INVARIANTS NeverInNeither AtMostOnce ReportIsTrue NoCircularWait
PROPERTY NoCollateral
