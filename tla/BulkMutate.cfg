SPECIFICATION Spec
CONSTANTS
    s1 = s1  s2 = s2  t1 = t1  t2 = t2
    NoTemp = NoTemp
    Anchors = {s1, s2}
    Wire = {s2}
    Temps = {t1, t2}
    Existing = 1
    MaxAddr = 3
    OpKinds = {"create", "patch", "delete"}
    MaxGroups = 2
    MaxOps = 3
    MaxMishaps = 1
SYMMETRY TempSymmetry
INVARIANTS ReportIsTrue TempIdsHold WritesForgotten
PROPERTY SourceOrder
CHECK_DEADLOCK FALSE
