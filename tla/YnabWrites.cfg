CONSTANTS
    Txns <- MCTxns
    Split = {"t2"}
    Transfer = {"t3"}
    Old = {"t2", "t3"}
    Ancient = {"t3"}
    Payees = {"p1", "p2", "p3"}
    OwnPayees = {"p3"}
    Categories = {"c1", "c2"}
    Requests <- MCRequests
    StartRow <- MCStartRow
    StartPayee <- MCStartPayee
    MaxChanges = 1
    MaxReads = 2
    MaxFaults = 2
SPECIFICATION YnabSpec
INVARIANTS GuardsHold VerdictsAreTrue MergedIsSequential PreWriteOnlyRaced
