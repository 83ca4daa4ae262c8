\* Reproduction: open_db erases and re-appends entries of the index vector it iterates.
CONSTANTS
    t1 = t1
    t2 = t2
    Txns <- MCTxns
    Tabs = {"A", "B"}
    Keys = {"x", "y"}
    DupKeys = {}
    InitTabs = {"A", "B"}
    InitIdx <- TwoIdx
    DDLOps = {"CREATE_INDEX", "DROP_INDEX"}
    TxnTabs <- OwnTabs
    MaxDDL = 2
    MaxCrash = 1
SPECIFICATION Spec
INVARIANT HandlesMatchCatalog
