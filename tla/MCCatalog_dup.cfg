\* Reproduction: a CREATE INDEX that fails its unique check is redone by recovery.
CONSTANTS
    t1 = t1
    t2 = t2
    Txns <- MCTxns
    Tabs = {"A", "B"}
    Keys = {"x"}
    DupKeys = {"x"}
    InitTabs = {"A", "B"}
    InitIdx <- NoIdx
    DDLOps = {"CREATE_INDEX", "DROP_INDEX"}
    TxnTabs <- OwnTabs
    MaxDDL = 2
    MaxCrash = 1
SPECIFICATION Spec
INVARIANT HandlesMatchCatalog
