\* Reproduction: DROP TABLE destroys the record file and never flushes the meta file.
CONSTANTS
    t1 = t1
    t2 = t2
    Txns <- MCTxns
    Tabs = {"A", "B"}
    Keys = {"x"}
    DupKeys = {}
    InitTabs = {"A", "B"}
    InitIdx <- NoIdx
    DDLOps = {"CREATE_INDEX", "DROP_INDEX", "DROP_TABLE"}
    TxnTabs <- OwnTabs
    MaxDDL = 2
    MaxCrash = 1
SPECIFICATION Spec
INVARIANT OpenDbSucceeds
