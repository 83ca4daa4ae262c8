\* Reproduction: CREATE INDEX flushes the meta file before its log record is durable.
CONSTANTS
    t1 = t1
    t2 = t2
    Txns <- MCTxns
    Tabs = {"A"}
    Keys = {"x"}
    DupKeys = {}
    InitTabs = {"A"}
    InitIdx <- NoIdx
    DDLOps = {"CREATE_INDEX", "DROP_INDEX"}
    TxnTabs <- AllTabs
    MaxDDL = 2
    MaxCrash = 1
SPECIFICATION Spec
PROPERTY OnlyCommittedIndexes
