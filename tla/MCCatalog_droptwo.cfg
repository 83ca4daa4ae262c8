\* Reproduction: DROP TABLE of a table with two indexes; the range-for over
\* the index vector reads an element drop_index has erased.
CONSTANTS
    t1 = t1
    t2 = t2
    Txns <- MCTxns
    Tabs = {"A", "B"}
    Keys = {"x", "y"}
    DupKeys = {}
    InitTabs = {"A", "B"}
    InitIdx <- TwoIdx
    DDLOps = {"DROP_TABLE"}
    TxnTabs <- OwnTabs
    MaxDDL = 1
    MaxCrash = 0
SPECIFICATION Spec
PROPERTY DropTableRemovesTable
