\* Index DDL by two transactions on tables of their own, one index key,
\* no duplicate values, one crash.
CONSTANTS
    t1 = t1
    t2 = t2
    Txns <- MCTxns
    Tabs = {"A", "B"}
    Keys = {"x"}
    DupKeys = {}
    InitTabs = {"A", "B"}
    InitIdx <- NoIdx
    DDLOps = {"CREATE_INDEX", "DROP_INDEX"}
    TxnTabs <- OwnTabs
    MaxDDL = 2
    MaxCrash = 1
SPECIFICATION Spec
INVARIANTS
    TypeOK
    HandlesMatchCatalog
    OpenDbSucceeds
PROPERTIES
    CommittedIndexesSurvive
