\* Reproduction: two inserts find the same free slot; the second waits for
\* the first one's record lock and then overwrites its record.
CONSTANTS
    t1 = t1
    t2 = t2
    t3 = t3
    Txns <- MCTxns
    Keys <- MCKeys
    InitRecords <- MCInitRecords
    NoVal = NoVal
    InitVal = InitVal
    MaxWrites = 1
    GCPeriod = 2
    MaxKeepVersions = 10
    CleanupWindow = 1000
SPECIFICATION Spec
SYMMETRY Symmetry
PROPERTY InsertIntoFreeSlot
