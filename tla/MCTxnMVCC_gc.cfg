\* Reproduction: GarbageCollection of one thread deletes the Transaction of
\* another that is still inside commit() or abort().
CONSTANTS
    t1 = t1
    t2 = t2
    t3 = t3
    Txns <- MCTxns
    Keys <- MCKeys
    InitRecords <- MCInitRecords
    NoVal = NoVal
    InitVal = InitVal
    MaxWrites = 1
    GCPeriod = 2
    MaxKeepVersions = 10
    CleanupWindow = 1000
SPECIFICATION Spec
SYMMETRY Symmetry
INVARIANT TxnObjectLive
