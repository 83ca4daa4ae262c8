CONSTANTS
    t1 = t1
    t2 = t2
    v0 = v0
    none = none
    Txns <- MCTxns2
    Slots <- MCSlots
    InitRecords <- MCInit
    InitVal <- v0
    NoVal <- none
    WriteOps = {"INSERT", "UPDATE", "DELETE"}
    ClientAbort = TRUE
    MaxWrites = 2
    MaxCkpt = 1
    MaxCrash = 2
    CrashInCkpt = FALSE
    WALRule = TRUE
SPECIFICATION Spec
INVARIANT TypeOK
PROPERTY RecoveredUntainted
