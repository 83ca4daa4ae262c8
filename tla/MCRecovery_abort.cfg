CONSTANTS
    t1 = t1
    t2 = t2
    v0 = v0
    none = none
    Txns <- MCTxns2
    Slots <- MCSlots
    InitRecords <- MCInit
    InitVal <- v0
    NoVal <- none
    WriteOps = {"INSERT"}
    ClientAbort = TRUE
    MaxWrites = 1
    MaxCkpt = 0
    MaxCrash = 1
    CrashInCkpt = TRUE
    WALRule = TRUE
SPECIFICATION Spec
PROPERTY RecoveryRestoresCommitted
