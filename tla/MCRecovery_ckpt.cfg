CONSTANTS
    t1 = t1
    t2 = t2
    v0 = v0
    none = none
    Txns <- MCTxns2
    Slots <- MCSlots3
    InitRecords <- MCInit
    InitVal <- v0
    NoVal <- none
    WriteOps = {"INSERT"}
    ClientAbort = FALSE
    MaxWrites = 2
    MaxCkpt = 1
    MaxCrash = 1
    CrashInCkpt = FALSE
    WALRule = TRUE
SPECIFICATION Spec
PROPERTY RecoveryRestoresCommitted
