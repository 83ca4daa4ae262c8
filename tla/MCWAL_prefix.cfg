CONSTANTS
    c1 = c1
    c2 = c2
    NoThread = NoThread
    Threads <- MCThreads2
    BufCap = 2
    MaxLsn = 5
SPECIFICATION Spec
INVARIANT FileIsLsnPrefix
