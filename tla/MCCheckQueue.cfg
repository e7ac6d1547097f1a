SPECIFICATION FairSpec
CONSTANTS
    w1 = w1
    w2 = w2
    c1 = c1
    c2 = c2
    c3 = c3
    Master = Master
    Free = Free
    Workers <- MCWorkers
    Checks <- MCChecks
    BadChecks <- MCBadChecks
    nBatchSize = 2
    MaxSpurious = 1
INVARIANT IdleBetweenBlocks
PROPERTIES
    AbsSpec
    WaitTerminates
