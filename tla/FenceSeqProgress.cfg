CONSTANTS
    worker = worker
    resetter = resetter
    irq = irq
    Poller <- MCTwo
    Counter = {}
    Worker = worker
    Resetter = resetter
    Rs4xx = FALSE
    Half = 3
    LoopLimit = 0
    CountLimit = 9
    MaxSeq <- MCLong
    MaxReset = 1
SPECIFICATION FairSpec
INVARIANTS PublishedWasEmitted
PROPERTIES Monotone 
CHECK_DEADLOCK FALSE
