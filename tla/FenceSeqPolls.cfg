CONSTANTS
    worker = worker
    resetter = resetter
    irq = irq
    Poller <- MCThree
    Counter <- MCIrq
    Worker = worker
    Resetter = resetter
    Rs4xx = TRUE
    Half = 3
    LoopLimit = 0
    CountLimit = 1
    MaxSeq <- MCShort
    MaxReset = 1
SPECIFICATION Spec
INVARIANTS TypeOK NeverAhead 
PROPERTIES ImplementsTimeline
CHECK_DEADLOCK FALSE
