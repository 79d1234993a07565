SPECIFICATION Spec
CONSTANTS
    client = client
    mover = mover
    other = other
    Worker = Worker
    NoTask = NoTask
    Task = {client, mover}
    MaxTx = 2
    MaxRd = 1
    Ops <- NestedOps
INVARIANT DrainWaitsForNoWaiter
