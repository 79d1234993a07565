SPECIFICATION Spec
CONSTANTS
    client = client
    mover = mover
    other = other
    Worker = Worker
    NoTask = NoTask
    Task = {client, mover, other}
    MaxTx = 1
    MaxRd = 1
    Ops <- LifecycleOps
INVARIANTS
    AdmissionSafe
    ExclusiveOwner
    ParkedStaysClosed
    ClosedMeansIdle
    NoMissedWakeup
    PublisherIsKept
PROPERTIES
    ImplementsLease
