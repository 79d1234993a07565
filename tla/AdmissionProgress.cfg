SPECIFICATION FairSpec
CONSTANTS
    client = client
    mover = mover
    other = other
    Worker = Worker
    NoTask = NoTask
    Task = {client, mover}
    MaxTx = 1
    MaxRd = 1
    Ops <- ProgressOps
PROPERTIES
    TransitionAnswers
    RequestIsServed
    UnloadFinishes
