SPECIFICATION FairSpec
CONSTANTS
    j1 = j1
    r1 = r1
    r2 = r2
    w1 = w1
    w2 = w2
    Jobs = {j1}
    Runs = {r1, r2}
    Workers = {w1, w2}
    JobOf <- OneJob
    BatchSize = 2
    Redrive = TRUE
    MaxReceiveCount = 3
    RotatesReceipt = TRUE
    MaxFaults = 2
    NoWorker = NoWorker
    NoRun = NoRun
CHECK_DEADLOCK FALSE
INVARIANTS TypeOK SettledBeforeDelete
PROPERTIES AcknowledgedIsFinal ImplementsLifecycle QueuedRunSettles QueueDrains
