SPECIFICATION Spec
CONSTANTS
    j1 = j1
    r1 = r1
    r2 = r2
    w1 = w1
    w2 = w2
    Jobs = {j1}
    Runs = {r1}
    Workers = {w1, w2}
    JobOf <- OneRun
    BatchSize = 1
    Redrive = TRUE
    MaxReceiveCount = 3
    RotatesReceipt = FALSE
    MaxFaults = 2
    NoWorker = NoWorker
    NoRun = NoRun
CHECK_DEADLOCK FALSE
INVARIANT NoStrandedRun
