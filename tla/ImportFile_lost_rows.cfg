SPECIFICATION Spec
CONSTANTS
    k1 = k1
    k2 = k2
    v1 = v1
    v2 = v2
    e1 = e1
    e2 = e2
    Executions = {e1}
    Keys = {k1, k2}
    Files <- UnreadableFile
    Values = {v1, v2}
    MaxRows = 5
    BatchSize = 4
    SubBatchSize = 2
    MaxFaults = 0
    NoKey = NoKey
    Absent = Absent
    Untouched = Untouched
    Seeded = Seeded
CHECK_DEADLOCK FALSE
INVARIANTS StatisticsAreTrue
