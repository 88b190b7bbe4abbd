SPECIFICATION Spec
CONSTANTS
    c1 = c1
    c2 = c2
    h1 = h1
    h2 = h2
    Jobs = {j1}
    Instances = {i1, i2}
    Requests = {h1, h2}
    GoodCrons = {c1}
    BadCron = BadCron
    NoCron = NoCron
    SchedulerEnabled = TRUE
    MaxFaults = 0
    MaxFires = 1
CHECK_DEADLOCK FALSE
CONSTRAINT OneAtATime
PROPERTY DisabledJobsDontFire
