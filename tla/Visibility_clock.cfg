SPECIFICATION ClockSpec
CONSTANTS
    Workers = {w1, w2, w3}
    NoWorker = NoWorker
    Timeout = 6
    Extension = 4
    MinSleep = 1
    Lag = 1
INVARIANT HiddenWhileExecuted
