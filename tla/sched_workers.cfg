SPECIFICATION FairSpec
CONSTANTS
    w1 = w1
    w2 = w2
    j1 = j1
    j2 = j2
    Caller = caller_thread
    Unpinned = unpinned
    NoJob = none
    Workers <- TwoWorkers
    UseCaller = FALSE
    Jobs <- TwoJobs
    FiberJobs <- LastFiber
    Targets <- AnyThread
    Ops <- BothWays
    MaxYields = 2
    MaxStarts = 1
INVARIANTS TypeOK   StopDrains
PROPERTY JobsFinish
