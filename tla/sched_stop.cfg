SPECIFICATION FairSpec
CONSTANTS
    w1 = w1
    w2 = w2
    j1 = j1
    j2 = j2
    Caller = caller_thread
    Unpinned = unpinned
    NoJob = none
    Workers <- OneWorker
    UseCaller = TRUE
    Jobs <- TwoJobs
    FiberJobs <- LastFiber
    Targets <- EveryThread
    Ops <- Everything
    MaxYields = 1
    MaxStarts = 2
INVARIANT ActiveCountExact
PROPERTY StopReturns
