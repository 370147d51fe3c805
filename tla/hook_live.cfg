CONSTANTS
    f1 = f1  f2 = f2  NoOne = NoOne
    Fibers <- TwoFibers
    Fds <- TwoFds
    ThreadCounts <- OneThread
    Kinds <- ServerKinds
    Ops <- TimeoutOnly
    MaxCalls = 2
    MaxOpens = 1
    MaxOps = 1
SPECIFICATION FairSpec
CHECK_DEADLOCK FALSE
PROPERTIES ReadyEndsWait TimedCallReturns
