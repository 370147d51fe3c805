CONSTANTS
    f1 = f1  f2 = f2  NoOne = NoOne
    Fibers <- TwoFibers
    Fds <- OneFd
    ThreadCounts <- OneOrTwo
    Kinds <- AllKinds
    Ops <- AllOps
    MaxCalls = 2
    MaxOpens = 1
    MaxOps = 1
SPECIFICATION Spec
CHECK_DEADLOCK FALSE
SYMMETRY FiberSymmetry
INVARIANTS ResumedOnce CloseEndsWaits WaitIsTimed NeverBlocks
PROPERTIES ConnectMeansConnected KeepsPromise
