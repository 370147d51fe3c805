CONSTANTS
    u1 = u1  u2 = u2  p1 = p1  p2 = p2  NoOne = NoOne
    Fds <- TwoLarge
    InitSize = 2
    Events <- ReadWrite
    Users <- TwoUsers
    Pollers <- TwoPollers
    Ops <- AllOps
    CtlMayFail = TRUE
    MaxContexts = 2
    MaxAdds = 2
SPECIFICATION Spec
SYMMETRY ThreadSymmetry
CHECK_DEADLOCK FALSE
INVARIANTS CountExact WaitersHeld Watched FaultOnlyStale
