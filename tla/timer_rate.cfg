CONSTANTS
    t1 = t1  t2 = t2  c1 = c1  c2 = c2  p1 = p1  p2 = p2  None = None
    Timers <- LoopOnly
    LoopTimers <- OneLoop
    Clients <- OneClient
    Pollers <- TwoPollers
    Periods <- ZeroOrTwo
    ClientOps <- AllOps
    Hour = 1
    Start = 1
    MaxClock = 3
    MaxJumps = 1
    MaxTimeout = 3
    MaxFires = 2
SPECIFICATION Spec
SYMMETRY ThreadSymmetry
CHECK_DEADLOCK FALSE
INVARIANTS TypeOK SetAgrees RateBounded WakeupCovered
PROPERTY CancelIsFinal
