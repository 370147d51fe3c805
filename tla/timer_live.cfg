CONSTANTS
    t1 = t1  t2 = t2  c1 = c1  c2 = c2  p1 = p1  p2 = p2  None = None
    Timers <- TwoTimers
    LoopTimers <- OneLoop
    Clients <- OneClient
    Pollers <- TwoPollers
    Periods <- ZeroOrOne
    ClientOps <- CancelOps
    Hour = 0
    Start = 0
    MaxClock = 1
    MaxJumps = 0
    MaxTimeout = 3
    MaxFires = 2
SPECIFICATION FairSpec
CHECK_DEADLOCK FALSE
INVARIANT OneShotExact
PROPERTY DueIsServed
