CONSTANTS
    t1 = t1  t2 = t2
    Numbers <- ThreeNumbers
    MaxObjects = 3
    MaxPeers = 1
    Pools <- OneOrTwoThreads
    MaxStarts = 2
    MaxBinds = 2
CONSTRAINT Patient
SPECIFICATION FairSpec
CHECK_DEADLOCK FALSE
INVARIANTS NumbersValid NumbersOwned
PROPERTIES StopEndsLoops ConnectionsServed
