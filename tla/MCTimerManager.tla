--------------------------- MODULE MCTimerManager ---------------------------
(* Small instances of TimerManager for TLC.                                *)
EXTENDS TimerManager, TLC

CONSTANTS t1, t2, c1, c2, p1, p2

LoopOnly   == {t2}
TwoTimers  == {t1, t2}
OneLoop    == {t2}
OneClient  == {c1}
TwoPollers == {p1, p2}
ZeroOrOne  == {0, 1}
ZeroOrTwo  == {0, 2}

AllOps    == {"cancel", "refresh", "reset"}
CancelOps == {"cancel"}

\* The pollers are interchangeable, and so are the clients.
ThreadSymmetry == Permutations({p1, p2}) \cup Permutations({c1, c2})
=============================================================================
