----------------------------- MODULE MCScheduler -----------------------------
(* Small instances of Scheduler for TLC.                                   *)
EXTENDS Scheduler, TLC

CONSTANTS w1, w2, j1, j2

OneWorker  == {w1}
TwoWorkers == {w1, w2}
TwoJobs    == {j1, j2}
LastFiber  == {j2}

AnyThread    == {Unpinned}
EveryThread  == Threads \cup {Unpinned}

HoldOnly    == {"reschedule"}
BothWays    == {"spawn", "ready", "reschedule"}
Everything  == {"spawn", "ready", "reschedule", "throw"}
=============================================================================
