------------------------------ MODULE MCIOEvents ------------------------------
(* Small instances of IOEvents for TLC.                                    *)
EXTENDS IOEvents, TLC

CONSTANTS u1, u2, p1, p2

TwoUsers   == {u1, u2}
TwoPollers == {p1, p2}

TwoLarge   == {4, 6}

ReadWrite  == {"READ", "WRITE"}
AllOps     == {"del", "cancel", "cancelAll"}

\* The fibers are interchangeable, and so are the pollers.
ThreadSymmetry == Permutations({u1, u2}) \cup Permutations({p1, p2})
=============================================================================
