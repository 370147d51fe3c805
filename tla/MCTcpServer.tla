----------------------------- MODULE MCTcpServer -----------------------------
(* Small instance of TcpServer for TLC.                                    *)
EXTENDS TcpServer, TLC

CONSTANTS t1, t2

OneOrTwoThreads == {{t1}, {t1, t2}}
ThreeNumbers    == {1, 2, 3}

\* Nothing is claimed of what follows a start() or bind() that did not wait for
\* stop(): such states are checked, and not explored any further.
Patient == ~ early
=============================================================================
