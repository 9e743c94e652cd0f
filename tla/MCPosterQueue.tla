---------------------------- MODULE MCPosterQueue ----------------------------
(* Small instances of the poster manager for TLC.                           *)
EXTENDS PosterQueue

CONSTANTS k1, k2, r1, r2, w1, t1, t2

TwoKeys == {k1, k2}
OneKey == {k1}
TwoRequests == {r1, r2}
OnePrewarm == {w1}
NoPrewarm == {}
OneThread == {t1}
TwoThreads == {t1, t2}
AskedByRoute == {Normal}

\* No job, with the fields that a job found through its key would be read for.
NoRecord == [priority |-> Normal, waiters |-> {}]
=============================================================================
