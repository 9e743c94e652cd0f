------------------------- MODULE MCPlaybackSessions -------------------------
(* A small instance of the playbacks of one user for TLC.                  *)
EXTENDS PlaybackSessions

CONSTANTS p1, p2, l1, l2, c1, c2

TwoPlaybacks == {p1, p2}
TwoLogins == {l1, l2}
TwoCalls == {c1, c2}
=============================================================================
