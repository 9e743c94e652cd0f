-------------------------- MODULE MCGoogleAccounts --------------------------
(* A small instance of the Google accounts for TLC.                        *)
EXTENDS GoogleAccounts, TLC

CONSTANTS o1, o2, x1, g1, g2, s1, c1, c2

TwoOperations == {o1, o2}
OneSession == {x1}
InOneSession == [o \in TwoOperations |-> x1]
TwoCalls == {c1, c2}
TwoSubjects == {g1, g2}
OneSource == {s1}

Alike == Permutations(TwoOperations) \cup Permutations(TwoCalls)
             \cup Permutations(TwoSubjects)
=============================================================================
