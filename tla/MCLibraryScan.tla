--------------------------- MODULE MCLibraryScan ---------------------------
(* A small instance of the library scanner for TLC.                        *)
EXTENDS LibraryScan

CONSTANTS t1, t2, m1, m2, main, free, none

MCThreads == {t1, t2}
MCEntries == {m1, m2}
=============================================================================
