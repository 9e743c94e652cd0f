------------------------ MODULE MCDiagnosticsIngest ------------------------
(* A small instance of the diagnostics recorder for TLC.                   *)
EXTENDS DiagnosticsIngest

CONSTANTS t1, t2

MCThreads == {t1, t2}
=============================================================================
