---------------------------- MODULE MCBackupJobs ----------------------------
EXTENDS BackupJobs

CONSTANTS p1, p2

TwoProcesses == {p1, p2}
OneJobEach == <<p1, p2>>
=============================================================================
