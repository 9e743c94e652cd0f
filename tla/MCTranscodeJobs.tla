-------------------------- MODULE MCTranscodeJobs --------------------------
EXTENDS TranscodeJobs

CONSTANTS i1, i2, u1, u2, t1, t2

TwoItems == {i1, i2}
TwoUsers == {u1, u2}
TwoThreads == {t1, t2}

Ask(t, u, i, op) == [thread |-> t, user |-> u, item |-> i, op |-> op]

\* u1 watches i1 and comes back for i2 on another device, which u2 uses as
\* well, for i1.
TwoViewers == {Ask(t1, u1, i1, "start"), Ask(t2, u1, i2, "start"),
               Ask(t2, u2, i1, "start"), Ask(t2, u2, i1, "stop")}
=============================================================================
