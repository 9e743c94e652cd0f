---------------------------- MODULE BackupWriter ----------------------------
(***************************************************************************)
(* What backup jobs promise to each other, whatever processes run them: at *)
(* most one of them is the writer, a job becomes the writer only when it   *)
(* is started, and only the writer publishes, once.  BackupJobs implements *)
(* this with a lease that expires.                                         *)
(***************************************************************************)
EXTENDS Naturals

CONSTANTS Ids, None

VARIABLES
    writer,        \* the job that may publish, or None
    begun,         \* jobs that have been started
    published      \* jobs that have published

vars == <<writer, begun, published>>

Init ==
    /\ writer = None
    /\ begun = {}
    /\ published = {}

\* A new job becomes the writer, in the place of whoever was before.
Take(j) ==
    /\ j \notin begun
    /\ writer' = j
    /\ begun' = begun \cup {j}
    /\ UNCHANGED published

\* The writer has finished.
Publish ==
    /\ writer # None
    /\ published' = published \cup {writer}
    /\ writer' = None
    /\ UNCHANGED begun

\* The writer fails, or is taken to be dead.
GiveUp ==
    /\ writer # None
    /\ writer' = None
    /\ UNCHANGED <<begun, published>>

Next == Publish \/ GiveUp \/ \E j \in Ids : Take(j)

Spec == Init /\ [][Next]_vars
=============================================================================
