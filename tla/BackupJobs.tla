----------------------------- MODULE BackupJobs -----------------------------
(***************************************************************************)
(* Backup jobs (services/backup_job_service.py): rows in SQLite, a lease   *)
(* that makes one job the writer, a worker thread and a heartbeat for each *)
(* job, and the catalog of checkpoints, shared by several server           *)
(* processes.  A database transaction is one step; whatever a thread does  *)
(* between two of them is another.                                         *)
(*                                                                         *)
(* Job j writes one staging directory and then one checkpoint file, which  *)
(* are named j here as well.  A request that repeats an idempotency key is *)
(* answered with the old row and changes nothing, so it is no step.        *)
(***************************************************************************)
EXTENDS Naturals

CONSTANTS
    Processes,     \* server processes on one database
    Home,          \* the process that is asked to start each job
    MaxStarts,     \* bound: jobs that are ever started
    MaxTrouble,    \* bound: crashes, errors, late heartbeats, deletions
    None

ASSUME BackupConstants ==
    /\ MaxStarts \in Nat
    /\ MaxTrouble \in Nat
    /\ None \notin Nat
    /\ Home \in [1..MaxStarts -> Processes]
    /\ None \notin {"unverified", "valid", "missing", "queued", "working",
                   "verifying", "completed", "failed", "interrupted"}

Ids == 1..MaxStarts

VARIABLES
    row,           \* backup_jobs
    lease,         \* backup_job_leases: one row or none
    catalog,       \* backup_catalog: the status of each checkpoint
    ofJob,         \* the rows of the catalog that carry their job's id
    staging,       \* staging directories on disk
    file,          \* checkpoint files on disk
    thread,        \* of each job: the request that starts it, then its worker
    janitor,       \* a call of active_job that clears up after a stale job
    remover,       \* the checkpoint that an administrator is deleting
    trouble        \* what MaxTrouble bounds, so far

vars == <<row, lease, catalog, ofJob, staging, file, thread, janitor, remover,
          trouble>>

\* The stages of a job are two: before and after the file is written.
Active == {"queued", "working", "verifying"}
States == Active \cup {None, "completed", "failed", "interrupted"}
Artefacts == {"staging", "file"}

\* Where a worker goes from _assert_lease_owned when the lease is its own.
Then == [begin |-> "mkdir", mayStage |-> "stage", mayWork |-> "work",
         mayVerify |-> "verify", mayRecord |-> "record",
         mayCatalog |-> "catalog", mayComplete |-> "complete"]
\* The steps inside create_backup_checkpoint, which clears up after itself,
\* and all steps that may raise.
InCreate == {"mkdir", "mayStage", "stage", "mayWork", "work", "archive",
             "unstage", "mayVerify", "verify"}
Main == InCreate \cup {"begin", "mayRecord", "record", "mayCatalog", "catalog",
                       "mayComplete", "complete"}
Handling == {"cleanup", "unlink", "settle"}
Beating == (Main \cup Handling) \ {"begin"}
Steps == Main \cup Handling \cup {"none", "reclaim", "sweep", "release", "over",
                                  "dead"}

Rows == [state : States, staging : BOOLEAN, backup : BOOLEAN,
         checkpoint : BOOLEAN]
ThreadStates == [pc : Steps, stale : Ids \cup {None},
                 raised : {"no", "lost", "error"}, doomed : SUBSET Artefacts]
JanitorStates == [job : Ids \cup {None}, step : {"idle", "read", "unlink"},
                  doomed : SUBSET Artefacts]

NoLease == [job |-> None, live |-> FALSE]
Leases == [job : Ids, live : BOOLEAN] \cup {NoLease}
Idle == [job |-> None, step |-> "idle", doomed |-> {}]

TypeOK ==
    /\ row \in [Ids -> Rows]
    /\ lease \in Leases
    /\ catalog \in [Ids -> {None, "unverified", "valid", "missing"}]
    /\ ofJob \subseteq Ids
    /\ staging \subseteq Ids
    /\ file \subseteq Ids
    /\ thread \in [Ids -> ThreadStates]
    /\ janitor \in JanitorStates
    /\ remover \in Ids \cup {None}
    /\ trouble \in 0..MaxTrouble

Init ==
    /\ row = [j \in Ids |-> [state |-> None, staging |-> FALSE,
                             backup |-> FALSE, checkpoint |-> FALSE]]
    /\ lease = NoLease
    /\ catalog = [j \in Ids |-> None]
    /\ ofJob = {}
    /\ staging = {}
    /\ file = {}
    /\ thread = [j \in Ids |-> [pc |-> "none", stale |-> None, raised |-> "no",
                                doomed |-> {}]]
    /\ janitor = Idle
    /\ remover = None
    /\ trouble = 0

-----------------------------------------------------------------------------
(* Helpers *)

Begun == {j \in Ids : row[j].state # None}
ActiveJobs == {j \in Ids : row[j].state \in Active}
Owned(j) == lease.job = j /\ lease.live
Expired == lease.job # None /\ ~lease.live

Moves(j, pc, raised, doomed) ==
    thread' = [thread EXCEPT ![j] =
                 [pc |-> pc, stale |-> thread[j].stale, raised |-> raised,
                  doomed |-> doomed]]
Goto(j, pc) == Moves(j, pc, thread[j].raised, {})

\* An exception: create_backup_checkpoint removes its staging directory on the
\* way out.
\* Variant: it does not.
RaiseThrough(j, why) == Moves(j, "cleanup", why, {})
Raise(j, why) ==
    Moves(j, IF thread[j].pc \in InCreate THEN "unstage" ELSE "cleanup", why, {})

\* _interrupt_stale_job: only an active row is changed.
Interrupted(S) ==
    [j \in Ids |-> IF j \in S /\ row[j].state \in Active
                   THEN [row[j] EXCEPT !.state = "interrupted"]
                   ELSE row[j]]

\* _cleanup_job_artifacts reads what the row has recorded, and spares a file
\* that is in the catalog for this job; then it deletes.
\* Variant: it does not look at the catalog.
ArtifactsOfRow(j) ==
    {a \in Artefacts : \/ a = "staging" /\ row[j].staging
                       \/ a = "file" /\ row[j].backup}
Artifacts(j) ==
    {a \in Artefacts : \/ a = "staging" /\ row[j].staging
                       \/ a = "file" /\ row[j].backup /\ j \notin ofJob}

Remove(j, doomed) ==
    /\ staging' = IF "staging" \in doomed THEN staging \ {j} ELSE staging
    /\ file' = IF "file" \in doomed THEN file \ {j} ELSE file

-----------------------------------------------------------------------------
(* Starting a job, and finding out about the active one *)

\* The job of an expired lease, or, without a lease, the newest active one.
StaleJobs ==
    IF lease.job # None THEN {lease.job}
    ELSE IF ActiveJobs = {} THEN {None}
    ELSE {j \in ActiveJobs : \A k \in ActiveJobs : k <= j}

StartJob(j) ==
    /\ row[j].state = None
    /\ \A i \in Ids : i < j => row[i].state # None
    /\ ~lease.live
    /\ \E stale \in StaleJobs :
          /\ row' = [Interrupted({stale}) EXCEPT
                       ![j] = [state |-> "queued", staging |-> FALSE,
                               backup |-> FALSE, checkpoint |-> FALSE]]
          /\ thread' = [thread EXCEPT ![j] =
                          [pc |-> IF stale = None THEN "begin" ELSE "reclaim",
                           stale |-> stale, raised |-> "no", doomed |-> {}]]
    /\ lease' = [job |-> j, live |-> TRUE]
    /\ UNCHANGED <<catalog, ofJob, staging, file, janitor, remover, trouble>>

\* The request clears up after the stale job before it starts its own thread.
Reclaim(j) ==
    /\ thread[j].pc = "reclaim"
    /\ Moves(j, "sweep", "no", Artifacts(thread[j].stale))
    /\ UNCHANGED <<row, lease, catalog, ofJob, staging, file, janitor, remover,
                   trouble>>

Sweep(j) ==
    /\ thread[j].pc = "sweep"
    /\ Remove(thread[j].stale, thread[j].doomed)
    /\ Goto(j, "begin")
    /\ UNCHANGED <<row, lease, catalog, ofJob, janitor, remover, trouble>>

\* active_job, when it finds an expired lease.
\* Variant: the row of the lease stays.
ActiveJobKeepsLease ==
    /\ Expired
    /\ janitor = Idle
    /\ row' = Interrupted({lease.job})
    /\ janitor' = [job |-> lease.job, step |-> "read", doomed |-> {}]
    /\ UNCHANGED <<lease, catalog, ofJob, staging, file, thread, remover,
                   trouble>>

ActiveJob ==
    /\ Expired
    /\ janitor = Idle
    /\ row' = Interrupted({lease.job})
    /\ lease' = NoLease
    /\ janitor' = [job |-> lease.job, step |-> "read", doomed |-> {}]
    /\ UNCHANGED <<catalog, ofJob, staging, file, thread, remover, trouble>>

JanitorReads ==
    /\ janitor.step = "read"
    /\ janitor' = [job |-> janitor.job, step |-> "unlink",
                   doomed |-> Artifacts(janitor.job)]
    /\ UNCHANGED <<row, lease, catalog, ofJob, staging, file, thread, remover,
                   trouble>>

JanitorUnlinks ==
    /\ janitor.step = "unlink"
    /\ Remove(janitor.job, janitor.doomed)
    /\ janitor' = Idle
    /\ UNCHANGED <<row, lease, catalog, ofJob, thread, remover, trouble>>

-----------------------------------------------------------------------------
(* The worker thread, _run_job *)

\* _assert_lease_owned: on its own before a step, or first thing in progress
\* and _record_artifact_path, whose write is a transaction of its own.
AssertLease(j) ==
    /\ thread[j].pc \in DOMAIN Then
    /\ IF Owned(j) THEN Goto(j, Then[thread[j].pc]) ELSE Raise(j, "lost")
    /\ UNCHANGED <<row, lease, catalog, ofJob, staging, file, janitor, remover,
                   trouble>>

\* The heartbeat runs from the first assertion until the worker's last step; it
\* renews an expired lease as well, as long as the row is there.
Heartbeat(j) ==
    /\ thread[j].pc \in Beating
    /\ lease.job = j
    /\ ~lease.live
    /\ lease' = [lease EXCEPT !.live = TRUE]
    /\ UNCHANGED <<row, catalog, ofJob, staging, file, thread, janitor, remover,
                   trouble>>

MakeStaging(j) ==
    /\ thread[j].pc = "mkdir"
    /\ staging' = staging \cup {j}
    /\ Goto(j, "mayStage")
    /\ UNCHANGED <<row, lease, catalog, ofJob, file, janitor, remover, trouble>>

\* The writes to the own row: the recorded paths, and the stage of a report,
\* whatever the state of the row has become.
Writes == [stage |-> "mayWork", work |-> "archive", verify |-> "mayRecord",
           record |-> "mayCatalog"]
WriteRow(j) ==
    /\ thread[j].pc \in DOMAIN Writes
    /\ row' = CASE thread[j].pc = "stage"  -> [row EXCEPT ![j].staging = TRUE]
                [] thread[j].pc = "record" -> [row EXCEPT ![j].backup = TRUE]
                [] thread[j].pc = "work"   -> [row EXCEPT ![j].state = "working"]
                [] thread[j].pc = "verify" -> [row EXCEPT ![j].state = "verifying"]
    /\ Goto(j, Writes[thread[j].pc])
    /\ UNCHANGED <<lease, catalog, ofJob, staging, file, janitor, remover,
                   trouble>>

\* The components are copied, sealed and encrypted, and the finished file is
\* renamed to its name.  Without a staging directory, which somebody has taken
\* for stale, this fails, or makes the directory anew.
Archive(j) ==
    /\ thread[j].pc = "archive"
    /\ \/ /\ file' = file \cup {j}
          /\ staging' \in {staging, staging \cup {j}}
          /\ Goto(j, "unstage")
       \/ /\ j \notin staging
          /\ Raise(j, "error")
          /\ UNCHANGED <<staging, file>>
    /\ UNCHANGED <<row, lease, catalog, ofJob, janitor, remover, trouble>>

\* The staging directory is removed: by the code that wrote the file, for which
\* a missing directory is an error, or by the finally clause.
Unstage(j) ==
    /\ thread[j].pc = "unstage"
    /\ staging' = staging \ {j}
    /\ IF thread[j].raised # "no" THEN Goto(j, "cleanup")
       ELSE IF j \in staging THEN Goto(j, "mayVerify")
       ELSE Moves(j, "cleanup", "error", {})
    /\ UNCHANGED <<row, lease, catalog, ofJob, file, janitor, remover, trouble>>

\* The verification needs the file; then _upsert_catalog looks at the lease in
\* the transaction that writes.
Catalog(j) ==
    /\ thread[j].pc = "catalog"
    /\ j \in file
    /\ Owned(j)
    /\ catalog' = [catalog EXCEPT ![j] = "valid"]
    /\ ofJob' = ofJob \cup {j}
    /\ Goto(j, "mayComplete")
    /\ UNCHANGED <<row, lease, staging, file, janitor, remover, trouble>>

CatalogFails(j) ==
    /\ thread[j].pc = "catalog"
    /\ \/ j \notin file /\ Raise(j, "error")
       \/ ~Owned(j) /\ Raise(j, "lost")
    /\ UNCHANGED <<row, lease, catalog, ofJob, staging, file, janitor, remover,
                   trouble>>

\* The last transaction looks at the lease again and gives it up.
\* Variant: it does not look at the lease.
CompleteRegardless(j) ==
    /\ thread[j].pc = "complete"
    /\ row' = [row EXCEPT ![j].state = "completed", ![j].checkpoint = TRUE]
    /\ lease' = IF lease.job = j THEN NoLease ELSE lease
    /\ Goto(j, "release")
    /\ UNCHANGED <<catalog, ofJob, staging, file, janitor, remover, trouble>>

Complete(j) ==
    /\ thread[j].pc = "complete"
    /\ Owned(j)
    /\ row' = [row EXCEPT ![j].state = "completed", ![j].checkpoint = TRUE]
    /\ lease' = NoLease
    /\ Goto(j, "release")
    /\ UNCHANGED <<catalog, ofJob, staging, file, janitor, remover, trouble>>

CompleteFails(j) ==
    /\ thread[j].pc = "complete"
    /\ ~Owned(j)
    /\ Raise(j, "lost")
    /\ UNCHANGED <<row, lease, catalog, ofJob, staging, file, janitor, remover,
                   trouble>>

\* The except clause: clean up, then forget the catalog entry of a lost job, or
\* write down that the job has failed.
CleanupReads(j) ==
    /\ thread[j].pc = "cleanup"
    /\ Moves(j, "unlink", thread[j].raised, Artifacts(j))
    /\ UNCHANGED <<row, lease, catalog, ofJob, staging, file, janitor, remover,
                   trouble>>

CleanupUnlinks(j) ==
    /\ thread[j].pc = "unlink"
    /\ Remove(j, thread[j].doomed)
    /\ Goto(j, "settle")
    /\ UNCHANGED <<row, lease, catalog, ofJob, janitor, remover, trouble>>

SettleLost(j) ==
    /\ thread[j].pc = "settle"
    /\ thread[j].raised = "lost"
    /\ catalog' = IF j \in ofJob THEN [catalog EXCEPT ![j] = None] ELSE catalog
    /\ ofJob' = ofJob \ {j}
    /\ Goto(j, "release")
    /\ UNCHANGED <<row, lease, staging, file, janitor, remover, trouble>>

SettleFailed(j) ==
    /\ thread[j].pc = "settle"
    /\ thread[j].raised = "error"
    /\ row' = [row EXCEPT ![j].state = "failed"]
    /\ Goto(j, "release")
    /\ UNCHANGED <<lease, catalog, ofJob, staging, file, janitor, remover,
                   trouble>>

Release(j) ==
    /\ thread[j].pc = "release"
    /\ lease' = IF lease.job = j THEN NoLease ELSE lease
    /\ Goto(j, "over")
    /\ UNCHANGED <<row, catalog, ofJob, staging, file, janitor, remover,
                   trouble>>

ThreadStep(j) ==
    \/ Reclaim(j) \/ Sweep(j) \/ AssertLease(j) \/ MakeStaging(j) \/ WriteRow(j)
    \/ Archive(j) \/ Unstage(j) \/ Catalog(j) \/ CatalogFails(j) \/ Complete(j)
    \/ CompleteFails(j) \/ CleanupReads(j) \/ CleanupUnlinks(j) \/ SettleLost(j)
    \/ SettleFailed(j) \/ Release(j)

-----------------------------------------------------------------------------
(* The catalog and the administrator *)

\* list_backup_catalog: files without a row get one, rows without a file are
\* marked.  A file that vanishes while it looks makes it fail without effect.
ListCatalog ==
    /\ catalog' = [j \in Ids |-> CASE j \in file /\ catalog[j] = None -> "unverified"
                                   [] j \notin file /\ catalog[j] # None -> "missing"
                                   [] OTHER -> catalog[j]]
    /\ catalog' # catalog
    /\ UNCHANGED <<row, lease, ofJob, staging, file, thread, janitor, remover,
                   trouble>>

\* delete_backup_checkpoint asks active_job for the checkpoint that is being
\* written, moves the file away, unlinks it and deletes the row.
DeleteCheckpoint(j) ==
    /\ remover = None
    /\ trouble < MaxTrouble
    /\ trouble' = trouble + 1
    /\ ~Expired
    /\ ~(lease.job = j /\ row[j].checkpoint)
    /\ catalog[j] # None
    /\ j \in file
    /\ file' = file \ {j}
    /\ remover' = j
    /\ UNCHANGED <<row, lease, catalog, ofJob, staging, thread, janitor>>

ForgetCheckpoint ==
    /\ remover # None
    /\ catalog' = [catalog EXCEPT ![remover] = None]
    /\ ofJob' = ofJob \ {remover}
    /\ remover' = None
    /\ UNCHANGED <<row, lease, staging, file, thread, janitor, trouble>>

DeletionFails ==
    /\ remover # None
    /\ file' = file \cup {remover}
    /\ remover' = None
    /\ UNCHANGED <<row, lease, catalog, ofJob, staging, thread, janitor, trouble>>

-----------------------------------------------------------------------------
(* What goes wrong *)

\* Nobody has renewed the lease for 45 seconds: the job has no heartbeat, or the
\* heartbeat is that late.
LeaseExpires ==
    /\ lease.live
    /\ lease' = [lease EXCEPT !.live = FALSE]
    /\ IF thread[lease.job].pc \in Beating
       THEN trouble < MaxTrouble /\ trouble' = trouble + 1
       ELSE UNCHANGED trouble
    /\ UNCHANGED <<row, catalog, ofJob, staging, file, thread, janitor, remover>>

\* Any step of the worker may raise; in the except clause only the finally
\* clause is left to run.
Error(j) ==
    /\ trouble < MaxTrouble
    /\ trouble' = trouble + 1
    /\ \/ /\ thread[j].pc \in Main
          /\ thread[j].raised = "no"
          /\ Raise(j, "error")
       \/ /\ thread[j].pc \in Handling
          /\ Goto(j, "release")
    /\ UNCHANGED <<row, lease, catalog, ofJob, staging, file, janitor, remover>>

\* A server process dies with its threads, calls of active_job and deletions
\* perhaps among them; the next one finds the database and the disk.
Crash(p) ==
    /\ trouble < MaxTrouble
    /\ trouble' = trouble + 1
    /\ thread' = [j \in Ids |->
                    IF Home[j] = p /\ thread[j].pc \notin {"none", "over"}
                    THEN [thread[j] EXCEPT !.pc = "dead", !.doomed = {}]
                    ELSE thread[j]]
    /\ janitor' \in {janitor, Idle}
    /\ remover' \in {remover, None}
    /\ UNCHANGED <<row, lease, catalog, ofJob, staging, file>>

Next ==
    \/ \E j \in Ids : \/ StartJob(j) \/ ThreadStep(j) \/ Heartbeat(j)
                      \/ Error(j) \/ DeleteCheckpoint(j)
    \/ ActiveJob \/ JanitorReads \/ JanitorUnlinks
    \/ ListCatalog \/ ForgetCheckpoint \/ DeletionFails
    \/ LeaseExpires
    \/ \E p \in Processes : Crash(p)

\* Threads go on, time passes, and the administration page asks for the active
\* job for as long as it is open.
Fairness ==
    /\ \A j \in Ids : WF_vars(ThreadStep(j))
    /\ WF_vars(LeaseExpires)
    /\ WF_vars(ActiveJob)
    /\ WF_vars(JanitorReads \/ JanitorUnlinks)

Spec == Init /\ [][Next]_vars
FairSpec == Spec /\ Fairness

-----------------------------------------------------------------------------
(* Properties *)

\* Whatever takes the lease away from a job, and however late its threads find
\* out: jobs publish one at a time, the last one that was started and nobody
\* else.
Writer == INSTANCE BackupWriter WITH
    writer <- lease.job,
    begun <- Begun,
    published <- {j \in Ids : row[j].state = "completed"}
OneWriterPublishes == Writer!Spec

\* A worker that has come to its end leaves no staging directory behind, also
\* when it was not recorded yet or was taken away and made anew.
NoStagingLeftBehind == \A j \in Ids : thread[j].pc = "over" => j \notin staging

\* Of several that clear up after a job none deletes the file once it is in the
\* catalog as the job's; only an administrator does.
CatalogedFileStays ==
    [][\A j \in Ids : j \in file \ file' /\ j \in ofJob => remover' = j]_vars

\* The lease of every job ends, of crashed ones too.
WriterIsFreed == \A j \in Ids : lease.job = j ~> lease.job # j


=============================================================================
