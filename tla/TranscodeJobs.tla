--------------------------- MODULE TranscodeJobs ---------------------------
(***************************************************************************)
(* The HLS transcode manager (services/transcode_service.py): one table of *)
(* jobs by media item behind one lock, request threads that admit a job    *)
(* under the lock and spawn its ffmpeg outside of it, one watcher thread   *)
(* for each ffmpeg, and a cleaner.                                         *)
(*                                                                         *)
(* A job is an object: a thread goes on using the job it holds after the   *)
(* table has forgotten it.  Job n is started by one thread, which spawns   *)
(* at most one ffmpeg, process n; but the process is then filed under the  *)
(* job that the table has for the item at that moment.                     *)
(***************************************************************************)
EXTENDS Naturals, FiniteSets

CONSTANTS
    Items,         \* media items
    Users,
    Threads,       \* request threads
    Cleaner,       \* the thread of _cleanup_loop, which also shuts down
    MaxJobs,       \* ELVERN_MAX_CONCURRENT_TRANSCODES
    MaxStarts,     \* bound: jobs that are ever created
    MaxTrouble,    \* bound: changed files, long pauses, stops and polls
    Asked,         \* the requests that come: all, or some of them to check
    None, New, Over

Ops == {"start", "poll", "stop"}

ASSUME TranscodeConstants ==
    /\ MaxJobs \in Nat \ {0}
    /\ MaxStarts \in Nat
    /\ MaxTrouble \in Nat
    /\ Cleaner \notin Threads
    /\ Asked \subseteq [thread : Threads, user : Users, item : Items, op : Ops]
    /\ None \notin Nat \cup Users \cup Items
    /\ New \notin Nat \cup {None}
    /\ Over \notin Nat \cup {None, New}
    /\ IsFiniteSet(Threads)

Ids == 1..MaxStarts
Versions == 0..MaxTrouble
Actors == Threads \cup {Cleaner}

\* How long ago a job was used: lately, longer than 120 seconds, longer than
\* the time to live of the cache.
Lately == 0
Abandoned == 1
Stale == 2

VARIABLES
    table,         \* _jobs: the job of each item
    job,           \* every job object there ever was
    started,       \* how many
    process,       \* per ffmpeg: what the operating system says of it
    manifests,     \* the output directories that hold a manifest
    version,       \* the file time of each item in the catalog
    thread,        \* per actor: where it is and what it holds
    watcher,       \* per ffmpeg: the process its watcher thread waits for
    stopping,      \* shutdown has begun
    trouble,       \* what MaxTrouble bounds, so far
    raised         \* starts that an error ended, or ended the watcher of

vars == <<table, job, started, process, manifests, version, thread, watcher,
          stopping, trouble, raised>>

Outcomes == {"done", "broken"}
Jobs == [item : Items \cup {None}, user : Users \cup {None},
         version : Versions, idle : Lately..Stale,
         state : {"starting", "running", "completed", "failed"},
         process : Ids \cup {None}]
Calls == [op : Ops \cup {"none"}, user : Users \cup {None},
          item : Items \cup {None}, seen : Versions]
Steps == {"idle", "cleanup", "snapshot", "admit", "spawn", "popen", "record",
          "dirs", "gone"}
ThreadStates == [pc : Steps, call : Calls, mine : Ids \cup {None},
                 doomed : SUBSET Ids]
NoCall == [op |-> "none", user |-> None, item |-> None, seen |-> 0]

TypeOK ==
    /\ table \in [Items -> Ids \cup {None}]
    /\ job \in [Ids -> Jobs]
    /\ started \in 0..MaxStarts
    /\ process \in [Ids -> {"none", "running"} \cup Outcomes]
    /\ manifests \subseteq Items \X Versions
    /\ version \in [Items -> Versions]
    /\ thread \in [Actors -> ThreadStates]
    /\ watcher \in [Ids -> Ids \cup {None, New, Over}]
    /\ stopping \in BOOLEAN
    /\ trouble \in 0..MaxTrouble
    /\ raised \subseteq Ids

Init ==
    /\ table = [i \in Items |-> None]
    /\ job = [n \in Ids |-> [item |-> None, user |-> None, version |-> 0,
                             idle |-> Lately, state |-> "starting",
                             process |-> None]]
    /\ started = 0
    /\ process = [n \in Ids |-> "none"]
    /\ manifests = {}
    /\ version = [i \in Items |-> 0]
    /\ thread = [t \in Actors |-> [pc |-> "idle", call |-> NoCall,
                                   mine |-> None, doomed |-> {}]]
    /\ watcher = [n \in Ids |-> None]
    /\ stopping = FALSE
    /\ trouble = 0
    /\ raised = {}

Dir(n) == <<job[n].item, job[n].version>>
Listed == {table[i] : i \in Items} \ {None}
Alive(n) == job[n].process # None /\ process[job[n].process] = "running"
At(t, pc) == thread[t].pc = pc /\ thread[t].doomed = {}
Goto(t, pc) == thread' = [thread EXCEPT ![t].pc = pc]
Moves(t, pc, call, mine, doomed) ==
    thread' = [thread EXCEPT ![t] = [pc |-> pc, call |-> call, mine |-> mine,
                                     doomed |-> doomed]]

\* An error that nothing catches: a request ends with it, leaving what it
\* registered as it is, and the cleaner or the shutdown is over.
Raise(t) ==
    /\ Moves(t, IF t = Cleaner THEN "gone" ELSE "idle", NoCall, None, {})
    /\ raised' = raised \cup ({thread[t].mine} \ {None})

Forget(S) == [i \in Items |-> IF table[i] \in S THEN None ELSE table[i]]

-----------------------------------------------------------------------------
(* The world around the manager *)

\* A scan sees that the file of an item has changed.
Rescan(i) ==
    /\ trouble < MaxTrouble
    /\ trouble' = trouble + 1
    /\ version' = [version EXCEPT ![i] = @ + 1]
    /\ UNCHANGED <<table, job, started, process, manifests, thread, watcher,
                   stopping, raised>>

\* Time passes without a use of job n; a job whose request is still at work is
\* taken to be younger than 120 seconds.
Age(n) ==
    /\ n \in Listed
    /\ job[n].idle < Stale
    /\ \A t \in Threads : thread[t].mine # n
    /\ trouble < MaxTrouble
    /\ trouble' = trouble + 1
    /\ \E idle \in (job[n].idle + 1)..Stale : job' = [job EXCEPT ![n].idle = idle]
    /\ UNCHANGED <<table, started, process, manifests, version, thread,
                   watcher, stopping, raised>>

\* A manifest counts when its job has completed, so it appears with the end of
\* the encoding.
FfmpegEnds(p) ==
    /\ process[p] = "running"
    /\ \E outcome \in Outcomes :
          /\ process' = [process EXCEPT ![p] = outcome]
          /\ manifests' = IF outcome = "done" THEN manifests \cup {Dir(p)}
                                              ELSE manifests
    /\ UNCHANGED <<table, job, started, version, thread, watcher, stopping,
                   trouble, raised>>

-----------------------------------------------------------------------------
(* Requests *)

\* A request arrives: start_playback, a decision or status poll, a stop.
Request(t, u, i, op) ==
    /\ At(t, "idle")
    /\ ~stopping
    /\ op = "start" =>
          started + Cardinality({k \in Threads : thread[k].call.op = "start"
                                                  /\ thread[k].mine = None}) < MaxStarts
    /\ op # "start" => trouble < MaxTrouble
    /\ trouble' = IF op = "start" THEN trouble ELSE trouble + 1
    /\ Moves(t, IF op = "stop" THEN "admit" ELSE "cleanup",
             [op |-> op, user |-> u, item |-> i, seen |-> version[i]], None, {})
    /\ UNCHANGED <<table, job, started, process, manifests, version, watcher,
                   stopping, raised>>

\* get_manifest_content and get_segment_path use the job of the current file.
Serve(i) ==
    /\ table[i] # None
    /\ job[table[i]].version = version[i]
    /\ job[table[i]].idle # Lately
    /\ job' = [job EXCEPT ![table[i]].idle = Lately]
    /\ UNCHANGED <<table, started, process, manifests, version, thread,
                   watcher, stopping, trouble, raised>>

\* The jobs that cleanup_stale takes out of the table.
Removable == {n \in Listed : \/ Alive(n) /\ job[n].idle >= Abandoned
                             \/ job[n].idle >= Stale}

Cleanup(t, next) ==
    /\ table' = Forget(Removable)
    /\ Moves(t, next, thread[t].call, None, Removable)
    /\ UNCHANGED <<job, started, process, manifests, version, watcher,
                   stopping, trouble, raised>>

CleanupFirst(t) == At(t, "cleanup") /\ Cleanup(t, "snapshot")

\* _terminate_process and rmtree for one job that was taken out of the table;
\* shutdown leaves the directories alone.
Terminate(t, n) ==
    /\ n \in thread[t].doomed
    /\ thread' = [thread EXCEPT ![t].doomed = @ \ {n}]
    /\ process' = IF Alive(n)
                  THEN [process EXCEPT ![job[n].process] = "broken"]
                  ELSE process
    /\ manifests' = IF t = Cleaner /\ stopping THEN manifests
                                               ELSE manifests \ {Dir(n)}
    /\ UNCHANGED <<table, job, started, version, watcher, stopping, trouble,
                   raised>>

\* The process does not go away within five seconds of SIGKILL either: the
\* TimeoutExpired of the second wait ends whatever the thread was about to do,
\* the other jobs it took out of the table included.
TerminateFails(t, n) ==
    /\ n \in thread[t].doomed
    /\ Alive(n)
    /\ Raise(t)
    /\ UNCHANGED <<table, job, started, process, manifests, version, watcher,
                   stopping, trouble>>

\* The state that get_job_snapshot reports of job n, and leaves behind.
Settled(n) ==
    IF job[n].state = "starting" /\ Alive(n) THEN "running"
    ELSE IF job[n].state = "completed" /\ Dir(n) \notin manifests THEN "failed"
    ELSE job[n].state

\* get_job_snapshot; ensure_started goes on unless there is a job to reuse.
Snapshot(t) ==
    /\ At(t, "snapshot")
    /\ LET call == thread[t].call
           n == table[call.item]
           known == n # None /\ job[n].version = call.seen
           reuse == known /\ Settled(n) \in {"running", "completed"}
           more == call.op = "start" /\ ~reuse
       IN /\ job' = IF known
                    THEN [job EXCEPT ![n].state = Settled(n), ![n].idle = Lately]
                    ELSE job
          /\ IF more THEN Moves(t, "admit", call, None, {})
                     ELSE Moves(t, "idle", NoCall, None, {})
    /\ UNCHANGED <<table, started, process, manifests, version, watcher,
                   stopping, trouble, raised>>

\* The running jobs that count against the cap when item i is started.
Others(i) == {n \in Listed : job[n].item # i /\ Alive(n)}
OwnJobs(i, u) == {n \in Others(i) : job[n].user = u}

\* Variant: whoever the jobs belong to.
ReplaceableOfAnybody(i, u) ==
    {n \in Others(i) : \A k \in Others(i) : job[n].idle <= job[k].idle}

\* The job of user u that was used last; idle times that are equal here may
\* come out either way.
Replaceable(i, u) ==
    {n \in OwnJobs(i, u) : \A k \in OwnJobs(i, u) : job[n].idle <= job[k].idle}

\* Put the new job into the table in place of the jobs in popped, which the
\* thread terminates before it spawns.
Register(t, popped) ==
    /\ started < MaxStarts
    /\ started' = started + 1
    /\ LET call == thread[t].call
       IN /\ table' = [Forget(popped) EXCEPT ![call.item] = started + 1]
          /\ job' = [job EXCEPT ![started + 1] =
                [item |-> call.item, user |-> call.user, version |-> call.seen,
                 idle |-> Lately, state |-> "starting", process |-> None]]
          /\ Moves(t, "spawn", call, started + 1, popped)

\* Variant: one job too many is let in.
AdmitLate(t) ==
    /\ At(t, "admit")
    /\ thread[t].call.op = "start"
    /\ Cardinality(Others(thread[t].call.item)) <= MaxJobs
    /\ Register(t, {table[thread[t].call.item]} \ {None})
    /\ UNCHANGED <<process, manifests, version, watcher, stopping, trouble,
                   raised>>

\* The locked section of ensure_started when there is room under the cap.
Admit(t) ==
    /\ At(t, "admit")
    /\ thread[t].call.op = "start"
    /\ Cardinality(Others(thread[t].call.item)) < MaxJobs
    /\ Register(t, {table[thread[t].call.item]} \ {None})
    /\ UNCHANGED <<process, manifests, version, watcher, stopping, trouble,
                   raised>>

\* The cap is reached: the same user's job makes room.
AdmitReplacing(t) ==
    /\ At(t, "admit")
    /\ thread[t].call.op = "start"
    /\ LET call == thread[t].call
       IN /\ Cardinality(Others(call.item)) >= MaxJobs
          /\ \E n \in Replaceable(call.item, call.user) :
                Register(t, ({table[call.item]} \ {None}) \cup {n})
    /\ UNCHANGED <<process, manifests, version, watcher, stopping, trouble,
                   raised>>

\* The cap is reached by other users: "busy".  The item's own job has already
\* been taken out of the table, and nobody terminates it.
Busy(t) ==
    /\ At(t, "admit")
    /\ thread[t].call.op = "start"
    /\ LET call == thread[t].call
       IN /\ Cardinality(Others(call.item)) >= MaxJobs
          /\ OwnJobs(call.item, call.user) = {}
          /\ table' = [table EXCEPT ![call.item] = None]
    /\ Moves(t, "idle", NoCall, None, {})
    /\ UNCHANGED <<job, started, process, manifests, version, watcher,
                   stopping, trouble, raised>>

\* stop_item_for_owner
Stop(t) ==
    /\ At(t, "admit")
    /\ thread[t].call.op = "stop"
    /\ LET call == thread[t].call
           n == table[call.item]
           own == n # None /\ job[n].version = call.seen /\ job[n].user = call.user
       IN /\ table' = IF own THEN [table EXCEPT ![call.item] = None] ELSE table
          /\ Moves(t, "idle", NoCall, None, IF own THEN {n} ELSE {})
    /\ UNCHANGED <<job, started, process, manifests, version, watcher,
                   stopping, trouble, raised>>

\* _start_process makes the directory anew ...
MakeDir(t) ==
    /\ At(t, "spawn")
    /\ manifests' = manifests \ {Dir(thread[t].mine)}
    /\ Goto(t, "popen")
    /\ UNCHANGED <<table, job, started, process, version, watcher, stopping,
                   trouble, raised>>

\* ... or mkdir raises, which nothing catches: the job stays in the table.
MakeDirFails(t) ==
    /\ At(t, "spawn")
    /\ manifests' = manifests \ {Dir(thread[t].mine)}
    /\ Raise(t)
    /\ UNCHANGED <<table, job, started, process, version, watcher, stopping,
                   trouble>>

\* Popen: ffmpeg runs, and the manager does not know it yet.
Spawn(t) ==
    /\ At(t, "popen")
    /\ process' = [process EXCEPT ![thread[t].mine] = "running"]
    /\ Goto(t, "record")
    /\ UNCHANGED <<table, job, started, manifests, version, watcher, stopping,
                   trouble, raised>>

\* After _start_process, ensure_started ends with get_job_snapshot.
ThenSnapshot(t) ==
    Moves(t, "cleanup", [thread[t].call EXCEPT !.op = "poll"], None, {})

\* Variant: the failure is logged and nothing else.
SpawnFailsSilently(t) ==
    /\ At(t, "popen")
    /\ ThenSnapshot(t)
    /\ UNCHANGED <<table, job, started, process, manifests, version, watcher,
                   stopping, trouble, raised>>

\* Popen raises OSError: the job that the table has for the item has failed.
SpawnFails(t) ==
    /\ At(t, "popen")
    /\ LET stored == table[job[thread[t].mine].item]
       IN job' = IF stored = None THEN job
                 ELSE [job EXCEPT ![stored].state = "failed"]
    /\ ThenSnapshot(t)
    /\ UNCHANGED <<table, started, process, manifests, version, watcher,
                   stopping, trouble, raised>>

\* The locked section after Popen: the process is filed under the job that the
\* table has for the item now.
File(t) ==
    /\ At(t, "record")
    /\ LET n == thread[t].mine
           stored == table[job[n].item]
       IN job' = IF stored = None THEN job
                 ELSE [job EXCEPT ![stored].process = n,
                                  ![stored].state = "running"]
    /\ UNCHANGED <<table, started, process, manifests, version, stopping,
                   trouble>>

\* A watcher is started ...
Record(t) ==
    /\ File(t)
    /\ watcher' = [watcher EXCEPT ![thread[t].mine] = New]
    /\ ThenSnapshot(t)
    /\ UNCHANGED raised

\* ... or the system has no thread for it, which ends the request.
RecordUnwatched(t) == File(t) /\ Raise(t) /\ UNCHANGED watcher

-----------------------------------------------------------------------------
(* Watchers *)

\* The first locked section of _watch_process: wait for the process that the
\* item's job has now, if there is one.
WatchBegins(p) ==
    /\ watcher[p] = New
    /\ LET n == table[job[p].item]
       IN watcher' = [watcher EXCEPT ![p] =
              IF n # None /\ job[n].process # None THEN job[n].process ELSE Over]
    /\ UNCHANGED <<table, job, started, process, manifests, version, thread,
                   stopping, trouble, raised>>

\* The second: the process has ended, and whatever job the item has now is
\* marked with its outcome.
WatchEnds(p) ==
    /\ watcher[p] \in Ids
    /\ process[watcher[p]] \in Outcomes
    /\ LET n == table[job[p].item]
       IN job' = IF n = None THEN job
                 ELSE [job EXCEPT ![n].process = None,
                                  ![n].state = IF process[watcher[p]] = "done"
                                               THEN "completed" ELSE "failed"]
    /\ watcher' = [watcher EXCEPT ![p] = Over]
    /\ UNCHANGED <<table, started, process, manifests, version, thread,
                   stopping, trouble, raised>>

\* A line on ffmpeg's stderr that the locale cannot decode raises in the loop
\* that logs it, which ends the watcher.
WatchRaises(p) ==
    /\ watcher[p] \in Ids
    /\ watcher' = [watcher EXCEPT ![p] = Over]
    /\ raised' = raised \cup {p}
    /\ UNCHANGED <<table, job, started, process, manifests, version, thread,
                   stopping, trouble>>

-----------------------------------------------------------------------------
(* The cleaner *)

CleanerRound == At(Cleaner, "idle") /\ ~stopping /\ Cleanup(Cleaner, "dirs")

\* _cleanup_orphaned_dirs removes what was not written to for the time to
\* live, whether or not a job still refers to it.  A directory that somebody
\* else removes meanwhile makes stat() raise, which ends the cleaner.
RemoveOldDirs ==
    /\ At(Cleaner, "dirs")
    /\ \E old \in SUBSET {d \in manifests :
                \A p \in Ids : process[p] = "running" => Dir(p) # d} :
          manifests' = manifests \ old
    /\ Goto(Cleaner, "idle") \/ Goto(Cleaner, "gone")
    /\ UNCHANGED <<table, job, started, process, version, watcher, stopping,
                   trouble, raised>>

\* shutdown, once the cleaner has been joined
Shutdown ==
    /\ At(Cleaner, "idle") \/ At(Cleaner, "gone")
    /\ ~stopping
    /\ stopping' = TRUE
    /\ table' = [i \in Items |-> None]
    /\ thread' = [thread EXCEPT ![Cleaner].doomed = Listed]
    /\ UNCHANGED <<job, started, process, manifests, version, watcher, trouble,
                   raised>>

ThreadStep(t) ==
    \/ CleanupFirst(t) \/ Snapshot(t) \/ Admit(t) \/ AdmitReplacing(t) \/ Busy(t)
    \/ Stop(t) \/ MakeDir(t) \/ MakeDirFails(t) \/ Spawn(t) \/ SpawnFails(t)
    \/ Record(t) \/ RecordUnwatched(t)

Next ==
    \/ \E i \in Items : Rescan(i) \/ Serve(i)
    \/ \E n \in Ids : Age(n) \/ FfmpegEnds(n)
    \/ \E p \in Ids : WatchBegins(p) \/ WatchEnds(p) \/ WatchRaises(p)
    \/ \E a \in Asked : Request(a.thread, a.user, a.item, a.op)
    \/ \E t \in Threads : ThreadStep(t)
    \/ \E t \in Actors, n \in Ids : Terminate(t, n) \/ TerminateFails(t, n)
    \/ CleanerRound
    \/ RemoveOldDirs
    \/ Shutdown

Spec == Init /\ [][Next]_vars

-----------------------------------------------------------------------------
(* Properties *)

\* Starts that were admitted and whose ffmpeg is not filed yet.
Pending == {t \in Threads : thread[t].mine # None}

\* The cap is checked against jobs that have a process, and the process comes
\* after the check.  A start that no other start overlaps keeps to the cap all
\* the same: encoders of listed jobs and starts on their way exceed it only if
\* they did so before.
Load == Cardinality({n \in Listed : Alive(n)}) + Cardinality(Pending)
LoneStartsKeepTheCap ==
    [][(started' > started /\ Pending = {}) => Load' <= MaxJobs \/ Load' <= Load]_vars

\* Whoever takes a job that is in use out of the table, to stop it, is the user
\* who had it started, or starts its item anew: a user at the cap makes room
\* with a job of their own and a stop comes from the owner (ensure_started,
\* stop_item_for_owner).  A job keeps its first user while ensure_started
\* hands it to others, so its owner may well end what somebody else watches.
StopsOwnJobsOnly ==
    [][\A t \in Threads, n \in Ids :
          n \in thread'[t].doomed \ thread[t].doomed =>
             \/ job[n].idle >= Abandoned
             \/ job[n].user = thread[t].call.user
             \/ thread[t].call.op = "start" /\ thread[t].call.item = job[n].item]_vars

\* A job is shown as starting or running while somebody is still to report on
\* it: a starting job has its thread, and a running one a process and the watcher
\* of that process, although processes are filed under other jobs than they were
\* spawned for and watchers report on whatever job the item has.  The exception
\* is an error that nothing catches: a job stays starting when the error came
\* before Popen, and running when no watcher could be started or the watcher
\* failed (_start_process, _watch_process).
SomebodyReports ==
    \A n \in Listed :
        /\ job[n].state = "starting" =>
              n \in raised \/ \E t \in Threads : thread[t].mine = n
        /\ job[n].state = "running" =>
              LET p == job[n].process
              IN p # None /\ (p \in raised \/ watcher[p] \in {New, p})

=============================================================================
