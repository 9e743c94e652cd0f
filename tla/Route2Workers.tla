--------------------------- MODULE Route2Workers ---------------------------
(***************************************************************************)
(* The workers of Browser Playback Route 2 (services/                      *)
(* mobile_playback_service.py): the table of worker records, the pass that *)
(* hands out the CPU budget to queued records, the thread that runs one    *)
(* ffmpeg process in three sections under the manager's lock with Popen    *)
(* and the wait between them, the parking of sessions in the background,   *)
(* the telemetry that looks at processes, and the end of sessions.         *)
(*                                                                         *)
(* Which epoch a session creates, promotes or discards is decided by the   *)
(* authority modelled in Route2Epochs; here any of these decisions may be  *)
(* taken when the code's shape allows it.  A session belongs to a user of  *)
(* its own, as admission grants a user one playback.  The thread count is  *)
(* the fixed assignment of a server with adaptive control switched off.    *)
(***************************************************************************)
EXTENDS Integers, FiniteSets, FiniteSetsExt

CONSTANTS
    Sessions,
    TotalBudget,        \* cores granted by route2_cpu_budget_percent
    MinWorkerThreads,   \* setting route2_min_worker_threads
    MaxWorkerThreads,   \* setting route2_max_worker_threads
    MaxEpochs,          \* bound: epochs of a session
    MaxSpawns,          \* bound: threads started for one epoch
    MaxParks,           \* bound: times a session is parked, over all sessions
    MaxSamples,         \* bound: telemetry samples that find a process missing
    MaxRevivals         \* bound: failed active epochs taken for warming again

\* The first four lines are what config.py validates; admission lets no more
\* users in than the budget has room for.
ASSUME WorkerConstants ==
    /\ TotalBudget \in Nat \ {0}
    /\ MinWorkerThreads \in Nat \ {0}
    /\ MaxWorkerThreads \in Nat
    /\ MinWorkerThreads <= MaxWorkerThreads
    /\ IsFiniteSet(Sessions)
    /\ MinWorkerThreads * Cardinality(Sessions) <= TotalBudget
    /\ MaxEpochs \in Nat \ {0}
    /\ MaxSpawns \in Nat \ {0}
    /\ MaxParks \in Nat
    /\ MaxSamples \in Nat
    /\ MaxRevivals \in Nat

\* A session numbers its epochs in the order of their creation.  A worker id
\* lives as long as its epoch is named, so the epoch stands for its record.
Epochs == Sessions \X (1..MaxEpochs)
Spawns == 1..MaxSpawns
NoProcess == 0

\* Named by the session as active or replacement; draining after a promotion.
Lives == {"none", "named", "draining", "gone"}

\* The state of the record in _route2_workers; "over" is stopped, interrupted,
\* failed or completed.
Workers == {"absent", "queued", "running", "paused", "stopping", "over"}

EpochRecords ==
    [life : Lives, failed : BOOLEAN, completed : BOOLEAN,
     stop : BOOLEAN,                         \* epoch.stop_requested
     process : {NoProcess} \cup Spawns,      \* epoch.process, by its thread
     worker : Workers, threads : 0..MaxWorkerThreads,
     created : Nat]                          \* order of created_at

\* begun: not yet in the first section; spawning: before Popen; spawned: not
\* yet registered; watching: registered, until the last section.
Phases == {"unused", "begun", "spawning", "spawned", "watching", "done"}

VARIABLES
    session,    \* life and preparation_parked of every session
    epoch,      \* every epoch with its worker record
    thread,     \* the worker threads, with their ffmpeg process
    parks,      \* sessions parked so far
    samples,    \* processes found missing so far
    revivals    \* failed epochs warming again so far

vars == <<session, epoch, thread, parks, samples, revivals>>

TypeOK ==
    /\ session \in [Sessions -> [life : {"new", "open", "closing", "closed"},
                                 parked : BOOLEAN]]
    /\ epoch \in [Epochs -> EpochRecords]
    /\ thread \in [Epochs \X Spawns ->
                     [phase : Phases, budget : 0..MaxWorkerThreads,
                      alive : BOOLEAN]]
    /\ parks \in 0..MaxParks
    /\ samples \in 0..MaxSamples
    /\ revivals \in 0..MaxRevivals

Smaller(m, n) == IF m <= n THEN m ELSE n
Larger(m, n) == IF m >= n THEN m ELSE n

NoEpoch == [life |-> "none", failed |-> FALSE, completed |-> FALSE,
            stop |-> FALSE, process |-> NoProcess, worker |-> "absent",
            threads |-> 0, created |-> 0]

Of(s) == {e \in Epochs : e[1] = s}
Named(s) == {e \in Of(s) : epoch[e].life = "named"}
Open(e) == session[e[1]].life = "open"

Init ==
    /\ session = [s \in Sessions |-> [life |-> "new", parked |-> FALSE]]
    /\ epoch = [e \in Epochs |-> NoEpoch]
    /\ thread = [t \in Epochs \X Spawns |->
                   [phase |-> "unused", budget |-> 0, alive |-> FALSE]]
    /\ parks = 0
    /\ samples = 0
    /\ revivals = 0

-----------------------------------------------------------------------------
(* Worker records *)

\* The process an epoch knows is still running.
Encoding(record, threads, e) ==
    record.process # NoProcess /\ threads[<<e, record.process>>].alive

\* Mutant: a worker that was stopped or interrupted is not queued again.
NeedsWorkerOnce(record) ==
    /\ ~record.failed
    /\ ~record.completed
    /\ record.worker \notin {"queued", "running", "stopping", "over"}

\* Mutant: a worker that is starting or being stopped is queued again.
NeedsWorkerAnyway(record) ==
    /\ ~record.failed
    /\ ~record.completed
    /\ record.worker # "queued"

\* _route2_epoch_needs_worker_locked, when its process is not running.
NeedsWorker(record) ==
    /\ ~record.failed
    /\ ~record.completed
    /\ record.worker \notin {"queued", "running", "stopping"}

\* A new record is younger than all others.
Age(epochs, record) ==
    IF record.worker = "absent"
    THEN 1 + Max({epochs[f].created : f \in Epochs})
    ELSE record.created

\* _ensure_route2_epoch_workers_locked, at the end of most handlers: the epochs
\* a session names get a worker unless the session is parked.
EnsureWorkers(s, parked, epochs, threads) ==
    [e \in Epochs |->
        LET record == epochs[e]
        IN  IF e[1] # s \/ parked \/ record.life # "named" THEN record
            ELSE IF Encoding(record, threads, e)
            THEN [record EXCEPT !.worker = "running"]
            ELSE IF NeedsWorker(record)
            THEN [record EXCEPT !.worker = "queued", !.threads = 0,
                                !.stop = FALSE, !.created = Age(epochs, record)]
            ELSE record]

Ensured(s, epochs) == EnsureWorkers(s, session[s].parked, epochs, thread)

\* _terminate_route2_epoch_locked: the process the epoch knows is ended.
Ended(es) ==
    [t \in DOMAIN thread |->
        IF t[1] \in es /\ epoch[t[1]].process = t[2]
        THEN [thread[t] EXCEPT !.alive = FALSE] ELSE thread[t]]

\* A discarded epoch leaves no record, a draining one a stopped record.
Discarded == [NoEpoch EXCEPT !.life = "gone"]

Drained(record) ==
    [record EXCEPT !.life = "draining", !.stop = FALSE, !.process = NoProcess,
                   !.worker = IF record.worker = "absent" THEN "absent" ELSE "over"]

-----------------------------------------------------------------------------
(* The session and its epochs *)

\* The oldest named epoch is the active one, the other its replacement.
Youngest(es) == CHOOSE e \in es : \A f \in es : f[2] <= e[2]
Oldest(es) == CHOOSE e \in es : \A f \in es : e[2] <= f[2]

\* create_session: the initial epoch and its queued worker.
OpenSession(s) ==
    /\ session[s].life = "new"
    /\ session' = [session EXCEPT ![s].life = "open"]
    /\ epoch' = EnsureWorkers(s, FALSE,
                              [epoch EXCEPT ![<<s, 1>>].life = "named"], thread)
    /\ UNCHANGED <<thread, parks, samples, revivals>>

\* A seek, an audio candidate or a recovery creates a replacement epoch.
CreateReplacement(s) ==
    /\ session[s].life = "open"
    /\ Cardinality(Named(s)) = 1
    /\ \E n \in 2..MaxEpochs :
        /\ epoch[<<s, n>>].life = "none"
        /\ epoch[<<s, n - 1>>].life # "none"
        /\ epoch' = Ensured(s, [epoch EXCEPT ![<<s, n>>].life = "named"])
    /\ UNCHANGED <<session, thread, parks, samples, revivals>>

\* The replacement is promoted: the active epoch drains, its process is ended.
\* A refresh promotes and goes on to the workers; an audio commit stops there.
Promote(s) ==
    /\ session[s].life = "open"
    /\ Cardinality(Named(s)) = 2
    /\ ~epoch[Youngest(Named(s))].failed
    /\ LET e == Oldest(Named(s))
           threads == Ended({e})
           epochs == [epoch EXCEPT ![e] = Drained(epoch[e])]
       IN  /\ thread' = threads
           /\ \/ epoch' = EnsureWorkers(s, session[s].parked, epochs, threads)
              \/ epoch' = epochs
    /\ UNCHANGED <<session, parks, samples, revivals>>

\* The replacement is dropped or superseded, or the drain of an epoch is over.
Discard(s) ==
    /\ session[s].life = "open"
    /\ \E e \in Of(s) :
        /\ \/ epoch[e].life = "draining"
           \/ Cardinality(Named(s)) = 2 /\ e = Youngest(Named(s))
        /\ LET threads == Ended({e})
           IN  /\ thread' = threads
               /\ epoch' = EnsureWorkers(s, session[s].parked,
                               [epoch EXCEPT ![e] = Discarded], threads)
    /\ UNCHANGED <<session, parks, samples, revivals>>

\* Any request or pass of the manager that refreshes the session.
Poll(s) ==
    /\ session[s].life = "open"
    /\ epoch' = Ensured(s, epoch)
    /\ UNCHANGED <<session, thread, parks, samples, revivals>>

\* The refresh takes a failed active epoch for warming because it still has its
\* worker id, and queues the worker again.
Revive(s) ==
    /\ session[s].life = "open"
    /\ revivals < MaxRevivals
    /\ LET e == Oldest(Named(s))
       IN  /\ epoch[e].failed
           /\ epoch[e].worker # "absent"
           /\ epoch' = Ensured(s, [epoch EXCEPT ![e].failed = FALSE])
    /\ revivals' = revivals + 1
    /\ UNCHANGED <<session, thread, parks, samples>>

\* stop_session, an invalidation, the expiry of an idle session or shutdown
\* take the session out of the table; its epochs are ended afterwards.
Leave(s) ==
    /\ session[s].life = "open"
    /\ session' = [session EXCEPT ![s].life = "closing"]
    /\ UNCHANGED <<epoch, thread, parks, samples, revivals>>

\* _terminate_session; the record of a draining epoch is not found any more.
Terminate(s) ==
    /\ session[s].life = "closing"
    /\ session' = [session EXCEPT ![s].life = "closed"]
    /\ epoch' = [e \in Epochs |->
                    IF e \in Named(s) THEN Discarded ELSE epoch[e]]
    /\ thread' = Ended(Of(s))
    /\ UNCHANGED <<parks, samples, revivals>>

-----------------------------------------------------------------------------
(* Parking *)

\* _maybe_park_backgrounded_route2_session_locked, when the client has been in
\* the background for the grace period: nothing ends the running process.
Park(s) ==
    /\ session[s].life = "open"
    /\ ~session[s].parked
    /\ parks < MaxParks
    /\ session' = [session EXCEPT ![s].parked = TRUE]
    /\ epoch' = [e \in Epochs |->
                    IF e[1] # s \/ epoch[e].worker = "absent" THEN epoch[e]
                    ELSE [epoch[e] EXCEPT
                            !.stop = TRUE,
                            !.worker = CASE @ = "queued" -> "paused"
                                         [] @ = "running" -> "stopping"
                                         [] OTHER -> @]]
    /\ parks' = parks + 1
    /\ UNCHANGED <<thread, samples, revivals>>

\* The client says "background-parked" itself: the records stay as they are.
ClientParks(s) ==
    /\ session[s].life = "open"
    /\ ~session[s].parked
    /\ parks < MaxParks
    /\ session' = [session EXCEPT ![s].parked = TRUE]
    /\ parks' = parks + 1
    /\ UNCHANGED <<epoch, thread, samples, revivals>>

\* A record that is stopping has been started and is not finished.
Resumed(record) ==
    [record EXCEPT !.stop = FALSE,
                   !.worker = CASE @ = "paused" -> "queued"
                                [] @ = "stopping" -> "running"
                                [] OTHER -> @]

\* The client is back: update_runtime with "resuming" or "attached".
Resume(s) ==
    /\ session[s].life = "open"
    /\ session[s].parked
    /\ session' = [session EXCEPT ![s].parked = FALSE]
    /\ epoch' = EnsureWorkers(s, FALSE,
                    [e \in Epochs |->
                        IF e[1] = s /\ epoch[e].worker # "absent"
                        THEN Resumed(epoch[e]) ELSE epoch[e]], thread)
    /\ UNCHANGED <<thread, parks, samples, revivals>>

-----------------------------------------------------------------------------
(* The dispatch pass *)

Running == {e \in Epochs : epoch[e].worker = "running"}

\* The cores of es, amount[e] of each: a set, so that they can be counted.
Cores(amount, es) == {c \in es \X (1..MaxWorkerThreads) : c[2] <= amount[c[1]]}
CoresOf(es) == Cardinality(Cores([e \in es |-> epoch[e].threads], es))

\* Queued records whose session and epoch still exist.
Waiting ==
    {e \in Epochs : epoch[e].worker = "queued" /\ Open(e) /\ epoch[e].life = "named"}

Older(e, f) ==
    \/ epoch[e].created < epoch[f].created
    \/ epoch[e].created = epoch[f].created /\ e[2] < f[2]

\* The loop serves one record per user and round, in the order of the records.
Round(e) == Cardinality({f \in Waiting : f[1] = e[1] /\ Older(f, e)})
\* Mutant: the youngest first.
ServedBeforeReversed(e, f) ==
    Round(e) < Round(f) \/ (Round(e) = Round(f) /\ Older(f, e))

ServedBefore(e, f) == Round(e) < Round(f) \/ (Round(e) = Round(f) /\ Older(e, f))

\* per_user_budget_cores: users with a queued or a running record share.
Share ==
    LET users == {e[1] : e \in {f \in Epochs : epoch[f].worker \in {"queued", "running"}}}
    IN  Larger(1, TotalBudget \div Cardinality(users))

\* Mutant: threads granted in this pass are not counted.
LeftAtStart(g, e) ==
    Smaller(TotalBudget - CoresOf(Running),
            Share - CoresOf({f \in Running : f[1] = e[1]}))

\* What is left of the budget and of the user's share when the loop comes to e
\* and has granted g to the records before it.
Left(g, e) ==
    LET before == {f \in DOMAIN g : ServedBefore(f, e)}
        granted(es) == Cardinality(Cores(g, es))
        mine(es) == {f \in es : f[1] = e[1]}
    IN  Smaller(TotalBudget - CoresOf(Running) - granted(before),
                Share - CoresOf(mine(Running)) - granted(mine(before)))

Grant(g, e) ==
    IF Left(g, e) < MinWorkerThreads THEN 0 ELSE Smaller(MaxWorkerThreads, Left(g, e))

\* _dispatch_waiting_route2_workers_locked: every granted record becomes
\* running and gets a thread of its own.
Dispatch ==
    LET ready == {e \in Waiting : ~session[e[1]].parked}
    IN  \E g \in [ready -> 0..MaxWorkerThreads] :
            /\ \A e \in ready : g[e] = Grant(g, e)
            /\ \E e \in ready : g[e] > 0
            /\ \E k \in [ready -> Spawns] :
                /\ \A e \in ready : g[e] > 0 =>
                    /\ thread[<<e, k[e]>>].phase = "unused"
                    /\ \A j \in 1..(k[e] - 1) : thread[<<e, j>>].phase # "unused"
                /\ \A e \in ready : g[e] = 0 => k[e] = 1
                /\ epoch' = [e \in Epochs |->
                                IF e \in ready /\ g[e] > 0
                                THEN [epoch[e] EXCEPT !.worker = "running",
                                                      !.threads = g[e]]
                                ELSE epoch[e]]
                /\ thread' = [t \in DOMAIN thread |->
                                IF t[1] \in ready /\ g[t[1]] > 0 /\ k[t[1]] = t[2]
                                THEN [thread[t] EXCEPT !.phase = "begun"]
                                ELSE thread[t]]
            /\ UNCHANGED <<session, parks, samples, revivals>>

-----------------------------------------------------------------------------
(* The worker thread t = <<epoch, k>> *)

\* The session is in the table and the epoch in the session.
Found(e) == Open(e) /\ epoch[e].life \in {"named", "draining"}

\* Mutant: only the session is looked up, not the epoch.
MineBySession(e) == Open(e)

\* The epoch still has the worker id of the thread.
Mine(e) == Open(e) /\ epoch[e].life = "named"

\* The thread has ended; a process of its own has ended or is ended now.
Done == [phase |-> "done", budget |-> 0, alive |-> FALSE]

\* The thread gives up; its worker's record is removed.
GiveUp(t) ==
    /\ thread' = [thread EXCEPT ![t] = Done]
    /\ epoch' = [epoch EXCEPT ![t[1]].worker = "absent"]

\* The epoch has failed; the thread ends.  A draining epoch has no worker id.
Fail(t, process) ==
    LET e == t[1]
        threads == [thread EXCEPT ![t] = Done]
        over == IF epoch[e].life = "named" THEN "over" ELSE epoch[e].worker
    IN  /\ thread' = threads
        /\ epoch' = EnsureWorkers(e[1], session[e[1]].parked,
                [epoch EXCEPT ![e].failed = TRUE, ![e].worker = over,
                              ![e].process = process], threads)

\* First section of _run_route2_epoch_worker: the command is built.
Begin(t) ==
    /\ thread[t].phase = "begun"
    /\ \/ ~Mine(t[1]) /\ GiveUp(t)
       \/ Mine(t[1]) /\ Fail(t, epoch[t[1]].process)
       \/ /\ Mine(t[1])
          /\ thread' = [thread EXCEPT
                ![t].phase = "spawning",
                ![t].budget = Larger(MinWorkerThreads, epoch[t[1]].threads)]
          /\ UNCHANGED epoch
    /\ UNCHANGED <<session, parks, samples, revivals>>

\* Popen, outside the lock.
Spawn(t) ==
    /\ thread[t].phase = "spawning"
    /\ thread' = [thread EXCEPT ![t].phase = "spawned", ![t].alive = TRUE]
    /\ UNCHANGED <<session, epoch, parks, samples, revivals>>

\* Popen fails: the section that records it looks the epoch up, not its worker.
SpawnFails(t) ==
    /\ thread[t].phase = "spawning"
    /\ \/ ~Found(t[1]) /\ GiveUp(t)
       \/ Found(t[1]) /\ Fail(t, epoch[t[1]].process)
    /\ UNCHANGED <<session, parks, samples, revivals>>

\* Second section: the process is registered, or ended when it came too late.
Register(t) ==
    LET e == t[1]
    IN  /\ thread[t].phase = "spawned"
        /\ \/ ~Mine(e) /\ GiveUp(t)
           \/ /\ Mine(e)
              /\ thread' = [thread EXCEPT ![t].phase = "watching"]
              /\ epoch' = [epoch EXCEPT ![e].process = t[2],
                                        ![e].worker = "running",
                                        ![e].threads = thread[t].budget]
        /\ UNCHANGED <<session, parks, samples, revivals>>

\* ffmpeg ends, whatever its exit code.
ProcessExits(t) ==
    /\ thread[t].alive
    /\ thread' = [thread EXCEPT ![t].alive = FALSE]
    /\ UNCHANGED <<session, epoch, parks, samples, revivals>>

\* Last section, when the wait for the process is over: it does not ask whether
\* the epoch's process is the thread's own.  An active epoch that failed is
\* marked draining by the refresh that follows.
Finish(t) ==
    LET e == t[1]
        threads == [thread EXCEPT ![t] = Done]
        stopped == epoch[e].stop \/ epoch[e].life = "draining" \/ epoch[e].failed
        over == IF epoch[e].life = "named" THEN "over" ELSE epoch[e].worker
    IN  /\ thread[t].phase = "watching"
        /\ ~thread[t].alive
        /\ \/ ~Found(e) /\ GiveUp(t)
           \/ Found(e) /\ ~stopped /\ Fail(t, NoProcess)
           \/ /\ Found(e)
              /\ thread' = threads
              /\ epoch' = EnsureWorkers(e[1], session[e[1]].parked,
                    [epoch EXCEPT ![e].process = NoProcess, ![e].worker = over,
                                  ![e].stop = FALSE,
                                  ![e].completed = @ \/ ~stopped], threads)
        /\ UNCHANGED <<session, parks, samples, revivals>>

\* A telemetry pass, or an administrator's look at the workers, finds a running
\* record whose process has ended or, past the grace, was never registered: the
\* thread may wait for the lock while _terminate_route2_epoch_locked holds it
\* for seconds, and a record that was queued again keeps its first started_at.
Sample(e) ==
    /\ samples < MaxSamples
    /\ epoch[e].worker = "running"
    /\ ~Encoding(epoch[e], thread, e)
    /\ epoch' = [epoch EXCEPT ![e].worker = "over"]
    /\ samples' = samples + 1
    /\ UNCHANGED <<session, thread, parks, revivals>>

-----------------------------------------------------------------------------
ThreadStep(t) ==
    Begin(t) \/ Spawn(t) \/ SpawnFails(t) \/ Register(t) \/ ProcessExits(t) \/ Finish(t)

Next ==
    \/ \E s \in Sessions :
        \/ OpenSession(s) \/ CreateReplacement(s) \/ Promote(s) \/ Discard(s)
        \/ Poll(s) \/ Revive(s) \/ Leave(s) \/ Terminate(s)
        \/ Park(s) \/ ClientParks(s) \/ Resume(s)
    \/ Dispatch
    \/ \E t \in Epochs \X Spawns : ThreadStep(t)
    \/ \E e \in Epochs : Sample(e)

Spec == Init /\ [][Next]_vars

\* The manager dispatches every second, refreshes every session, ends the
\* sessions it took out; threads run on and ffmpeg reaches the end of its input.
FairSpec ==
    /\ Spec
    /\ WF_vars(Dispatch)
    /\ \A s \in Sessions : WF_vars(Poll(s)) /\ WF_vars(Terminate(s))
    /\ \A t \in Epochs \X Spawns :
        /\ WF_vars(Begin(t)) /\ WF_vars(Spawn(t) \/ SpawnFails(t))
        /\ WF_vars(Register(t)) /\ WF_vars(ProcessExits(t)) /\ WF_vars(Finish(t))

-----------------------------------------------------------------------------
(* Properties *)

Encoders == {t \in Epochs \X Spawns : thread[t].alive}
Watched == {t \in Encoders : thread[t].phase = "watching"}

\* A registered ffmpeg is the one its epoch knows and ends with: when the epoch
\* is discarded, promoted out or its session terminated, no encoder of it is
\* left.  _invalidate_sessions, stop_session and every seek rely on it.  Once
\* telemetry has marked a worker interrupted whose thread is still there, a
\* second thread can start for it, and one of the two encoders stays behind.
NoOrphanEncoder ==
    samples = 0 => \A t \in Watched :
        /\ session[t[1][1]].life \in {"open", "closing"}
        /\ epoch[t[1]].life = "named"
        /\ epoch[t[1]].process = t[2]

\* Two ffmpeg processes never write the staging directory of one epoch, however
\* parking, dispatching and the sections of the threads interleave, unless
\* telemetry has given up a worker whose thread is still there.
OneEncoderPerEpoch ==
    samples = 0 => \A t, u \in Encoders : t[1] = u[1] => t = u

\* As long as nobody has parked (a parked encoder runs on while its cores go to
\* others) and telemetry has given up no worker, the registered encoders together
\* were granted no more than the budget (README.md: the engine is capped at a
\* percentage of the host's CPU).
EncodersWithinBudget ==
    parks = 0 /\ samples = 0 =>
        Cardinality(Cores([t \in Watched |-> thread[t].budget], Watched)) <= TotalBudget

\* The dispatch pass serves no user's record before the oldest record of
\* another user, unless that user has used up its share; and nothing but the pass
\* starts a queued record, until telemetry has given up a worker that still runs.
OldestFirst ==
    [][samples = 0 => \A e, f \in Waiting :
        (/\ epoch'[e].worker = "running" /\ epoch'[f].worker = "queued"
         /\ Round(e) = 0 /\ Round(f) = 0
         /\ session[f[1]] = [life |-> "open", parked |-> FALSE])
        => \/ Older(e, f)
           \/ Share - CoresOf({x \in Running : x[1] = f[1]}) < MinWorkerThreads]_vars

\* Every epoch a session names is encoded to its end or fails, is given up by
\* its session, or waits because the client parked it: no record is forgotten
\* by the queue, the pauses or the pass.
EncodersConclude ==
    \A e \in Epochs :
        (epoch[e].life = "named")
            ~> \/ epoch[e].life # "named" \/ ~Open(e) \/ session[e[1]].parked
               \/ epoch[e].completed \/ epoch[e].failed
=============================================================================
