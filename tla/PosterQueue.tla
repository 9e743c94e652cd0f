---------------------------- MODULE PosterQueue ----------------------------
(***************************************************************************)
(* The poster derivative manager (services/poster_derivative_manager.py):  *)
(* requests and prewarms share one job per poster, a dispatcher hands jobs *)
(* to a pool of executor threads, and a thread that has generated a poster *)
(* answers everybody who waits for it, one future after the other.         *)
(*                                                                         *)
(* A waiter stands for one future.  "idle" covers a future that was never  *)
(* handed out as well as one that has its answer: what the answer was      *)
(* makes no difference here, and a poster found in the cache is answered   *)
(* without a step.                                                         *)
(***************************************************************************)
EXTENDS Naturals, Sequences, FiniteSets

CONSTANTS
    Keys,          \* posters, one for each job key
    Requests,      \* futures of poster requests; their client may go away
    Prewarms,      \* futures of prewarms; nobody waits for them
    Threads,       \* executor threads, ELVERN_POSTER_GENERATION_WORKERS
    QueueMax,      \* ELVERN_POSTER_GENERATION_QUEUE_MAX
    BurstLimit,    \* POSTER_REQUESTED_BURST_LIMIT
    Asked,         \* priorities requests come with
    NoJob, NoKey, Nobody

Requested == 0
Normal == 1
Prewarm == 2

ASSUME PosterConstants ==
    /\ Requests \cap Prewarms = {}
    /\ Nobody \notin Requests \cup Prewarms
    /\ NoKey \notin Keys
    /\ QueueMax \in Nat \ {0}
    /\ BurstLimit \in Nat \ {0}
    /\ Asked \subseteq {Requested, Normal}
    /\ IsFiniteSet(Threads)

Waiters == Requests \cup Prewarms

Jobs == [priority : {Requested, Normal, Prewarm}, prewarm : BOOLEAN,
         waiters : SUBSET Waiters, started : BOOLEAN]
ASSUME NoJobIsNone == NoJob \notin Jobs

VARIABLES
    \* the manager, behind its condition
    jobs,              \* _jobs
    queued,            \* keys of _queued, oldest first
    active,            \* _active_workers
    burst,             \* _requested_burst
    interactive,       \* the interactive window is open
    stopping,          \* _stopping
    \* the dispatcher and the executor
    dispatching,       \* the dispatcher thread is alive
    executorUp,        \* the executor takes submissions
    submitted,         \* keys the executor has not started
    generating,        \* per thread: the key it generates
    left,              \* per thread: waiters it still has to answer
    checked,           \* per thread: the waiter that was not done() yet
    aborted,           \* some thread stopped answering half way
    \* the futures
    waiter,            \* per waiter: "idle", "pending" or "cancelled"
    wanted             \* per waiter: the key it asked for

manager == <<jobs, queued, active, burst, interactive, stopping>>
executor == <<executorUp, submitted, generating, left, checked, aborted>>
futures == <<waiter, wanted>>
posterVars == <<manager, dispatching, executor, futures>>

PosterTypeOK ==
    /\ jobs \in [Keys -> Jobs \cup {NoJob}]
    /\ queued \in Seq(Keys)
    /\ active \in 0..Cardinality(Threads)
    /\ burst \in Nat
    /\ interactive \in BOOLEAN
    /\ stopping \in BOOLEAN
    /\ dispatching \in BOOLEAN
    /\ executorUp \in BOOLEAN
    /\ submitted \in Seq(Keys)
    /\ generating \in [Threads -> Keys \cup {NoKey}]
    /\ left \in [Threads -> SUBSET Waiters]
    /\ checked \in [Threads -> Waiters \cup {Nobody}]
    /\ aborted \in BOOLEAN
    /\ waiter \in [Waiters -> {"idle", "pending", "cancelled"}]
    /\ wanted \in [Waiters -> Keys]

PosterInit ==
    /\ jobs = [k \in Keys |-> NoJob]
    /\ queued = <<>>
    /\ active = 0
    /\ burst = 0
    /\ interactive = FALSE
    /\ stopping = FALSE
    /\ dispatching = TRUE
    /\ executorUp = TRUE
    /\ submitted = <<>>
    /\ generating = [t \in Threads |-> NoKey]
    /\ left = [t \in Threads |-> {}]
    /\ checked = [t \in Threads |-> Nobody]
    /\ aborted = FALSE
    /\ waiter = [w \in Waiters |-> "idle"]
    /\ wanted \in [Waiters -> Keys]

Exists(k) == jobs[k] # NoJob
Queued == {queued[i] : i \in DOMAIN queued}
QueuedAt(p) == {i \in DOMAIN queued : jobs[queued[i]].priority = p}
Without(q, i) == SubSeq(q, 1, i - 1) \o SubSeq(q, i + 1, Len(q))
IndexOf(k) == CHOOSE i \in DOMAIN queued : queued[i] = k
FirstQueued(S) == CHOOSE i \in S : \A j \in S : i <= j
LastQueued(S) == CHOOSE i \in S : \A j \in S : j <= i

\* Waiter w stands for a new future once nothing refers to the old one.
Fresh(w) ==
    /\ waiter[w] = "idle"
    /\ \A t \in Threads : w \notin left[t] /\ w # checked[t]

-----------------------------------------------------------------------------
(* submit_result, one locked section *)

\* The job exists: wait for it, and raise its priority unless it has started.
Join(w, k, p) ==
    /\ Exists(k)
    /\ LET job == jobs[k]
           raised == ~job.started /\ p < job.priority
       IN jobs' = [jobs EXCEPT ![k] =
              [job EXCEPT !.waiters = @ \cup {w},
                          !.priority = IF raised THEN p ELSE @,
                          !.prewarm = IF raised THEN @ /\ p = Prewarm ELSE @]]
    /\ waiter' = [waiter EXCEPT ![w] = "pending"]
    /\ UNCHANGED queued

NewJob(w, p) ==
    [priority |-> p, prewarm |-> p = Prewarm, waiters |-> {w}, started |-> FALSE]

Enqueue(w, k, p) ==
    /\ ~Exists(k)
    /\ Len(queued) < QueueMax
    /\ jobs' = [jobs EXCEPT ![k] = NewJob(w, p)]
    /\ queued' = Append(queued, k)
    /\ waiter' = [waiter EXCEPT ![w] = "pending"]

\* Variant: the waiters of the dropped prewarm are forgotten.
EnqueueForgetting(w, k, p) ==
    /\ ~Exists(k)
    /\ Len(queued) >= QueueMax
    /\ p # Prewarm
    /\ QueuedAt(Prewarm) # {}
    /\ LET i == LastQueued(QueuedAt(Prewarm))
       IN /\ jobs' = [jobs EXCEPT ![queued[i]] = NoJob, ![k] = NewJob(w, p)]
          /\ queued' = Append(Without(queued, i), k)
          /\ waiter' = [waiter EXCEPT ![w] = "pending"]

\* The queue is full: the prewarm queued last makes room for a request, and
\* whoever waits for it gets the error.
EnqueueDropping(w, k, p) ==
    /\ ~Exists(k)
    /\ Len(queued) >= QueueMax
    /\ p # Prewarm
    /\ QueuedAt(Prewarm) # {}
    /\ LET i == LastQueued(QueuedAt(Prewarm))
           dropped == jobs[queued[i]].waiters
       IN /\ jobs' = [jobs EXCEPT ![queued[i]] = NoJob, ![k] = NewJob(w, p)]
          /\ queued' = Append(Without(queued, i), k)
          /\ waiter' = [v \in Waiters |->
                IF v = w THEN "pending"
                ELSE IF v \in dropped /\ waiter[v] = "pending" THEN "idle"
                ELSE waiter[v]]

\* A rejected request is answered at once, which is no step of the manager.
Submit(w, k, p) ==
    /\ ~stopping
    /\ Fresh(w)
    /\ Join(w, k, p) \/ Enqueue(w, k, p) \/ EnqueueDropping(w, k, p)
    /\ wanted' = [wanted EXCEPT ![w] = k]
    /\ UNCHANGED <<active, burst, interactive, stopping, dispatching, executor>>

\* get_poster asks with Asked, prewarm with PREWARM.
Ask(w, k) == w \in Requests /\ \E p \in Asked : Submit(w, k, p)
Warm(w, k) == w \in Prewarms /\ Submit(w, k, Prewarm)

\* A client goes away: its future is cancelled, outside any lock.
Cancel(w) ==
    /\ w \in Requests
    /\ waiter[w] = "pending"
    /\ waiter' = [waiter EXCEPT ![w] = "cancelled"]
    /\ UNCHANGED <<manager, dispatching, executor, wanted>>

\* Variant: a started job that nobody waits for any more is forgotten as well.
WaiterDoneForgetting(w) ==
    /\ waiter[w] = "cancelled"
    /\ waiter' = [waiter EXCEPT ![w] = "idle"]
    /\ LET k == wanted[w]
           job == jobs[k]
       IN IF ~Exists(k) THEN UNCHANGED <<jobs, queued>>
          ELSE IF job.waiters \subseteq {w} /\ ~job.prewarm
          THEN /\ jobs' = [jobs EXCEPT ![k] = NoJob]
               /\ queued' = IF k \in Queued THEN Without(queued, IndexOf(k))
                                            ELSE queued
          ELSE /\ jobs' = [jobs EXCEPT ![k].waiters = @ \ {w}]
               /\ UNCHANGED queued
    /\ UNCHANGED <<active, burst, interactive, stopping, dispatching, executor,
                   wanted>>

\* _handle_waiter_done, the callback of the cancelled future: an unstarted job
\* that nobody waits for any more is taken out of the queue.
WaiterDone(w) ==
    /\ waiter[w] = "cancelled"
    /\ waiter' = [waiter EXCEPT ![w] = "idle"]
    /\ LET k == wanted[w]
           job == jobs[k]
       IN IF ~Exists(k) THEN UNCHANGED <<jobs, queued>>
          ELSE IF ~job.started /\ job.waiters \subseteq {w} /\ ~job.prewarm
          THEN /\ jobs' = [jobs EXCEPT ![k] = NoJob]
               /\ queued' = IF k \in Queued THEN Without(queued, IndexOf(k))
                                            ELSE queued
          ELSE /\ jobs' = [jobs EXCEPT ![k].waiters = @ \ {w}]
               /\ UNCHANGED queued
    /\ UNCHANGED <<active, burst, interactive, stopping, dispatching, executor,
                   wanted>>

-----------------------------------------------------------------------------
(* The dispatcher *)

\* _eligible_jobs_locked, as positions in the queue
Eligible == IF interactive /\ ~stopping THEN QueuedAt(Requested) ELSE DOMAIN queued

\* _take_next_job_locked: after a burst of requested jobs a normal one is due.
NextJob ==
    LET normal == Eligible \cap QueuedAt(Normal)
        urgent == {i \in Eligible : \A j \in Eligible :
                      jobs[queued[i]].priority <= jobs[queued[j]].priority}
    IN IF burst >= BurstLimit /\ normal # {} THEN FirstQueued(normal) ELSE FirstQueued(urgent)

\* The counter is only ever compared with the limit: the model stops it there.
BurstAfter(p) ==
    CASE p = Requested -> IF burst < BurstLimit THEN burst + 1 ELSE burst
      [] p = Normal    -> 0
      [] OTHER         -> burst

\* One turn of _dispatch_loop that finds a job; an executor that was shut down
\* raises, which ends the dispatcher.
DispatchJob ==
    /\ dispatching
    /\ active < Cardinality(Threads)
    /\ Eligible # {}
    /\ LET i == NextJob
           k == queued[i]
       IN /\ queued' = Without(queued, i)
          /\ jobs' = [jobs EXCEPT ![k].started = TRUE]
          /\ burst' = BurstAfter(jobs[k].priority)
          /\ submitted' = IF executorUp THEN Append(submitted, k) ELSE submitted
    /\ active' = active + 1
    /\ dispatching' = executorUp
    /\ UNCHANGED <<interactive, stopping, executorUp, generating, left, checked,
                   aborted, futures>>

DispatcherEnds ==
    /\ dispatching
    /\ stopping
    /\ queued = <<>>
    /\ active = 0
    /\ dispatching' = FALSE
    /\ UNCHANGED <<manager, executor, futures>>

-----------------------------------------------------------------------------
(* The executor threads *)

Free(t) == generating[t] = NoKey /\ left[t] = {} /\ checked[t] = Nobody

Generate(t) ==
    /\ Free(t)
    /\ submitted # <<>>
    /\ generating' = [generating EXCEPT ![t] = Head(submitted)]
    /\ submitted' = Tail(submitted)
    /\ UNCHANGED <<manager, dispatching, executorUp, left, checked, aborted, futures>>

\* Variant: the worker is not given back.
FinishJobKeepsWorker(t) ==
    LET k == generating[t]
    IN /\ k # NoKey
       /\ generating' = [generating EXCEPT ![t] = NoKey]
       /\ left' = [left EXCEPT ![t] = jobs[k].waiters]
       /\ jobs' = [jobs EXCEPT ![k] = NoJob]
       /\ UNCHANGED <<queued, active, burst, interactive, stopping, dispatching,
                      executorUp, submitted, checked, aborted, futures>>

\* _finish_job, its locked section: result or error, the job is over.
FinishJob(t) ==
    LET k == generating[t]
    IN /\ k # NoKey
       /\ generating' = [generating EXCEPT ![t] = NoKey]
       /\ left' = [left EXCEPT ![t] = jobs[k].waiters]
       /\ jobs' = [jobs EXCEPT ![k] = NoJob]
       /\ active' = active - 1
       /\ UNCHANGED <<queued, burst, interactive, stopping, dispatching,
                      executorUp, submitted, checked, aborted, futures>>

\* The loop over the waiters, outside the lock: done() is asked first ...
CheckWaiter(t) ==
    /\ checked[t] = Nobody
    /\ \E w \in left[t] :
          /\ left' = [left EXCEPT ![t] = @ \ {w}]
          /\ checked' = [checked EXCEPT ![t] = IF waiter[w] = "pending" THEN w ELSE Nobody]
    /\ UNCHANGED <<manager, dispatching, executorUp, submitted, generating,
                   aborted, futures>>

\* ... and then the result is set.  set_result on a future that was cancelled in
\* between raises InvalidStateError, which ends the loop.
AnswerWaiter(t) ==
    /\ checked[t] # Nobody
    /\ IF waiter[checked[t]] = "pending"
       THEN /\ waiter' = [waiter EXCEPT ![checked[t]] = "idle"]
            /\ UNCHANGED <<left, aborted>>
       ELSE /\ left' = [left EXCEPT ![t] = {}]
            /\ aborted' = TRUE
            /\ UNCHANGED waiter
    /\ checked' = [checked EXCEPT ![t] = Nobody]
    /\ UNCHANGED <<manager, dispatching, executorUp, submitted, generating, wanted>>

-----------------------------------------------------------------------------
(* The interactive window and the shutdown *)

EnterInteractiveWindow ==
    /\ ~interactive
    /\ ~stopping
    /\ interactive' = TRUE
    /\ UNCHANGED <<jobs, queued, active, burst, stopping, dispatching, executor, futures>>

InteractiveWindowEnds ==
    /\ interactive
    /\ interactive' = FALSE
    /\ UNCHANGED <<jobs, queued, active, burst, stopping, dispatching, executor, futures>>

Shutdown ==
    /\ ~stopping
    /\ stopping' = TRUE
    /\ UNCHANGED <<jobs, queued, active, burst, interactive, dispatching, executor, futures>>

\* shutdown goes on when the dispatcher has ended, or after ten seconds anyway.
ShutdownExecutor ==
    /\ stopping
    /\ executorUp
    /\ executorUp' = FALSE
    /\ UNCHANGED <<manager, dispatching, submitted, generating, left, checked,
                   aborted, futures>>

ExecutorStep(t) == Generate(t) \/ FinishJob(t) \/ CheckWaiter(t) \/ AnswerWaiter(t)

PosterNext ==
    \/ \E w \in Waiters, k \in Keys : Ask(w, k) \/ Warm(w, k)
    \/ \E w \in Waiters : Cancel(w) \/ WaiterDone(w)
    \/ DispatchJob
    \/ DispatcherEnds
    \/ \E t \in Threads : ExecutorStep(t)
    \/ EnterInteractiveWindow
    \/ InteractiveWindowEnds
    \/ Shutdown
    \/ ShutdownExecutor

PosterSpec == PosterInit /\ [][PosterNext]_posterVars

\* The dispatcher polls, executor threads and callbacks run, the window closes
\* by the clock.  Clients, prewarms and the shutdown owe nothing.
PosterFairness ==
    /\ WF_posterVars(DispatchJob)
    /\ WF_posterVars(DispatcherEnds)
    /\ WF_posterVars(InteractiveWindowEnds)
    /\ \A t \in Threads : WF_posterVars(ExecutorStep(t))
    /\ \A w \in Waiters : WF_posterVars(WaiterDone(w))

FairPosterSpec == PosterSpec /\ PosterFairness

-----------------------------------------------------------------------------
(* Properties *)

\* A poster is generated by one thread at a time, however requests, cancelled
\* clients and new requests for the same poster follow each other (_jobs keeps
\* a started job until _finish_job).
SingleFlight ==
    \A t, u \in Threads : generating[t] # NoKey /\ generating[t] = generating[u] => t = u

\* A future without an answer is known to a job or to a thread that will answer
\* it, unless a thread stopped half way (submit_result, _drop_queued_prewarm_locked,
\* _finish_job).
NoForgottenWaiter ==
    \A w \in Waiters : waiter[w] = "pending" =>
        \/ Exists(wanted[w]) /\ w \in jobs[wanted[w]].waiters
        \/ \E t \in Threads : w \in left[t] \/ w = checked[t]
        \/ aborted

\* Every request is answered once the interactive windows cease, whatever is
\* cancelled, dropped or joined meanwhile (_dispatch_loop, _finish_job), unless
\* a thread stopped half way or the executor is shut down.
RequestsServed ==
    <>[](~interactive) => \A w \in Requests :
        waiter[w] = "pending" ~> (waiter[w] # "pending" \/ aborted \/ ~executorUp)

=============================================================================
