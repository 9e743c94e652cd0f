---------------------------- MODULE LibraryScan ----------------------------
(***************************************************************************)
(* The local library scanner (services/scan_service.py over media_scan.py):*)
(* request threads that start scans or probe the library's freshness, the  *)
(* single background scan, and the settings rows that survive a restart.   *)
(*                                                                         *)
(* A thread is named by the request it serves; the scan it starts carries  *)
(* the same name, so scan[t] outlives the request pc[t].                   *)
(***************************************************************************)
EXTENDS Naturals, FiniteSets

CONSTANTS
    Entries,         \* top-level entries a library root may hold
    RequestThreads,  \* threads that serve requests
    Main,            \* the thread that runs the application's startup hook
    Unlocked,        \* nobody holds a lock
    NoSnapshot,      \* no freshness snapshot stored yet
    Cooldown,        \* probe cooldown, in ticks
    MaxChanges,      \* bound: changes of the disk
    MaxFailures,     \* bound: scans that raise and threads that cannot start
    MaxCrashes       \* bound: process deaths

ASSUME ScanConstants ==
    /\ Main \notin RequestThreads
    /\ Unlocked \notin RequestThreads \cup {Main}
    /\ Cooldown \in Nat \ {0}
    /\ MaxChanges \in Nat
    /\ MaxFailures \in Nat
    /\ MaxCrashes \in Nat

Callers == RequestThreads \cup {Main}

Snapshots == [ready : BOOLEAN, entries : SUBSET Entries]
ASSUME NoSnapshotIsNone == NoSnapshot \notin Snapshots

RequestPhases == {"idle", "check", "sample", "compare", "acquire", "start"}
ScanPhases == {"none", "walk", "commit", "snapshot", "report", "release"}

VARIABLES
    disk, mounted,            \* the library root, outside the program
    catalog,                  \* media_items rows, reduced to their top-level entry
    stored,                   \* app setting local_library_freshness_snapshot
    cooling,                  \* ticks until the next probe may look at the disk
    phase,                    \* "down", "starting" or "up"
    jobLock, probeLock,       \* _job_lock and _probe_lock: Unlocked or the holder
    running,                  \* _state["running"]
    pc, sampled,              \* per caller: position in the request, snapshot it built
    scan, walked,             \* per caller: position of its scan, entries it walked
    unstarted,                \* history: a thread could not start in this process
    changes, failures, crashes

environment == <<disk, mounted, changes>>
settings == <<stored, cooling>>
volatile == <<phase, jobLock, probeLock, running, pc, sampled, scan, walked,
             unstarted>>
scanVars == <<environment, settings, catalog, volatile, failures, crashes>>

\* build_local_library_freshness_snapshot: the state of the roots right now
CurrentSnapshot == [ready |-> mounted, entries |-> IF mounted THEN disk ELSE {}]
NothingSampled == [ready |-> FALSE, entries |-> {}]

\* _should_enqueue_local_library_scan: is the library worth a scan?
ShouldScan(previous, current) ==
    \/ previous = NoSnapshot
    \/ ~previous.ready
    \/ ~current.ready
    \/ previous.entries # current.entries

ScanTypeOK ==
    /\ disk \in SUBSET Entries
    /\ mounted \in BOOLEAN
    /\ catalog \in SUBSET Entries
    /\ stored \in Snapshots \cup {NoSnapshot}
    /\ cooling \in 0..Cooldown
    /\ phase \in {"down", "starting", "up"}
    /\ jobLock \in Callers \cup {Unlocked}
    /\ probeLock \in RequestThreads \cup {Unlocked}
    /\ running \in BOOLEAN
    /\ pc \in [Callers -> RequestPhases]
    /\ sampled \in [Callers -> Snapshots]
    /\ scan \in [Callers -> ScanPhases]
    /\ walked \in [Callers -> SUBSET Entries]
    /\ unstarted \in BOOLEAN
    /\ changes \in 0..MaxChanges
    /\ failures \in 0..MaxFailures
    /\ crashes \in 0..MaxCrashes

ProcessGone ==
    /\ phase' = "down"
    /\ jobLock' = Unlocked
    /\ probeLock' = Unlocked
    /\ running' = FALSE
    /\ pc' = [t \in Callers |-> "idle"]
    /\ sampled' = [t \in Callers |-> NothingSampled]
    /\ scan' = [t \in Callers |-> "none"]
    /\ walked' = [t \in Callers |-> {}]
    /\ unstarted' = FALSE

ScanInit ==
    /\ disk \in SUBSET Entries
    /\ mounted = TRUE
    /\ catalog = {}
    /\ stored = NoSnapshot
    /\ cooling = 0
    /\ phase = "down"
    /\ jobLock = Unlocked
    /\ probeLock = Unlocked
    /\ running = FALSE
    /\ pc = [t \in Callers |-> "idle"]
    /\ sampled = [t \in Callers |-> NothingSampled]
    /\ scan = [t \in Callers |-> "none"]
    /\ walked = [t \in Callers |-> {}]
    /\ unstarted = FALSE
    /\ changes = 0
    /\ failures = 0
    /\ crashes = 0

-----------------------------------------------------------------------------
(* Requests *)

\* The request ends; a probe releases _probe_lock on its way out (finally).
Return(t) ==
    /\ pc' = [pc EXCEPT ![t] = "idle"]
    /\ probeLock' = IF probeLock = t THEN Unlocked ELSE probeLock
    /\ phase' = IF t = Main THEN "up" ELSE phase

\* lifespan: with ELVERN_SCAN_ON_STARTUP the hook calls enqueue_scan("startup")
\* before the application serves its first request.
Boot(scanOnStartup) ==
    /\ phase = "down"
    /\ IF scanOnStartup
       THEN /\ phase' = "starting"
            /\ pc' = [pc EXCEPT ![Main] = "acquire"]
       ELSE /\ phase' = "up"
            /\ UNCHANGED pc
    /\ UNCHANGED <<environment, settings, catalog, jobLock, probeLock, running,
                   sampled, scan, walked, failures, crashes, unstarted>>

\* POST rescan: enqueue_scan("manual")
RequestScan(t) ==
    /\ phase = "up"
    /\ pc[t] = "idle"
    /\ pc' = [pc EXCEPT ![t] = "acquire"]
    /\ UNCHANGED <<environment, settings, catalog, phase, jobLock, probeLock,
                   running, sampled, scan, walked, failures, crashes, unstarted>>

\* maybe_refresh_local_library; a probe that finds another one returns at once.
RequestProbe(t) ==
    /\ phase = "up"
    /\ pc[t] = "idle"
    /\ probeLock = Unlocked
    /\ probeLock' = t
    /\ pc' = [pc EXCEPT ![t] = "check"]
    /\ UNCHANGED <<environment, settings, catalog, phase, jobLock, running,
                   sampled, scan, walked, failures, crashes, unstarted>>

\* The probe gives up while a scan runs or the cooldown is active.
CheckProbe(t) ==
    /\ pc[t] = "check"
    /\ IF running \/ cooling > 0
       THEN Return(t)
       ELSE /\ pc' = [pc EXCEPT ![t] = "sample"]
            /\ UNCHANGED <<probeLock, phase>>
    /\ UNCHANGED <<environment, settings, catalog, jobLock, running, sampled,
                   scan, walked, failures, crashes, unstarted>>

SampleDisk(t) ==
    /\ pc[t] = "sample"
    /\ sampled' = [sampled EXCEPT ![t] = CurrentSnapshot]
    /\ pc' = [pc EXCEPT ![t] = "compare"]
    /\ UNCHANGED <<environment, settings, catalog, phase, jobLock, probeLock,
                   running, scan, walked, failures, crashes, unstarted>>

\* A probe stores its own time before it acts on the answer; the startup
\* decision holds the job lock and gives it back when it skips the scan.
CompareProbe(t) ==
    /\ pc[t] = "compare"
    /\ t # Main
    /\ sampled' = [sampled EXCEPT ![t] = NothingSampled]
    /\ cooling' = Cooldown
    /\ IF ShouldScan(stored, sampled[t])
       THEN /\ pc' = [pc EXCEPT ![t] = "acquire"]
            /\ UNCHANGED <<probeLock, phase>>
       ELSE Return(t)
    /\ UNCHANGED <<environment, stored, catalog, jobLock, running,
                   scan, walked, failures, crashes, unstarted>>

CompareStartup ==
    /\ pc[Main] = "compare"
    /\ sampled' = [sampled EXCEPT ![Main] = NothingSampled]
    /\ IF ShouldScan(stored, sampled[Main])
       THEN /\ pc' = [pc EXCEPT ![Main] = "start"]
            /\ UNCHANGED <<probeLock, phase, jobLock, running>>
       ELSE /\ running' = FALSE
            /\ jobLock' = Unlocked
            /\ Return(Main)
    /\ UNCHANGED <<environment, settings, catalog, scan, walked,
                   failures, crashes, unstarted>>

\* Variant: the job lock is not tested.
AcquireJobLockUnguarded(t) ==
    /\ pc[t] = "acquire"
    /\ jobLock' = t
    /\ pc' = [pc EXCEPT ![t] = IF t = Main THEN "sample" ELSE "start"]
    /\ UNCHANGED <<environment, settings, catalog, running, sampled, scan,
                   walked, failures, crashes, probeLock, phase, unstarted>>

\* enqueue_scan: a non-blocking acquire of _job_lock; refused while it is held.
AcquireJobLock(t) ==
    /\ pc[t] = "acquire"
    /\ IF jobLock = Unlocked
       THEN /\ jobLock' = t
            /\ pc' = [pc EXCEPT ![t] = IF t = Main THEN "sample" ELSE "start"]
            /\ UNCHANGED <<probeLock, phase>>
       ELSE /\ Return(t)
            /\ UNCHANGED jobLock
    /\ UNCHANGED <<environment, settings, catalog, running, sampled, scan,
                   walked, failures, crashes, unstarted>>

\* enqueue_scan: publish the running state and start the worker thread.
StartWorker(t) ==
    /\ pc[t] = "start"
    /\ running' = TRUE
    /\ scan' = [scan EXCEPT ![t] = "walk"]
    /\ Return(t)
    /\ UNCHANGED <<environment, settings, catalog, jobLock, sampled, walked,
                   failures, crashes, unstarted>>

\* worker.start() raises: nobody takes back the flag or the lock. The request
\* fails; in the startup hook the error ends the process (lifespan).
StartWorkerFails(t) ==
    /\ pc[t] = "start"
    /\ failures < MaxFailures
    /\ failures' = failures + 1
    /\ IF t = Main
       THEN ProcessGone
       ELSE /\ running' = TRUE
            /\ unstarted' = TRUE
            /\ Return(t)
            /\ UNCHANGED <<jobLock, sampled, scan, walked>>
    /\ UNCHANGED <<environment, settings, catalog, crashes>>

-----------------------------------------------------------------------------
(* The scan worker, _run_scan *)

\* scan_media_library reads the roots; an unavailable root yields no files.
Walk(t) ==
    /\ scan[t] = "walk"
    /\ walked' = [walked EXCEPT ![t] = CurrentSnapshot.entries]
    /\ scan' = [scan EXCEPT ![t] = "commit"]
    /\ UNCHANGED <<environment, settings, catalog, phase, jobLock, probeLock,
                   running, pc, sampled, failures, crashes, unstarted>>

\* scan_media_library commits the rows in one transaction.
CommitScan(t) ==
    /\ scan[t] = "commit"
    /\ catalog' = walked[t]
    /\ scan' = [scan EXCEPT ![t] = "snapshot"]
    /\ UNCHANGED <<environment, settings, phase, jobLock, probeLock, running,
                   pc, sampled, walked, failures, crashes, unstarted>>

\* Variant: the failed scan leaves the running flag set.
FailScanKeepsRunning(t) ==
    /\ scan[t] \in {"walk", "commit"}
    /\ failures < MaxFailures
    /\ failures' = failures + 1
    /\ scan' = [scan EXCEPT ![t] = "release"]
    /\ UNCHANGED <<environment, settings, catalog, phase, jobLock, probeLock,
                   running, pc, sampled, walked, crashes, unstarted>>

\* scan_media_library raises: its savepoint is rolled back, the state says why.
FailScan(t) ==
    /\ scan[t] \in {"walk", "commit"}
    /\ failures < MaxFailures
    /\ failures' = failures + 1
    /\ running' = FALSE
    /\ scan' = [scan EXCEPT ![t] = "release"]
    /\ UNCHANGED <<environment, settings, catalog, phase, jobLock, probeLock,
                   pc, sampled, walked, crashes, unstarted>>

\* The snapshot is built after the scan, from the disk as it is by then; an
\* error while storing it is logged and ignored.
StoreSnapshot(t, storeFails) ==
    /\ scan[t] = "snapshot"
    /\ IF storeFails
       THEN /\ failures < MaxFailures
            /\ failures' = failures + 1
            /\ UNCHANGED stored
       ELSE /\ stored' = CurrentSnapshot
            /\ UNCHANGED failures
    /\ scan' = [scan EXCEPT ![t] = "report"]
    /\ UNCHANGED <<environment, cooling, catalog, phase, jobLock, probeLock,
                   running, pc, sampled, walked, crashes, unstarted>>

\* _update_state(**result) publishes running = False before the lock is released.
ReportScan(t) ==
    /\ scan[t] = "report"
    /\ running' = FALSE
    /\ scan' = [scan EXCEPT ![t] = "release"]
    /\ UNCHANGED <<environment, settings, catalog, phase, jobLock, probeLock,
                   pc, sampled, walked, failures, crashes, unstarted>>

ReleaseJobLock(t) ==
    /\ scan[t] = "release"
    /\ jobLock' = Unlocked
    /\ scan' = [scan EXCEPT ![t] = "none"]
    /\ walked' = [walked EXCEPT ![t] = {}]
    /\ UNCHANGED <<environment, settings, catalog, phase, probeLock, running,
                   pc, sampled, failures, crashes, unstarted>>

-----------------------------------------------------------------------------
(* Environment *)

\* Someone copies a movie in or deletes one.
ChangeDisk ==
    /\ changes < MaxChanges
    /\ changes' = changes + 1
    /\ \E e \in Entries : disk' = IF e \in disk THEN disk \ {e} ELSE disk \cup {e}
    /\ UNCHANGED <<mounted, settings, catalog, volatile, failures, crashes>>

\* The drive that holds the library goes away or comes back.
ToggleMount ==
    /\ changes < MaxChanges
    /\ changes' = changes + 1
    /\ mounted' = ~mounted
    /\ UNCHANGED <<disk, settings, catalog, volatile, failures, crashes>>

Tick ==
    /\ cooling > 0
    /\ cooling' = cooling - 1
    /\ UNCHANGED <<environment, stored, catalog, volatile, failures, crashes>>

Crash ==
    /\ phase # "down"
    /\ crashes < MaxCrashes
    /\ crashes' = crashes + 1
    /\ ProcessGone
    /\ UNCHANGED <<environment, settings, catalog, failures>>

RequestStep(t) ==
    \/ CheckProbe(t)
    \/ SampleDisk(t)
    \/ CompareProbe(t)
    \/ AcquireJobLock(t)
    \/ StartWorker(t)

ScanStep(t) ==
    \/ Walk(t)
    \/ CommitScan(t)
    \/ FailScan(t)
    \/ \E storeFails \in BOOLEAN : StoreSnapshot(t, storeFails)
    \/ ReportScan(t)
    \/ ReleaseJobLock(t)

ScanNext ==
    \/ \E scanOnStartup \in BOOLEAN : Boot(scanOnStartup)
    \/ \E t \in RequestThreads : RequestScan(t) \/ RequestProbe(t)
    \/ \E t \in Callers : RequestStep(t) \/ StartWorkerFails(t) \/ ScanStep(t)
    \/ CompareStartup
    \/ ChangeDisk
    \/ ToggleMount
    \/ Tick
    \/ Crash

ScanSpec == ScanInit /\ [][ScanNext]_scanVars

\* Started threads run, time passes, the service is restarted, and clients keep
\* asking for the library page (each request probes).
ScanFairness ==
    /\ \A t \in Callers : WF_scanVars(RequestStep(t)) /\ WF_scanVars(ScanStep(t))
    /\ \A t \in RequestThreads : SF_scanVars(RequestProbe(t))
    /\ WF_scanVars(CompareStartup)
    /\ WF_scanVars(Tick)
    /\ WF_scanVars(\E scanOnStartup \in BOOLEAN : Boot(scanOnStartup))

FairScanSpec == ScanSpec /\ ScanFairness

-----------------------------------------------------------------------------
(* Properties *)

\* At most one scan exists: two walks that overlap would each delete the rows
\* the other just wrote (_job_lock, enqueue_scan and _run_scan).
OneScanAtATime ==
    \A t, u \in Callers : scan[t] # "none" /\ scan[u] # "none" => t = u

\* A running flag belongs to a live scan that has not reported yet: a flag left
\* behind by a failed or finished scan would silence every later probe
\* (is_scan_running in maybe_refresh_local_library). The code leaves one behind
\* in one case, which is excepted until the next restart: enqueue_scan sets the
\* flag before worker.start(), and when that raises nobody takes it down.
RunningMeansScanning ==
    running => \E t \in Callers :
        /\ jobLock = t
        /\ unstarted \/ scan[t] \in {"walk", "commit", "snapshot", "report"}

\* Once the disk stops changing the stored snapshot catches up with it, whatever
\* scans failed, whatever enqueue was refused because the job lock was about to
\* be released, and whatever crash cut a scan short: a dirty library is never
\* forgotten by the cooldown. Not after a thread of enqueue_scan could not start:
\* flag and lock stay, and no scan comes before the next restart.
SnapshotCatchesUp == []<>(~mounted \/ stored = CurrentSnapshot \/ unstarted)
=============================================================================
