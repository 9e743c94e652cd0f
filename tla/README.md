# A TLA+ verification of the Elvern server

Elvern is a private media server: a FastAPI backend (`src/backend/app`), a React client, ffmpeg
processes that turn films into HLS, and SQLite. This directory holds models of the parts of the
backend in which threads, processes, clients and time meet, the TLC runs that check them on small
instances, and proofs that hold for every instance.

Paths below are relative to `src/backend/app/`; *MPS* is `services/mobile_playback_service.py`.

| modules | what they model |
|---|---|
| `PlaybackSessions` (+ `MC`, `Proofs`) | which Route 2 playbacks a user has, and what logins and administrators do to them |
| `Route2Epochs` (+ `MC`, `Proofs`) | the epochs of one Route 2 session and who has authority over them |
| `Route2Authority` | abstract: what a client may rely on when it is handed from epoch to epoch; `Route2Epochs` implements it |
| `Route2Workers` (+ `MC`, `BackgroundWorkProofs`) | the workers of all Route 2 sessions, the CPU budget, the ffmpeg threads |
| `TranscodeJobs` (+ `MC`, `Proofs`) | the HLS jobs of the older transcode manager and their watchers |
| `LibraryScan` (+ `MC`, `BackgroundWorkProofs`) | scans of the local library and the freshness probe |
| `PosterQueue` (+ `MC`, `BackgroundWorkProofs`) | the poster derivative manager |
| `BackupJobs` (+ `MC`, `Proofs`) | backup jobs, their lease and the catalog, in several server processes |
| `BackupWriter` | abstract: one writer that publishes at a time; `BackupJobs` implements it |
| `DiagnosticsIngest` (+ `MC`, `Proofs`) | playback diagnostics from the browser's outbox to the sealed journal |
| `GoogleAccounts` (+ `MC`, `Proofs`) | connecting, replacing and refreshing the Google account of a user |
| `AccessGrants` (+ `MC`, `Proofs`) | users, logins, and the native sessions, handoffs and downloads made from a login |

`PROJECT.json` lists the components, the runs, the variants of the code that each property must
catch, the source lines of every definition, the hazards and the theorems.

## 1. Inventory

### Browser Playback Route 2 (MPS and `services/mobile_playback_route2_*.py`)

*State.* A `MobilePlaybackSession` per playback with a `BrowserPlaybackSession`: a dictionary of
epochs, `active_epoch_id`, `replacement_epoch_id`, `attach_revision` and
`client_attach_revision`, the state of an audio switch. Each epoch is one ffmpeg run that publishes
segments from some position on. `_route2_workers` holds a record for each worker id. `_sessions`,
`_route2_session_ids_by_user` and `_active_session_by_user` say which playbacks there are. All of it
is behind one lock; users and logins are rows in the database.

*Operations.* `create_session`, `get_session`, `get_active_session`, `update_runtime`,
`seek_session`, `select_audio_track`, `commit_audio_track_candidate`,
`cancel_audio_track_candidate`, `stop_session`, `terminate_route2_worker`, the invalidations by user
and by login, the manager loop (reconciliation with the database, expiry, dispatch each second), the
telemetry, the worker threads (`_run_route2_epoch_worker`), segment and manifest requests.

*Interaction.* Nearly every handler ends in `_refresh_route2_session_authority_locked`, which
promotes, recovers and discards, and then in `_ensure_route2_epoch_workers_locked`, which queues
workers. The dispatch pass starts threads. A thread runs ffmpeg in three locked sections with
`Popen` and the wait for the process between them. Routes authenticate a request in the database
before it reaches the manager; administrators write the database first and tell the manager next.

*Hard.* Clients repeat and reorder reports; epochs are replaced while their threads are between two
sections; parking and telemetry change the records under the threads; retries wait for a backoff
while audio candidates hold the replacement slot; drains end by acknowledgement or by time. A start
searches in one locked section and registers in another one; the reconciliation acts on rows it read
earlier; a login may be revoked while a start that it authenticated is under way.

*Correct means.* The names a session holds exist; the client is never told to attach to nothing;
promotion goes forward only and tells the client; drained media outlives its readers; recovery
ends; an ffmpeg process is known to the epoch that must end it; one process for each epoch; no more
cores than the budget; nobody waits for ever or is overtaken by younger records. The tables of
playbacks agree; an ordinary user has one playback; the playbacks of revoked logins end, and no
others because of them.

### HLS transcodes (`services/transcode_service.py`)

*State.* `_jobs` by media item, each with a process and a state; manifests and directories on disk.
*Operations.* Request for a manifest (start or reuse), stop, status, watcher threads, the cleanup of
stale and old jobs, shutdown.
*Hard.* `Popen` runs outside the lock and the job is looked up by item afterwards; two threads report
on a process; the cap counts jobs that already run; directories, terminations and watchers raise where
nothing catches it.
*Correct means.* The cap on encoders; a job shown as running has somebody who will report its end;
nobody stops a job that somebody else started.

### Local library scan (`services/scan_service.py`, `media_scan.py`)

*State.* `_job_lock`, `_probe_lock`, `_state["running"]`, the settings rows with the last freshness
snapshot and the probe cooldown, the catalog rows.
*Operations.* `enqueue_scan` (startup, manual), `maybe_refresh_local_library` (each visit of the
library), `_run_scan` in a thread.
*Hard.* Two locks that requests try and do not wait for; a scan that raises; a process that dies
between commit and snapshot; a disk that changes during all this.
*Correct means.* One scan at a time; a running flag is never left behind; a changed library is
rescanned.

### Poster derivative manager (`services/poster_derivative_manager.py`)

*State.* `_jobs` by key, the queue, active workers, the burst counter, the interactive window; the
futures of the callers.
*Operations.* `submit_result` (join, enqueue, drop a prewarm, reject), `_handle_waiter_done` as
callback of a cancelled future, the dispatcher thread, `_finish_job` in executor threads,
`enter_interactive_window`, `shutdown`.
*Hard.* Futures are cancelled outside the lock, results are set outside the lock, and a full queue
changes who waits for what.
*Correct means.* One generation for each poster; no job without a reason; every future gets an
answer.

### Backup jobs (`services/backup_job_service.py`, `backup_service.py`)

*State.* Rows of jobs, one lease row with a heartbeat, the catalog, staging directories and files.
*Operations.* `start_job`, the worker with its stages, heartbeat and assertions of the lease,
`active_job` (which ends stale jobs), deletion of a checkpoint.
*Hard.* Several server processes; a heartbeat that comes late; ownership asserted in one transaction
and used in the next; a crash anywhere; three parties that clean up after one job.
*Correct means.* One job publishes at a time, the last one started; the catalog lists files that
exist; no staging directory is left; the lease comes back.

### Playback diagnostics (`services/playback_diagnostics/`, `playbackDiagnosticRecorder.js`)

*State.* The browser's outbox, sequence and mode; in the server a bounded queue, a journal of frames,
a catalog row for each session with watermark and gaps, seal files.
*Operations.* Batches, gap declarations, close, beacons and heartbeats from the browser; the writer
thread, the observer, the finalizer, recovery after a start.
*Hard.* Timeouts with the first attempt still queued; append and commit are two steps; a crash
between them; late batches and observations race with the seal.
*Correct means.* What the browser forgets is durable; nothing is journaled twice; the sealed evidence
stands; a close ends.

### Google accounts (`services/cloud_provider_auth_service.py`)

*State.* Connect operations with a state row and a candidate, the account row with its tokens, the
library sources attached to it.
*Operations.* Start, callback, confirmation or cancellation of a replacement, token refresh,
disconnect, logout, expiry.
*Hard.* Network calls between database sections; a row that keeps its id when the account behind it
changes; expiry and cancellation that race with the answer.
*Correct means.* Tokens belong to the account they are stored with; sources were shown to be
readable by the account they are attached to; no account replaces another unasked.

### Users, logins and what is granted from them (`auth.py`, `services/admin_service.py`, `services/native_playback_service.py`, `services/desktop_playback_handoff_service.py`, `services/account_access_service.py`, `services/exposure_maintenance_service.py`, `url_prefix_service.py`)

*State.* Rows of users, of their logins, and of three tables of grants: native playback sessions
(coupled with their login or not), desktop handoffs, downloads. A response that is being sent
remembers its last look at its grant.
*Operations.* Login, its idle and absolute expiry, logout, revocation by an administrator; grants
inserted, closed, expired, streamed; users created, changed, disabled, deleted; the maintenance lock,
the rotation of the URL prefix.
*Hard.* Each way to end a login or a user revokes its own selection of the grants; a request is
authenticated in one transaction and inserts in a later one; an update of a user writes back what it
read; a stream looks at its grant at intervals only.
*Correct means.* A grant ends with the ends of what it was made from that are to revoke its kind;
external playback goes on through a logout; a stream ends soon after its grant.

### Not modelled

| component | state and operations | hard behaviour | why not (yet) |
|---|---|---|---|
| Adaptive control (`route2_adaptive_controller.py`, MPS) | downshift, resupply and reclaim replacements, thread tiers | more kinds of replacements in one slot; donors and consumers across users | next in the plan; until then a server with these controls switched off is modelled |
| Route 2 publication and shared output store | segment ranges, metadata, leases on disk | crash between file and metadata | planned; publication enters `Route2Epochs` as one action |
| Gates and measurements | arithmetic over rates | boundaries | abstracted to supply levels |
| Progress, tokens and launching of native and desktop playback | watch positions, access tokens, helpers | a late report of progress | the grants are in `AccessGrants`, their contents are single transactions |
| Technical metadata batch | claims on items, an ffprobe worker | restart between claim and result | planned |
| Rate limiter, download slots | counters in one transaction or under one lock | windows and boundaries | planned as a pure module |
| Cloud libraries | synchronisation of Drive folders | replacement of rows | shares its hazards with the local scan |
| Legacy mobile playback | the engine that Route 2 replaced | cluster jobs | lower priority than its successor |
| Second factor, invitations, requests for help, library queries, settings, database schema, title parser, frontend, helpers, deployment | request-scoped transactions, text, start-up code | little that interleavings change | left out; reasons in `PROJECT.json` |

## 2. The models and the code

### PlaybackSessions

The playbacks of one user: `playback` is `_sessions` (which login holds it, whether it has failed),
`indexed` and `preferred` are the two tables by user, `login` and `standing` the rows in the
database. A request is authenticated (`Arrive`) and goes on in the locked sections of
`create_session` (`FindCompatible`, `FindConflict`, `FindNothing`, `Admit`, `Register`,
`ShowCreated`, `TouchFound`) or of a handler with one section (`Use`, `LookUp`, `RequestMedia`,
`Stop`). An administrator's request is a write to the database (`RevokeLogin`, `CloseAccount`,
`DeleteUser`, `RotatePrefix`, `Terminate`) followed by the call of the manager (`AdminDropsLogin`,
`AdminDropsUser`, `AdminStops`). The manager loop collects logins (`ReadPlaybacks`), looks them up
(`ReadRows`), and ends playbacks (`DropUser`, `DropLogin`, `CleanUp`).

Abstractions: which playback is compatible, was used last, has expired, and what admission measures
are choices. Left out: the cooldown after an administrator's stop, the older engine, other users,
invalidation by age rating, shutdown. What happens to the epochs of a playback that has been taken
out is `Leave` and `Terminate` of `Route2Workers`.

### Route2Epochs and Route2Authority

One session record mirrors `BrowserPlaybackSession`. Because every handler holds the lock from
beginning to end, **one handler is one action**, and its effect is a composition of operators with
the names of the methods (`Refresh`, `CreateReplacement`, `PromoteReplacement`, `MarkDraining`,
`Discard`, `FailSwitch`, ...), each from record to record. The actions are the client's calls
(`ReportRevision`, `SeekInRange`, `SeekOutOfRange`, `SelectAudio`, `CommitAudio`, `CancelAudio`,
`RequestMedia`), the manager's pass (`Poll`), what the session sees of a worker (`Dispatch`,
`Spawn`, `Publish`, `WorkerCompletes`, `WorkerFails`, `LateSpawnFails`, `LateSpawnEnds`), and time
(`SupplyDrops`, `DrainAges`, `BackoffElapses`, `CandidateExpires`).

A thread whose worker has been given up is usually of no more account to the session, as its locked
sections compare `active_worker_id`. The one that handles a failed `Popen` (MPS:12937) asks for the
epoch only. `late` therefore remembers that an epoch was promoted out while its thread was on its way
to `Popen`: the outcome is `LateSpawnFails`, which sets the draining epoch failed, or `LateSpawnEnds`.

Abstractions: measured supply is one of four levels (`none`, `some`, `runway`, `full`), which is
what the attach gate and the runway gate can tell apart; the age of a drain is `fresh`, `idle`
(past the idle grace) or `old` (past the maximal drain time). An epoch number stands for the id and
for the order of creation. `candidate_state` always mirrors the switch state and the pending stream
always mirrors the candidate, so they have no variables. Left out: the adaptive replacements with
the epoch state "ended", parking (in `Route2Workers`) and counters that are only reported.

`Route2Authority` states what the client sees in lite mode: the epoch it is told to play, the
revision it was told, the revision it has acknowledged. It changes by `FirstAttach`, `HandOver` (a
later epoch, a larger revision) and `Acknowledge`, and in no other way. `AttachesWhenHandedOver` is
the refinement, with the mapping given by an `INSTANCE` in `Route2Epochs`.

### Route2Workers

Epochs with their worker record, and the threads. `Begin`, `Spawn`/`SpawnFails`, `Register`,
`ProcessExits` and `Finish` are the locked sections of `_run_route2_epoch_worker` and the gaps
between them; whatever the lock allows can happen in a gap. `Dispatch` is the whole pass: it picks
the records in order, one for each user and round, and computes what is left of the budget and of
the user's share as the code does; the cores a set of records holds are a set (`Cores`), so that
they can be counted without a sum. `Park`, `ClientParks`, `Resume`, `Sample` (telemetry that finds
no process), `Leave` and `Terminate` (the two halves of stopping, expiring, invalidating and
shutdown) are the other handlers. Which epochs come and go is decided by `Route2Epochs`; here any
of those decisions may be taken at any moment (`CreateReplacement`, `Promote`, `Discard`,
`Revive`), which covers all of its behaviours.

Abstractions: a session has a user of its own; threads are assigned by the fixed policy, as they are
with adaptive thread control switched off (section 4 on its default); "over" covers stopped,
interrupted, failed and completed records, which the queue treats alike; that a process has died and
that the telemetry grace has passed are choices.

### TranscodeJobs

`table` is `_jobs`; a job, its ffmpeg process and its watcher share an identifier, so that a job
whose item has meanwhile another job can be told from it. A request thread goes through the locked
sections of starting (`Admit` and the replacement of a job at the cap, `MakeDir` and `Spawn`
outside the lock, the second look at the table in `Record`), watchers report in their own sections,
and `Age`, `Cleanup`, stops, polls and a changed source file come at any time. `Age` lets a job get
stale only when nobody is about to poll it, which is the one assumption about timing.

Only an `OSError` of `Popen` is handled (`SpawnFails`). What else raises ends its thread where it is
and leaves the rest as it is: a process that outlives SIGKILL (`TerminateFails`), a directory that
cannot be made (`MakeDirFails`), a watcher that cannot be started (`RecordUnwatched`) or cannot decode
a line of ffmpeg's (`WatchRaises`), a directory that vanishes under the cleaner (`RemoveOldDirs`).
`raised` is the history of them that `SomebodyReports` needs. Left out: `shutdown` waits two seconds for
the cleaner and goes on without it, in the model it comes after the cleaner's round.

### LibraryScan

A caller has a request part (`CheckProbe`, `SampleDisk`, `CompareProbe`, `AcquireJobLock`,
`StartWorker`) and, when it starts a scan, a scan part (`Walk`, `CommitScan`, `FailScan`,
`StoreSnapshot`, `ReportScan`, `ReleaseJobLock`). The environment changes the disk, unmounts it,
lets time pass and kills the process; `Boot` starts it with or without the startup scan.
`StartWorkerFails` is `worker.start()` raising after the flag was set and with the lock taken: both stay
(`unstarted`) until the process is restarted. Rows are
reduced to the top-level entry they came from, which is all the freshness snapshot looks at.

### PosterQueue

`Ask` and `Warm` are one locked section of `submit_result`, called by `get_item_poster` and the
prewarm of the library page. `Cancel` is a client that goes away; the callback `WaiterDone` follows
in a step of its own. `Dispatch` is a turn of the dispatcher, `Generate` and `Finish` an executor
thread; `CheckWaiter` and `AnswerWaiter` are the two calls on each future after the lock has been
released. A waiter stands for one future and is used again once nothing refers to the old one.
Answers that need no job (cache hits, rejections) are no steps. Nothing is submitted after shutdown
has begun, because the server has stopped to serve by then. The burst counter is stopped at its
limit, since it is only compared with it.

### BackupJobs and BackupWriter

Several processes share the database and the disk (`row`, `lease`, `catalog`, `staging`, `file`);
each job has the thread of the process that started it. The worker asserts the lease before each
step on disk (`AssertLease` is a step of its own, because it is a transaction of its own), raises
from wherever it is, and cleans up in its except clause; `active_job` and the next `start_job` clean
up after a job they take for dead, from what they read before. `Crash` ends the threads of one
process. The stages of the archive are reduced to before and after the file exists, successive
assertions without a change between them to one; a repeated idempotency key changes nothing and is
no step; a listing is atomic.

`BackupWriter` promises that one job at a time may publish and that what is published comes from the
job started last. `OneWriterPublishes` is the refinement.

### DiagnosticsIngest

One session and one browser. `client` is the recorder of the frontend as far as it decides what is
sent again (outbox, sequence, gaps, mode); `queue`, `journal`, `catalog`, `server` and `seal` are the
server's. A request thread submits a batch and waits for the writer or its timeout; the writer
appends and commits in two steps, each of which can fail, with or without effect; the finalizer
seals; the observer adds server observations; a crash loses queue and threads, and recovery reads
the journal again. A section guarded by the catalog's mutation guard is one step. Left out:
registration, clocks, validation and privacy of events, corruption, capacity arithmetic, exports.

### GoogleAccounts

One user. An operation stands for its state row and its one candidate. A database transaction is one
step where the code checks row counts within it; in `confirm_google_account_candidate` the last
SELECT precedes the transaction, so `Recheck` and `Replace` are two steps. Between sections the HTTP
calls bring any answer: another account, no refresh token, a source that cannot be read. A token is
named after the Google account it belongs to; that an access token has expired is a choice; several
source rows may name the same folder, as no unique index forbids it. The history variables
`overtaken` (a refresh ended after its account had been replaced) and `proven` (Google showed this
source to this account) exist for the properties. Left out: labels, encryption, migration of legacy
rows, the retention of ended operations, the synchronisation of media rows.

### AccessGrants

`users`, `sessions` and `grants` are the rows; a transaction is one step. A row id is never used
again, so an ended row stays what it is. A request is authenticated (`LoginStart`, `Authenticate`)
and inserts later with what it knows (`LoginInsert`, `InsertGrant`, `InsertFails` when a foreign key
refuses); a handoff to a client that cannot reach the file makes an external native session first
(place "backend"). The ends of a login are `LoginExpires`, `AuthExpires`, `ForgetLogin`, `Logout` and
`RevokeLogin`, those of a user `UpdateWrite`, `ChangePassword`, `DeleteWrite`, `SelfRevoke` with
`SelfErase`, those of all `MaintenanceRevoke` and `RotatePrefix`; the ones that read first have a
step for the reading. `StartStream`, `Chunk`, `IntervalPasses` and `StreamEnds` are a response.

`bounds` counts the changes of a user that end all that was granted, the `reason` of a login says how
it ended, and `late` marks a grant that was inserted after an end that would have revoked it; all three
are history for `GrantsFollowTheirLogin`. Which ends spare which grants is the table `EndsThatSpare`:

| how the login ends | coupled session | download | handoff | external session |
|---|---|---|---|---|
| its time is over and nobody looks (`LoginExpires`) | stays, useless | stays, useless | stays, usable | stays |
| it is cleaned up after that (`ForgetLogin`, `cleanup_expired_sessions`) | stays, useless | ends | stays, usable | stays |
| a request finds it idle or expired (`AuthExpires`), logout | ends | ends | ends | stays |
| maintenance mode | ends | ends | stays | stays |
| an administrator revokes it | ends | ends | ends | ends |

Abstractions: the three tables are one set of grants with a kind; how long idle, retention and
expiry are is a choice; the reasons of an end are reduced to those that revocation distinguishes.
Left out: ages and titles (a changed download permission revokes any set of downloads), passwords,
the second factor, invitations, watch progress, access tokens.

## 3. Runs

| run | instance | asks | distinct states |
|---|---|---|---|
| `playback` | two playbacks, logins and request threads, one trouble (failure, logout, act of an administrator), an ordinary user | tables, one playback, founded revocations, revoked logins lose their playback | 923 000 |
| `route2` | two audio streams, two replacements, one failure, supply drop or in-range seek, lite mode | types, authority, readable media, drains, promotion, refinement of `Route2Authority` | 632 000 |
| `route2_live` | one stream, one replacement, two failures | does recovery end | 88 000 |
| `workers` | one session, two epochs, two cores, three threads for each epoch, one parking, one telemetry sample | orphans, doubles, progress | 260 000 |
| `workers_budget` | three sessions, three cores, one epoch each | budget and order of service | 390 000 |
| `transcode` | two users on two devices, two items, a cap of one, two starts, one trouble | cap for starts alone, reports, stops of one's own | 6 583 000 |
| `scan` | two request threads and the startup hook, two entries, two changes, one failure, one crash | overlap, running flag, progress | 419 000 |
| `poster` | two clients, a prewarm, two posters, two threads, a queue of one | single flight, waiters, progress | 788 000 |
| `backup` | two processes that start one job each, two troubles (crash, error, late heartbeat, deletion) | staging, refinement of `BackupWriter`, catalogued files, the lease comes back | 519 000 |
| `diagnostics` | two events, one observation, two request threads, one trouble (crash, failed write, timeout, lost answer, beacon) | nothing lost, journaled once, sealed evidence, close ends | 315 000 |
| `google` | two operations of one login, two request threads, two Google accounts, one source, one trouble | tokens, sources, account changes | 1 065 000 |
| `access` | two users, two logins, one grant and its stream, one request, one administrator's request, one change of a user or of the server | grants and their logins, external playback, streams end | 1 057 000 |

*Why the bounds suffice.* A replacement can be superseded, promoted, and replaced again with two of
them; the cap is reached with the second, which is one of the cases. One trouble can hit at any
point of a switch; recovery needs two, so that the replacement of a failed epoch fails too. With its
one replacement `route2_live` has audio candidates in the way of recovery but no second retry that
succeeds; without audio streams, two replacements (760 000 states) satisfied the property as well. Two
streams let a switch follow another one. Two epochs compete for the cores of one session in
`workers`; three threads for each of them are enough for a parking and a sample. Three sessions with
three cores make the shares bind and leave one waiting. Two scan threads and the hook contend for
both locks; two entries tell a partial snapshot from none. A queue of one is full at once, two
posters compete for it, and two threads could generate the same one. Two playbacks are what an
ordinary user must not have; two logins are needed for an adoption between the read of a row and
what follows from it. With a cap of one, the second start is at the cap. Two backup jobs are one
writer too many; of two troubles one can take the lease away and the other hit its new owner. Two
events are the least that can be reordered, batched together or separated by a gap. Two connect
operations in one login supersede each other, and two accounts are one to replace and one to replace
it with. The database of `access` starts with the administrator alone, who creates the other user
with either role; the properties are about each grant and each stream for itself, so one grant of
any kind meets every end of two logins, those of the administrator or one of each user. Larger
instances (two troubles in `diagnostics` without liveness, 2.3 million states; two troubles in
`google`, 3.9 million states; two troubles in `access` without liveness, 5.3 million) passed as
well.

*Symmetry* is used only in `google`, which has no liveness property.

*Deadlock* is not checked for `workers`, `poster`, `transcode`, `backup`, `diagnostics` and
`access`: sessions, spawns, starts, jobs, events or row ids run out there, and a manager that was
shut down stops. It is checked in all other runs.

*Fairness.* `PlaybackSessions`: the manager loop runs each second; clients and administrators owe
nothing. `Route2Epochs`: the manager's loop refreshes every session (`_dispatch_waiting_sessions`),
a queued worker gets its turn and ffmpeg makes progress or fails, backoffs and expiries pass;
nothing is assumed of the client. `Route2Workers`: the pass runs each second, taken-out sessions
are terminated by the call that took them out, threads go on, ffmpeg reaches the end of its input;
nobody has to resume a parked session. `LibraryScan`: started threads run, time passes, the service
manager restarts the process, and clients keep opening the library, which is what triggers a probe
(strong fairness, as a probe is refused while another one runs). `PosterQueue`: dispatcher, executor
threads and callbacks run; interactive windows are not assumed to cease, the property says so.
`BackupJobs`: threads of living processes go on, time passes, and the administration page polls
`active_job`. `DiagnosticsIngest`: the browser tries again (strong fairness for its requests, because
`performClose` flushes before each close and other requests come in between), server threads run,
the process is restarted. `AccessGrants`: a client that reads asks for the next chunk, and time
passes; nobody has to log out or to be revoked.

*Where fairness is more than the code guarantees.* The loops of the managers are taken to go on.
`_manager_loop` (MPS:15054) calls its three passes without a handler: an exception in one of them, such
as a database that is locked for too long, ends the thread, and with it reconciliation, expiry and
dispatch until the next restart. `RevokedLoginsLoseTheirPlayback`, `RecoveryConcludes` and
`EncodersConclude` are about a server in which that has not happened. Uncaught errors of the file system
and of starting a thread are steps in `TranscodeJobs` and `LibraryScan`; in the other modules an error is
a step where the code handles it. Not modelled, for example: `staging_dir.mkdir` under the lock
(MPS:12874), after which a worker's record stays without a thread until the telemetry gives it up, and
the starts of the worker threads themselves.

Every property of a passing run names a variant of the code in its module (marked "Mutant" or
"Variant") under which it fails.

## 4. What the checks show

The properties of the passing runs hold. While they were found, these disagreements with the
documents, tests or comments of the repository, and these gaps in the code, came up. They were seen
in counterexamples of properties that were weakened since, by the exception the text of the property
names, or in instances that are not kept as runs.

Route 2:

- *A drained epoch becomes active again.* A failed worker leaves
  `active_worker_id` set; the refresh that has just marked the active epoch as draining takes it for
  warming, queues it a second time, and may make it active when its replacement fails. The cutover
  checklist excludes it.
- *A seek leaves the audio switch pending.* `seek_session` discards the candidate without failing
  the switch; later selections are refused as in progress.
- *Parking does not stop ffmpeg.* The record goes to "stopping", its cores are granted to others, and
  resuming makes both count. The README of the repository calls the limit a hard ceiling.
- *Telemetry can orphan a process.* A record is given up while its thread is between two sections,
  the worker is queued again, and the last section of one thread clears the process of the other,
  which then survives the session. `NoOrphanEncoder` and `OneEncoderPerEpoch` are therefore stated
  for behaviours in which no sample has interfered.
- *A late failure of `Popen` takes drained media away.* The handler at MPS:12937 looks for the epoch
  and not for its worker, so an epoch that was promoted out while its thread was on its way to `Popen`
  is set to failed although it drains. Its requests are refused from then on, before the client has
  acknowledged anything, and `_cleanup_route2_draining_epochs_locked`, which looks for "draining", never
  removes it. `DrainedMediaStays` excepts this one outcome (`late`).
- *Full mode changes epochs silently.* A committed audio switch can change the active epoch although
  the attach gate refuses the new revision; the old epoch then drains towards a revision that was not
  issued, which no acknowledgement reaches before the maximal drain time. `Route2Authority` and its
  refinement, and the theorem on `DrainCanBeAcknowledged`, are stated for lite mode. A session with the
  default audio keeps a failed stream selected.
- *A user gets two playbacks* when two starts overlap between search (MPS:1505) and registration
  (MPS:1641), or when a failed playback recovers beside its successor, although the message at
  MPS:3167 and `docs/ROUTE2_ADAPTIVE_RESOURCE_POLICY.md:75` limit an ordinary user to one.
  `OnePlayback` holds for all other behaviours.
- *The reconciliation does not see rows that are gone.* It looks for revoked rows; when a user is
  deleted, the URL prefix is rotated or an idle login is deleted, a playback that a start registers
  after the administrator's call lasts until it expires. A user who is enabled again between the read
  of the row and the invalidation loses a playback started in between.
- *The adaptive controls are on.* `config.py:431` to `491` default them to true; the README of the
  repository (line 602) says false, `docs/ROUTE2_ADAPTIVE_RESOURCE_POLICY.md:71` true. The Route 2
  modules describe a server with them switched off.

Other parts:

- *Overlapping transcode starts exceed the cap*: it counts jobs that have a process already.
  `LoneStartsKeepTheCap` is about starts that nothing overlaps.
- *A transcode job stays in the table after an error nobody catches.* When its directory cannot be made
  (`transcode_service.py:386`), or the job it replaces outlives SIGKILL (line 554), a job is "starting" for
  good, with no thread; when its watcher could not be started or failed, it is "running" for good. It ends
  with the next start of its item or as stale, and being polled keeps it from getting stale. A process
  that could not be terminated goes on outside the cap, and the error ends the cleaner if that was the one
  to terminate it. `SomebodyReports` excepts these jobs (`raised`).
- *The owner of a job may end what another user watches.* `ensure_started` hands a running job to any
  user (lines 172 to 180) while the job keeps its first user; that user makes room with it at the cap, or
  stops it, without a look at who watches. `StopsOwnJobsOnly` is about who had the job started.
- *A scan thread that cannot start blocks all scans.* `enqueue_scan` sets the flag (`scan_service.py:71`)
  and has taken the lock when `worker.start()` raises; both stay until the process is restarted.
  `RunningMeansScanning` and `SnapshotCatchesUp` except that state (`unstarted`).
- *The snapshot may hold what the scan never saw*; it is taken after the scan, and an entry that
  appears in between is not scanned until something else changes.
- *A cancelled client silences the others.* `set_result` on a future that was cancelled after
  `done()` was asked raises and ends the loop over the waiters of a poster.
- *The guard of the backup deletion never matches*: it compares with `checkpoint_id`, which is
  empty until the job is over (`backup_job_service.py:867`). Half-made staging directories can be
  listed as backups meanwhile.
- *Diagnostics: a full queue or a torn journal is answered as an identity conflict*, which the
  browser does not retry, where `docs/PLAYBACK_DIAGNOSTICS_OPERATIONS.md:267` calls it retriable.
- *Diagnostics: sealed becomes closing.* A repeated close that read the state before the seal writes
  `closing` over `sealed` (`service.py:2150`) although the browser was told; the evidence itself
  stands (`SealedEvidenceStands`).
- *Google: a token refresh that overlaps a confirmed replacement* stores the tokens of the old
  account under the new identity, since the row keeps its id (`overtaken`).
- *Google: two first connections at once.* The second replaces the account of the first without a
  question, which `tests/test_google_account_reconnect_identity.py:160` demands; each compared with an
  empty table.
- *Google: a replacement that was cancelled in time happens.* The last SELECT of
  `confirm_google_account_candidate` (line 1077) precedes its transaction, and the update of the
  operation does not check that it hit a row.
- *Handoffs outlive a login that expires.* Expiry as such touches no grant, and
  `cleanup_expired_sessions` revokes downloads only; only a request that finds the login idle or expired
  ends the others (table in section 2). A coupled session is of no use by then, as its stream asks for the
  login, but a handoff can still be opened until it expires itself.
- *Late grants stand.* A native session or handoff whose request was authenticated before its login
  was revoked, or its user disabled, is inserted afterwards. Coupled sessions and downloads are useless
  without their login; external sessions and handoffs are usable as long as the user is enabled, until
  they expire. `GrantsFollowTheirLogin` is about all other grants.
- *Two updates of administrators at once.* `update_user` counts administrators in the transaction
  that has not written yet (`admin_service.py:275`): two who demote each other leave none, although
  the message at line 283 wants one kept. It also writes back the role and the enabled flag it read,
  so setting an age may enable a user again who was disabled meanwhile.
- *Handoffs in maintenance mode.* `docs/EXPOSURE_MODE_PLANNER.md:39` says that desktop handoffs are
  invalidated; `exposure_maintenance_service.py` leaves `desktop_vlc_handoffs` alone, as it leaves
  external native sessions.

## 5. Proofs

Checked with TLAPS, for all values of the constants that satisfy the named assumptions
(`PlaybackConstants`, `EpochConstants`, `WorkerConstants`, `PosterConstants`, `NoJobIsNone`,
`ScanConstants`, `NoSnapshotIsNone`, `TranscodeConstants`, `BackupConstants`,
`DiagnosticsConstants`, `GoogleConstants`, `AccessConstants`). Each module follows one scheme: an inductive invariant (`IInv`, `Inv`; checked with TLC on
the run's instance first), a lemma for the initial states, lemmas for the operators and for each
action or group of actions, and theorems that are read off. Every safety invariant, action property
and refinement that a run checks is also a theorem.

- `Route2EpochsProofs`: `Typing`, `AuthorityIsConsistent` (`[]AuthorityConsistent`),
  `AttachedMediaIsAlwaysReadable` (`[]AttachedMediaIsReadable`), `DrainsCanBeAcknowledged`
  (`[]DrainCanBeAcknowledged`, in lite mode), `PromotionsAreOneWay` (`PromotionIsOneWay`),
  `DrainedMediaStaysReadable` (`DrainedMediaStays`), `RevisionsGrow` (in both modes, no revision goes
  back) and `SessionImplementsAuthority`, the refinement of `Route2Authority` in lite mode. The
  handlers are compositions of operators, so the proof follows them. `Good(s)` says that a session
  record has its type and consistent authority (with what the candidate of an audio switch must be,
  without which `FailSwitch` and `CancelCandidate` could not be followed), that its drains have
  targets (`Tidy`), in lite mode targets that were issued, and that who was told to attach finds
  media (`Readable`: revisions are only issued with runway, and no operator takes published media of
  the active epoch away). `Follows(t, s)` says that `t` is good, that neither its revisions nor its
  active epoch went back and moved hand in hand, that the epochs that drained in `s` still do, with
  the same target and age (or failed late, `Retired`), and that a new active epoch had its runway while
  the old one drains. That only promoted-out epochs can be late is part of `Tidy`. Each
  operator has a lemma that leads from `Good(s)` to one of these relations (`Holds` for operators
  that promote and publish nothing, `Prepares` up to the refresh of a handler, `Follows` from there);
  transitivity joins them, and `StepsFollow` has one case for each action.
- `BackgroundWorkProofs`, one part for each of three components.
  - `Route2Workers`: `WorkersTyping`, `EncodersEndWithTheirEpoch` (`[]NoOrphanEncoder`),
    `OneWritesAnEpoch` (`[]OneEncoderPerEpoch`), `EncodersKeepToTheBudget`
    (`[]EncodersWithinBudget`) and `OldestIsServedFirst` (`OldestFirst`). Nothing in the first two
    keeps a second thread from starting, so `WInv` adds, as long as telemetry has not interfered, that
    an epoch has at most one thread that has not ended (`OneLive`), that the record of a named epoch
    with a thread is running or stopping and therefore not queued again (`Busy`), and that a
    registered process is the one the epoch knows (`Known`). Most handlers end in
    `_ensure_route2_epoch_workers_locked`; `Prepared` is what they have to leave before that pass,
    and `HandlerHolds` takes it from there.
    The budget needs a second invariant, `BudgetInv`. The encoders are counted by their threads and
    the pass counts records, so `Paid` says, as long as nobody has parked, that a thread holds the
    cores of its record, and `RunningFits` that the running records keep to the budget. What the pass
    grants fits because the record that is served last was granted no more than all the others left
    (`GrantsFit`); that there is a last one takes a total order of service, hence `Dated` and `Apart`:
    two records of different sessions were not created at the same place in the order. Every other
    step is `Kept`: it serves no record that was not served and changes no cores. The same lemmas give
    `OldestFirst`, as only the pass can start a queued record, and what it leaves for the older of two
    first records is no less than for the younger.
  - `PosterQueue`: `PosterTyping`, `PostersAreGeneratedOnce` (`[]SingleFlight`), `WaitersAreRemembered`
    (`[]NoForgottenWaiter`). `QInv` says where a job can be: in the queue once and not started, or
    started and in one place of the executor (`QueueSound`, `StartedSound`); that the jobs of the
    executor are the workers the dispatcher counts (`Slots`); and that a thread takes the next poster
    only when it has answered everybody (`Answering`).
  - `LibraryScan`: `ScanTyping`, `ScansDoNotOverlap` (`[]OneScanAtATime`), `RunningFlagIsTruthful`
    (`[]RunningMeansScanning`). Overlap is not inductive: nothing in it keeps a request that has passed
    the lock from meeting a scan. `JobLockInv` adds that whoever is about to start a scan, or runs one,
    holds `_job_lock`, and that nobody does both; `AcquireJobLock` is the only step that takes the lock
    and only when it is free. `HolderIsScanning` says that the scan the flag announces is that of the
    lock's holder, so releasing the lock finds the flag cleared; and that after a thread could not start
    the lock is held by somebody who neither scans nor is about to, so nobody releases it.
- `TranscodeJobsProofs`: `TypeCorrect`, `JobsAreReported` (`[]SomebodyReports`), `OthersStreamsGoOn`
  (`StopsOwnJobsOnly`) and `LoneStartsAreCapped` (`LoneStartsKeepTheCap`). What a watcher will find
  depends on the table when it looks, so the invariant describes what each thread knows: the job it
  created is new to the table, holds its slot or has been replaced (`Filed`, `Created`, `Holding`,
  `Known`, `NotYet`), nobody else changes it (`Changes`), and the process of a listed job was spawned for
  the same item (`Paired`), which its watcher will look up. Jobs are ended in two steps, taken out
  of the table and terminated; `EndsEntitled` says of the first, for each action, that the thread was
  entitled to what it takes. For the cap the processes alive are counted before and after each step.
- `BackupJobsProofs`: `TypeCorrect`, `StagingIsRemoved` (`NoStagingLeftBehind`),
  `CatalogedFilesAreSafe` (`CatalogedFileStays`) and `JobsImplementWriter` (`OneWriterPublishes`,
  the refinement of `BackupWriter`). `Phases` ties a worker's place to what is on disk and in its
  row, `Claims` says what those who clean up have read and that it stays true until they delete.
- `DiagnosticsIngestProofs`: `TypeCorrect`, `EvidenceIsKept` (`[]NothingIsLost`),
  `EventsAreJournaledOnce` (`[]JournaledOnce`) and `SealsStand` (`[]SealedEvidenceStands`). `Durable`
  says that indexed sequences are journaled and the watermark is covered; `AnswersAreHonest` that an
  answer under way acknowledges no more than that; `WaitersWait` that a waiting request belongs to an
  entry of the queue. A sequence is journaled or given up as a gap, never both: `OneFate` ties the
  requests under way to what the browser has decided, and `Once` says that whatever is journaled is
  indexed as well unless a commit has just failed, which is when the writer looks into the journal
  before it appends. For the seal, `Sealing` follows the finalizer: from the moment it has closed the
  gate everything up to the final sequence is accounted for, and no event of the server is under way
  once the files are written.
- `GoogleAccountsProofs`: `TypeCorrect`, `TokensAreKeptApart` (`[]TokensBelongToAccount`),
  `AttachmentsAreProven` (`[]SourcesWereVerified`) and `NobodyIsReplacedUnasked`
  (`AccountChangesWereAsked`). Requests carry data over network calls, so `Sound` says of the record
  of each request what its place needs and that its tokens go with its account unless a refresh has
  overtaken a replacement; `Apart` says the same of the rows.
- `PlaybackSessionsProofs`: `TypeCorrect`, `TablesAgree` (`[]RegistryAgrees`), `OnePlaybackEach`
  (`[]OnePlayback`) and `RevocationsHitTheirLogin` (`RevocationsAreFounded`). One playback is not
  inductive: `StartsAreAlone` adds that a request between search and registration is the only one
  and that there is no playback while it is under way. The revocations need `ActsOnRevoked`: what the
  manager loop or an administrator is about to act upon was revoked and, since no step takes that
  back, still is.
- `AccessGrantsProofs`: `TypeCorrect`, `GrantsFollow` (`[]GrantsFollowTheirLogin`) and
  `ExternalPlaybackStays` (`ExternalPlaybackSurvivesLogout`). What follows from a step is said three
  times: `UsersKeep` and `LoginsKeep` (a user is not disabled without a change that counts, a login
  stays its user's) and `GrantKept` (a grant that still stands lost neither its user nor, for its
  kind, its login, to an end that does not spare it). Every action but the insertion satisfies them,
  and they preserve the invariant; the
  insertion needs `RequestOk`: a request whose user had no change that counts is of an enabled user.

Only model-checked: liveness (`RecoveryConcludes`, `EncodersConclude`, `SnapshotCatchesUp`,
`RequestsServed`, `WriterIsFreed`, `ClosingConcludes`, `RevokedLoginsLoseTheirPlayback`,
`StreamsEnd`), since fairness and `ENABLED` are beyond the prover.

`DrainCanBeAcknowledged` is proved for lite mode only because it fails in full mode (section 4), and
the runs are in lite mode as well.

## 6. What is left of the plan

1. Adaptive replacements in `Route2Epochs` and the thread tiers in `Route2Workers`: downshift,
   resupply and reclaim share the slot of the replacement with recovery and audio switches.
2. The composition of `PlaybackSessions` with `Route2Workers`, which takes for granted that a user
   has one session, and the cooldown after an administrator's stop.
3. Publication and the shared output store; the metadata batch; the rate limiter; more than one
   grant and the second factor in `AccessGrants`.
4. Proofs: the components of items 1 to 3 once they are modelled; for the present ones, the bounds
   that hold when somebody has parked or telemetry has given up a worker (how many processes an
   epoch can then have).
