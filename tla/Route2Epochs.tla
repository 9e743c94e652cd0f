---------------------------- MODULE Route2Epochs ----------------------------
(***************************************************************************)
(* One Browser Playback Route 2 session (services/                         *)
(* mobile_playback_service.py): its epochs, each one ffmpeg run that       *)
(* publishes HLS media from some position on; the authority over them      *)
(* (which epoch is active, which one prepares to replace it, which attach  *)
(* revision the client must acknowledge); recovery from failed epochs,     *)
(* seeks, the audio track switch, and the draining of promoted-out epochs. *)
(*                                                                         *)
(* Every handler runs under the manager's lock and most end by refreshing  *)
(* the session's authority, so a handler is one action and its effect a    *)
(* composition of operators on the session record.                         *)
(*                                                                         *)
(* A worker is reduced to what the session sees of its record; scheduling, *)
(* parking and the processes themselves are in Route2Workers.              *)
(***************************************************************************)
EXTENDS Integers

CONSTANTS
    Streams,           \* audio streams of the title
    NoStream,          \* no stream chosen: ffmpeg takes the default one
    Requested,         \* choices a session may be created with
    MaxReplacements,   \* setting route2_max_replacement_epochs_per_session
    FullMode,          \* playback mode "full" (TRUE) or "lite" (FALSE)
    MaxTrouble         \* bound: failures, supply drops and in-range seeks

ASSUME EpochConstants ==
    /\ Requested \subseteq Streams \cup {NoStream}
    /\ MaxReplacements \in Nat
    /\ FullMode \in BOOLEAN
    /\ MaxTrouble \in Nat

\* Epochs are numbered in the order of their creation, 0 is the first one.
Ids == 0..MaxReplacements
NoEpoch == -1

EpochStates == {"absent", "starting", "warming", "attach_ready", "active",
                "draining", "failed"}
Reasons == {"initial", "seek", "audio", "recovery"}

\* What the session sees of an epoch's worker; "none" is no active_worker_id.
Workers == {"none", "queued", "dispatched", "running", "failed", "completed"}

\* Published media: nothing, something, the runway an audio switch asks for,
\* enough for the attach gate of the playback mode.
Supplies == {"none", "some", "runway", "full"}
Errors == {"none", "retryable", "fatal"}

\* drain_started_at_ts and last_media_access_at_ts against the clock: never
\* draining, draining, idle beyond the grace, beyond the maximal drain time.
Ages == {"never", "fresh", "idle", "old"}

\* late: the epoch gave its worker up while that worker's thread was between its
\* first section and the outcome of Popen.
Epochs == [state : EpochStates, reason : Reasons, audio : Streams \cup {NoStream},
           worker : Workers, supply : Supplies, error : Errors,
           age : Ages, target : Nat, late : BOOLEAN]

Statuses == {"starting", "active", "switching", "recovering", "failed"}
Switches == {"active", "candidate_preparing", "candidate_ready", "committing",
             "failed"}

Sessions == [epochs : [Ids -> Epochs], active : Ids,
             replacement : Ids \cup {NoEpoch}, created : 0..MaxReplacements,
             revision : Nat, acknowledged : Nat, backoff : BOOLEAN,
             status : Statuses, error : Errors,
             selected : Streams \cup {NoStream},
             audio : Streams \cup {NoStream}, switch : Switches,
             candidate : Ids \cup {NoEpoch}, expired : BOOLEAN]

VARIABLES
    session,    \* the MobilePlaybackSession
    trouble     \* failures, drops and in-range seeks so far

vars == <<session, trouble>>

NewEpoch(reason, stream) ==
    [state |-> "starting", reason |-> reason, audio |-> stream,
     worker |-> "none", supply |-> "none", error |-> "none",
     age |-> "never", target |-> 0, late |-> FALSE]

\* An epoch that was never created, or was discarded.
Absent == [NewEpoch("initial", NoStream) EXCEPT !.state = "absent"]

Present(s) == {e \in Ids : s.epochs[e].state # "absent"}
ActiveEpoch(s) == s.epochs[s.active]
ReplacementEpoch(s) == s.epochs[s.replacement]
Larger(m, n) == IF m >= n THEN m ELSE n
Smaller(m, n) == IF m <= n THEN m ELSE n

-----------------------------------------------------------------------------
(* Gates *)

\* Mutant: an epoch that is being encoded counts as ready.
AttachReadyWhenRunning(epoch) == epoch.supply = "full" \/ epoch.worker = "running"

\* _route2_epoch_startup_attach_ready_locked
AttachReady(epoch) == epoch.supply = "full"

\* _route2_audio_switch_candidate_runway_status_locked
RunwaySatisfied(epoch) == epoch.supply \in {"runway", "full"}

\* _route2_audio_switch_replacement_ready_locked
AudioReady(s, epoch) ==
    /\ epoch.state \notin {"failed", "draining"}
    /\ epoch.error = "none"
    /\ ActiveEpoch(s).state # "failed"
    /\ RunwaySatisfied(epoch)

NeedsWorker(epoch) ==
    /\ epoch.state \notin {"absent", "failed", "draining"}
    /\ epoch.worker \in {"none", "failed"}

-----------------------------------------------------------------------------
(* Epochs *)

\* Mutant: the session goes on naming the discarded replacement.
DiscardKeepsName(s, e) == [s EXCEPT !.epochs[e] = Absent]

\* _discard_route2_epoch_locked
Discard(s, e) ==
    [s EXCEPT !.epochs[e] = Absent,
              !.replacement = IF s.replacement = e THEN NoEpoch ELSE s.replacement]

\* Mutant: the drain waits for a revision later than the promotion's.
MarkDrainingLate(s, e, required) ==
    LET epoch == s.epochs[e]
    IN  [s EXCEPT !.epochs[e] =
            [epoch EXCEPT !.state = "draining",
                          !.age = IF epoch.age = "old" THEN "old" ELSE "fresh",
                          !.target = Larger(epoch.target, required + 1)]]

\* Entering the drain restarts the idle grace, never the maximal lifetime.
MarkDraining(s, e, required) ==
    LET epoch == s.epochs[e]
    IN  [s EXCEPT !.epochs[e] =
            [epoch EXCEPT !.state = "draining",
                          !.age = IF epoch.age = "old" THEN "old" ELSE "fresh",
                          !.target = Larger(epoch.target, required)]]

\* Mutant: the acknowledgement is not waited for.
DrainExpiredIdle(s, e) ==
    /\ s.epochs[e].state = "draining"
    /\ e # s.active
    /\ s.epochs[e].age \in {"idle", "old"}

\* _route2_draining_epoch_expired_locked
DrainExpired(s, e) ==
    /\ s.epochs[e].state = "draining"
    /\ e # s.active
    /\ \/ s.epochs[e].age = "old"
       \/ /\ s.epochs[e].age = "idle"
          /\ s.epochs[e].target > 0
          /\ s.acknowledged >= s.epochs[e].target

CleanupDraining(s) ==
    [s EXCEPT !.epochs = [e \in Ids |->
        IF e \notin {s.active, s.replacement} /\ DrainExpired(s, e)
        THEN Absent
        ELSE s.epochs[e]]]

\* Mutant: status and error are swapped.
FailSessionSwapped(s, error) == [s EXCEPT !.status = error, !.error = "fatal"]

FailSession(s, error) == [s EXCEPT !.status = "failed", !.error = error]

\* _set_route2_audio_switch_failed_locked: the default audio is not restored.
FailSwitch(s) ==
    [s EXCEPT !.switch = "failed", !.candidate = NoEpoch, !.expired = FALSE,
              !.selected = IF s.audio # NoStream THEN s.audio ELSE s.selected]

\* _route2_audio_switch_candidate_epoch_locked
Candidate(s) ==
    LET id == IF s.candidate # NoEpoch THEN s.candidate ELSE s.replacement
    IN  IF id # NoEpoch /\ id = s.replacement /\ s.epochs[id].reason = "audio"
        THEN id ELSE NoEpoch

\* _cancel_route2_audio_switch_candidate_locked: without a candidate it still
\* forgets the replacement, and leaves that epoch and its worker behind.
CancelCandidate(s, switch) ==
    LET discarded == IF Candidate(s) # NoEpoch THEN Discard(s, s.replacement)
                     ELSE IF s.candidate # NoEpoch THEN Discard(s, s.candidate)
                     ELSE s
    IN  [discarded EXCEPT !.replacement = NoEpoch, !.selected = s.audio,
                          !.candidate = NoEpoch, !.expired = FALSE,
                          !.switch = switch]

\* _create_route2_replacement_epoch_locked: an earlier replacement is dropped
\* before the cap is looked at; at the cap there is no replacement.
CreateReplacement(s, reason) ==
    LET superseded ==
            IF s.replacement # NoEpoch /\ ReplacementEpoch(s).reason = "audio"
                                       /\ reason # "audio"
            THEN FailSwitch(s) ELSE s
        cleared ==
            IF s.replacement # NoEpoch THEN Discard(superseded, s.replacement)
                                       ELSE superseded
        id == s.created + 1
    IN  IF s.created >= MaxReplacements
        THEN FailSession(cleared, "retryable")
        ELSE [cleared EXCEPT !.epochs[id] = NewEpoch(reason, cleared.selected),
                             !.replacement = id,
                             !.created = id,
                             !.backoff = FALSE]

\* _issue_route2_attach_revision_locked: in full mode the gate may refuse.
IssueRevision(s, next, epoch) ==
    IF FullMode /\ ~AttachReady(epoch) THEN s ELSE [s EXCEPT !.revision = next]

\* The worker is given up with whatever its thread is doing
\* (_terminate_route2_epoch_locked).
PromoteReplacement(s) ==
    LET next == s.revision + 1
        drained == MarkDraining(s, s.active, next)
        left ==
            [drained.epochs[s.active] EXCEPT
                !.worker = "none",
                !.late = ActiveEpoch(s).late \/ ActiveEpoch(s).worker = "dispatched"]
        switched ==
            [drained EXCEPT !.epochs[s.active] = left,
                            !.active = s.replacement,
                            !.replacement = NoEpoch,
                            !.error = "none"]
        heard ==
            IF ReplacementEpoch(s).reason # "audio" THEN switched
            ELSE [switched EXCEPT !.audio = ReplacementEpoch(s).audio,
                                  !.selected = ReplacementEpoch(s).audio,
                                  !.switch = "committing",
                                  !.candidate = NoEpoch,
                                  !.expired = FALSE]
    IN  IssueRevision(heard, next, ReplacementEpoch(s))

-----------------------------------------------------------------------------
(* _refresh_route2_session_authority_locked, from its end to its beginning *)

\* _ensure_route2_epoch_workers_locked
EnsureWorker(epoch) ==
    IF epoch.worker = "running" /\ epoch.state = "starting"
    THEN [epoch EXCEPT !.state = "warming"]
    ELSE IF epoch.worker = "queued" /\ epoch.state \notin {"failed", "draining"}
    THEN [epoch EXCEPT !.state = "starting"]
    ELSE IF NeedsWorker(epoch)
    THEN [epoch EXCEPT !.state = "starting", !.worker = "queued"]
    ELSE epoch

EnsureWorkers(s) ==
    [s EXCEPT !.epochs = [e \in Ids |->
        IF e \in {s.active, s.replacement} THEN EnsureWorker(s.epochs[e])
                                           ELSE s.epochs[e]]]

\* "warming" while the epoch claims a worker, whatever became of that worker
Preparing(epoch) ==
    IF epoch.worker # "none" THEN [epoch EXCEPT !.state = "warming"]
    ELSE IF epoch.state \notin {"draining", "failed"}
    THEN [epoch EXCEPT !.state = "starting"]
    ELSE epoch

Attached(s) == s.acknowledged >= s.revision

SettleReady(s) ==
    IF s.replacement # NoEpoch
    THEN EnsureWorkers([s EXCEPT !.error = "none"])
    ELSE EnsureWorkers(
        [s EXCEPT !.error = "none",
                  !.status = IF ActiveEpoch(s).state = "draining" THEN "recovering"
                             ELSE IF Attached(s) THEN "active" ELSE "starting",
                  !.epochs[s.active].state =
                      IF ActiveEpoch(s).state = "draining" THEN "draining"
                      ELSE IF Attached(s) THEN "active" ELSE "attach_ready"])

SettleUnready(s) ==
    EnsureWorkers(
        [s EXCEPT !.epochs[s.active] = Preparing(ActiveEpoch(s)),
                  !.status = IF s.replacement = NoEpoch THEN "starting" ELSE s.status])

\* The first attach revision, and the end of an acknowledged audio switch.
SettleActive(s) ==
    LET issued ==
            IF AttachReady(ActiveEpoch(s)) /\ s.revision = 0
            THEN IssueRevision(s, 1, ActiveEpoch(s)) ELSE s
        settled ==
            IF s.switch = "committing" /\ s.replacement = NoEpoch /\ Attached(issued)
            THEN [issued EXCEPT !.switch = "active"] ELSE issued
    IN  IF s.replacement = NoEpoch /\ ActiveEpoch(s).state = "draining"
                                   /\ ~AttachReady(ActiveEpoch(s))
        THEN EnsureWorkers(
                [s EXCEPT !.status = "recovering",
                          !.error = IF ActiveEpoch(s).error = "none" THEN "retryable"
                                    ELSE ActiveEpoch(s).error])
        ELSE IF AttachReady(ActiveEpoch(s)) THEN SettleReady(settled)
                                            ELSE SettleUnready(settled)

\* Mutant: a candidate that nobody commits is kept for good.
PrepareAudioForever(s) ==
    IF AudioReady(s, ReplacementEpoch(s))
    THEN SettleActive(
            [s EXCEPT !.epochs[s.replacement].state = "attach_ready",
                      !.candidate = s.replacement,
                      !.switch = "candidate_ready"])
    ELSE SettleActive(
            [s EXCEPT !.epochs[s.replacement] = Preparing(ReplacementEpoch(s)),
                      !.switch = "candidate_preparing"])

\* An audio candidate is announced when it is ready and waits for its commit.
PrepareAudio(s) ==
    IF s.expired
    THEN SettleActive(CancelCandidate(s, "failed"))
    ELSE IF AudioReady(s, ReplacementEpoch(s))
    THEN SettleActive(
            [s EXCEPT !.epochs[s.replacement].state = "attach_ready",
                      !.candidate = s.replacement,
                      !.switch = "candidate_ready"])
    ELSE SettleActive(
            [s EXCEPT !.epochs[s.replacement] = Preparing(ReplacementEpoch(s)),
                      !.switch = "candidate_preparing"])

PrepareReplacement(s) ==
    IF s.replacement = NoEpoch THEN SettleActive(s)
    ELSE IF ReplacementEpoch(s).reason = "audio" THEN PrepareAudio(s)
    ELSE IF AttachReady(ReplacementEpoch(s)) THEN SettleActive(PromoteReplacement(s))
    ELSE SettleActive(
            [s EXCEPT !.epochs[s.replacement] = Preparing(ReplacementEpoch(s)),
                      !.status = IF ActiveEpoch(s).state = "draining"
                                 THEN "recovering" ELSE "switching"])

\* A draining active epoch without a replacement gets another one.
RetryDraining(s) ==
    LET known == IF s.error # "none" THEN s.error ELSE ActiveEpoch(s).error
        retried == CreateReplacement(s, "recovery")
    IN  IF s.replacement # NoEpoch \/ ActiveEpoch(s).state # "draining" \/ s.backoff
        THEN PrepareReplacement(s)
        ELSE IF known = "fatal" THEN FailSession(s, known)
        ELSE IF retried.replacement = NoEpoch THEN retried
        ELSE PrepareReplacement(retried)

RecoverActive(s) ==
    LET drained == MarkDraining(s, s.active, 0)
        recovered ==
            IF s.replacement = NoEpoch /\ ~s.backoff
            THEN CreateReplacement(drained, "recovery") ELSE drained
    IN  IF ActiveEpoch(s).state # "failed" THEN RetryDraining(s)
        ELSE IF ActiveEpoch(s).error = "fatal" THEN FailSession(drained, "fatal")
        ELSE IF ~s.backoff /\ recovered.replacement = NoEpoch THEN recovered
        ELSE RetryDraining([recovered EXCEPT !.status = "recovering"])

\* A replacement that failed before its promotion leaves the active epoch be.
DropFailedReplacement(s) ==
    LET failed == ReplacementEpoch(s)
        dropped == Discard(s, s.replacement)
    IN  IF failed.reason = "audio"
        THEN RecoverActive(Discard(FailSwitch(s), s.replacement))
        ELSE IF failed.error = "fatal" THEN FailSession(dropped, "fatal")
        ELSE IF ActiveEpoch(s).state = "draining" /\ ~AttachReady(ActiveEpoch(s))
        THEN FailSession([dropped EXCEPT !.backoff = TRUE], failed.error)
        ELSE RecoverActive([dropped EXCEPT !.backoff = TRUE])

Refresh(s) ==
    LET cleaned == CleanupDraining(s)
    IN  IF cleaned.replacement # NoEpoch /\ ReplacementEpoch(cleaned).state = "failed"
        THEN DropFailedReplacement(cleaned)
        ELSE RecoverActive(cleaned)

-----------------------------------------------------------------------------
(* Handlers *)

\* _initialize_route2_session_locked and the refresh that creates the session
Init ==
    /\ trouble = 0
    /\ \E stream \in Requested :
        session = Refresh(
            [epochs |-> [e \in Ids |-> IF e = 0 THEN NewEpoch("initial", stream)
                                                ELSE Absent],
             active |-> 0, replacement |-> NoEpoch, created |-> 0,
             revision |-> 0, acknowledged |-> 0, backoff |-> FALSE,
             status |-> "starting", error |-> "none", selected |-> stream,
             audio |-> stream, switch |-> "active", candidate |-> NoEpoch,
             expired |-> FALSE])

Trouble ==
    /\ trouble < MaxTrouble
    /\ trouble' = trouble + 1

\* The manager's loop, and every status request of a client
Poll ==
    /\ session' = Refresh(session)
    /\ UNCHANGED trouble

\* update_runtime: the client reports the attach revision it plays, an old one
\* when the message was delayed, and never more than the server issued.
ReportRevision(reported) ==
    /\ session' = Refresh(
        [session EXCEPT !.acknowledged =
            Smaller(session.revision, Larger(session.acknowledged, reported))])
    /\ UNCHANGED trouble

\* Mutant: a seek within the active epoch makes the client attach anew.
SeekInRangeReattaching(supply) ==
    /\ Trouble
    /\ ActiveEpoch(session).supply # "none"
    /\ LET kept == IF session.replacement = NoEpoch THEN session
                   ELSE Discard(session, session.replacement)
       IN  session' = Refresh(
            [kept EXCEPT !.error = "none", !.epochs[session.active].supply = supply,
                         !.revision = session.revision + 1])

\* seek_session, in range: the new attach position leaves some runway after it.
SeekInRange(supply) ==
    /\ Trouble
    /\ ActiveEpoch(session).supply # "none"
    /\ LET kept == IF session.replacement = NoEpoch THEN session
                   ELSE Discard(session, session.replacement)
       IN  session' = Refresh(
            [kept EXCEPT !.error = "none", !.epochs[session.active].supply = supply])

\* Past the cap of replacements the seek fails the session.
SeekOutOfRange ==
    /\ session' = Refresh(CreateReplacement([session EXCEPT !.error = "none"], "seek"))
    /\ UNCHANGED trouble

\* _route2_audio_switch_in_progress_locked
SwitchInProgress(s) ==
    IF s.switch = "committing" THEN s.acknowledged < s.revision
    ELSE \/ s.switch \in {"candidate_preparing", "candidate_ready"}
         \/ s.candidate # NoEpoch
         \/ s.replacement # NoEpoch /\ ReplacementEpoch(s).reason = "audio"
         \/ s.switch = "active" /\ s.audio # NoStream /\ s.acknowledged < s.revision

PrepareCandidate(s, stream) ==
    LET created == CreateReplacement(s, "audio")
        id == created.replacement
    IN  IF id = NoEpoch
        THEN [created EXCEPT !.selected = s.audio, !.switch = "failed"]
        ELSE [created EXCEPT !.epochs[id].audio = stream,
                             !.selected = stream,
                             !.switch = "candidate_preparing",
                             !.candidate = id,
                             !.expired = FALSE]

\* select_audio_track: the probe metadata may not know the stream (trusted).
SelectAudio(stream, trusted) ==
    /\ session' = Refresh(
        IF SwitchInProgress(session) THEN session
        ELSE IF ~trusted THEN FailSwitch(session)
        ELSE IF session.audio = stream
        THEN [session EXCEPT !.selected = stream, !.switch = "active"]
        ELSE PrepareCandidate(session, stream))
    /\ UNCHANGED trouble

\* Mutant: the candidate is promoted whether it is ready or not.
CommitAudioUnready ==
    /\ LET fresh == Refresh(session)
       IN  session' = IF Candidate(fresh) = NoEpoch THEN fresh
                      ELSE PromoteReplacement(fresh)
    /\ UNCHANGED trouble

\* commit_audio_track_candidate: refresh first, then promote what is ready.
CommitAudio ==
    /\ LET fresh == Refresh(session)
       IN  session' =
            IF Candidate(fresh) = NoEpoch \/ fresh.switch # "candidate_ready" THEN fresh
            ELSE IF RunwaySatisfied(ReplacementEpoch(fresh))
            THEN PromoteReplacement(fresh)
            ELSE [fresh EXCEPT !.switch = "candidate_preparing"]
    /\ UNCHANGED trouble

\* cancel_audio_track_candidate
CancelAudio ==
    /\ session' = Refresh(CancelCandidate(session, "active"))
    /\ UNCHANGED trouble

\* A request for the manifest, the init segment or a media segment of an epoch
RequestMedia(e) ==
    /\ LET cleaned == CleanupDraining(session)
           served == e \in {cleaned.active, cleaned.replacement}
                     \/ cleaned.epochs[e].state = "draining"
       IN  session' =
            IF served /\ cleaned.epochs[e].age = "idle"
            THEN [cleaned EXCEPT !.epochs[e].age = "fresh"] ELSE cleaned
    /\ UNCHANGED trouble

-----------------------------------------------------------------------------
(* Workers, as the session sees them *)

\* _dispatch_waiting_route2_workers_locked
Dispatch(e) ==
    /\ session.epochs[e].worker = "queued"
    /\ session' = [session EXCEPT !.epochs[e].worker = "dispatched"]
    /\ UNCHANGED trouble

\* _run_route2_epoch_worker: ffmpeg runs.
Spawn(e) ==
    /\ session.epochs[e].worker = "dispatched"
    /\ LET epoch == session.epochs[e]
       IN  session' = [session EXCEPT !.epochs[e] =
            [epoch EXCEPT !.worker = "running",
                          !.state = IF epoch.state = "starting" THEN "warming"
                                                                ELSE epoch.state]]
    /\ UNCHANGED trouble

\* _publish_route2_epoch_outputs
Publish(e, supply) ==
    /\ session.epochs[e].worker = "running"
    /\ \/ session.epochs[e].supply = "none" /\ supply = "some"
       \/ session.epochs[e].supply = "some" /\ supply \in {"runway", "full"}
       \/ session.epochs[e].supply = "runway" /\ supply = "full"
    /\ session' = Refresh([session EXCEPT !.epochs[e].supply = supply])
    /\ UNCHANGED trouble

WorkerCompletes(e) ==
    /\ session.epochs[e].worker = "running"
    /\ LET epoch == session.epochs[e]
       IN  session' = Refresh([session EXCEPT !.epochs[e] =
            [epoch EXCEPT !.worker = "completed", !.supply = "full", !.error = "none"]])
    /\ UNCHANGED trouble

\* The command cannot be built, ffmpeg cannot start, or it exits with an error.
WorkerFails(e, error) ==
    /\ Trouble
    /\ session.epochs[e].worker \in {"dispatched", "running"}
    /\ LET epoch == session.epochs[e]
       IN  session' = Refresh([session EXCEPT !.epochs[e] =
            [epoch EXCEPT !.worker = "failed", !.state = "failed", !.error = error]])

\* Popen fails after the epoch was promoted out: the thread looks only for the
\* epoch, not for its worker. No request is served from a failed epoch that is
\* neither active nor the replacement.
LateSpawnFails(e) ==
    /\ Trouble
    /\ session.epochs[e].late
    /\ session' = Refresh(
        [session EXCEPT !.epochs[e].state = "failed",
                        !.epochs[e].error = "retryable",
                        !.epochs[e].late = FALSE])

\* Popen succeeds after the epoch was promoted out: the process is ended.
LateSpawnEnds(e) ==
    /\ session.epochs[e].late
    /\ session' = [session EXCEPT !.epochs[e].late = FALSE]
    /\ UNCHANGED trouble

-----------------------------------------------------------------------------
(* Time *)

\* The supply rate drops, and with it the projected runway.
SupplyDrops(e, supply) ==
    /\ Trouble
    /\ session.epochs[e].worker # "completed"
    /\ \/ session.epochs[e].supply = "full" /\ supply \in {"runway", "some"}
       \/ session.epochs[e].supply = "runway" /\ supply = "some"
    /\ session' = [session EXCEPT !.epochs[e].supply = supply]

DrainAges(e, age) ==
    /\ \/ session.epochs[e].age = "fresh" /\ age \in {"idle", "old"}
       \/ session.epochs[e].age = "idle" /\ age = "old"
    /\ session' = [session EXCEPT !.epochs[e].age = age]
    /\ UNCHANGED trouble

BackoffElapses ==
    /\ session.backoff
    /\ session' = [session EXCEPT !.backoff = FALSE]
    /\ UNCHANGED trouble

CandidateExpires ==
    /\ session.candidate # NoEpoch
    /\ ~session.expired
    /\ session' = [session EXCEPT !.expired = TRUE]
    /\ UNCHANGED trouble

Client ==
    \/ \E reported \in 0..(session.revision + 1) : ReportRevision(reported)
    \/ \E supply \in {"some", "runway", "full"} : SeekInRange(supply)
    \/ SeekOutOfRange
    \/ \E stream \in Streams, trusted \in BOOLEAN : SelectAudio(stream, trusted)
    \/ CommitAudio
    \/ CancelAudio
    \/ \E e \in Present(session) : RequestMedia(e)

WorkerStep(e) ==
    \/ Dispatch(e)
    \/ Spawn(e)
    \/ \E supply \in Supplies : Publish(e, supply)
    \/ WorkerCompletes(e)

Time ==
    \/ \E e \in Ids, supply \in Supplies : SupplyDrops(e, supply)
    \/ \E e \in Ids, age \in Ages : DrainAges(e, age)
    \/ BackoffElapses
    \/ CandidateExpires

Next ==
    \/ Poll
    \/ Client
    \/ \E e \in Ids : WorkerStep(e)
    \/ \E e \in Ids, error \in {"retryable", "fatal"} : WorkerFails(e, error)
    \/ \E e \in Ids : LateSpawnFails(e) \/ LateSpawnEnds(e)
    \/ Time

Spec == Init /\ [][Next]_vars

\* Weak fairness, with the enabling condition of the action written out.
PollsGoOn == []<>(Refresh(session) = session) \/ []<><<Poll>>_vars

WorkersGoOn(e) ==
    \/ []<>(session.epochs[e].worker \notin {"queued", "dispatched", "running"})
    \/ []<><<WorkerStep(e)>>_vars

\* The manager's loop runs, queued workers get their turn and make progress,
\* and time passes. Nothing is assumed of the client.
Fairness ==
    /\ PollsGoOn
    /\ \A e \in Ids : WorkersGoOn(e)
    /\ WF_vars(BackoffElapses)
    /\ WF_vars(CandidateExpires)

FairSpec == Spec /\ Fairness

-----------------------------------------------------------------------------
(* Properties *)

TypeOK ==
    /\ session \in Sessions
    /\ trouble \in 0..MaxTrouble

\* The session names an active epoch that exists, and a replacement that exists,
\* is younger and is not on its way out (active_epoch_id and
\* replacement_epoch_id against the epochs dictionary): discards, recoveries,
\* seeks and cancelled switches never leave a name without its epoch, for which
\* the refresh would fail the session ("active epoch is missing").
AuthorityConsistent ==
    /\ session.active \in Present(session)
    /\ session.replacement # NoEpoch =>
        /\ session.replacement \in Present(session)
        /\ session.replacement > session.active
        /\ ReplacementEpoch(session).state # "draining"

\* Once the client was told to attach there is always published media in the
\* active epoch, whatever failed, was replaced or was sought in between
\* (_issue_route2_attach_revision_locked, _promote_route2_replacement_epoch_locked).
AttachedMediaIsReadable ==
    session.revision > 0 => ActiveEpoch(session).supply # "none"

\* Every promoted-out epoch waits for a revision that was issued, so the
\* client's acknowledgement can end its drain (drain_target_attach_revision).
DrainCanBeAcknowledged ==
    \A e \in Present(session) \ {session.active} :
        session.epochs[e].state = "draining" =>
            session.epochs[e].target \in 1..session.revision

\* Neither revision goes backward and the client never acknowledges more than
\* was issued, however late its reports arrive (update_runtime).
RevisionsOnlyGrow ==
    [][/\ session'.revision >= session.revision
       /\ session'.acknowledged >= session.acknowledged
       /\ session'.acknowledged <= session'.revision]_vars

\* The active epoch changes only to a younger epoch that has its runway, and the
\* old one starts to drain: no recovery, commit or seek goes back to an epoch
\* that was promoted out (_promote_route2_replacement_epoch_locked).
PromotionIsOneWay ==
    [][session'.active # session.active =>
        /\ session'.active > session.active
        /\ RunwaySatisfied(ActiveEpoch(session'))
        /\ session'.epochs[session.active].state = "draining"]_vars

\* A promoted-out epoch goes on being served until the client has acknowledged
\* the new revision and left it alone for the grace, or for the maximal drain
\* time (_cleanup_route2_draining_epochs_locked, everything that discards, and
\* every outcome of a thread), but for one outcome: a thread that was about to
\* start ffmpeg when its epoch was promoted out and could not, sets it failed
\* (_run_route2_epoch_worker), and its media is refused from then on.
DrainedMediaStays ==
    [][\A e \in Present(session) \ {session.active} :
        LET old == session.epochs[e]
            new == session'.epochs[e]
        IN  old.state = "draining" /\ new.state # "draining" =>
                \/ old.age = "old"
                \/ old.age = "idle" /\ session'.acknowledged >= old.target
                \/ old.late /\ new.state = "failed"]_vars

\* A draining active epoch is not a state to stay in: it gives way to a
\* replacement, or the session fails, although replacements fail as well, wait
\* for the backoff, or are audio candidates nobody commits
\* (the recovery branches of _refresh_route2_session_authority_locked).
RecoveryConcludes ==
    ActiveEpoch(session).state = "draining" ~>
        (ActiveEpoch(session).state # "draining" \/ session.status = "failed")

\* What the client sees of a session in lite mode is the protocol of
\* Route2Authority: told to attach anew if and only if another epoch takes over
\* (attach_revision, client_attach_revision and active_epoch_id).
Authority == INSTANCE Route2Authority
             WITH active <- session.active,
                  revision <- session.revision,
                  acknowledged <- session.acknowledged

AttachesWhenHandedOver == Authority!Spec
=============================================================================
